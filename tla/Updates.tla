--------------------------------- MODULE Updates ---------------------------------
(***************************************************************************)
(* Which games have an update (updates.go): the checks of a library        *)
(* refresh and of the daily sweep, the update the user ignores, and the    *)
(* record they compare RomM's files with, which downloads, deletes and     *)
(* StopManaging change under them.  One Plugin-owned game; RomM's files of *)
(* it are known by their version, and may go back to an earlier one.       *)
(*                                                                         *)
(* Each step of a check and of a call is one statement on state.db, one    *)
(* look under d.mu or one request: other calls come in between.  How an    *)
(* update downloads is Transfer, how it replaces the files GameFiles.      *)
(***************************************************************************)
EXTENDS Naturals

CONSTANTS
  Versions,     \* the versions of the game's files RomM has had or will have
  MaxMoves      \* bound: changes of RomM's files and calls of the user, together


None == "none"
Checkers == {"refresh", "sweep"}

VARIABLES
  romm,       \* the version RomM has, None when it has the game no more
  rec,        \* the record in state.db: its snapshot and the update ignored; None when there is none
  flag,       \* its update_available
  job,        \* the game's download: what it is at, whether it is an update, the version it listed
  deleting,   \* d.deleting has the game
  check,      \* each checker: what it is at, the flag and the record it read, the version it got
  due,        \* the sweep is due, untilSweep being zero
  call,       \* the user's IgnoreUpdate or StopManaging: what it is at, the version it got
  moves

vars == <<romm, rec, flag, job, deleting, check, due, call, moves>>

NoRecord == [snapshot |-> None, ignored |-> None]
NoJob == [at |-> "none", update |-> FALSE, got |-> None]
Idle == [at |-> "idle", flagged |-> FALSE, rec |-> NoRecord, got |-> None]
NoCall == [at |-> "none", got |-> None]

Owned == rec # NoRecord
\* OwnedROM.HasUpdate.
HasUpdate(record, version) == record.snapshot # version /\ record.ignored \in {None} \cup (Versions \ {version})

Init ==
  /\ romm \in Versions /\ rec \in {NoRecord} \cup [snapshot : Versions, ignored : {None}]
  /\ flag = FALSE /\ job = NoJob /\ deleting = FALSE
  /\ check = [c \in Checkers |-> Idle] /\ due = TRUE
  /\ call = NoCall /\ moves = 0

Move == moves < MaxMoves /\ moves' = moves + 1

-----------------------------------------------------------------------------
(* A check (CheckUpdates), of a refresh that found the game changed or of the sweep. *)

Step(c, at) == check[c].at = at
Goes(c, state) == check' = [check EXCEPT ![c] = state]
Ends(c) == Goes(c, Idle)

\* OwnedIDs and UpdateIDs, once for every game of the check.
Begins(c) ==
  /\ Step(c, "idle")
  /\ IF c = "sweep" THEN due /\ UNCHANGED moves ELSE Move
  /\ Goes(c, IF Owned THEN [Idle EXCEPT !.at = "look", !.flagged = flag] ELSE [Idle EXCEPT !.at = "done"])
  /\ UNCHANGED <<romm, rec, flag, job, deleting, due, call>>
\* Busy games are skipped.
Looks(c) ==
  /\ Step(c, "look")
  /\ Goes(c, [check[c] EXCEPT !.at = IF job # NoJob \/ deleting THEN "done" ELSE "read"])
  /\ UNCHANGED <<romm, rec, flag, job, deleting, due, call, moves>>
ReadsRecord(c) ==
  /\ Step(c, "read")
  /\ Goes(c, IF Owned THEN [check[c] EXCEPT !.at = "ask", !.rec = rec] ELSE [Idle EXCEPT !.at = "done"])
  /\ UNCHANGED <<romm, rec, flag, job, deleting, due, call, moves>>
\* RomM answers; a game it no longer has is skipped.
Asks(c) ==
  /\ Step(c, "ask")
  /\ Goes(c, IF romm = None THEN [Idle EXCEPT !.at = "done"] ELSE [check[c] EXCEPT !.at = "set", !.got = romm])
  /\ UNCHANGED <<romm, rec, flag, job, deleting, due, call, moves>>
\* RomM doesn't: the check fails, and a sweep is tried again in an hour.
AskFails(c) ==
  /\ Step(c, "ask") /\ Move /\ Ends(c)
  /\ UNCHANGED <<romm, rec, flag, job, deleting, due, call>>
\* What a check records.  Variant: only that there is an update, never that there is none any more.
NewOnly(c) == check[c].flagged \/ HasUpdate(check[c].rec, check[c].got)
Found(c) == HasUpdate(check[c].rec, check[c].got)
\* SetUpdateAvailable, of whatever record the game has by now.
Sets(c) ==
  /\ Step(c, "set")
  /\ flag' = IF Found(c) # check[c].flagged /\ Owned THEN Found(c) ELSE flag
  /\ Goes(c, [Idle EXCEPT !.at = "done"])
  /\ UNCHANGED <<romm, rec, job, deleting, due, call, moves>>
\* SetLastSweep, of a sweep.
Finishes(c) ==
  /\ Step(c, "done") /\ Ends(c)
  /\ due' = IF c = "sweep" THEN FALSE ELSE due
  /\ UNCHANGED <<romm, rec, flag, job, deleting, call, moves>>
\* A day passes since the sweep finished.
Day ==
  /\ ~due /\ due' = TRUE
  /\ UNCHANGED <<romm, rec, flag, job, deleting, check, call, moves>>

-----------------------------------------------------------------------------
(* The game's download: Queue, and how it ends. *)

\* A game with a record downloads only as its update; a download that failed is tried again.
Queue ==
  /\ Move /\ job.at \in {"none", "failed"} /\ romm # None /\ (Owned => flag)
  /\ job' = [at |-> "queued", update |-> IF job = NoJob THEN Owned ELSE job.update, got |-> None]
  /\ UNCHANGED <<romm, rec, flag, deleting, check, due, call>>
\* An update is of a game with a record; then RomM's files are listed.
Lists ==
  /\ job.at = "queued"
  /\ job' = IF romm = None \/ (job.update /\ ~Owned) THEN [job EXCEPT !.at = "failed"]
            ELSE [job EXCEPT !.at = "listed", !.got = romm]
  /\ UNCHANGED <<romm, rec, flag, deleting, check, due, call, moves>>
\* SaveOwned, which replaces the record and its columns.
Lands ==
  /\ job.at = "listed"
  /\ rec' = [snapshot |-> job.got, ignored |-> None] /\ flag' = FALSE
  /\ job' = [job EXCEPT !.at = "landed"]
  /\ UNCHANGED <<romm, deleting, check, due, call, moves>>
\* run takes it out of the queue once it landed, or the user cancels or dismisses it.
Leaves ==
  /\ job # NoJob /\ job' = NoJob
  /\ IF job.at = "landed" THEN UNCHANGED moves ELSE Move
  /\ UNCHANGED <<romm, rec, flag, deleting, check, due, call>>
\* recorded: the download landed, an update's when its record has none any more.
Recorded == Owned /\ (job.update => ~flag)
\* The backend stops and starts again: checks and calls end, the queue is as it was saved.
Restart ==
  /\ Move
  /\ job' = IF job = NoJob \/ Recorded THEN NoJob
            ELSE IF job.at = "failed" THEN job
            ELSE [job EXCEPT !.at = "queued", !.got = None]
  /\ deleting' = FALSE /\ check' = [c \in Checkers |-> Idle] /\ call' = NoCall
  /\ UNCHANGED <<romm, rec, flag, due>>

-----------------------------------------------------------------------------
(* The user's calls. *)

CallGoes(from, to) == call.at = from /\ call' = [call EXCEPT !.at = to]

\* IgnoreUpdate: the game has an update, and isn't updating; then RomM is asked.
IgnoreBegins ==
  /\ call = NoCall /\ Move /\ Owned /\ flag /\ call' = [NoCall EXCEPT !.at = "ignore"]
  /\ UNCHANGED <<romm, rec, flag, job, deleting, check, due>>
IgnoreLooks ==
  /\ CallGoes("ignore", IF job # NoJob THEN "none" ELSE "ignore-ask")
  /\ UNCHANGED <<romm, rec, flag, job, deleting, check, due, moves>>
IgnoreAsks ==
  /\ call.at = "ignore-ask"
  /\ call' = IF romm = None THEN NoCall ELSE [at |-> "ignore-put", got |-> romm]
  /\ UNCHANGED <<romm, rec, flag, job, deleting, check, due, moves>>
\* Store.IgnoreUpdate: the ignored files belong to a record, and without one nothing is written.
IgnorePuts ==
  /\ call.at = "ignore-put" /\ call' = NoCall
  /\ IF Owned THEN rec' = [rec EXCEPT !.ignored = call.got] /\ flag' = FALSE ELSE UNCHANGED <<rec, flag>>
  /\ UNCHANGED <<romm, job, deleting, check, due, moves>>

\* StopManaging: the game has a record, and is neither being deleted nor updating.
StopBegins ==
  /\ call = NoCall /\ Move /\ Owned /\ call' = [NoCall EXCEPT !.at = "stop"]
  /\ UNCHANGED <<romm, rec, flag, job, deleting, check, due>>
StopLooks ==
  /\ CallGoes("stop", IF deleting \/ job # NoJob THEN "none" ELSE "stop-drop")
  /\ UNCHANGED <<romm, rec, flag, job, deleting, check, due, moves>>
StopDrops ==
  /\ CallGoes("stop-drop", "none")
  /\ rec' = NoRecord /\ flag' = FALSE
  /\ UNCHANGED <<romm, job, deleting, check, due, moves>>

\* Delete marks the game, removes its files and drops the record.
DeleteBegins ==
  /\ Move /\ Owned /\ ~deleting /\ job = NoJob /\ deleting' = TRUE
  /\ UNCHANGED <<romm, rec, flag, job, check, due, call>>
DeleteEnds ==
  /\ deleting /\ deleting' = FALSE /\ rec' = NoRecord /\ flag' = FALSE
  /\ UNCHANGED <<romm, job, check, due, call, moves>>

RommChanges ==
  /\ Move /\ romm' \in (Versions \cup {None}) \ {romm}
  /\ UNCHANGED <<rec, flag, job, deleting, check, due, call>>

Checking(c) ==
  Begins(c) \/ Looks(c) \/ ReadsRecord(c) \/ Asks(c) \/ AskFails(c) \/ Sets(c) \/ Finishes(c)
Downloading == Lists \/ Lands \/ Leaves
Calling == IgnoreLooks \/ IgnoreAsks \/ IgnorePuts \/ StopLooks \/ StopDrops \/ DeleteEnds
Next ==
  \/ \E c \in Checkers : Checking(c)
  \/ Day \/ Queue \/ Downloading \/ Restart
  \/ IgnoreBegins \/ StopBegins \/ DeleteBegins \/ Calling \/ RommChanges
Spec == Init /\ [][Next]_vars

\* Days pass and the sweep runs; a refresh's check, a call and a download run on.
FairSpec ==
  /\ Spec /\ WF_vars(Day) /\ WF_vars(Downloading) /\ WF_vars(Calling)
  /\ \A c \in Checkers : WF_vars(Checking(c))

-----------------------------------------------------------------------------
(* Properties. *)

\* The record, its flag and the step of each check, download and call are values the code can hold.
TypeOK ==
  /\ romm \in Versions \cup {None} /\ flag \in BOOLEAN /\ deleting \in BOOLEAN /\ due \in BOOLEAN
  /\ rec \in {NoRecord} \cup [snapshot : Versions, ignored : Versions \cup {None}]
  /\ job \in [at : {"none", "queued", "listed", "landed", "failed"}, update : BOOLEAN,
              got : Versions \cup {None}]
  /\ check \in [Checkers -> [at : {"idle", "look", "read", "ask", "set", "done"}, flagged : BOOLEAN,
                             rec : [snapshot : Versions \cup {None}, ignored : Versions \cup {None}],
                             got : Versions \cup {None}]]
  /\ call \in [at : {"none", "ignore", "ignore-ask", "ignore-put", "stop", "stop-drop"},
               got : Versions \cup {None}]
  /\ moves \in 0..MaxMoves

\* Once RomM's files and the user leave the game alone, and no download of it is left, it is offered
\* as having an update exactly when it has one that isn't ignored, and stays so: what a check that
\* raced a download, an ignore or another check left behind lasts a sweep at most (updates.go
\* CheckUpdates, SweepUpdates).
Settled == Owned /\ romm # None /\ job = NoJob => flag = HasUpdate(rec, romm)
FlagSettles == <>[]Settled

\* "the update RomM has now stops being offered, until RomM's files of the game change again"
\* (updates.go:89).
Ignored == romm # None /\ rec.ignored = romm /\ rec.snapshot # romm
StaysIgnored == Ignored /\ Ignored' /\ ~flag => ~flag'
IgnoredStays == [][StaysIgnored]_vars

\* "That game is updating. Cancel the update first." (ondeck.go:623): StopManaging drops no record
\* that the game's update is about to write again.
DropsAlone == StopDrops /\ Owned => job.at \notin {"listed", "landed"}
StoppedAlone == [][DropsAlone]_vars
===============================================================================
