---------------------------- MODULE DownloadQueue ----------------------------
(***************************************************************************)
(* The download queue of backend/internal/app/downloads.go: d.jobs and the *)
(* counters d.mu guards, the run goroutine of each started download, the   *)
(* goroutines that still have work to do after d.mu is released (calls of  *)
(* Queue and Cancel, the tail of run, polls of watchSpace), and what a     *)
(* restart finds again: the rows of state.db's download_queue, the staging *)
(* folders and the ownership records.                                      *)
(*                                                                         *)
(* One action is one section of code under d.mu, one state.db write or one *)
(* removal of a staging folder; goroutines interleave between actions.  A  *)
(* transfer, and the placing of its files together with their record, are  *)
(* each one step here; module GameFiles opens the latter.                  *)
(***************************************************************************)
EXTENDS Integers, FiniteSets

CONSTANTS
  Games,      \* ROM ids
  Threads,    \* goroutines that serve a call, finish a run or poll for space
  Limit,      \* NewDownloads' limit, settings' DownloadConcurrency
  MaxCalls,   \* bound: calls of Queue and Cancel
  MaxStops,   \* bound: times the backend stops or dies
  Changes,    \* bound: what changes around the queue, of {"signIn", "space", "game", "owned"}
  NoGame      \* the game of a goroutine that works for none

ASSUME LimitAssumption == Limit \in Nat \ {0}
ASSUME BoundsAssumption == MaxCalls \in Nat /\ MaxStops \in Nat
ASSUME GamesFinite == IsFiniteSet(Games) /\ NoGame \notin Games
ASSUME ThreadsFinite == IsFiniteSet(Threads)

VARIABLES
  job,        \* d.jobs by ROM id: NoJob, or what its *job holds
  ahead,      \* d.jobs' order: the games before each one
  running,    \* d.running
  held,       \* d.held
  watchers,   \* watchSpace goroutines between two polls
  thr,        \* what each goroutine of Threads has left to do
  resume,     \* where Resume stands, and what it read
  rows,       \* state.db's download_queue
  staging,    \* games with bytes in staging
  owned,      \* state.db's owned_roms: not there, there, or there with an update available
  stopping,   \* d.base has ended
  signedIn,   \* the plugin holds a sign-in
  room,       \* the Emulation drive has room for the next download
  gameOn,     \* an emulator runs, and work waits for games to close
  calls,      \* calls made so far
  stops,      \* times the backend went so far
  raced       \* auxiliary: games whose row or staging two goroutines changed at once

memory == <<job, ahead, running, held, watchers, thr, resume, stopping>>
disk   == <<rows, staging, owned>>
world  == <<signedIn, room, gameOn>>
bounds == <<calls, stops>>
vars   == <<memory, disk, world, bounds, raced>>

-----------------------------------------------------------------------------
(* Data. *)

\* domain.QueuedDownload: failed is Problem # nil, partial that Partial describes RomM's files;
\* in says the row is there at all.
Row == [in : BOOLEAN, failed : BOOLEAN, partial : BOOLEAN, update : BOOLEAN]
NoRow == [in |-> FALSE, failed |-> FALSE, partial |-> FALSE, update |-> FALSE]

\* How the run goroutine stands.  "none" is cancel = nil: no goroutine.
\*   signin  WaitSignedIn, before an attempt      fetch  download, into staging
\*   yield   gave up its slot, about to pump      game   waits for a game to close
\*   work    extracts, zips and places            ended  attempts returned err
\*   gone    returned because the backend is stopping
RunPC == {"none", "signin", "fetch", "yield", "game", "work", "ended", "gone"}
Job == [state : {"none", "queued", "downloading", "failed"}, pc : RunPC, cancelled : BOOLEAN,
        update : BOOLEAN, partial : BOOLEAN, err : {"nil", "canceled", "error", "nospace"}]
NoJob == [state |-> "none", pc |-> "none", cancelled |-> FALSE,
          update |-> FALSE, partial |-> FALSE, err |-> "nil"]

NewJob(update) == [NoJob EXCEPT !.state = "queued", !.update = update]

\* What a failed run leaves: its cancel is nil again.
Failed(j) == [state |-> "failed", pc |-> "none", cancelled |-> FALSE,
              update |-> j.update, partial |-> j.partial, err |-> "nil"]

\* Variant: a record that forgets the failure.
RecordUnfailed(j) == [in |-> TRUE, failed |-> FALSE, partial |-> j.partial, update |-> j.update]

\* j.record()
Record(j) == [in |-> TRUE, failed |-> j.state = "failed", partial |-> j.partial, update |-> j.update]

\* What a goroutine does next, for which operation and game, and the row it will write.
ThreadPC == {"idle", "add", "save", "dropRow", "dropStaging", "hold", "release", "unhold",
             "relPump", "pump"}
Op == {"none", "queue", "cancel", "run", "full", "watch"}
Thread == [pc : ThreadPC, op : Op, g : Games \cup {NoGame}, row : Row]
Idle == [pc |-> "idle", op |-> "none", g |-> NoGame, row |-> NoRow]

Goto(t, pc) == [thr EXCEPT ![t].pc = pc]

-----------------------------------------------------------------------------
(* The queue. *)

InQueue == {g \in Games : job[g].state # "none"}

\* The downloads pump may start: no goroutine, not failed.
Startable == {g \in InQueue : job[g].pc = "none" /\ job[g].state # "failed"}

\* Queue returns such a download as it is.
UnderWay(g) == job[g].state \in {"queued", "downloading"}

\* The downloads that take one of the limit slots: started, and not waiting for a game.
InSlot == {g \in Games : job[g].pc \notin {"none", "yield", "game"}}

\* d.remove: jobs and order without g.
Removed(g) == /\ job' = [job EXCEPT ![g] = NoJob]
              /\ ahead' = [h \in Games |-> IF h = g THEN {} ELSE ahead[h] \ {g}]

\* pump, under d.mu: in queue order, start downloads while fewer than Limit run.
Starts(S) == /\ S \subseteq Startable
             /\ \A g \in S : ahead[g] \cap Startable \subseteq S
             /\ S = {} \/ running + Cardinality(S) <= Limit
             /\ S = Startable \/ running + Cardinality(S) >= Limit

Pump == \E S \in SUBSET Games :
          /\ IF held THEN S = {} ELSE Starts(S)
          /\ running' = running + Cardinality(S)
          /\ job' = [g \in Games |-> IF g \in S THEN [job[g] EXCEPT !.pc = "signin"] ELSE job[g]]

-----------------------------------------------------------------------------
(* Goroutines that change a row or a staging folder outside d.mu. *)

Writing(g) == {t \in Threads : thr[t].g = g /\ thr[t].pc \in {"save", "dropRow", "dropStaging"}}

\* Resume changes the rows it has read until it has merged them, then the staging folders it
\* doesn't keep.
ResumeTouches(g) == \/ resume.pc = "sift" /\ resume.saved[g].in
                    \/ resume.pc = "clean" /\ g \notin resume.keep

Overlap(g) == \/ \E t1, t2 \in Writing(g) : t1 # t2
              \/ ResumeTouches(g) /\ (Writing(g) # {} \/ g \in InQueue)

-----------------------------------------------------------------------------
(* Queue. *)

\* Its checks, before d.mu: signed in, not owned unless RomM has an update of it.
QueueCheck(t, g) ==
  /\ thr[t] = Idle /\ calls < MaxCalls /\ ~stopping
  /\ signedIn
  /\ owned[g] # "owned"
  /\ thr' = [thr EXCEPT ![t] = [pc |-> "add", op |-> "queue", g |-> g,
                                row |-> Record(NewJob(owned[g] = "update"))]]
  /\ calls' = calls + 1
  /\ UNCHANGED <<job, ahead, running, held, watchers, resume, stopping, disk, world, stops>>

\* checkSpace says there's no room, or the game is queued already: the call ends.
QueueRefuse(t) ==
  /\ thr[t].pc = "add"
  /\ ~room \/ UnderWay(thr[t].g)
  /\ thr' = [thr EXCEPT ![t] = Idle]
  /\ UNCHANGED <<job, ahead, running, held, watchers, resume, stopping, disk, world, bounds>>

\* Under d.mu: a new job at the back of the queue, or the failed one queued again.
QueueAdd(t) ==
  LET g == thr[t].g
      j == IF g \in InQueue THEN [job[g] EXCEPT !.state = "queued"]
                            ELSE NewJob(thr[t].row.update)
  IN /\ thr[t].pc = "add"
     /\ room
     /\ ~UnderWay(g)
     /\ job' = [job EXCEPT ![g] = j]
     /\ ahead' = IF g \in InQueue THEN ahead ELSE [ahead EXCEPT ![g] = InQueue]
     /\ thr' = [thr EXCEPT ![t] = [@ EXCEPT !.pc = "save", !.row = Record(j)]]
     /\ UNCHANGED <<running, held, watchers, resume, stopping, disk, world, bounds>>

\* d.save, of Queue's record or of a failed run's.
SaveRow(t) ==
  /\ thr[t].pc = "save"
  /\ rows' = [rows EXCEPT ![thr[t].g] = thr[t].row]
  /\ thr' = [thr EXCEPT ![t] = [@ EXCEPT !.row = NoRow,
                                          !.pc = IF thr[t].op = "queue" THEN "pump"
                                                 ELSE IF thr[t].op = "full" THEN "hold"
                                                 ELSE "release"]]
  /\ UNCHANGED <<job, ahead, running, held, watchers, resume, stopping, staging, owned, world, bounds>>

-----------------------------------------------------------------------------
(* Cancel. *)

\* The download runs: its context ends, and run takes it out of the queue once it stops.
CancelRunning(g) ==
  /\ calls < MaxCalls /\ ~stopping
  /\ job[g].pc # "none"
  /\ job' = [job EXCEPT ![g].cancelled = TRUE]
  /\ calls' = calls + 1
  /\ UNCHANGED <<ahead, running, held, watchers, thr, resume, stopping, disk, world, stops>>

\* It waits or failed: out of the queue under d.mu, its row and staging after.
CancelWaiting(t, g) ==
  /\ thr[t] = Idle /\ calls < MaxCalls /\ ~stopping
  /\ g \in InQueue /\ job[g].pc = "none"
  /\ Removed(g)
  /\ thr' = [thr EXCEPT ![t] = [Idle EXCEPT !.pc = "dropRow", !.op = "cancel", !.g = g]]
  /\ calls' = calls + 1
  /\ UNCHANGED <<running, held, watchers, resume, stopping, disk, world, stops>>

\* discard: the row first, then the staging folder.
DropRow(t) ==
  /\ thr[t].pc = "dropRow"
  /\ rows' = [rows EXCEPT ![thr[t].g] = NoRow]
  /\ thr' = Goto(t, "dropStaging")
  /\ UNCHANGED <<job, ahead, running, held, watchers, resume, stopping, staging, owned, world, bounds>>

DropStaging(t) ==
  /\ thr[t].pc = "dropStaging"
  /\ staging' = staging \ {thr[t].g}
  /\ thr' = Goto(t, "release")
  /\ UNCHANGED <<job, ahead, running, held, watchers, resume, stopping, rows, owned, world, bounds>>

-----------------------------------------------------------------------------
(* The hold for space. *)

\* hold: the queue stops, and a watchSpace goroutine starts unless one watches already.
Hold(t) ==
  /\ thr[t].pc = "hold"
  /\ held' = TRUE
  /\ watchers' = IF held THEN watchers ELSE watchers + 1
  /\ thr' = Goto(t, "pump")
  /\ UNCHANGED <<job, ahead, running, resume, stopping, disk, world, bounds>>

\* The caller of release goes on: run pumps, watchSpace polls again unless it's off hold.
Released(t, off) ==
  /\ thr' = [thr EXCEPT ![t] = IF thr[t].op \in {"run", "full"} THEN [thr[t] EXCEPT !.pc = "pump"]
                                                                ELSE Idle]
  /\ watchers' = IF thr[t].op = "watch" /\ ~off THEN watchers + 1 ELSE watchers

\* release, up to its look at the drive: it needs room for the next queued download, if any.
Release(t) ==
  /\ thr[t].pc = "release"
  /\ \/ ~held /\ Released(t, TRUE)
     \/ held /\ Startable # {} /\ ~room /\ Released(t, FALSE)
     \/ held /\ (Startable = {} \/ room) /\ thr' = Goto(t, "unhold") /\ UNCHANGED watchers
  /\ UNCHANGED <<job, ahead, running, held, resume, stopping, disk, world, bounds>>

\* Variant: the hold ends, and nothing is pumped.
UnholdUnpumped(t) ==
  /\ thr[t].pc = "unhold"
  /\ held' = FALSE
  /\ Released(t, TRUE)
  /\ UNCHANGED <<job, ahead, running, resume, stopping, disk, world, bounds>>

\* Then, under d.mu again, the hold ends, and the queue is pumped.
Unhold(t) ==
  /\ thr[t].pc = "unhold"
  /\ held' = FALSE
  /\ thr' = Goto(t, "relPump")
  /\ UNCHANGED <<job, ahead, running, watchers, resume, stopping, disk, world, bounds>>

ReleasePump(t) ==
  /\ thr[t].pc = "relPump"
  /\ Pump
  /\ Released(t, TRUE)
  /\ UNCHANGED <<ahead, held, resume, stopping, disk, world, bounds>>

\* The pump Queue and run end with.
LastPump(t) ==
  /\ thr[t].pc = "pump"
  /\ Pump
  /\ thr' = [thr EXCEPT ![t] = Idle]
  /\ UNCHANGED <<ahead, held, watchers, resume, stopping, disk, world, bounds>>

\* watchSpace polls, unless the backend is stopping.
WatchPoll(t) ==
  /\ thr[t] = Idle /\ watchers > 0 /\ ~stopping
  /\ watchers' = watchers - 1
  /\ thr' = [thr EXCEPT ![t] = [Idle EXCEPT !.pc = "release", !.op = "watch"]]
  /\ UNCHANGED <<job, ahead, running, held, resume, stopping, disk, world, bounds>>

-----------------------------------------------------------------------------
(* run, for the game it downloads. *)

\* Variant: Cancel doesn't end the run's context.
EndedByStop(g) == stopping

\* The context of g's run ended: it was cancelled, or the backend is stopping.
Ended(g) == job[g].cancelled \/ stopping

\* WaitSignedIn returns and an attempt begins.  Bytes in staging of files RomM no longer has go,
\* and the row then tells which files the new ones are of.
Begin(g) ==
  /\ job[g].pc = "signin" /\ signedIn
  /\ \E same \in {FALSE, job[g].partial} :
       /\ job' = [job EXCEPT ![g] = [@ EXCEPT !.pc = "fetch", !.state = "downloading", !.partial = TRUE]]
       /\ rows' = IF same THEN rows
                  ELSE [rows EXCEPT ![g] = [Record(job[g]) EXCEPT !.partial = TRUE]]
  /\ staging' = staging \cup {g}
  /\ UNCHANGED <<ahead, running, held, watchers, thr, resume, stopping, owned, world, bounds>>

\* The link dropped, or RomM rejected the token: another attempt, once signed in.
CutOff(g) ==
  /\ job[g].pc = "fetch" /\ ~Ended(g)
  /\ job' = [job EXCEPT ![g].pc = "signin"]
  /\ UNCHANGED <<ahead, running, held, watchers, thr, resume, stopping, disk, world, bounds>>

\* Every byte is in staging.  Extracting and zipping wait while a game runs, the slot given up.
Fetched(g) ==
  /\ job[g].pc = "fetch"
  /\ \/ job' = [job EXCEPT ![g].pc = "work"] /\ UNCHANGED running
     \/ /\ gameOn
        /\ job' = [job EXCEPT ![g].pc = "yield"]
        /\ running' = running - 1
  /\ UNCHANGED <<ahead, held, watchers, thr, resume, stopping, disk, world, bounds>>

\* waitForGame gave up the slot: whoever waits for one may have it.
YieldPump(g) ==
  /\ job[g].pc = "yield"
  /\ \E S \in SUBSET Games :
       /\ IF held THEN S = {} ELSE Starts(S)
       /\ running' = running + Cardinality(S)
       /\ job' = [h \in Games |-> IF h = g THEN [job[h] EXCEPT !.pc = "game"]
                                ELSE IF h \in S THEN [job[h] EXCEPT !.pc = "signin"]
                                ELSE job[h]]
  /\ UNCHANGED <<ahead, held, watchers, thr, resume, stopping, disk, world, bounds>>

\* The game closed: the download takes a slot again, whether one is free or not.
GameClosed(g) ==
  /\ job[g].pc = "game" /\ ~gameOn
  /\ running' = running + 1
  /\ job' = [job EXCEPT ![g].pc = "work"]
  /\ UNCHANGED <<ahead, held, watchers, thr, resume, stopping, disk, world, bounds>>

\* The files are in place and recorded; an update needs its game still owned.  What is in their
\* way fails it, see Fails: files aren't part of this module.
Install(g) ==
  /\ job[g].pc = "work"
  /\ job[g].update => owned[g] # "none"
  /\ owned' = [owned EXCEPT ![g] = "owned"]
  /\ job' = [job EXCEPT ![g].pc = "ended"]
  /\ UNCHANGED <<ahead, running, held, watchers, thr, resume, stopping, rows, staging, world, bounds>>

\* attempts returned err.
EndsWith(g, err) == job' = [job EXCEPT ![g] = [@ EXCEPT !.pc = "ended", !.err = err]]

\* The wait for a sign-in, for RomM or for a game ends with the context.
Interrupted(g) ==
  /\ job[g].pc \in {"signin", "fetch", "game"} /\ Ended(g)
  /\ running' = IF job[g].pc = "game" THEN running + 1 ELSE running
  /\ EndsWith(g, "canceled")
  /\ UNCHANGED <<ahead, held, watchers, thr, resume, stopping, disk, world, bounds>>

\* attempts gives up: on an error no retry fixes, or after the last retry.  A cancelled download
\* fails as cancelled; a full drive fails it either way.
Fails(g) ==
  /\ job[g].pc \in {"fetch", "work"} \/ (job[g].pc = "signin" /\ signedIn)
  /\ \E err \in {"canceled", "error", "nospace"} :
       /\ err = "nospace" => job[g].pc # "signin" /\ ~room
       /\ err \in {"canceled", "error"} => (err = "canceled" <=> Ended(g))
       /\ EndsWith(g, err)
  /\ UNCHANGED <<ahead, running, held, watchers, thr, resume, stopping, disk, world, bounds>>

\* Variant: run doesn't look whether the backend is stopping.
NeverStays(g) == FALSE

\* run, ended by an error while the backend stops, leaves its download where it is.
Stays(g) == job[g].err # "nil" /\ stopping

\* run after attempts, under d.mu: out of the queue when installed or cancelled, else failed.
Finish(g, t) ==
  /\ job[g].pc = "ended" /\ thr[t] = Idle
  /\ ~Stays(g)
  /\ running' = running - 1
  /\ IF job[g].err \in {"nil", "canceled"}
     THEN /\ Removed(g)
          /\ thr' = [thr EXCEPT ![t] = [Idle EXCEPT !.pc = "dropRow", !.op = "run", !.g = g]]
     ELSE /\ job' = [job EXCEPT ![g] = Failed(@)]
          /\ thr' = [thr EXCEPT ![t] = [pc |-> "save", g |-> g, row |-> Record(Failed(job[g])),
                                        op |-> IF job[g].err = "nospace" THEN "full" ELSE "run"]]
          /\ UNCHANGED ahead
  /\ UNCHANGED <<held, watchers, resume, stopping, disk, world, bounds>>

\* Or the backend is stopping: the download stays in state.db, its bytes in staging.
Abandon(g) ==
  /\ job[g].pc = "ended" /\ Stays(g)
  /\ job' = [job EXCEPT ![g].pc = "gone"]
  /\ UNCHANGED <<ahead, running, held, watchers, thr, resume, stopping, disk, world, bounds>>

-----------------------------------------------------------------------------
(* Resume, which main starts beside the server. *)

Resuming == [pc : {"load", "sift", "clean", "pump", "done"}, todo : SUBSET Games,
             saved : [Games -> Row], keep : SUBSET Games]
Fresh == [pc |-> "load", todo |-> {}, saved |-> [g \in Games |-> NoRow], keep |-> {}]

ResumeLoad ==
  /\ resume.pc = "load"
  /\ resume' = [resume EXCEPT !.pc = "sift", !.saved = rows,
                              !.todo = {g \in Games : rows[g].in}]
  /\ UNCHANGED <<job, ahead, running, held, watchers, thr, stopping, disk, world, bounds>>

\* recorded: the game landed, and the backend stopped before taking it out of the queue.
Recorded(g) == owned[g] # "none" /\ (resume.saved[g].update => owned[g] = "owned")

ResumeRow(g) ==
  /\ resume.pc = "sift" /\ g \in resume.todo
  /\ resume' = [resume EXCEPT !.todo = @ \ {g}, !.saved[g] = IF Recorded(g) THEN NoRow ELSE @]
  /\ rows' = IF Recorded(g) THEN [rows EXCEPT ![g] = NoRow] ELSE rows
  /\ UNCHANGED <<job, ahead, running, held, watchers, thr, stopping, staging, owned, world, bounds>>

\* Under d.mu: the restored go before the games queued since the backend started.
ResumeMerge ==
  LET restored == {g \in Games : resume.saved[g].in /\ g \notin InQueue}
      FromRow(q) == [NewJob(q.update) EXCEPT !.partial = q.partial,
                                             !.state = IF q.failed THEN "failed" ELSE "queued"]
  IN /\ resume.pc = "sift" /\ resume.todo = {}
     /\ job' = [g \in Games |-> IF g \in restored THEN FromRow(resume.saved[g]) ELSE job[g]]
     /\ \E place \in [restored -> 1 .. Cardinality(restored)] :
          /\ \A g, h \in restored : g # h => place[g] # place[h]
          /\ ahead' = [g \in Games |->
                         IF g \in restored THEN {h \in restored : place[h] < place[g]}
                         ELSE IF g \in InQueue THEN ahead[g] \cup restored ELSE {}]
     /\ resume' = [Fresh EXCEPT !.pc = "clean", !.keep = InQueue \cup restored]
     /\ UNCHANGED <<running, held, watchers, thr, stopping, disk, world, bounds>>

\* Variant: cleanStaging keeps nothing.
ResumeCleanAll ==
  /\ resume.pc = "clean"
  /\ staging' = {}
  /\ resume' = [Fresh EXCEPT !.pc = "pump"]
  /\ UNCHANGED <<job, ahead, running, held, watchers, thr, stopping, rows, owned, world, bounds>>

\* cleanStaging, after d.mu is released.
ResumeClean ==
  /\ resume.pc = "clean"
  /\ staging' = staging \cap resume.keep
  /\ resume' = [Fresh EXCEPT !.pc = "pump"]
  /\ UNCHANGED <<job, ahead, running, held, watchers, thr, stopping, rows, owned, world, bounds>>

ResumePump ==
  /\ resume.pc = "pump"
  /\ Pump
  /\ resume' = [Fresh EXCEPT !.pc = "done"]
  /\ UNCHANGED <<ahead, held, watchers, thr, stopping, disk, world, bounds>>

-----------------------------------------------------------------------------
(* The backend stops: gracefully, its base context ending first, or at any step. *)

Stop ==
  /\ ~stopping /\ stops < MaxStops
  /\ stopping' = TRUE
  /\ stops' = stops + 1
  /\ UNCHANGED <<job, ahead, running, held, watchers, thr, resume, disk, world, calls>>

NewProcess ==
  /\ job' = [g \in Games |-> NoJob]
  /\ ahead' = [g \in Games |-> {}]
  /\ running' = 0
  /\ held' = FALSE
  /\ watchers' = 0
  /\ thr' = [t \in Threads |-> Idle]
  /\ resume' = Fresh
  /\ stopping' = FALSE
  /\ UNCHANGED <<disk, world, calls>>

Exit == stopping /\ NewProcess /\ UNCHANGED stops

Die == ~stopping /\ stops < MaxStops /\ NewProcess /\ stops' = stops + 1

-----------------------------------------------------------------------------
(* What goes on around the queue. *)

SignIn == /\ "signIn" \in Changes
          /\ signedIn' = ~signedIn
          /\ UNCHANGED <<memory, disk, room, gameOn, bounds>>

Space == /\ "space" \in Changes
         /\ room' = ~room
         /\ UNCHANGED <<memory, disk, signedIn, gameOn, bounds>>

Play == /\ "game" \in Changes
        /\ gameOn' = ~gameOn
        /\ UNCHANGED <<memory, disk, signedIn, room, bounds>>

\* CheckUpdates finds an update of a game not in the queue; a game not in it is deleted, or
\* stops being managed.
Ownership(g) ==
  /\ "owned" \in Changes /\ g \notin InQueue
  /\ \/ owned[g] = "owned" /\ owned' = [owned EXCEPT ![g] = "update"]
     \/ owned[g] # "none" /\ owned' = [owned EXCEPT ![g] = "none"]
  /\ UNCHANGED <<memory, rows, staging, world, bounds>>

-----------------------------------------------------------------------------
Init ==
  /\ job = [g \in Games |-> NoJob] /\ ahead = [g \in Games |-> {}]
  /\ running = 0 /\ held = FALSE /\ watchers = 0
  /\ thr = [t \in Threads |-> Idle]
  /\ resume = Fresh /\ stopping = FALSE
  /\ rows = [g \in Games |-> NoRow] /\ staging = {}
  /\ owned = [g \in Games |-> "none"]
  /\ signedIn = TRUE /\ room = TRUE /\ gameOn = FALSE
  /\ calls = 0 /\ stops = 0 /\ raced = {}

ThreadStep(t) ==
  \/ QueueRefuse(t) \/ QueueAdd(t) \/ SaveRow(t) \/ DropRow(t) \/ DropStaging(t)
  \/ Hold(t) \/ Release(t) \/ Unhold(t) \/ ReleasePump(t) \/ LastPump(t)

RunStep(g) == Begin(g) \/ Fetched(g) \/ YieldPump(g) \/ GameClosed(g) \/ Install(g)
              \/ Interrupted(g) \/ Fails(g) \/ Abandon(g)

ResumeStep == ResumeLoad \/ (\E g \in Games : ResumeRow(g)) \/ ResumeMerge \/ ResumeClean \/ ResumePump

Step ==
  \/ \E t \in Threads : ThreadStep(t) \/ WatchPoll(t)
  \/ \E t \in Threads, g \in Games : QueueCheck(t, g) \/ CancelWaiting(t, g) \/ Finish(g, t)
  \/ \E g \in Games : CancelRunning(g) \/ RunStep(g) \/ CutOff(g)
  \/ ResumeStep \/ Stop

Environment == SignIn \/ Space \/ Play \/ \E g \in Games : Ownership(g)

\* A new process reads its queue from the rows, so nothing is raced then.
Next == \/ (Step \/ Environment) /\ raced' = raced \cup {g \in Games : Overlap(g)'}
        \/ (Exit \/ Die) /\ raced' = {}

Spec == Init /\ [][Next]_vars

\* A step of the process, with what it does to raced.
Tracked(A) == A /\ raced' = raced \cup {g \in Games : Overlap(g)'}

\* Every goroutine runs on.  A transfer ends, whatever its retries, and a goroutine that needs one
\* of Threads gets it: in the code it is one.  Calls, stops and the environment need not happen.
Fairness ==
  /\ \A t \in Threads : WF_vars(Tracked(ThreadStep(t)))
  /\ SF_vars(Tracked(\E t \in Threads : WatchPoll(t)))
  /\ \A g \in Games : /\ WF_vars(Tracked(RunStep(g)))
                      /\ SF_vars(Tracked(Fetched(g) \/ Fails(g)))
                      /\ SF_vars(Tracked(\E t \in Threads : Finish(g, t)))
  /\ WF_vars(Tracked(ResumeStep))
  /\ WF_vars(Exit /\ raced' = {})

FairSpec == Spec /\ Fairness

-----------------------------------------------------------------------------
(* Properties. *)

TypeOK ==
  /\ job \in [Games -> Job]
  /\ ahead \in [Games -> SUBSET Games]
  /\ running \in Nat /\ held \in BOOLEAN /\ watchers \in Nat
  /\ thr \in [Threads -> Thread]
  /\ resume \in Resuming
  /\ stopping \in BOOLEAN
  /\ rows \in [Games -> Row] /\ staging \subseteq Games
  /\ owned \in [Games -> {"none", "owned", "update"}]
  /\ signedIn \in BOOLEAN /\ room \in BOOLEAN /\ gameOn \in BOOLEAN
  /\ calls \in Nat /\ stops \in Nat
  /\ raced \subseteq Games

\* d.running counts exactly the started downloads that don't wait for a game, through every end a
\* run can have: a lost or doubled decrement would stall the queue or run too many.
SlotsAccounted == running = Cardinality(InSlot)

\* NewDownloads' comment: "running up to limit downloads at once".
RunningWithinLimit == running <= Limit

\* A goroutine that pumps before it ends.
WillPump(t) == \/ thr[t].pc \in {"save", "hold", "unhold", "relPump", "pump"}
               \/ thr[t].pc \in {"dropRow", "dropStaging", "release"} /\ thr[t].op \in {"run", "full"}

\* No lost wakeup: when a download could start, someone is about to pump.  Nothing else starts it.
NoLostWakeup ==
  ~held /\ running < Limit /\ Startable # {} =>
    \/ \E t \in Threads : WillPump(t)
    \/ \E g \in Games : job[g].pc = "yield"
    \/ resume.pc \in {"clean", "pump"}

\* A queue on hold always has a watchSpace goroutine to take it off.
HeldIsWatched == held => \/ watchers > 0
                         \/ \E t \in Threads : thr[t].op = "watch" /\ thr[t].pc \in {"release", "unhold"}

\* What state.db keeps of g is what the queue in memory holds, so a restart restores it.
Saved(g) == /\ rows[g].in <=> g \in InQueue
            /\ g \in InQueue => /\ rows[g].failed = (job[g].state = "failed")
                                /\ rows[g].update = job[g].update

\* Nothing is about to write g's row: no goroutine, not Resume, and no run that installed it.
Quiet(g) == /\ Writing(g) = {} /\ ~ResumeTouches(g) /\ resume.pc # "load"
            /\ ~(job[g].pc = "ended" /\ job[g].err = "nil")

\* Downloads survive restarts: once what a call or a run does is written, the rows are the queue,
\* unless two goroutines wrote the same game's at once.
QueueSaved == \A g \in Games \ raced : Quiet(g) => Saved(g)

\* docs/downloads.md: "Downloads survive restarts", whatever calls overlap.
DownloadsSurvive == \A g \in Games : Quiet(g) => Saved(g)

\* Queue's comment: "A Plugin-owned game downloads again only as its update".
OwnedOnlyUpdates == \A g \in Games : job[g].pc = "fetch" /\ owned[g] # "none" => job[g].update

\* Nobody deletes the staging folder of a download under way, and none outlives its download.
StagingKept ==
  \A g \in Games \ raced :
    /\ job[g].pc \in {"fetch", "yield", "game", "work"} => g \in staging
    /\ Quiet(g) /\ resume.pc \notin {"sift", "clean"} /\ g \notin InQueue => g \notin staging

\* A download leaves the queue installed or cancelled by the user, never because the backend stops.
LeavesDone ==
  [][stopping' = stopping /\ stops' = stops =>
       \A g \in InQueue : \/ job'[g].state # "none"
                          \/ job[g].pc = "none" \/ job[g].cancelled \/ owned[g] = "owned"]_vars

\* Everything a download needs is there for good.
AllClear == <>[](signedIn /\ room /\ ~gameOn)

\* Every queued download starts in the end: slots come free, holds end, restarts restore it.
QueueServed == AllClear => \A g \in Games : (g \in Startable) ~> (g \notin Startable)

\* Cancelling a running download ends it, whatever it waits for: a sign-in, a game, RomM.
CancelEnds == \A g \in Games : job[g].cancelled ~> ~job[g].cancelled
=============================================================================
