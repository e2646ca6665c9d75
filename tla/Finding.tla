-------------------------------- MODULE Finding --------------------------------
(***************************************************************************)
(* Find my games (find.go) and what the user makes of a game's own file    *)
(* (ondeck.go): Check, Adopt, Adopt all, Link, Unlink, Stop managing, on   *)
(* one platform's ROM folder.                                              *)
(*                                                                         *)
(* A game is one file, here its content.  A file is known by its           *)
(* modification time, which no two writes share.  How the files of an      *)
(* entry match RomM's is in Matching; here content either is a game's or   *)
(* is not.  One action is one transaction of state.db, one section of      *)
(* Downloads.mu, one request, or one look at the disk.                     *)
(***************************************************************************)
EXTENDS Integers, Sequences, FiniteSets

CONSTANTS
  MaxGame,      \* the platform's games on RomM, by id
  Paths,        \* the entries the ROM folder can have
  Home,         \* Home[g]: where g would go
  Contents,     \* what a file can hold
  Holds,        \* Holds[s][g]: what the file of game g of server s holds
  Callers,      \* calls of the user's that can run at once
  MaxMoves,     \* bound: files written, moved and deleted, searches, calls and changes of server
  MaxFinds,     \* bound: searches among them
  MaxChecks     \* bound: comparisons kept at once

Games == 1 .. MaxGame
Servers == 1 .. Len(Holds)
None == "none"
Assumptions ==
  /\ MaxGame \in Nat /\ Home \in [Games -> Paths] /\ None \notin Paths
  /\ Holds \in Seq([Games -> Contents]) /\ {MaxMoves, MaxFinds, MaxChecks} \subseteq Nat

VARIABLES
  server,    \* the server signed in to
  wrote,     \* what each write wrote: a file is the number of its write
  file,      \* the entries of the ROM folder, 0 for none
  owned,     \* state.db: the Plugin-owned games
  linked,    \* state.db: the Linked games
  find,      \* Downloads.finds of the platform
  found,     \* Downloads.found
  check,     \* Downloads.checks, 0 for none
  job,       \* the onDeckJobs
  runs,      \* runFind, once for each search started
  call,      \* the calls under way
  leaving,   \* forgetServer dropped the records and not yet what was found
  panics,    \* runFind took the backend down
  moves,
  overlap,   \* auxiliary: a search outlived the server it was started on
  back       \* auxiliary: a file came back to where it was looked at before another was hashed there

disk == <<wrote, file>>
records == <<owned, linked>>
memory == <<find, found, check, job>>
vars == <<server, disk, records, memory, runs, call, leaving, panics, moves, overlap, back>>

-----------------------------------------------------------------------------
(* Data. *)

NotOwned == [path |-> None, at |-> 0, of |-> 0]
NotFound == [path |-> None, at |-> 0, holds |-> None, of |-> 0]
NoFind == [known |-> FALSE, running |-> FALSE, adopting |-> FALSE, failed |-> FALSE]
NoJob == [pc |-> "free", game |-> 0, path |-> None, at |-> 0, holds |-> None, of |-> 0, matches |-> FALSE]
NoRun == [pc |-> "new", rom |-> 0, of |-> 0, taken |-> {}, games |-> {}, left |-> {}, at |-> 0, path |-> None,
          out |-> {}]
NoCall == [op |-> None, game |-> 0, pc |-> None, job |-> 0, path |-> None, rest |-> {}]

Checks == 1 .. MaxChecks
Finds == 1 .. MaxFinds
Owned(g) == owned[g] # NotOwned
Linked(g) == linked[g] # None
Content(at) == IF at = 0 THEN None ELSE wrote[at]
There(path) == path # None /\ file[path] # 0

\* Downloads.occupant: the user's file of a game, where it would go, where it was found, or where it
\* was linked.
Occupant(g) ==
  CASE There(Home[g])        -> Home[g]
    [] ~There(Home[g]) /\ There(found[g].path)                          -> found[g].path
    [] ~There(Home[g]) /\ ~There(found[g].path) /\ There(linked[g])     -> linked[g]
    [] OTHER                 -> None

\* takenByRecords: the files of every Plugin-owned and Linked game.
TakenByRecords == {owned[g].path : g \in {h \in Games : Owned(h)}} \cup {linked[g] : g \in {h \in Games : Linked(h)}}
\* Variant: a search for one game takes any entry.
FoundNowhere(rom) == {}
\* A search for one game leaves alone what earlier ones found of the others.
FoundElsewhere(rom) == {found[g].path : g \in {h \in Games : rom \notin {0, h} /\ found[h] # NotFound}}
\* findIn's skip.
Skipped(g, rom) == rom \notin {0, g} \/ Owned(g) \/ Linked(g)
\* Variant: the files hashed are taken as they were.
NeverStale(j) == FALSE
\* onDeckJob.stale.  Only a check that matches keeps the files it hashed.
Stale(j) == j.matches /\ file[j.path] # j.at

Move == moves < MaxMoves /\ moves' = moves + 1

Init ==
  /\ server = 1 /\ wrote = <<>>
  /\ file = [p \in Paths |-> 0]
  /\ owned = [g \in Games |-> NotOwned] /\ linked = [g \in Games |-> None]
  /\ find = NoFind
  /\ found = [g \in Games |-> NotFound]
  /\ check = [g \in Games |-> 0] /\ job = [j \in Checks |-> NoJob]
  /\ runs = [r \in Finds |-> NoRun]
  /\ call = [u \in Callers |-> NoCall]
  /\ leaving = FALSE /\ panics = FALSE /\ moves = 0 /\ overlap = FALSE /\ back = FALSE

-----------------------------------------------------------------------------
(* The user's folder, and the deletes of GameFiles.  Queue never takes a game that has the user's file
   in its way, so the downloads of DownloadQueue are left out here. *)

Written(p, c) == wrote' = Append(wrote, c) /\ file' = [file EXCEPT ![p] = Len(wrote) + 1]

Write(p, c) ==
  /\ Move /\ Written(p, c)
  /\ UNCHANGED <<server, records, memory, runs, call, leaving, panics, overlap, back>>
\* A look l at entry q took the time of the file now at p, and hashed another there.
Mistook(l, p, q) == l.path = q /\ l.at = file[p] /\ l.holds # Content(file[p])
Rename(p, q) ==
  /\ Move /\ file[p] # 0 /\ file[q] = 0
  /\ file' = [file EXCEPT ![q] = file[p], ![p] = 0]
  /\ back' = (\/ back
              \/ \E j \in Checks : job[j].matches /\ Mistook(job[j], p, q)
              \/ \E g \in Games : Mistook(found[g], p, q)
              \/ \E r \in Finds : \E o \in runs[r].out : Mistook(o, p, q))
  /\ UNCHANGED <<server, wrote, records, memory, runs, call, leaving, panics, overlap>>

\* Delete, and CheckOwned once the file changed.
Uninstall(g) ==
  /\ Move /\ Owned(g) /\ ~leaving
  /\ owned' = [owned EXCEPT ![g] = NotOwned]
  /\ file' = [file EXCEPT ![owned[g].path] = IF @ = owned[g].at THEN 0 ELSE @]
  /\ UNCHANGED <<server, wrote, linked, memory, runs, call, leaving, panics, overlap, back>>

\* A comparison neither a check nor a call refers to any more is gone.
Keeps(checks, held) ==
  job' = [j \in Checks |-> IF (\E g \in Games : checks[g] = j) \/ (\E u \in Callers : held[u].job = j) THEN job[j] ELSE NoJob]

-----------------------------------------------------------------------------
(* Find my games. *)

\* startFind, for every game of the platform or for one.
StartFind(r, g) ==
  /\ Move /\ runs[r].pc = "new" /\ \A q \in Finds : q < r => runs[q].pc # "new"
  /\ ~(find.running \/ find.adopting)
  /\ find' = [NoFind EXCEPT !.known = TRUE, !.running = TRUE]
  /\ runs' = [runs EXCEPT ![r].pc = "take", ![r].rom = g]
  /\ UNCHANGED <<server, disk, records, found, check, job, call, leaving, panics, overlap, back>>

\* findIn reads the sign-in and what is taken.
FindTakes(r) ==
  /\ runs[r].pc = "take"
  /\ runs' = [runs EXCEPT ![r].pc = "ask", ![r].of = server,
                          ![r].taken = TakenByRecords \cup FoundElsewhere(runs[r].rom)]
  /\ UNCHANGED <<server, disk, records, memory, call, leaving, panics, moves, overlap, back>>
\* platformGames: RomM's files of the games that are not skipped.
FindAsks(r) ==
  /\ runs[r].pc = "ask"
  /\ runs' = [runs EXCEPT ![r].pc = "list", ![r].games = {g \in Games : ~Skipped(g, runs[r].rom)}]
  /\ UNCHANGED <<server, disk, records, memory, call, leaving, panics, moves, overlap, back>>
\* The entries of the folder that are not taken.
FindLists(r) ==
  /\ runs[r].pc = "list"
  /\ runs' = [runs EXCEPT ![r].pc = "match", ![r].left = {p \in Paths : file[p] # 0} \ runs[r].taken,
                          ![r].taken = {}]
  /\ UNCHANGED <<server, disk, records, memory, call, leaving, panics, moves, overlap, back>>

\* Entries where a game would go are looked at first.
InPlace(ps) == LET here == {p \in ps : \E g \in Games : Home[g] = p} IN IF here # {} THEN here ELSE ps
\* matchFile takes the file's size and time,
FindStats(r, p) ==
  /\ runs[r].pc = "match" /\ p \in InPlace(runs[r].left)
  /\ runs' = [runs EXCEPT ![r].left = @ \ {p}, ![r].path = p, ![r].at = file[p],
                          ![r].pc = IF file[p] = 0 THEN "match" ELSE "hash"]
  /\ UNCHANGED <<server, disk, records, memory, call, leaving, panics, moves, overlap, back>>

\* wholeGame: of the games an entry holds, the first by id that no earlier entry took.
Whole(run, c) ==
  LET holds == {g \in run.games : Holds[run.of][g] = c /\ \A o \in run.out : o.game # g}
  IN {g \in holds : \A h \in holds : g <= h}
\* and then hashes what is there.
FindHashes(r) ==
  LET run == runs[r]
      c == Content(file[run.path])
      new == {[game |-> g, path |-> run.path, at |-> run.at, holds |-> c, of |-> run.of] : g \in Whole(run, c)}
  IN /\ run.pc = "hash"
     /\ runs' = [runs EXCEPT ![r].pc = "match", ![r].out = @ \cup new,
                             ![r].left = IF run.rom # 0 /\ new # {} THEN {} ELSE @]
     /\ UNCHANGED <<server, disk, records, memory, call, leaving, panics, moves, overlap, back>>

\* Out of memory goes what it held: the Supervisor starts the backend again.
Panic ==
  /\ panics' = TRUE /\ find' = NoFind
  /\ found' = [g \in Games |-> NotFound] /\ check' = [g \in Games |-> 0] /\ job' = [j \in Checks |-> NoJob]
  /\ runs' = [r \in Finds |-> IF runs[r].pc = "new" THEN NoRun ELSE [NoRun EXCEPT !.pc = "done"]]
  /\ call' = [u \in Callers |-> NoCall] /\ leaving' = FALSE
\* What runFind records of the games it looked for.
Recorded(run) ==
  [g \in Games |-> IF \E o \in run.out : o.game = g
                   THEN LET o == CHOOSE o \in run.out : o.game = g
                        IN [path |-> o.path, at |-> o.at, holds |-> o.holds, of |-> o.of]
                   ELSE IF run.rom \in {0, g} THEN NotFound ELSE found[g]]
\* How it ended.  Variant: only a search that found its games is over.
EndedIfDone(f, failed) == IF failed THEN [f EXCEPT !.failed = TRUE] ELSE [f EXCEPT !.running = FALSE, !.failed = FALSE]
Ended(f, failed) == [f EXCEPT !.running = FALSE, !.failed = failed]
\* A search that failed found nothing.
FindEnds(r, failed) ==
  LET run == [runs[r] EXCEPT !.out = IF failed THEN {} ELSE @]
      answered == {g \in Games : (run.rom \in {0, g} /\ found[g] # NotFound) \/ \E o \in run.out : o.game = g}
  IN /\ \/ failed /\ run.pc \in {"take", "ask", "list", "match"}
        \/ ~failed /\ run.pc = "match" /\ run.left = {}
     /\ IF find.known
        THEN /\ found' = Recorded(run)
             /\ check' = [g \in Games |-> IF g \in answered THEN 0 ELSE check[g]]
             /\ find' = Ended(find, failed)
             /\ runs' = [runs EXCEPT ![r] = [NoRun EXCEPT !.pc = "done"]]
             /\ Keeps(check', call)
             /\ UNCHANGED <<call, leaving, panics>>
        ELSE Panic
     /\ UNCHANGED <<server, disk, records, moves, overlap, back>>

-----------------------------------------------------------------------------
(* Checks. *)

FreeJobs == {j \in Checks : \A g \in Games : check[g] # j} \ {call[u].job : u \in Callers}
Kept(g, path) ==
  check[g] # 0 /\ job[check[g]].path = path
    /\ (job[check[g]].pc \in {"ask", "stat", "hash"} \/ (job[check[g]].pc = "done" /\ ~Stale(job[check[g]])))
\* A new comparison, of what a search found there when that is unchanged.
Compared(g, path) ==
  LET f == found[g]
      known == [NoJob EXCEPT !.pc = "done", !.game = g, !.path = path, !.at = f.at, !.holds = f.holds, !.of = f.of,
                             !.matches = TRUE]
  IN IF f.path = path /\ ~Stale(known) THEN known ELSE [NoJob EXCEPT !.pc = "ask", !.game = g, !.path = path]
\* Downloads.onDeckJob, giving the comparison j.
OnDeckJob(g, j) ==
  LET path == Occupant(g)
  IN /\ path # None
     /\ IF Kept(g, path) THEN j = check[g] /\ UNCHANGED <<check, job>>
        ELSE /\ j \in FreeJobs
             /\ check' = [check EXCEPT ![g] = j]
             /\ job' = [job EXCEPT ![j] = Compared(g, path)]

CheckOnDeck(g) ==
  /\ Move
  /\ \E j \in Checks : OnDeckJob(g, j)
  /\ UNCHANGED <<server, disk, records, find, found, runs, call, leaving, panics, overlap, back>>

\* compare: asks RomM for the game's files,
CompareAsks(j) ==
  /\ job[j].pc = "ask"
  /\ job' = [job EXCEPT ![j].pc = "stat", ![j].of = server]
  /\ UNCHANGED <<server, disk, records, find, found, check, runs, call, leaving, panics, moves, overlap, back>>
\* stops when RomM does not answer, or a file went,
CompareFails(j) ==
  /\ \/ job[j].pc \in {"ask", "stat"}
     \/ job[j].pc = "hash" /\ file[job[j].path] = 0
  /\ job' = [job EXCEPT ![j] = [NoJob EXCEPT !.pc = "failed", !.game = job[j].game, !.path = job[j].path]]
  /\ UNCHANGED <<server, disk, records, find, found, check, runs, call, leaving, panics, moves, overlap, back>>
\* takes the file's size and time,
CompareStats(j) ==
  /\ job[j].pc = "stat" /\ There(job[j].path)
  /\ job' = [job EXCEPT ![j].pc = "hash", ![j].at = file[job[j].path]]
  /\ UNCHANGED <<server, disk, records, find, found, check, runs, call, leaving, panics, moves, overlap, back>>
\* and hashes what is there.
CompareHashes(j) ==
  LET c == Content(file[job[j].path])
  IN /\ job[j].pc = "hash" /\ file[job[j].path] # 0
     /\ job' = [job EXCEPT ![j].pc = "done", ![j].holds = c, ![j].matches = c = Holds[job[j].of][job[j].game]]
     /\ UNCHANGED <<server, disk, records, find, found, check, runs, call, leaving, panics, moves, overlap, back>>

-----------------------------------------------------------------------------
(* Adopt, Adopt all, Link, Unlink and Stop managing. *)

Begin(u, op, g, pc) ==
  /\ Move /\ ~leaving /\ call[u].op = None
  /\ call' = [call EXCEPT ![u] = [NoCall EXCEPT !.op = op, !.game = g, !.pc = pc]]
\* A game of Adopt all that fails or is adopted gives way to the next.
Done(u) == IF call[u].op = "all" THEN [NoCall EXCEPT !.op = "all", !.pc = "next", !.rest = call[u].rest] ELSE NoCall
CallStep(u, pc) == call[u].pc = pc

Adopt(u, g) ==
  /\ ~Owned(g)
  /\ Begin(u, "adopt", g, "job")
  /\ UNCHANGED <<server, disk, records, memory, runs, leaving, panics, overlap, back>>
AdoptJob(u, j) ==
  /\ CallStep(u, "job") /\ OnDeckJob(call[u].game, j)
  /\ call' = [call EXCEPT ![u].pc = "wait", ![u].job = j]
  /\ UNCHANGED <<server, disk, records, find, found, runs, leaving, panics, moves, overlap, back>>
\* Nothing on this Deck, a comparison that failed or found a difference, or a file that changed since.
AdoptRefused(u) ==
  /\ \/ CallStep(u, "job") /\ Occupant(call[u].game) = None
     \/ CallStep(u, "wait") /\ job[call[u].job].pc \in {"done", "failed"}
        /\ (~job[call[u].job].matches \/ Stale(job[call[u].job]))
  /\ call' = [call EXCEPT ![u] = Done(u)] /\ Keeps(check, call')
  /\ UNCHANGED <<server, disk, records, find, found, check, runs, leaving, panics, moves, overlap, back>>
AdoptCurrent(u) ==
  /\ CallStep(u, "wait") /\ job[call[u].job].pc = "done"
  /\ job[call[u].job].matches /\ ~Stale(job[call[u].job])
  /\ call' = [call EXCEPT ![u].pc = "save"]
  /\ UNCHANGED <<server, disk, records, memory, runs, leaving, panics, moves, overlap, back>>
\* Store.SaveOwned: owned_files lists a path once.
AdoptSaves(u) ==
  LET g == call[u].game
      j == job[call[u].job]
  IN /\ CallStep(u, "save")
     /\ IF \E h \in Games \ {g} : owned[h].path = j.path
        THEN call' = [call EXCEPT ![u] = Done(u)] /\ UNCHANGED owned
        ELSE /\ owned' = [owned EXCEPT ![g] = [path |-> j.path, at |-> j.at, of |-> j.of]]
             /\ call' = [call EXCEPT ![u].pc = "unlink", ![u].job = 0]
     /\ Keeps(check, call')
     /\ UNCHANGED <<server, disk, linked, find, found, check, runs, leaving, panics, moves, overlap, back>>
\* Store.DeleteLinked, which may fail.
AdoptUnlinks(u) ==
  /\ CallStep(u, "unlink")
  /\ call' = [call EXCEPT ![u].pc = "clear"]
  /\ linked' \in {linked, [linked EXCEPT ![call[u].game] = None]}
  /\ UNCHANGED <<server, disk, owned, memory, runs, leaving, panics, moves, overlap, back>>
AdoptClears(u) ==
  LET g == call[u].game
  IN /\ CallStep(u, "clear") /\ call[u].op \in {"adopt", "all"}
     /\ check' = [check EXCEPT ![g] = 0] /\ found' = [found EXCEPT ![g] = NotFound]
     /\ call' = [call EXCEPT ![u] = Done(u)] /\ Keeps(check', call')
     /\ UNCHANGED <<server, disk, records, find, runs, leaving, panics, moves, overlap, back>>

\* stillFound.
StillFound(g) == There(found[g].path) /\ ~Owned(g) /\ ~Linked(g)
AdoptFound(u) ==
  /\ Move /\ ~leaving /\ call[u].op = None
  /\ call' = [call EXCEPT ![u] = [NoCall EXCEPT !.op = "all", !.pc = "next",
                                                !.rest = {g \in Games : StillFound(g)}]]
  /\ find' = [find EXCEPT !.known = TRUE, !.adopting = TRUE]
  /\ UNCHANGED <<server, disk, records, found, check, job, runs, leaving, panics, overlap, back>>
AdoptNext(u) ==
  /\ CallStep(u, "next")
  /\ \E g \in call[u].rest :
        call' = [call EXCEPT ![u].game = g, ![u].rest = @ \ {g}, ![u].pc = IF Owned(g) THEN "next" ELSE "job"]
  /\ UNCHANGED <<server, disk, records, memory, runs, leaving, panics, moves, overlap, back>>
AdoptedAll(u) ==
  /\ CallStep(u, "next") /\ call[u].rest = {}
  /\ call' = [call EXCEPT ![u] = NoCall]
  /\ find' = [find EXCEPT !.known = TRUE, !.adopting = FALSE]
  /\ UNCHANGED <<server, disk, records, found, check, job, runs, leaving, panics, moves, overlap, back>>

Link(u, g) ==
  /\ Move /\ ~leaving /\ call[u].op = None /\ ~Owned(g) /\ Occupant(g) # None
  /\ call' = [call EXCEPT ![u] = [NoCall EXCEPT !.op = "link", !.game = g, !.pc = "link", !.path = Occupant(g)]]
  /\ UNCHANGED <<server, disk, records, memory, runs, leaving, panics, overlap, back>>
LinkSaves(u) ==
  /\ CallStep(u, "link")
  /\ linked' = [linked EXCEPT ![call[u].game] = call[u].path]
  /\ call' = [call EXCEPT ![u] = NoCall]
  /\ UNCHANGED <<server, disk, owned, memory, runs, leaving, panics, moves, overlap, back>>

\* Unlink and StopManaging: one row goes, and then the check.
Release(u, op, g) ==
  /\ IF op = "unlink" THEN Linked(g) ELSE Owned(g)
  /\ Begin(u, op, g, "drop")
  /\ UNCHANGED <<server, disk, records, memory, runs, leaving, panics, overlap, back>>
ReleaseDrops(u) ==
  /\ CallStep(u, "drop")
  /\ linked' = IF call[u].op = "unlink" THEN [linked EXCEPT ![call[u].game] = None] ELSE linked
  /\ owned' = IF call[u].op = "stop" THEN [owned EXCEPT ![call[u].game] = NotOwned] ELSE owned
  /\ call' = [call EXCEPT ![u].pc = "clear"]
  /\ UNCHANGED <<server, disk, memory, runs, leaving, panics, moves, overlap, back>>
ReleaseClears(u) ==
  /\ CallStep(u, "clear") /\ call[u].op \in {"unlink", "stop"}
  /\ check' = [check EXCEPT ![call[u].game] = 0]
  /\ call' = [call EXCEPT ![u] = NoCall] /\ Keeps(check', call')
  /\ UNCHANGED <<server, disk, records, find, found, runs, leaving, panics, moves, overlap, back>>

-----------------------------------------------------------------------------
(* Another server. *)

\* forgetServer: state.db's records go,
Forget ==
  /\ Move /\ ~leaving /\ server < Len(Holds)
  /\ leaving' = TRUE
  /\ owned' = [g \in Games |-> NotOwned] /\ linked' = [g \in Games |-> None]
  /\ UNCHANGED <<server, disk, memory, runs, call, panics, overlap, back>>
\* then what memory holds, and the user signs in to the next.
ForgetFinds ==
  /\ leaving /\ leaving' = FALSE
  /\ find' = NoFind /\ found' = [g \in Games |-> NotFound] /\ check' = [g \in Games |-> 0]
  /\ server' = server + 1
  /\ overlap' = (overlap \/ \E r \in Finds : runs[r].pc \notin {"new", "done"})
  /\ Keeps(check', call)
  /\ UNCHANGED <<disk, records, runs, call, panics, moves, back>>

-----------------------------------------------------------------------------
User ==
  \/ \E p \in Paths, c \in Contents : Write(p, c)
  \/ \E p, q \in Paths : Rename(p, q)
  \/ \E g \in Games : Uninstall(g) \/ CheckOnDeck(g)
  \/ \E r \in Finds, g \in Games \cup {0} : StartFind(r, g)
  \/ \E u \in Callers : AdoptFound(u) \/ \E g \in Games : Adopt(u, g) \/ Link(u, g) \/ \E op \in {"unlink", "stop"} : Release(u, op, g)
  \/ Forget

Run(r) == FindTakes(r) \/ FindAsks(r) \/ FindLists(r) \/ FindHashes(r) \/ (\E p \in Paths : FindStats(r, p))
            \/ \E failed \in BOOLEAN : FindEnds(r, failed)
Compare(j) == CompareAsks(j) \/ CompareFails(j) \/ CompareStats(j) \/ CompareHashes(j)
Call(u) ==
  \/ (\E j \in Checks : AdoptJob(u, j)) \/ AdoptRefused(u) \/ AdoptCurrent(u) \/ AdoptSaves(u) \/ AdoptUnlinks(u)
  \/ AdoptClears(u) \/ AdoptNext(u) \/ AdoptedAll(u) \/ LinkSaves(u) \/ ReleaseDrops(u) \/ ReleaseClears(u)
Backend == (\E r \in Finds : Run(r)) \/ (\E j \in Checks : Compare(j)) \/ (\E u \in Callers : Call(u))
             \/ ForgetFinds

Next == User \/ Backend
Spec == Init /\ [][Next]_vars

\* Every goroutine runs on: a search, a comparison, a call.
Fairness ==
  /\ \A r \in Finds : WF_vars(Run(r))
  /\ \A j \in Checks : WF_vars(Compare(j))
  /\ \A u \in Callers : WF_vars(Call(u))
  /\ WF_vars(ForgetFinds)
FairSpec == Spec /\ Fairness
-----------------------------------------------------------------------------
(* Properties. *)

\* The variables hold values of their types.
TypeOK ==
  /\ server \in Servers /\ wrote \in Seq(Contents) /\ Len(wrote) <= MaxMoves
  /\ file \in [Paths -> 0 .. Len(wrote)]
  /\ owned \in [Games -> [path : Paths \cup {None}, at : 0 .. Len(wrote), of : 0 .. server]]
  /\ linked \in [Games -> Paths \cup {None}]
  /\ find \in [known : BOOLEAN, running : BOOLEAN, adopting : BOOLEAN, failed : BOOLEAN]
  /\ check \in [Games -> 0 .. MaxChecks]
  /\ {leaving, panics, overlap, back} \subseteq BOOLEAN /\ moves \in 0 .. MaxMoves

\* What the plugin adopts is RomM's game: the file a record lists, as of the time it lists, holds
\* what the server it was compared with has for the game, whatever the user did to the folder while
\* it was hashed, kept as found, and adopted, so long as no file came back to where it was looked at
\* before another was hashed there (ondeck.go Adopt, onDeckJob.stale; find.go matchFile).
AdoptedTrue == back \/ \A g \in Games : Owned(g) => Content(owned[g].at) = Holds[owned[g].of][g]
\* "once its check found it's RomM's game" (ondeck.go:479): what is adopted was never another.
AdoptedAlways == \A g \in Games : Owned(g) => Content(owned[g].at) = Holds[owned[g].of][g]

\* No entry is found for two games, and a search for one game keeps what earlier ones found (find.go
\* findIn, runFind): so long as no search outlives its server.
FoundApart ==
  overlap \/ \A g, h \in Games : g # h /\ found[g] # NotFound => found[g].path # found[h].path

\* A search and an Adopt all that began come to an end, and say so, so that another can start
\* (find.go runFind, AdoptFound).
FindSettles ==
  /\ find.running ~> ~find.running
  /\ find.adopting ~> ~find.adopting

\* runFind records "what it finds and how it ended" (find.go:178): it never takes the backend down.
FindRecorded == ~panics

\* "The plugin records it as if it had downloaded it" (ondeck.go:480): a record is of the server the
\* user is signed in to, whose ids it names.
RecordOfServer == \A g \in Games : Owned(g) /\ ~leaving => owned[g].of = server

\* "One that failed, or whose path or files changed since, starts over." (ondeck.go:275): a check
\* that is asked for again never answers for a file that is no longer there.
AsksAnew ==
  \A g \in Games : check[g] # 0 /\ check'[g] = check[g] /\ job[check[g]].pc = "done" /\ CheckOnDeck(g) =>
    job[check[g]].at = file[job[check[g]].path]
CheckedAnew == [][AsksAnew]_vars
=============================================================================
