---------------------------------- MODULE Room ----------------------------------
(***************************************************************************)
(* The room downloads take (downloads.go Queue, checkSpace, pending,       *)
(* roomFor) and the batches planned within it (bulk.go PlanAll, QueueAll): *)
(* a call adds up what the queue has still to download, measures the       *)
(* drives after it, and queues a game after that, while other calls and    *)
(* the downloads go on.                                                    *)
(*                                                                         *)
(* Sizes are small numbers.  Which downloads run, and what else the queue  *)
(* does, is in DownloadQueue.                                              *)
(***************************************************************************)
EXTENDS Integers, Sequences, FiniteSets

CONSTANTS
  Order,        \* the games missing of the batch, by name
  Size,         \* Size[g]: what RomM says g downloads
  Archives,     \* those of them that are extracted, to no more than their size
  Card,         \* those that go to the memory card's drive, by a link; the others stay on "main"
  Capacity,     \* Capacity[d]: each drive's room for games
  spaceMargin,  \* what checkSpace keeps free
  Calls,        \* calls of Queue and QueueAll
  MaxMoves      \* bound: calls begun, failures, retries, the user's files, restarts

Games == {Order[i] : i \in 1..Len(Order)}
Drives == {"main", "card"}
Assumptions ==
  /\ Order \in Seq(Games) /\ \A i, j \in 1..Len(Order) : Order[i] = Order[j] => i = j
  /\ Size \in [Games -> Nat] /\ Capacity \in [Drives -> Nat] /\ {spaceMargin, MaxMoves} \subseteq Nat

VARIABLES
  job,     \* each game: "none", "queued", "unpacked" in staging, "failed" or "installed"
  received, \* what the queue knows of it to be downloaded
  staged,  \* what staging holds of it
  other,   \* what else is on each drive
  call,    \* each call: what it is at, the games it has to queue, the sum it took, and (auxiliary)
           \* whether the queue changed since
  alone,   \* auxiliary: no two calls went on at once, no game went while a call took what was received
           \* of it as there, and nobody else wrote to a drive
  moves

vars == <<job, received, staged, other, call, alone, moves>>

Idle == [at |-> "idle", todo |-> <<>>, ahead |-> 0, changed |-> FALSE]
Init ==
  /\ job = [g \in Games |-> "none"] /\ received = [g \in Games |-> 0]
  /\ staged = [g \in Games |-> 0] /\ other = [d \in Drives |-> 0]
  /\ call = [c \in Calls |-> Idle] /\ alone = TRUE /\ moves = 0

Move == moves < MaxMoves /\ moves' = moves + 1
\* What the games' values in v add up to.
Total(v) ==
  LET sum[i \in 0..Len(Order)] == IF i = 0 THEN 0 ELSE sum[i - 1] + v[Order[i]]
  IN sum[Len(Order)]

-----------------------------------------------------------------------------
(* The room. *)

\* roomFor.
roomFor(g) == IF g \in Archives THEN 2 * Size[g] ELSE Size[g]
\* pending: what isn't failed and has still to come.
pending == Total([g \in Games |-> IF job[g] = "queued" THEN Size[g] - received[g] ELSE 0])
\* Staging is on the main drive; an archive is beside what it was extracted to.
OnMain(g) ==
  staged[g] + (IF job[g] = "unpacked" THEN Size[g] ELSE 0)
    + (IF job[g] = "installed" /\ g \notin Card THEN Size[g] ELSE 0)
OnCard(g) == IF job[g] = "installed" /\ g \in Card THEN Size[g] ELSE 0
Free(d) == Capacity[d] - other[d] - Total([g \in Games |-> IF d = "main" THEN OnMain(g) ELSE OnCard(g)])
DriveOf(g) == IF g \in Card THEN "card" ELSE "main"
\* checkSpace, of staging's drive and the game's.
Fits(need, ahead, g) == \A d \in {"main", DriveOf(g)} : Free(d) >= need + ahead + spaceMargin

\* A retry needs what is left of its download.  Variant: nothing.
RetryFree(g) == IF job[g] = "failed" THEN 0 ELSE roomFor(g)
Need(g) == roomFor(g) - (IF job[g] = "failed" THEN received[g] ELSE 0)

-----------------------------------------------------------------------------
(* The plan of a batch (PlanAll). *)

Missing == {g \in Games : job[g] = "none"}
Folders(games) == {DriveOf(g) : g \in games} \cup {"main"}
\* room: the fullest of the drives.  Variant: the emptiest.
Emptiest(ds) == CHOOSE n \in {Free(d) : d \in ds} : \A d \in ds : Free(d) <= n
Least(ds) == CHOOSE n \in {Free(d) : d \in ds} : \A d \in ds : Free(d) >= n
\* The missing games in the batch's order, each taken that fits in what those before it left.
Fit(free) ==
  LET plan[i \in 0..Len(Order)] ==
        IF i = 0 THEN [games |-> <<>>, left |-> free]
        ELSE LET g == Order[i]
                 before == plan[i - 1]
             IN IF g \in Missing /\ roomFor(g) <= before.left
                THEN [games |-> Append(before.games, g), left |-> before.left - roomFor(g)]
                ELSE before
  IN plan[Len(Order)].games

Planned(c) == Fit(Least(Folders(Missing)) - call[c].ahead - spaceMargin)

Begins(c) == alone' = (alone /\ \A e \in Calls \ {c} : call[e].at = "idle")
\* It sums up the queue, and then measures the drives.
PlanAll(c) ==
  /\ call[c].at = "idle" /\ Move
  /\ call' = [call EXCEPT ![c] = [Idle EXCEPT !.at = "plan", !.ahead = pending]]
  /\ Begins(c)
  /\ UNCHANGED <<job, received, staged, other>>
Plans(c) ==
  /\ call[c].at = "plan"
  \* QueueAll of a batch that doesn't fit queues nothing, unless asked for what fits.
  /\ \E onlyWhatFits \in BOOLEAN :
       call' = [call EXCEPT ![c] =
         IF Planned(c) = <<>> \/ (~onlyWhatFits /\ Len(Planned(c)) < Cardinality(Missing)) THEN Idle
         ELSE [Idle EXCEPT !.at = "next", !.todo = Planned(c)]]
  /\ UNCHANGED <<job, received, staged, other, alone, moves>>

-----------------------------------------------------------------------------
(* Queue, of one game or each of a batch. *)

Queue(c, g) ==
  /\ call[c].at = "idle" /\ Move
  /\ call' = [call EXCEPT ![c] = [Idle EXCEPT !.at = "next", !.todo = <<g>>]] /\ Begins(c)
  /\ UNCHANGED <<job, received, staged, other>>
Rest(c) == IF Len(call[c].todo) = 1 THEN Idle ELSE [Idle EXCEPT !.at = "next", !.todo = Tail(call[c].todo)]
Sums(c) ==
  /\ call[c].at = "next"
  /\ LET g == Head(call[c].todo) IN
       call' = [call EXCEPT ![c] = IF job[g] \in {"none", "failed"}
                                   THEN [call[c] EXCEPT !.at = "measure", !.ahead = pending + Need(g)]
                                   ELSE Rest(c)]
  /\ UNCHANGED <<job, received, staged, other, alone, moves>>
Measures(c) ==
  /\ call[c].at = "measure"
  /\ call' = [call EXCEPT ![c] = IF Fits(0, call[c].ahead, Head(call[c].todo))
                                 THEN [call[c] EXCEPT !.at = "add"] ELSE Rest(c)]
  /\ UNCHANGED <<job, received, staged, other, alone, moves>>
Overtaken == [c \in Calls |-> [call[c] EXCEPT !.changed = call[c].at = "plan"]]
\* A game queued meanwhile stays as it is.
Adds(c) ==
  /\ call[c].at = "add"
  /\ LET g == Head(call[c].todo) IN
       job' = [job EXCEPT ![g] = IF @ \in {"none", "failed"} THEN "queued" ELSE @]
  /\ call' = [Overtaken EXCEPT ![c] = Rest(c)]
  /\ UNCHANGED <<received, staged, other, alone, moves>>

-----------------------------------------------------------------------------
(* The downloads, and whoever else writes to the drives. *)

Receives(g) ==
  /\ job[g] = "queued" /\ received[g] < Size[g]
  /\ IF staged[g] > received[g]
     THEN received' = [received EXCEPT ![g] = staged[g]] /\ UNCHANGED staged
     ELSE /\ Free("main") > 0
          /\ received' = [received EXCEPT ![g] = @ + 1] /\ staged' = [staged EXCEPT ![g] = @ + 1]
  /\ UNCHANGED <<job, other, call, alone, moves>>
\* unpack measures again.
Unpacks(g) ==
  /\ job[g] = "queued" /\ received[g] = Size[g] /\ g \in Archives
  /\ job' = [job EXCEPT ![g] = IF Fits(Size[g], 0, g) THEN "unpacked" ELSE "failed"]
  /\ UNCHANGED <<received, staged, other, call, alone, moves>>
Places(g) ==
  /\ job[g] = (IF g \in Archives THEN "unpacked" ELSE "queued") /\ received[g] = Size[g]
  /\ DriveOf(g) = "card" => Free("card") >= Size[g]
  /\ job' = [job EXCEPT ![g] = "installed"]
  /\ received' = [received EXCEPT ![g] = 0] /\ staged' = [staged EXCEPT ![g] = 0]
  /\ UNCHANGED <<other, call, alone, moves>>
Fails(g) ==
  /\ job[g] \in {"queued", "unpacked"} /\ Move /\ job' = [job EXCEPT ![g] = "failed"]
  /\ UNCHANGED <<received, staged, other, call, alone>>
\* Cancel, with what it downloaded; Delete, with what was placed.
Goes(g) ==
  /\ job[g] # "none" /\ Move /\ job' = [job EXCEPT ![g] = "none"]
  /\ received' = [received EXCEPT ![g] = 0] /\ staged' = [staged EXCEPT ![g] = 0]
  /\ alone' = (alone /\ \A c \in Calls : call[c].at = "measure" => Head(call[c].todo) # g)
  /\ UNCHANGED <<other, call>>
\* The rows the queue keeps don't have what was received.
Restart ==
  /\ Move /\ received' = [g \in Games |-> 0] /\ call' = [c \in Calls |-> Idle]
  /\ job' = [g \in Games |-> IF job[g] = "unpacked" THEN "queued" ELSE job[g]]
  /\ UNCHANGED <<staged, other, alone>>
UserWrites(d) ==
  /\ Free(d) > 0 /\ Move /\ other' = [other EXCEPT ![d] = @ + 1] /\ alone' = FALSE
  /\ UNCHANGED <<job, received, staged, call>>

Calling(c) ==
  PlanAll(c) \/ Plans(c) \/ Sums(c) \/ Measures(c) \/ Adds(c) \/ \E g \in Games : Queue(c, g)
Downloading(g) == Receives(g) \/ Unpacks(g) \/ Places(g) \/ Fails(g) \/ Goes(g)
Next ==
  \/ \E c \in Calls : Calling(c)
  \/ \E g \in Games : Downloading(g)
  \/ Restart \/ \E d \in Drives : UserWrites(d)
Spec == Init /\ [][Next]_vars

-----------------------------------------------------------------------------
(* Properties. *)

\* What a game has of its download never passes its size, and no drive holds more than it has room for.
TypeOK ==
  /\ job \in [Games -> {"none", "queued", "unpacked", "failed", "installed"}]
  /\ \A g \in Games : received[g] \in 0..Size[g] /\ staged[g] \in received[g]..Size[g]
  /\ other \in [Drives -> Nat] /\ \A d \in Drives : Free(d) >= 0
  /\ \A c \in Calls :
       /\ call[c].at \in {"idle", "plan", "next", "measure", "add"}
       /\ \A i \in 1..Len(call[c].todo) : call[c].todo[i] \in Games
       /\ call[c].at \in {"next", "measure", "add"} <=> call[c].todo # <<>>
       /\ call[c].ahead \in Nat /\ call[c].changed \in BOOLEAN
  /\ alone \in BOOLEAN /\ moves \in 0..MaxMoves

contents == Total([g \in Games |-> IF job[g] = "unpacked" THEN Size[g] ELSE 0])
coming == Total([g \in Games |-> IF job[g] = "queued" THEN Size[g] - staged[g] ELSE 0])
\* One call after another, what the queue took on fits the main drive, and leaves the margin free but for
\* what archives are extracted to, whatever failed, was retried, cancelled or restarted
\* (checkSpace, pending, Queue's retry).
Committed ==
  alone /\ coming > 0 => Free("main") + contents >= coming + spaceMargin
\* "checkSpace fails when ... hasn't room for need bytes after the ahead bytes the queue has still to
\* download, keeping spaceMargin free" (downloads.go:1127).
CommittedAlways ==
  other["main"] = 0 /\ coming > 0 => Free("main") >= coming + spaceMargin

\* "so a plan never promises room a drive doesn't have" (bulk.go:34): what a plan fits has room on every
\* drive it goes to, whatever downloads while it is made, unless the queue changed meanwhile.
PlanHolds ==
  \A c \in Calls : call[c].at = "plan" /\ ~call[c].changed =>
    LET fit == {Planned(c)[i] : i \in 1..Len(Planned(c))}
        needs == Total([g \in Games |-> IF g \in fit THEN roomFor(g) ELSE 0])
    IN \A g \in fit : needs + pending + spaceMargin <= Free(DriveOf(g))
=============================================================================
