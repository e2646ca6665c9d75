------------------------- MODULE DownloadQueueProofs -------------------------
(* Theorems of DownloadQueue, for every set of games and goroutines, every *)
(* limit and every bound.                                                  *)
EXTENDS DownloadQueue, FiniteSetTheorems, TLAPS

-----------------------------------------------------------------------------
(* The slots. *)

\* A game that isn't in the queue has no run goroutine.
JobsInQueue == \A g \in Games : job[g].state = "none" => job[g].pc = "none"

\* The types but running's, which follows from SlotsAccounted.
Types ==
  /\ job \in [Games -> Job]
  /\ ahead \in [Games -> SUBSET Games]
  /\ held \in BOOLEAN /\ watchers \in Nat
  /\ thr \in [Threads -> Thread]
  /\ resume \in Resuming
  /\ stopping \in BOOLEAN
  /\ rows \in [Games -> Row] /\ staging \subseteq Games
  /\ owned \in [Games -> {"none", "owned", "update"}]
  /\ signedIn \in BOOLEAN /\ room \in BOOLEAN /\ gameOn \in BOOLEAN
  /\ calls \in Nat /\ stops \in Nat
  /\ raced \subseteq Games

SlotsInv == TypeOK /\ JobsInQueue /\ SlotsAccounted

\* A set of games has a number of members.
LEMMA GamesCount == \A S \in SUBSET Games : IsFiniteSet(S) /\ Cardinality(S) \in Nat
  BY FS_Subset, FS_CardinalityType, GamesFinite

\* What a pump does: it starts a set of startable games, each taking a slot.
LEMMA PumpSlots ==
  ASSUME SlotsInv, NEW S \in SUBSET Games, S \subseteq Startable,
         running' = running + Cardinality(S),
         InSlot' = InSlot \cup S
  PROVE  SlotsAccounted'
<1>1. InSlot \in SUBSET Games /\ S \cap InSlot = {}
  BY DEF InSlot, Startable
<1>2. Cardinality(InSlot \cup S) = Cardinality(InSlot) + Cardinality(S)
  <2>1. Cardinality(InSlot \cup S) = Cardinality(InSlot) + Cardinality(S) - Cardinality(InSlot \cap S)
    BY <1>1, GamesCount, FS_Union
  <2>2. Cardinality(InSlot \cap S) = 0
    BY <1>1, FS_EmptySet
  <2> QED BY <2>1, <2>2, <1>1, GamesCount
<1> QED BY <1>2 DEF SlotsAccounted, SlotsInv, TypeOK

\* One game takes a slot, or gives it up.
LEMMA OneSlot ==
  ASSUME SlotsInv, NEW g \in Games
  PROVE  /\ (g \notin InSlot /\ InSlot' = InSlot \cup {g} /\ running' = running + 1) => SlotsAccounted'
         /\ (g \in InSlot /\ InSlot' = InSlot \ {g} /\ running' = running - 1) => SlotsAccounted'
<1>1. InSlot \in SUBSET Games
  BY DEF InSlot
<1>2. /\ g \notin InSlot => Cardinality(InSlot \cup {g}) = Cardinality(InSlot) + 1
      /\ g \in InSlot => Cardinality(InSlot \ {g}) = Cardinality(InSlot) - 1
  BY <1>1, GamesCount, FS_AddElement, FS_RemoveElement
<1> QED BY <1>2 DEF SlotsAccounted, SlotsInv

\* Every pump accounts for the slots it hands out.
LEMMA PumpStep == SlotsInv /\ Pump => SlotsAccounted'
<1> SUFFICES ASSUME SlotsInv, Pump PROVE SlotsAccounted'
  OBVIOUS
<1>1. PICK S \in SUBSET Games :
        /\ IF held THEN S = {} ELSE Starts(S)
        /\ running' = running + Cardinality(S)
        /\ job' = [g \in Games |-> IF g \in S THEN [job[g] EXCEPT !.pc = "signin"] ELSE job[g]]
  BY DEF Pump
<1>2. S \subseteq Startable
  BY <1>1 DEF Starts
<1>3. InSlot' = InSlot \cup S
  BY <1>1, <1>2 DEF InSlot, Startable, SlotsInv, TypeOK, Job
<1> QED BY <1>1, <1>2, <1>3, PumpSlots

\* Each step keeps the count of slots.
LEMMA SlotsStep == SlotsInv /\ [Next]_vars => SlotsAccounted'
<1> SUFFICES ASSUME SlotsInv, [Next]_vars PROVE SlotsAccounted'
  OBVIOUS
<1> USE DEF SlotsInv, TypeOK, Job, memory, disk, world, bounds
<1>1. ASSUME InSlot' = InSlot, running' = running PROVE SlotsAccounted'
  BY <1>1 DEF SlotsAccounted
<1>2. ASSUME NEW t \in Threads, ThreadStep(t) \/ WatchPoll(t) PROVE SlotsAccounted'
  <2>1. CASE QueueAdd(t)
    BY <2>1, <1>1 DEF QueueAdd, InSlot, InQueue, NewJob, NoJob, JobsInQueue, UnderWay
  <2>2. CASE ReleasePump(t) \/ LastPump(t)
    BY <2>2, PumpStep DEF ReleasePump, LastPump
  <2>3. CASE UNCHANGED <<job, running>>
    BY <2>3, <1>1 DEF InSlot
  <2> QED BY <1>2, <2>1, <2>2, <2>3
          DEF ThreadStep, QueueRefuse, SaveRow, DropRow, DropStaging, Hold, Release, Unhold, WatchPoll
<1>3. ASSUME NEW g \in Games, RunStep(g) PROVE SlotsAccounted'
  <2>1. CASE Begin(g)
    BY <2>1, <1>1 DEF Begin, InSlot
  <2>2. CASE Fetched(g)
    <3>1. CASE job' = [job EXCEPT ![g].pc = "work"] /\ UNCHANGED running
      BY <2>2, <3>1, <1>1 DEF Fetched, InSlot
    <3>2. CASE job' = [job EXCEPT ![g].pc = "yield"] /\ running' = running - 1
      <4>1. g \in InSlot /\ InSlot' = InSlot \ {g}
        BY <2>2, <3>2 DEF Fetched, InSlot
      <4> QED BY <3>2, <4>1, OneSlot
    <3> QED BY <2>2, <3>1, <3>2 DEF Fetched
  <2>3. CASE YieldPump(g)
    <3>1. PICK S \in SUBSET Games :
            /\ IF held THEN S = {} ELSE Starts(S)
            /\ running' = running + Cardinality(S)
            /\ job' = [h \in Games |-> IF h = g THEN [job[h] EXCEPT !.pc = "game"]
                                         ELSE IF h \in S THEN [job[h] EXCEPT !.pc = "signin"]
                                         ELSE job[h]]
      BY <2>3 DEF YieldPump
    <3>2. S \subseteq Startable
      BY <3>1 DEF Starts
    <3>3. InSlot' = InSlot \cup S
      BY <2>3, <3>1, <3>2 DEF InSlot, Startable, YieldPump
    <3> QED BY <3>1, <3>2, <3>3, PumpSlots
  <2>4. CASE GameClosed(g)
    BY <2>4, OneSlot DEF GameClosed, InSlot
  <2>5. CASE Install(g) \/ Abandon(g)
    <3>1. InSlot' = InSlot /\ running' = running
      BY <2>5 DEF Install, Abandon, InSlot
    <3> QED BY <3>1, <1>1
  <2>6. CASE Fails(g)
    BY <2>6, <1>1 DEF Fails, EndsWith, InSlot
  <2>7. CASE Interrupted(g)
    BY <2>7, <1>1, OneSlot DEF Interrupted, EndsWith, InSlot
  <2> QED BY <1>3, <2>1, <2>2, <2>3, <2>4, <2>5, <2>6, <2>7 DEF RunStep
<1>4. ASSUME NEW t \in Threads, NEW g \in Games,
             QueueCheck(t, g) \/ CancelWaiting(t, g) \/ Finish(g, t)
      PROVE  SlotsAccounted'
  <2>1. CASE QueueCheck(t, g)
    BY <2>1, <1>1 DEF QueueCheck, InSlot
  <2>2. CASE CancelWaiting(t, g)
    BY <2>2, <1>1 DEF CancelWaiting, Removed, InSlot, NoJob
  <2>3. CASE Finish(g, t)
    <3>1. g \in InSlot /\ running' = running - 1
      BY <2>3 DEF Finish, InSlot
    <3>2. \A h \in Games \ {g} : job'[h] = job[h]
      BY <2>3 DEF Finish, Removed
    <3>3. job'[g].pc = "none"
      <4>1. CASE job[g].err \in {"nil", "canceled"}
        BY <2>3, <4>1 DEF Finish, Removed, NoJob
      <4>2. CASE job[g].err \notin {"nil", "canceled"}
        BY <2>3, <4>2 DEF Finish, Failed
      <4> QED BY <4>1, <4>2
    <3>4. InSlot' = InSlot \ {g}
      BY <3>2, <3>3 DEF InSlot
    <3> QED BY <3>1, <3>4, OneSlot
  <2> QED BY <1>4, <2>1, <2>2, <2>3
<1>5. ASSUME NEW g \in Games, CancelRunning(g) \/ CutOff(g) PROVE SlotsAccounted'
  BY <1>5, <1>1 DEF CancelRunning, CutOff, InSlot
<1>6. CASE ResumeStep
  <2>1. CASE ResumeMerge
    BY <2>1, <1>1 DEF ResumeMerge, InSlot, InQueue, NewJob, NoJob, JobsInQueue
  <2>2. CASE ResumePump
    BY <2>2, PumpStep DEF ResumePump
  <2> QED BY <1>6, <1>1, <2>1, <2>2
          DEF ResumeStep, ResumeLoad, ResumeRow, ResumeClean, InSlot
<1>7. CASE Stop \/ Environment \/ UNCHANGED vars
  BY <1>7, <1>1 DEF Stop, Environment, SignIn, Space, Play, Ownership, vars, InSlot
<1>8. CASE Exit \/ Die
  <2>1. InSlot' = {} /\ running' = 0
    BY <1>8 DEF Exit, Die, NewProcess, NoJob, InSlot
  <2> QED BY <2>1, FS_EmptySet DEF SlotsAccounted
<1> QED BY <1>2, <1>3, <1>4, <1>5, <1>6, <1>7, <1>8 DEF Next, Step

\* Each step keeps a game that isn't in the queue without a run goroutine.
LEMMA JobsStep == SlotsInv /\ [Next]_vars => JobsInQueue'
<1> SUFFICES ASSUME SlotsInv, [Next]_vars PROVE JobsInQueue'
  OBVIOUS
<1> USE DEF SlotsInv, TypeOK, Job, memory, disk, world, bounds
<1>1. Pump => JobsInQueue'
  BY DEF Pump, Starts, Startable, InQueue, JobsInQueue
<1>2. ASSUME NEW t \in Threads, ThreadStep(t) \/ WatchPoll(t) PROVE JobsInQueue'
  <2>1. CASE QueueAdd(t)
    BY <2>1 DEF QueueAdd, InQueue, JobsInQueue, NewJob, NoJob
  <2>2. CASE ReleasePump(t) \/ LastPump(t)
    BY <1>1, <2>2 DEF ReleasePump, LastPump
  <2>3. CASE UNCHANGED job
    BY <2>3 DEF JobsInQueue
  <2> QED BY <1>2, <2>1, <2>2, <2>3
          DEF ThreadStep, QueueRefuse, SaveRow, DropRow, DropStaging, Hold, Release, Unhold, WatchPoll
<1>3. ASSUME NEW g \in Games, RunStep(g) PROVE JobsInQueue'
  <2>1. CASE Begin(g)
    BY <2>1 DEF Begin, JobsInQueue
  <2>3. CASE Fetched(g) \/ GameClosed(g) \/ Install(g) \/ Abandon(g)
    BY <2>3 DEF Fetched, GameClosed, Install, Abandon, JobsInQueue
  <2>4. CASE Interrupted(g) \/ Fails(g)
    <3>1. PICK err \in {"canceled", "error", "nospace"} : EndsWith(g, err)
      BY <2>4 DEF Interrupted, Fails
    <3> QED BY <2>4, <3>1 DEF Interrupted, Fails, EndsWith, JobsInQueue
  <2>2. CASE YieldPump(g)
    BY <2>2 DEF YieldPump, Starts, Startable, InQueue, JobsInQueue
  <2> QED BY <1>3, <2>1, <2>2, <2>3, <2>4 DEF RunStep
<1>4. ASSUME NEW t \in Threads, NEW g \in Games,
             QueueCheck(t, g) \/ CancelWaiting(t, g) \/ Finish(g, t)
      PROVE  JobsInQueue'
  BY <1>4 DEF QueueCheck, CancelWaiting, Finish, Failed, Removed, NoJob, JobsInQueue
<1>5. ASSUME NEW g \in Games, CancelRunning(g) \/ CutOff(g) PROVE JobsInQueue'
  BY <1>5 DEF CancelRunning, CutOff, JobsInQueue
<1>6. CASE ResumeStep
  <2>1. CASE ResumeMerge
    BY <2>1 DEF ResumeMerge, InQueue, NewJob, NoJob, JobsInQueue
  <2>2. CASE ResumePump
    BY <1>1, <2>2 DEF ResumePump
  <2> QED BY <1>6, <2>1, <2>2 DEF ResumeStep, ResumeLoad, ResumeRow, ResumeClean, JobsInQueue
<1>7. CASE Stop \/ Environment \/ Exit \/ Die \/ UNCHANGED vars
  BY <1>7 DEF Stop, Environment, SignIn, Space, Play, Ownership, Exit, Die, NewProcess, NoJob, vars,
              JobsInQueue
<1> QED BY <1>2, <1>3, <1>4, <1>5, <1>6, <1>7 DEF Next, Step

\* Records keep their types when the actions update them.
LEMMA JobUpdates ==
  ASSUME NEW j \in Job
  PROVE  /\ \A pc \in RunPC : [j EXCEPT !.pc = pc] \in Job
         /\ [j EXCEPT !.cancelled = TRUE] \in Job
         /\ [j EXCEPT !.state = "queued"] \in Job
         /\ [j EXCEPT !.pc = "fetch", !.state = "downloading", !.partial = TRUE] \in Job
         /\ \A err \in {"canceled", "error", "nospace"} : [j EXCEPT !.pc = "ended", !.err = err] \in Job
         /\ Record(j) \in Row
         /\ Failed(j) \in Job
<1> USE DEF Job, RunPC
<1>1. \A pc \in RunPC : [j EXCEPT !.pc = pc] \in Job
  OBVIOUS
<1>2. [j EXCEPT !.cancelled = TRUE] \in Job /\ [j EXCEPT !.state = "queued"] \in Job
  OBVIOUS
<1>3. [j EXCEPT !.pc = "fetch", !.state = "downloading", !.partial = TRUE] \in Job
  OBVIOUS
<1>4. \A err \in {"canceled", "error", "nospace"} : [j EXCEPT !.pc = "ended", !.err = err] \in Job
  OBVIOUS
<1>5. Record(j) \in Row
  BY DEF Record, Row
<1>6. Failed(j) \in Job
  BY DEF Failed
<1> QED BY <1>1, <1>2, <1>3, <1>4, <1>5, <1>6

\* A goroutine's record keeps its type when an action updates it.
LEMMA ThreadUpdates ==
  /\ Idle \in Thread
  /\ \A x \in Thread, pc \in ThreadPC : [x EXCEPT !.pc = pc] \in Thread
  /\ \A x \in Thread, pc \in ThreadPC, row \in Row : [x EXCEPT !.pc = pc, !.row = row] \in Thread
  /\ \A x \in Thread, pc \in ThreadPC, row \in Row : [x EXCEPT !.row = row, !.pc = pc] \in Thread
  /\ \A pc \in ThreadPC, op \in Op, g \in Games : [Idle EXCEPT !.pc = pc, !.op = op, !.g = g] \in Thread
  /\ \A pc \in ThreadPC, op \in Op : [Idle EXCEPT !.pc = pc, !.op = op] \in Thread
<1>1. Idle = [pc |-> "idle", op |-> "none", g |-> NoGame, row |-> NoRow]
  BY DEF Idle
<1>2. NoRow \in Row
  BY DEF NoRow, Row
<1>3. Idle \in Thread
  BY <1>1, <1>2 DEF Thread, ThreadPC, Op
<1>4. \A x \in Thread, pc \in ThreadPC : [x EXCEPT !.pc = pc] \in Thread
  BY DEF Thread
<1>5. \A x \in Thread, pc \in ThreadPC, row \in Row :
        [x EXCEPT !.pc = pc, !.row = row] \in Thread /\ [x EXCEPT !.row = row, !.pc = pc] \in Thread
  BY DEF Thread
<1>6. \A pc \in ThreadPC, op \in Op, g \in Games : [Idle EXCEPT !.pc = pc, !.op = op, !.g = g] \in Thread
  BY <1>3 DEF Thread
<1>7. \A pc \in ThreadPC, op \in Op : [Idle EXCEPT !.pc = pc, !.op = op] \in Thread
  BY <1>3 DEF Thread
<1> QED BY <1>3, <1>4, <1>5, <1>6, <1>7

\* The records actions make anew have their types.
LEMMA NewRecords ==
  /\ NoRow \in Row /\ NoJob \in Job /\ Fresh \in Resuming
  /\ \A update \in BOOLEAN : NewJob(update) \in Job
  /\ \A q \in Row : [NewJob(q.update) EXCEPT !.partial = q.partial,
                                            !.state = IF q.failed THEN "failed" ELSE "queued"] \in Job
<1>1. NoRow \in Row /\ NoJob \in Job
  BY DEF NoRow, Row, NoJob, Job, RunPC
<1>2. Fresh \in Resuming
  BY <1>1 DEF Fresh, Resuming
<1>3. \A update \in BOOLEAN : NewJob(update) \in Job
  BY <1>1 DEF NewJob, Job
<1>4. ASSUME NEW q \in Row
      PROVE  [NewJob(q.update) EXCEPT !.partial = q.partial,
                                      !.state = IF q.failed THEN "failed" ELSE "queued"] \in Job
  <2>1. q.update \in BOOLEAN /\ q.partial \in BOOLEAN
    BY DEF Row
  <2>2. NewJob(q.update) \in Job
    BY <1>3, <2>1
  <2> QED BY <2>1, <2>2 DEF Job
<1> QED BY <1>1, <1>2, <1>3, <1>4

\* Each step keeps the types but running's.
LEMMA TypesStep == SlotsInv /\ [Next]_vars => Types'
<1> SUFFICES ASSUME SlotsInv, [Next]_vars PROVE Types'
  OBVIOUS
<1> USE DEF SlotsInv, TypeOK, memory, disk, world, bounds
<1>1. Pump => job' \in [Games -> Job]
  BY JobUpdates DEF Pump, RunPC
<1>2. ASSUME NEW t \in Threads, ThreadStep(t) \/ WatchPoll(t), raced' = raced \cup {h \in Games : Overlap(h)'}
      PROVE  Types'
  <2>1. thr[t] \in Thread
    OBVIOUS
  <2>2. \A pc \in ThreadPC : Goto(t, pc) \in [Threads -> Thread]
    BY <2>1, ThreadUpdates DEF Goto
  <2>3. [thr EXCEPT ![t] = Idle] \in [Threads -> Thread]
    BY ThreadUpdates
  <2>4. CASE QueueRefuse(t)
    BY <1>2, <2>3, <2>4 DEF QueueRefuse, Types
  <2>5. CASE QueueAdd(t)
    <3> DEFINE g == thr[t].g
               j == IF g \in InQueue THEN [job[g] EXCEPT !.state = "queued"]
                                     ELSE NewJob(thr[t].row.update)
    <3>1. thr[t].row.update \in BOOLEAN
      BY <2>1 DEF Thread, Row
    <3>2. j \in Job
      BY <3>1, JobUpdates, NewRecords DEF InQueue
    <3>3. /\ job' = [job EXCEPT ![g] = j]
          /\ thr' = [thr EXCEPT ![t] = [@ EXCEPT !.pc = "save", !.row = Record(j)]]
      BY <2>5 DEF QueueAdd
    <3>4. [thr[t] EXCEPT !.pc = "save", !.row = Record(j)] \in Thread
      BY <2>1, <3>2, JobUpdates, ThreadUpdates DEF ThreadPC
    <3>5. job' \in [Games -> Job] /\ thr' \in [Threads -> Thread]
      BY <3>2, <3>3, <3>4
    <3>6. ahead' \in [Games -> SUBSET Games]
      BY <2>5 DEF QueueAdd, InQueue
    <3> QED BY <1>2, <2>5, <3>5, <3>6 DEF QueueAdd, Types
  <2>6. CASE SaveRow(t)
    <3>1. thr[t].row \in Row
      BY <2>1 DEF Thread
    <3>2. PICK pc \in ThreadPC : thr' = [thr EXCEPT ![t] = [@ EXCEPT !.row = NoRow, !.pc = pc]]
      BY <2>6 DEF SaveRow, ThreadPC
    <3>3. thr' \in [Threads -> Thread]
      BY <2>1, <3>2, ThreadUpdates, NewRecords
    <3> QED BY <1>2, <2>6, <3>1, <3>3 DEF SaveRow, Types
  <2>7. CASE DropRow(t)
    BY <1>2, <2>2, <2>7, NewRecords DEF DropRow, Types, ThreadPC
  <2>8. CASE DropStaging(t)
    BY <1>2, <2>2, <2>8 DEF DropStaging, Types, ThreadPC
  <2>9. CASE Hold(t)
    BY <1>2, <2>2, <2>9 DEF Hold, Types, ThreadPC
  <2>10. CASE Unhold(t)
    BY <1>2, <2>2, <2>10 DEF Unhold, Types, ThreadPC
  <2>11. ASSUME NEW off \in BOOLEAN, Released(t, off)
         PROVE  thr' \in [Threads -> Thread] /\ watchers' \in Nat
    <3>1. [thr[t] EXCEPT !.pc = "pump"] \in Thread
      BY <2>1, ThreadUpdates DEF ThreadPC
    <3>2. PICK next \in Thread : thr' = [thr EXCEPT ![t] = next]
      BY <2>11, <3>1, ThreadUpdates DEF Released
    <3>3. watchers' \in Nat
      BY <2>11 DEF Released
    <3> QED BY <3>2, <3>3
  <2>12. CASE Release(t)
    <3>1. CASE ~held /\ Released(t, TRUE)
      BY <1>2, <2>11, <2>12, <3>1 DEF Release, Types
    <3>2. CASE held /\ Startable # {} /\ ~room /\ Released(t, FALSE)
      BY <1>2, <2>11, <2>12, <3>2 DEF Release, Types
    <3>3. CASE thr' = Goto(t, "unhold") /\ UNCHANGED watchers
      BY <1>2, <2>2, <2>12, <3>3 DEF Release, Types, ThreadPC
    <3> QED BY <2>12, <3>1, <3>2, <3>3 DEF Release
  <2>13. CASE ReleasePump(t)
    BY <1>1, <1>2, <2>11, <2>13 DEF ReleasePump, Types
  <2>14. CASE LastPump(t)
    BY <1>1, <1>2, <2>3, <2>14 DEF LastPump, Types
  <2>15. CASE WatchPoll(t)
    <3>1. [Idle EXCEPT !.pc = "release", !.op = "watch"] \in Thread
      BY ThreadUpdates DEF ThreadPC, Op
    <3> QED BY <1>2, <2>15, <3>1 DEF WatchPoll, Types
  <2> QED BY <1>2, <2>4, <2>5, <2>6, <2>7, <2>8, <2>9, <2>10, <2>12, <2>13, <2>14, <2>15 DEF ThreadStep
<1>3. ASSUME NEW g \in Games, RunStep(g), raced' = raced \cup {h \in Games : Overlap(h)'}
      PROVE  Types'
  <2>1. job[g] \in Job
    OBVIOUS
  <2>2. \A pc \in RunPC : [job EXCEPT ![g].pc = pc] \in [Games -> Job]
    BY <2>1, JobUpdates
  <2>3. CASE Begin(g)
    <3>1. job' \in [Games -> Job]
      BY <2>1, <2>3, JobUpdates DEF Begin
    <3>2. [Record(job[g]) EXCEPT !.partial = TRUE] \in Row
      BY <2>1, JobUpdates DEF Row
    <3>3. rows' \in [Games -> Row]
      BY <2>3, <3>2 DEF Begin
    <3> QED BY <1>3, <2>3, <3>1, <3>3 DEF Begin, Types
  <2>4. CASE Fetched(g)
    BY <1>3, <2>2, <2>4 DEF Fetched, Types, RunPC
  <2>5. CASE YieldPump(g)
    <3>1. PICK S \in SUBSET Games :
            job' = [h \in Games |-> IF h = g THEN [job[h] EXCEPT !.pc = "game"]
                                      ELSE IF h \in S THEN [job[h] EXCEPT !.pc = "signin"]
                                      ELSE job[h]]
      BY <2>5 DEF YieldPump
    <3>2. \A h \in Games : /\ [job[h] EXCEPT !.pc = "game"] \in Job
                           /\ [job[h] EXCEPT !.pc = "signin"] \in Job
      BY JobUpdates DEF RunPC
    <3>3. job' \in [Games -> Job]
      BY <3>1, <3>2
    <3> QED BY <1>3, <2>5, <3>3 DEF YieldPump, Types
  <2>6. CASE GameClosed(g)
    BY <1>3, <2>2, <2>6 DEF GameClosed, Types, RunPC
  <2>7. CASE Install(g)
    BY <1>3, <2>2, <2>7 DEF Install, Types, RunPC
  <2>8. ASSUME NEW err \in {"canceled", "error", "nospace"}, EndsWith(g, err)
        PROVE  job' \in [Games -> Job]
    BY <2>1, <2>8, JobUpdates DEF EndsWith
  <2>9. CASE Interrupted(g) \/ Fails(g)
    <3>1. job' \in [Games -> Job]
      BY <2>8, <2>9 DEF Interrupted, Fails
    <3> QED BY <1>3, <2>9, <3>1 DEF Interrupted, Fails, Types
  <2>10. CASE Abandon(g)
    BY <1>3, <2>2, <2>10 DEF Abandon, Types, RunPC
  <2> QED BY <1>3, <2>3, <2>4, <2>5, <2>6, <2>7, <2>9, <2>10 DEF RunStep
<1>4. ASSUME NEW t \in Threads, NEW g \in Games,
             QueueCheck(t, g) \/ CancelWaiting(t, g) \/ Finish(g, t), raced' = raced \cup {h \in Games : Overlap(h)'}
      PROVE  Types'
  <2>1. Removed(g) => job' \in [Games -> Job] /\ ahead' \in [Games -> SUBSET Games]
    <3>1. CASE Removed(g)
      <4>1. job' = [job EXCEPT ![g] = NoJob] /\ NoJob \in Job
        BY <3>1, NewRecords DEF Removed
      <4>2. ahead' = [h \in Games |-> IF h = g THEN {} ELSE ahead[h] \ {g}]
        BY <3>1 DEF Removed
      <4> QED BY <4>1, <4>2
    <3> QED BY <3>1
  <2>2. \A op \in Op : [thr EXCEPT ![t] = [Idle EXCEPT !.pc = "dropRow", !.op = op, !.g = g]]
                          \in [Threads -> Thread]
    BY ThreadUpdates DEF ThreadPC
  <2>3. ASSUME NEW j \in Job, NEW pc \in ThreadPC, NEW op \in Op
        PROVE  [pc |-> pc, op |-> op, g |-> g, row |-> Record(j)] \in Thread
    BY JobUpdates DEF Thread
  <2>4. CASE QueueCheck(t, g)
    <3> DEFINE update == owned[g] = "update"
    <3>1. NewJob(update) \in Job
      BY NewRecords
    <3>2. [pc |-> "add", op |-> "queue", g |-> g, row |-> Record(NewJob(update))] \in Thread
      BY <2>3, <3>1 DEF ThreadPC, Op
    <3>3. thr' \in [Threads -> Thread] /\ calls' \in Nat
      BY <2>4, <3>2 DEF QueueCheck
    <3> QED BY <1>4, <2>4, <3>3 DEF QueueCheck, Types
  <2>5. CASE CancelWaiting(t, g)
    BY <1>4, <2>1, <2>2, <2>5 DEF CancelWaiting, Types, Op
  <2>6. CASE Finish(g, t)
    <3>1. CASE job[g].err \in {"nil", "canceled"}
      BY <1>4, <2>1, <2>2, <2>6, <3>1 DEF Finish, Types, Op
    <3>2. CASE job[g].err \notin {"nil", "canceled"}
      <4>1. Failed(job[g]) \in Job
        BY JobUpdates
      <4>2. job' = [job EXCEPT ![g] = Failed(job[g])]
        BY <2>6, <3>2 DEF Finish
      <4>3. PICK op \in Op :
              thr' = [thr EXCEPT ![t] = [pc |-> "save", g |-> g, row |-> Record(Failed(job[g])), op |-> op]]
        BY <2>6, <3>2 DEF Finish, Op
      <4>4. [pc |-> "save", g |-> g, row |-> Record(Failed(job[g])), op |-> op] \in Thread
        BY <4>1, <2>3 DEF ThreadPC
      <4>5. job' \in [Games -> Job] /\ thr' \in [Threads -> Thread]
        BY <4>1, <4>2, <4>3, <4>4
      <4> QED BY <1>4, <2>6, <3>2, <4>5 DEF Finish, Types
    <3> QED BY <3>1, <3>2
  <2> QED BY <1>4, <2>4, <2>5, <2>6
<1>5. ASSUME NEW g \in Games, CancelRunning(g) \/ CutOff(g), raced' = raced \cup {h \in Games : Overlap(h)'}
      PROVE  Types'
  <2>1. job' \in [Games -> Job] /\ calls' \in Nat
    <3>1. [job[g] EXCEPT !.cancelled = TRUE] \in Job /\ [job[g] EXCEPT !.pc = "signin"] \in Job
      BY JobUpdates DEF RunPC
    <3>2. CASE CancelRunning(g)
      BY <3>1, <3>2 DEF CancelRunning
    <3>3. CASE CutOff(g)
      BY <3>1, <3>3 DEF CutOff
    <3> QED BY <1>5, <3>2, <3>3
  <2> QED BY <1>5, <2>1 DEF CancelRunning, CutOff, Types
<1>6. ASSUME ResumeStep, raced' = raced \cup {h \in Games : Overlap(h)'}
      PROVE  Types'
  <2>1. CASE ResumeLoad
    <3>1. resume' \in Resuming
      BY <2>1 DEF ResumeLoad, Resuming
    <3> QED BY <1>6, <2>1, <3>1 DEF ResumeLoad, Types
  <2>2. ASSUME NEW g \in Games, ResumeRow(g)
        PROVE  Types'
    <3>1. resume' \in Resuming /\ rows' \in [Games -> Row]
      BY <2>2, NewRecords DEF ResumeRow, Resuming
    <3> QED BY <1>6, <2>2, <3>1 DEF ResumeRow, Types
  <2>3. CASE ResumeMerge
    <3> DEFINE restored == {g \in Games : resume.saved[g].in /\ g \notin InQueue}
               FromRow(q) == [NewJob(q.update) EXCEPT !.partial = q.partial,
                                                      !.state = IF q.failed THEN "failed" ELSE "queued"]
    <3>1. job' = [g \in Games |-> IF g \in restored THEN FromRow(resume.saved[g]) ELSE job[g]]
      BY <2>3 DEF ResumeMerge
    <3>2. job' \in [Games -> Job]
      BY <3>1, NewRecords DEF Resuming
    <3>3. PICK place \in [restored -> 1 .. Cardinality(restored)] :
            ahead' = [g \in Games |->
                        IF g \in restored THEN {h \in restored : place[h] < place[g]}
                        ELSE IF g \in InQueue THEN ahead[g] \cup restored ELSE {}]
      BY <2>3 DEF ResumeMerge
    <3>4. restored \subseteq Games /\ InQueue \subseteq Games
      BY DEF InQueue
    <3>5. ahead' \in [Games -> SUBSET Games]
      BY <3>3, <3>4
    <3>6. resume' = [Fresh EXCEPT !.pc = "clean", !.keep = InQueue \cup restored]
      BY <2>3 DEF ResumeMerge
    <3>7. resume' \in Resuming
      BY <3>4, <3>6, NewRecords DEF Resuming
    <3> QED BY <1>6, <2>3, <3>2, <3>5, <3>7 DEF ResumeMerge, Types
  <2>4. CASE ResumeClean
    <3>1. resume' \in Resuming
      BY <2>4, NewRecords DEF ResumeClean, Resuming
    <3> QED BY <1>6, <2>4, <3>1 DEF ResumeClean, Types
  <2>5. CASE ResumePump
    <3>1. resume' \in Resuming
      BY <2>5, NewRecords DEF ResumePump, Resuming
    <3> QED BY <1>1, <1>6, <2>5, <3>1 DEF ResumePump, Types
  <2> QED BY <1>6, <2>1, <2>2, <2>3, <2>4, <2>5 DEF ResumeStep
<1>7. ASSUME Stop \/ SignIn \/ Space \/ Play, raced' = raced \cup {h \in Games : Overlap(h)'}
      PROVE  Types'
  <2>1. CASE Stop
    BY <1>7, <2>1 DEF Stop, Types
  <2>2. CASE SignIn \/ Space \/ Play
    BY <1>7, <2>2 DEF SignIn, Space, Play, Types
  <2> QED BY <1>7, <2>1, <2>2
<1>8. ASSUME NEW g \in Games, Ownership(g), raced' = raced \cup {h \in Games : Overlap(h)'}
      PROVE  Types'
  BY <1>8 DEF Ownership, Types
<1>9. ASSUME Exit \/ Die, raced' = {}
      PROVE  Types'
  <2>1. /\ job' \in [Games -> Job] /\ ahead' \in [Games -> SUBSET Games]
        /\ thr' \in [Threads -> Thread] /\ resume' \in Resuming
    BY <1>9, NewRecords, ThreadUpdates DEF Exit, Die, NewProcess
  <2>2. held' = FALSE /\ watchers' = 0 /\ stopping' = FALSE
    BY <1>9 DEF Exit, Die, NewProcess
  <2>3. UNCHANGED <<rows, staging, owned, signedIn, room, gameOn, calls>>
    BY <1>9 DEF Exit, Die, NewProcess
  <2>4. stops' \in Nat
    BY <1>9 DEF Exit, Die
  <2> QED BY <1>9, <2>1, <2>2, <2>3, <2>4 DEF Types
<1>10. CASE UNCHANGED vars
  BY <1>10 DEF vars, Types
<1> QED BY <1>2, <1>3, <1>4, <1>5, <1>6, <1>7, <1>8, <1>9, <1>10 DEF Next, Step, Environment

\* The first state.
LEMMA SlotsInit == Init => SlotsInv
<1> SUFFICES ASSUME Init PROVE SlotsInv
  OBVIOUS
<1>1. TypeOK
  BY NewRecords, ThreadUpdates DEF Init, TypeOK
<1>2. JobsInQueue
  BY DEF Init, JobsInQueue, NoJob
<1>3. InSlot = {}
  BY DEF Init, InSlot, NoJob
<1> QED BY <1>1, <1>2, <1>3, FS_EmptySet DEF Init, SlotsInv, SlotsAccounted

\* Together the three are inductive: running never goes below zero because the count is exact.
LEMMA SlotsInductive == SlotsInv /\ [Next]_vars => SlotsInv'
<1> SUFFICES ASSUME SlotsInv, [Next]_vars PROVE SlotsInv'
  OBVIOUS
<1>1. SlotsAccounted' /\ JobsInQueue' /\ Types'
  BY SlotsStep, JobsStep, TypesStep
<1>2. InSlot' \in SUBSET Games
  BY DEF InSlot
<1>3. running' \in Nat
  BY <1>1, <1>2, GamesCount DEF SlotsAccounted
<1> QED BY <1>1, <1>3 DEF SlotsInv, TypeOK, Types

\* The inductive invariant holds of every state of the queue.
THEOREM SlotsInvariant == Spec => []SlotsInv
  BY SlotsInit, SlotsInductive, PTL DEF Spec

\* Every variable keeps its type; d.running is never negative.
THEOREM TypesHold == Spec => []TypeOK
<1>1. SlotsInv => TypeOK
  BY DEF SlotsInv
<1> QED BY <1>1, SlotsInvariant, PTL

\* d.running is the number of started downloads that don't wait for a game, always.
THEOREM SlotsHold == Spec => []SlotsAccounted
<1>1. SlotsInv => SlotsAccounted
  BY DEF SlotsInv
<1> QED BY <1>1, SlotsInvariant, PTL

-----------------------------------------------------------------------------
(* The hold. *)

\* A watchSpace goroutine in the middle of a poll.
Watching(t) == thr[t].op = "watch" /\ thr[t].pc \in {"release", "unhold"}

\* A queue on hold always has a watchSpace goroutine.
THEOREM HeldHolds == Spec => []HeldIsWatched
<1>1. Init => HeldIsWatched
  BY DEF Init, HeldIsWatched
<1>2. TypeOK /\ HeldIsWatched /\ [Next]_vars => HeldIsWatched'
  <2> SUFFICES ASSUME TypeOK, HeldIsWatched, [Next]_vars, held' PROVE HeldIsWatched'
    BY DEF HeldIsWatched
  <2> USE DEF memory, disk, world, bounds
  <2>1. CASE UNCHANGED <<thr, held, watchers>>
    BY <2>1 DEF HeldIsWatched
  <2>2. ASSUME NEW t \in Threads, \A u \in Threads \ {t} : thr'[u] = thr[u],
               held, watchers' = watchers, ~Watching(t)
        PROVE  HeldIsWatched'
    BY <2>2 DEF HeldIsWatched, Watching
  <2>3. ASSUME NEW t \in Threads, ThreadStep(t) \/ WatchPoll(t) PROVE HeldIsWatched'
    <3>1. CASE WatchPoll(t)
      <4>1. thr'[t].op = "watch" /\ thr'[t].pc = "release"
        BY <3>1 DEF WatchPoll, TypeOK, Idle
      <4> QED BY <4>1 DEF HeldIsWatched
    <3>2. CASE Hold(t)
      BY <3>2, <2>2 DEF Hold, Goto, TypeOK, Watching, HeldIsWatched
    <3>3. CASE Release(t)
      <4>1. CASE held /\ Startable # {} /\ ~room /\ Released(t, FALSE)
        <5>1. CASE thr[t].op = "watch"
          BY <4>1, <5>1 DEF Released, HeldIsWatched, TypeOK
        <5>2. CASE thr[t].op # "watch"
          BY <2>2, <4>1, <5>2 DEF Released, Watching, TypeOK
        <5> QED BY <5>1, <5>2
      <4>2. CASE held /\ thr' = Goto(t, "unhold") /\ UNCHANGED watchers
        <5>1. CASE thr[t].op = "watch"
          <6>1. thr'[t].op = "watch" /\ thr'[t].pc = "unhold"
            BY <4>2, <5>1 DEF Goto, TypeOK, Thread
          <6> QED BY <6>1 DEF HeldIsWatched
        <5>2. CASE thr[t].op # "watch"
          BY <2>2, <4>2, <5>2 DEF Goto, Watching, TypeOK
        <5> QED BY <5>1, <5>2
      <4> QED BY <3>3, <4>1, <4>2 DEF Release
    <3>4. CASE Unhold(t)
      BY <3>4 DEF Unhold
    <3>5. CASE ReleasePump(t)
      BY <2>2, <3>5 DEF ReleasePump, Released, Watching, TypeOK
    <3>6. CASE QueueRefuse(t) \/ QueueAdd(t) \/ LastPump(t)
      BY <2>2, <3>6 DEF QueueRefuse, QueueAdd, LastPump, Watching, TypeOK
    <3>7. CASE SaveRow(t) \/ DropRow(t) \/ DropStaging(t)
      BY <2>2, <3>7 DEF SaveRow, DropRow, DropStaging, Goto, Watching, TypeOK
    <3> QED BY <2>3, <3>1, <3>2, <3>3, <3>4, <3>5, <3>6, <3>7 DEF ThreadStep
  <2>4. ASSUME NEW t \in Threads, NEW g \in Games,
               QueueCheck(t, g) \/ CancelWaiting(t, g) \/ Finish(g, t)
        PROVE  HeldIsWatched'
    <3>1. ~Watching(t)
      <4>1. thr[t] = Idle
        BY <2>4 DEF QueueCheck, CancelWaiting, Finish
      <4> QED BY <4>1 DEF Watching, Idle
    <3>2. held /\ watchers' = watchers
      BY <2>4 DEF QueueCheck, CancelWaiting, Finish
    <3>3. \A u \in Threads \ {t} : thr'[u] = thr[u]
      BY <2>4 DEF QueueCheck, CancelWaiting, Finish, TypeOK
    <3> QED BY <2>2, <3>1, <3>2, <3>3
  <2>5. ASSUME NEW g \in Games, RunStep(g) \/ CancelRunning(g) \/ CutOff(g) PROVE HeldIsWatched'
    BY <2>1, <2>5 DEF RunStep, Begin, Fetched, YieldPump, GameClosed, Install, Interrupted, Fails,
                      Abandon, CancelRunning, CutOff
  <2>6. CASE ResumeStep
    BY <2>1, <2>6 DEF ResumeStep, ResumeLoad, ResumeRow, ResumeMerge, ResumeClean, ResumePump
  <2>7. CASE Stop \/ Environment \/ UNCHANGED vars
    BY <2>1, <2>7 DEF Stop, Environment, SignIn, Space, Play, Ownership, vars
  <2>8. CASE Exit \/ Die
    BY <2>8 DEF Exit, Die, NewProcess
  <2> QED BY <2>3, <2>4, <2>5, <2>6, <2>7, <2>8 DEF Next, Step
<1> QED BY <1>1, <1>2, TypesHold, PTL DEF Spec

-----------------------------------------------------------------------------
(* The pump. *)

\* Which operations save a row.
SaveOps == \A t \in Threads : /\ thr[t].pc = "add" => thr[t].op = "queue"
                              /\ thr[t].pc = "save" => thr[t].op \in {"queue", "run", "full"}

WakeupInv == SlotsInv /\ SaveOps /\ NoLostWakeup

\* A goroutine that pumps goes on pumping until it has pumped.
Waker == \/ \E t \in Threads : WillPump(t)
         \/ \E g \in Games : job[g].pc = "yield"
         \/ resume.pc \in {"clean", "pump"}

\* A pump starts all it may: after it the slots are taken, or nothing startable is left.
LEMMA PumpStartsAll ==
  ASSUME TypeOK, NEW S \in SUBSET Games, Starts(S),
         running' = running + Cardinality(S),
         \A h \in Games \ S : job'[h] = job[h] \/ job'[h].pc = "game",
         \A h \in S : job'[h].pc \in {"signin", "game"}
  PROVE  running' >= Limit \/ Startable' = {}
<1>1. Startable' \subseteq Startable \ S
  BY DEF Startable, InQueue
<1>2. CASE S = Startable
  BY <1>1, <1>2
<1>3. CASE running + Cardinality(S) >= Limit
  BY <1>3
<1> QED BY <1>2, <1>3 DEF Starts

\* After a pump nothing startable is left without a slot being missing.
LEMMA PumpWakes == TypeOK /\ held' = held /\ Pump => NoLostWakeup'
<1> SUFFICES ASSUME TypeOK, held' = held, Pump, ~held PROVE NoLostWakeup'
  BY DEF NoLostWakeup
<1>1. PICK S \in SUBSET Games :
        /\ Starts(S)
        /\ running' = running + Cardinality(S)
        /\ job' = [g \in Games |-> IF g \in S THEN [job[g] EXCEPT !.pc = "signin"] ELSE job[g]]
  BY DEF Pump
<1>2. \A h \in Games \ S : job'[h] = job[h]
  BY <1>1
<1>3. \A h \in S : job'[h].pc = "signin"
  BY <1>1 DEF TypeOK, Job
<1>4. running' >= Limit \/ Startable' = {}
  BY <1>1, <1>2, <1>3, PumpStartsAll
<1>5. running' \in Nat
  BY <1>1, GamesCount DEF TypeOK
<1> QED BY <1>4, <1>5, LimitAssumption DEF NoLostWakeup

\* Only Queue and run save rows.
LEMMA SaveOpsStep == TypeOK /\ SaveOps /\ [Next]_vars => SaveOps'
<1> SUFFICES ASSUME TypeOK, SaveOps, [Next]_vars PROVE SaveOps'
  OBVIOUS
<1> USE DEF memory, disk, world, bounds
<1>1. ASSUME NEW t \in Threads, \A u \in Threads \ {t} : thr'[u] = thr[u],
             thr'[t].pc = "add" => thr'[t].op = "queue",
             thr'[t].pc = "save" => thr'[t].op \in {"queue", "run", "full"}
      PROVE  SaveOps'
  BY <1>1 DEF SaveOps
<1>2. CASE UNCHANGED thr
  BY <1>2 DEF SaveOps
<1>3. ASSUME NEW t \in Threads, ThreadStep(t) \/ WatchPoll(t) PROVE SaveOps'
  <2>1. thr \in [Threads -> Thread]
    BY DEF TypeOK
  <2>2. CASE QueueAdd(t)
    <3>1. thr'[t].pc = "save" /\ thr'[t].op = thr[t].op /\ thr[t].pc = "add"
      BY <2>1, <2>2 DEF QueueAdd, Thread
    <3>2. \A u \in Threads \ {t} : thr'[u] = thr[u]
      BY <2>1, <2>2 DEF QueueAdd
    <3> QED BY <1>1, <3>1, <3>2 DEF SaveOps
  <2>3. CASE SaveRow(t)
    <3>1. thr'[t].pc \in {"pump", "hold", "release"}
      BY <2>1, <2>3 DEF SaveRow, Thread
    <3>2. \A u \in Threads \ {t} : thr'[u] = thr[u]
      BY <2>1, <2>3 DEF SaveRow
    <3> QED BY <1>1, <3>1, <3>2
  <2>4. CASE DropRow(t) \/ DropStaging(t) \/ Hold(t) \/ Unhold(t)
    <3>1. PICK pc \in {"dropStaging", "release", "pump", "relPump"} : thr' = Goto(t, pc)
      BY <2>4 DEF DropRow, DropStaging, Hold, Unhold
    <3>2. thr'[t].pc = pc
      BY <2>1, <3>1 DEF Goto, Thread
    <3>3. \A u \in Threads \ {t} : thr'[u] = thr[u]
      BY <2>1, <3>1 DEF Goto
    <3> QED BY <1>1, <3>1, <3>2, <3>3
  <2>5. ASSUME NEW off \in BOOLEAN, Released(t, off) PROVE SaveOps'
    <3>1. thr'[t].pc \in {"pump", "idle"}
      BY <2>1, <2>5 DEF Released, Idle, Thread
    <3>2. \A u \in Threads \ {t} : thr'[u] = thr[u]
      BY <2>1, <2>5 DEF Released
    <3> QED BY <1>1, <3>1, <3>2
  <2>6. CASE Release(t)
    <3>1. CASE thr' = Goto(t, "unhold")
      <4>1. thr'[t].pc = "unhold"
        BY <2>1, <3>1 DEF Goto, Thread
      <4>2. \A u \in Threads \ {t} : thr'[u] = thr[u]
        BY <2>1, <3>1 DEF Goto
      <4> QED BY <1>1, <4>1, <4>2
    <3> QED BY <2>5, <2>6, <3>1 DEF Release
  <2>7. CASE ReleasePump(t)
    BY <2>5, <2>7 DEF ReleasePump
  <2>8. CASE QueueRefuse(t) \/ LastPump(t)
    <3>1. thr' = [thr EXCEPT ![t] = Idle]
      BY <2>8 DEF QueueRefuse, LastPump
    <3> QED BY <1>1, <2>1, <3>1 DEF Idle
  <2>9. CASE WatchPoll(t)
    <3>1. thr'[t].pc = "release"
      BY <2>1, <2>9 DEF WatchPoll, Idle
    <3>2. \A u \in Threads \ {t} : thr'[u] = thr[u]
      BY <2>1, <2>9 DEF WatchPoll
    <3> QED BY <1>1, <3>1, <3>2
  <2> QED BY <1>3, <2>2, <2>3, <2>4, <2>6, <2>7, <2>8, <2>9 DEF ThreadStep
<1>4. ASSUME NEW t \in Threads, NEW g \in Games,
             QueueCheck(t, g) \/ CancelWaiting(t, g) \/ Finish(g, t)
      PROVE  SaveOps'
  <2>1. CASE QueueCheck(t, g)
    BY <1>1, <2>1 DEF QueueCheck, TypeOK
  <2>2. CASE CancelWaiting(t, g)
    <3>1. thr'[t].pc = "dropRow"
      BY <2>2 DEF CancelWaiting, Idle, TypeOK
    <3> QED BY <1>1, <2>2, <3>1 DEF CancelWaiting, TypeOK
  <2>3. CASE Finish(g, t)
    <3>1. /\ thr'[t].pc = "dropRow" \/ thr'[t].op \in {"run", "full"}
          /\ thr'[t].pc # "add"
      <4>1. CASE job[g].err \in {"nil", "canceled"}
        BY <2>3, <4>1 DEF Finish, Idle, TypeOK
      <4>2. CASE job[g].err \notin {"nil", "canceled"}
        BY <2>3, <4>2 DEF Finish, TypeOK
      <4> QED BY <4>1, <4>2
    <3>2. \A u \in Threads \ {t} : thr'[u] = thr[u]
      BY <2>3 DEF Finish, TypeOK
    <3> QED BY <1>1, <3>1, <3>2
  <2> QED BY <1>4, <2>1, <2>2, <2>3
<1>5. ASSUME NEW g \in Games, RunStep(g) \/ CancelRunning(g) \/ CutOff(g) PROVE SaveOps'
  BY <1>2, <1>5 DEF RunStep, Begin, Fetched, YieldPump, GameClosed, Install, Interrupted, Fails,
                    Abandon, CancelRunning, CutOff
<1>6. CASE ResumeStep
  BY <1>2, <1>6 DEF ResumeStep, ResumeLoad, ResumeRow, ResumeMerge, ResumeClean, ResumePump
<1>7. CASE Stop \/ Environment \/ UNCHANGED vars
  BY <1>2, <1>7 DEF Stop, Environment, SignIn, Space, Play, Ownership, vars
<1>8. CASE Exit \/ Die
  <2>1. thr' = [t \in Threads |-> Idle]
    BY <1>8 DEF Exit, Die, NewProcess
  <2> QED BY <2>1 DEF SaveOps, Idle
<1> QED BY <1>3, <1>4, <1>5, <1>6, <1>7, <1>8 DEF Next, Step

\* Each step leaves someone to pump while a download could start.
LEMMA WakeupStep == WakeupInv /\ [Next]_vars => NoLostWakeup'
<1> SUFFICES ASSUME WakeupInv, [Next]_vars PROVE NoLostWakeup'
  OBVIOUS
<1> USE DEF memory, disk, world, bounds
<1>1. TypeOK /\ SaveOps /\ NoLostWakeup /\ running \in Nat /\ Limit \in Nat
  BY LimitAssumption DEF WakeupInv, SlotsInv, TypeOK
<1>2. ASSUME held' = held, running' \in Nat, running' >= running, Startable' \subseteq Startable, Waker => Waker'
      PROVE  NoLostWakeup'
  BY <1>1, <1>2 DEF NoLostWakeup, Waker
<1>3. Waker' => NoLostWakeup'
  BY DEF NoLostWakeup, Waker
<1>4. ASSUME NEW t \in Threads, \A u \in Threads \ {t} : thr'[u] = thr[u], ~WillPump(t),
             UNCHANGED <<running, held, resume>>,
             Startable' \subseteq Startable,
             \A g \in Games : job[g].pc = "yield" => job'[g].pc = "yield"
      PROVE  NoLostWakeup'
  <2>1. Waker => Waker'
    BY <1>4 DEF Waker, WillPump
  <2> QED BY <1>1, <1>2, <1>4, <2>1
<1>5. ASSUME NEW t \in Threads, ThreadStep(t) \/ WatchPoll(t) PROVE NoLostWakeup'
  <2>1. thr \in [Threads -> Thread]
    BY <1>1 DEF TypeOK
  <2>2. ASSUME WillPump(t)' PROVE NoLostWakeup'
    BY <1>3, <2>2 DEF Waker
  <2>3. ASSUME UNCHANGED <<job, running, held, resume>>, ~WillPump(t),
               \A u \in Threads \ {t} : thr'[u] = thr[u]
        PROVE  NoLostWakeup'
    BY <1>4, <2>3 DEF Startable, InQueue
  <2>4. CASE QueueRefuse(t)
    BY <2>1, <2>3, <2>4 DEF QueueRefuse, WillPump
  <2>5. CASE QueueAdd(t)
    <3>1. thr'[t].pc = "save"
      BY <2>1, <2>5 DEF QueueAdd, Thread
    <3> QED BY <2>2, <3>1 DEF WillPump
  <2>6. CASE SaveRow(t)
    <3>1. /\ thr'[t].op = thr[t].op
          /\ \/ thr'[t].pc \in {"pump", "hold"}
             \/ thr'[t].pc = "release" /\ thr[t].op \notin {"queue", "full"}
      <4> DEFINE next == IF thr[t].op = "queue" THEN "pump"
                         ELSE IF thr[t].op = "full" THEN "hold"
                         ELSE "release"
      <4>1. thr' = [thr EXCEPT ![t] = [@ EXCEPT !.row = NoRow, !.pc = next]]
        BY <2>6 DEF SaveRow
      <4>2. thr'[t].pc = next /\ thr'[t].op = thr[t].op
        BY <2>1, <4>1 DEF Thread
      <4>3. CASE thr[t].op = "queue"
        BY <4>2, <4>3
      <4>4. CASE thr[t].op = "full"
        BY <4>2, <4>4
      <4>5. CASE thr[t].op \notin {"queue", "full"}
        BY <4>2, <4>5
      <4> QED BY <4>3, <4>4, <4>5
    <3>2. thr[t].op \in {"queue", "run", "full"}
      BY <1>1, <2>6 DEF SaveOps, SaveRow
    <3> QED BY <2>2, <3>1, <3>2 DEF WillPump
  <2>7. CASE DropRow(t) \/ DropStaging(t)
    <3>1. /\ thr'[t].op = thr[t].op
          /\ thr[t].pc \in {"dropRow", "dropStaging"} /\ thr'[t].pc \in {"dropStaging", "release"}
      BY <2>1, <2>7 DEF DropRow, DropStaging, Goto, Thread
    <3>2. CASE thr[t].op \in {"run", "full"}
      BY <2>2, <3>1, <3>2 DEF WillPump
    <3>3. CASE thr[t].op \notin {"run", "full"}
      BY <2>1, <2>3, <2>7, <3>1, <3>3 DEF DropRow, DropStaging, Goto, WillPump
    <3> QED BY <3>2, <3>3
  <2>8. CASE Hold(t) \/ Unhold(t)
    <3>1. thr'[t].pc \in {"pump", "relPump"}
      BY <2>1, <2>8 DEF Hold, Unhold, Goto, Thread
    <3> QED BY <2>2, <3>1 DEF WillPump
  <2>9. CASE Release(t)
    <3>1. CASE thr' = Goto(t, "unhold")
      <4>1. thr'[t].pc = "unhold"
        BY <2>1, <3>1 DEF Goto, Thread
      <4> QED BY <2>2, <4>1 DEF WillPump
    <3>2. ASSUME NEW off \in BOOLEAN, Released(t, off) PROVE NoLostWakeup'
      <4>1. CASE thr[t].op \in {"run", "full"}
        <5>1. thr'[t].pc = "pump"
          BY <2>1, <3>2, <4>1 DEF Released, Thread
        <5> QED BY <2>2, <5>1 DEF WillPump
      <4>2. CASE thr[t].op \notin {"run", "full"}
        BY <2>1, <2>3, <2>9, <3>2, <4>2 DEF Release, Released, WillPump
      <4> QED BY <4>1, <4>2
    <3> QED BY <2>9, <3>1, <3>2 DEF Release
  <2>10. CASE ReleasePump(t) \/ LastPump(t)
    BY <1>1, <2>10, PumpWakes DEF ReleasePump, LastPump
  <2>11. CASE WatchPoll(t)
    BY <2>1, <2>3, <2>11 DEF WatchPoll, WillPump, Idle
  <2> QED BY <1>5, <2>4, <2>5, <2>6, <2>7, <2>8, <2>9, <2>10, <2>11 DEF ThreadStep
<1>6. ASSUME NEW t \in Threads, NEW g \in Games,
             QueueCheck(t, g) \/ CancelWaiting(t, g) \/ Finish(g, t)
      PROVE  NoLostWakeup'
  <2>1. ~WillPump(t) /\ \A u \in Threads \ {t} : thr'[u] = thr[u]
    <3>1. thr[t] = Idle
      BY <1>6 DEF QueueCheck, CancelWaiting, Finish
    <3>2. \A u \in Threads \ {t} : thr'[u] = thr[u]
      BY <1>1, <1>6 DEF QueueCheck, CancelWaiting, Finish, TypeOK
    <3> QED BY <3>1, <3>2 DEF WillPump, Idle
  <2>2. CASE QueueCheck(t, g)
    BY <1>4, <2>1, <2>2 DEF QueueCheck, Startable, InQueue
  <2>3. CASE CancelWaiting(t, g)
    <3>1. /\ \A h \in Games \ {g} : job'[h] = job[h]
          /\ job[g].pc = "none" /\ job'[g].state = "none"
      BY <1>1, <2>3 DEF CancelWaiting, Removed, NoJob, TypeOK
    <3>2. Startable' \subseteq Startable
      BY <3>1 DEF Startable, InQueue
    <3>3. \A h \in Games : job[h].pc = "yield" => job'[h].pc = "yield"
      BY <3>1
    <3> QED BY <1>4, <2>1, <2>3, <3>2, <3>3 DEF CancelWaiting
  <2>4. CASE Finish(g, t)
    <3>1. WillPump(t)'
      <4>1. CASE job[g].err \in {"nil", "canceled"}
        <5>1. thr'[t].pc = "dropRow" /\ thr'[t].op = "run"
          BY <1>1, <2>4, <4>1 DEF Finish, Idle, TypeOK
        <5> QED BY <5>1 DEF WillPump
      <4>2. CASE job[g].err \notin {"nil", "canceled"}
        <5>1. thr'[t].pc = "save"
          BY <1>1, <2>4, <4>2 DEF Finish, TypeOK
        <5> QED BY <5>1 DEF WillPump
      <4> QED BY <4>1, <4>2
    <3> QED BY <1>3, <3>1 DEF Waker
  <2> QED BY <1>6, <2>2, <2>3, <2>4
<1>7. ASSUME NEW g \in Games, RunStep(g) \/ CancelRunning(g) \/ CutOff(g) PROVE NoLostWakeup'
  <2> USE <1>1 DEF TypeOK
  <2>1. ASSUME \A h \in Games \ {g} : job'[h] = job[h],
               job'[g].pc # "none", job[g].pc # "yield" \/ job'[g].pc = "yield",
               running' \in Nat, running' >= running, UNCHANGED <<thr, held, resume>>
        PROVE  NoLostWakeup'
    <3>1. Startable' \subseteq Startable
      BY <2>1 DEF Startable, InQueue
    <3>2. Waker => Waker'
      BY <2>1 DEF Waker, WillPump
    <3> QED BY <1>2, <2>1, <3>1, <3>2
  <2>2. CASE Begin(g)
    <3>1. job'[g].pc = "fetch" /\ \A h \in Games \ {g} : job'[h] = job[h]
      BY <2>2 DEF Begin, Job
    <3> QED BY <2>1, <2>2, <3>1 DEF Begin
  <2>3. CASE Fetched(g)
    <3>1. CASE job' = [job EXCEPT ![g].pc = "work"] /\ UNCHANGED running
      <4>1. job'[g].pc = "work"
        BY <3>1 DEF Job
      <4> QED BY <2>1, <2>3, <3>1, <4>1 DEF Fetched
    <3>2. CASE job' = [job EXCEPT ![g].pc = "yield"]
      <4>1. job'[g].pc = "yield"
        BY <3>2 DEF Job
      <4> QED BY <1>3, <4>1 DEF Waker
    <3> QED BY <2>3, <3>1, <3>2 DEF Fetched
  <2>4. CASE YieldPump(g)
    <3> SUFFICES ASSUME ~held PROVE NoLostWakeup'
      BY <2>4 DEF YieldPump, NoLostWakeup
    <3>1. PICK S \in SUBSET Games :
            /\ Starts(S)
            /\ running' = running + Cardinality(S)
            /\ job' = [h \in Games |-> IF h = g THEN [job[h] EXCEPT !.pc = "game"]
                                         ELSE IF h \in S THEN [job[h] EXCEPT !.pc = "signin"]
                                         ELSE job[h]]
      BY <2>4 DEF YieldPump
    <3>2. /\ \A h \in Games \ S : job'[h] = job[h] \/ job'[h].pc = "game"
          /\ \A h \in S : job'[h].pc \in {"signin", "game"}
      BY <3>1 DEF Job
    <3>3. running' >= Limit \/ Startable' = {}
      BY <3>1, <3>2, PumpStartsAll
    <3>4. running' \in Nat
      BY <3>1, GamesCount
    <3> QED BY <3>3, <3>4 DEF NoLostWakeup
  <2>5. CASE GameClosed(g)
    <3>1. job'[g].pc = "work" /\ \A h \in Games \ {g} : job'[h] = job[h]
      BY <2>5 DEF GameClosed, Job
    <3> QED BY <2>1, <2>5, <3>1 DEF GameClosed
  <2>6. CASE Install(g)
    <3>1. job'[g].pc = "ended" /\ \A h \in Games \ {g} : job'[h] = job[h]
      BY <2>6 DEF Install, Job
    <3> QED BY <2>1, <2>6, <3>1 DEF Install
  <2>7. CASE Interrupted(g) \/ Fails(g)
    <3>1. PICK err \in {"canceled", "error", "nospace"} : EndsWith(g, err)
      BY <2>7 DEF Interrupted, Fails
    <3>2. job'[g].pc = "ended" /\ \A h \in Games \ {g} : job'[h] = job[h]
      BY <3>1 DEF EndsWith, Job
    <3>3. running' \in Nat /\ running' >= running
      BY <2>7 DEF Interrupted, Fails
    <3>4. job[g].pc # "yield" /\ UNCHANGED <<thr, held, resume>>
      BY <2>7 DEF Interrupted, Fails
    <3> QED BY <2>1, <3>2, <3>3, <3>4
  <2>8. CASE Abandon(g)
    <3>1. job'[g].pc = "gone" /\ \A h \in Games \ {g} : job'[h] = job[h]
      BY <2>8 DEF Abandon, Job
    <3> QED BY <2>1, <2>8, <3>1 DEF Abandon
  <2>9. CASE CancelRunning(g)
    <3>1. job'[g].pc = job[g].pc /\ \A h \in Games \ {g} : job'[h] = job[h]
      BY <2>9 DEF CancelRunning, Job
    <3> QED BY <2>1, <2>9, <3>1 DEF CancelRunning
  <2>10. CASE CutOff(g)
    <3>1. job'[g].pc = "signin" /\ \A h \in Games \ {g} : job'[h] = job[h]
      BY <2>10 DEF CutOff, Job
    <3> QED BY <2>1, <2>10, <3>1 DEF CutOff
  <2> QED BY <1>7, <2>2, <2>3, <2>4, <2>5, <2>6, <2>7, <2>8, <2>9, <2>10 DEF RunStep
<1>8. CASE ResumeStep
  <2>1. CASE ResumeLoad \/ \E g \in Games : ResumeRow(g)
    <3>1. resume.pc \in {"load", "sift"} /\ UNCHANGED <<job, thr, running, held>>
      BY <2>1 DEF ResumeLoad, ResumeRow
    <3> QED BY <1>1, <1>2, <3>1 DEF Startable, InQueue, Waker, WillPump
  <2>2. CASE ResumeMerge \/ ResumeClean
    <3>1. resume'.pc \in {"clean", "pump"}
      BY <2>2 DEF ResumeMerge, ResumeClean, Fresh
    <3> QED BY <1>3, <3>1 DEF Waker
  <2>3. CASE ResumePump
    BY <1>1, <2>3, PumpWakes DEF ResumePump
  <2> QED BY <1>8, <2>1, <2>2, <2>3 DEF ResumeStep
<1>9. CASE Stop \/ Environment \/ UNCHANGED vars
  <2>1. UNCHANGED <<job, thr, running, held, resume>>
    BY <1>9 DEF Stop, Environment, SignIn, Space, Play, Ownership, vars
  <2> QED BY <1>1, <1>2, <2>1 DEF Startable, InQueue, Waker, WillPump
<1>10. CASE Exit \/ Die
  <2>1. job' = [g \in Games |-> NoJob]
    BY <1>10 DEF Exit, Die, NewProcess
  <2>2. Startable' = {}
    BY <2>1 DEF Startable, InQueue, NoJob
  <2> QED BY <2>2 DEF NoLostWakeup
<1> QED BY <1>5, <1>6, <1>7, <1>8, <1>9, <1>10 DEF Next, Step

\* No lost wakeup: whenever a download could start, someone is about to pump.
THEOREM WakeupHolds == Spec => []NoLostWakeup
<1>1. Init => SaveOps
  BY DEF Init, SaveOps, Idle
<1>2. Init => NoLostWakeup
  BY DEF Init, NoLostWakeup, Startable, InQueue, NoJob
<1>3. Init => WakeupInv
  BY <1>1, <1>2, SlotsInit DEF WakeupInv
<1>4. WakeupInv /\ [Next]_vars => WakeupInv'
  BY SlotsInductive, SaveOpsStep, WakeupStep DEF WakeupInv, SlotsInv
<1>5. WakeupInv => NoLostWakeup
  BY DEF WakeupInv
<1> QED BY <1>3, <1>4, <1>5, PTL DEF Spec

-----------------------------------------------------------------------------
(* Leaving the queue. *)

\* How a run ended says why: installed, or its context gone; before, it has no error.
EndsKnown ==
  \A g \in Games :
    /\ job[g].pc \in {"signin", "fetch", "yield", "game", "work"} => job[g].err = "nil"
    /\ job[g].pc = "none" => job[g].err = "nil"
    /\ job[g].pc = "ended" /\ job[g].err = "nil" => owned[g] = "owned"
    /\ job[g].pc = "ended" /\ job[g].err = "canceled" => Ended(g)

LeaveInv == TypeOK /\ JobsInQueue /\ EndsKnown

\* A run that ended without an error installed its game; a cancelled one was cancelled.
LEMMA EndsStep == LeaveInv /\ [Next]_vars => EndsKnown'
<1> SUFFICES ASSUME LeaveInv, [Next]_vars PROVE EndsKnown'
  OBVIOUS
<1> USE DEF memory, disk, world, bounds
<1>1. TypeOK /\ JobsInQueue /\ EndsKnown /\ job \in [Games -> Job]
  BY DEF LeaveInv, TypeOK
<1>2. CASE UNCHANGED <<job, owned>> /\ (stopping => stopping')
  BY <1>2 DEF LeaveInv, EndsKnown, Ended
<1>3. ASSUME NEW S \in SUBSET Games, S \subseteq Startable, UNCHANGED <<owned, stopping>>,
             \A h \in Games \ S : job'[h] = job[h],
             \A h \in S : job'[h].pc = "signin" /\ job'[h].err = job[h].err
      PROVE  EndsKnown'
  BY <1>1, <1>3 DEF EndsKnown, Ended, Startable
<1>4. ASSUME Pump, UNCHANGED <<owned, stopping>> PROVE EndsKnown'
  <2>1. PICK S \in SUBSET Games :
          /\ IF held THEN S = {} ELSE Starts(S)
          /\ job' = [g \in Games |-> IF g \in S THEN [job[g] EXCEPT !.pc = "signin"] ELSE job[g]]
    BY <1>4 DEF Pump
  <2>2. S \subseteq Startable
    BY <2>1 DEF Starts
  <2>3. /\ \A h \in Games \ S : job'[h] = job[h]
        /\ \A h \in S : job'[h].pc = "signin" /\ job'[h].err = job[h].err
    BY <1>1, <2>1 DEF Job
  <2> QED BY <1>3, <1>4, <2>2, <2>3
<1>5. ASSUME NEW g \in Games, \A h \in Games \ {g} : job'[h] = job[h] /\ owned'[h] = owned[h],
             stopping => stopping',
             \/ job'[g].pc # "ended" /\ job'[g].err = "nil"
             \/ job'[g].pc = "gone"
             \/ job'[g].pc = "ended" /\ job'[g].err = "nil" /\ owned'[g] = "owned"
             \/ job'[g].pc = "ended" /\ job'[g].err = "canceled" /\ Ended(g)'
             \/ job'[g].pc = "ended" /\ job'[g].err \in {"error", "nospace"}
      PROVE  EndsKnown'
  BY <1>1, <1>5 DEF EndsKnown, Ended
<1>6. ASSUME NEW t \in Threads, ThreadStep(t) \/ WatchPoll(t) PROVE EndsKnown'
  <2>1. CASE QueueAdd(t)
    <3> DEFINE g == thr[t].g
               j == IF g \in InQueue THEN [job[g] EXCEPT !.state = "queued"]
                                     ELSE NewJob(thr[t].row.update)
    <3>1. job' = [job EXCEPT ![g] = j] /\ UNCHANGED <<owned, stopping>>
      BY <2>1 DEF QueueAdd
    <3>2. CASE g \in Games
      <4>1. CASE g \in InQueue
        <5>1. job'[g].pc = job[g].pc /\ job'[g].err = job[g].err /\ job'[g].cancelled = job[g].cancelled
          BY <1>1, <3>1, <3>2, <4>1 DEF Job
        <5>2. \A h \in Games \ {g} : job'[h] = job[h]
          BY <1>1, <3>1
        <5> QED BY <1>1, <3>1, <5>1, <5>2 DEF EndsKnown, Ended
      <4>2. CASE g \notin InQueue
        <5>1. job'[g].pc = "none" /\ job'[g].err = "nil"
          BY <1>1, <3>1, <3>2, <4>2 DEF NewJob, NoJob
        <5>2. \A h \in Games \ {g} : job'[h] = job[h]
          BY <1>1, <3>1
        <5> QED BY <1>5, <3>1, <3>2, <5>1, <5>2
      <4> QED BY <4>1, <4>2
    <3>3. CASE g \notin Games
      BY <1>1, <1>2, <3>1, <3>3
    <3> QED BY <3>2, <3>3
  <2>2. CASE ReleasePump(t) \/ LastPump(t)
    BY <1>4, <2>2 DEF ReleasePump, LastPump
  <2>3. CASE UNCHANGED <<job, owned, stopping>>
    BY <1>2, <2>3
  <2> QED BY <1>6, <2>1, <2>2, <2>3
          DEF ThreadStep, QueueRefuse, SaveRow, DropRow, DropStaging, Hold, Release, Unhold, WatchPoll
<1>7. ASSUME NEW t \in Threads, NEW g \in Games,
             QueueCheck(t, g) \/ CancelWaiting(t, g) \/ Finish(g, t)
      PROVE  EndsKnown'
  <2>1. CASE QueueCheck(t, g)
    BY <1>2, <2>1 DEF QueueCheck
  <2>2. ASSUME Removed(g), UNCHANGED <<owned, stopping>> PROVE EndsKnown'
    <3>1. job'[g].pc = "none" /\ job'[g].err = "nil" /\ \A h \in Games \ {g} : job'[h] = job[h]
      BY <1>1, <2>2 DEF Removed, NoJob
    <3> QED BY <1>5, <2>2, <3>1
  <2>3. CASE CancelWaiting(t, g)
    BY <2>2, <2>3 DEF CancelWaiting
  <2>4. CASE Finish(g, t)
    <3>1. CASE job[g].err \in {"nil", "canceled"}
      BY <2>2, <2>4, <3>1 DEF Finish
    <3>2. CASE job[g].err \notin {"nil", "canceled"}
      <4>1. job'[g].pc = "none" /\ job'[g].err = "nil" /\ \A h \in Games \ {g} : job'[h] = job[h]
        BY <1>1, <2>4, <3>2 DEF Finish, Failed
      <4> QED BY <1>5, <2>4, <4>1 DEF Finish
    <3> QED BY <3>1, <3>2
  <2> QED BY <1>7, <2>1, <2>3, <2>4
<1>8. ASSUME NEW g \in Games, RunStep(g) \/ CancelRunning(g) \/ CutOff(g) PROVE EndsKnown'
  <2> USE <1>1
  <2>1. CASE Begin(g)
    <3>1. job'[g].pc = "fetch" /\ job'[g].err = job[g].err /\ \A h \in Games \ {g} : job'[h] = job[h]
      BY <2>1 DEF Begin, Job
    <3> QED BY <1>5, <2>1, <3>1 DEF Begin, EndsKnown
  <2>2. CASE Fetched(g)
    <3>1. PICK pc \in {"work", "yield"} : job' = [job EXCEPT ![g].pc = pc]
      BY <2>2 DEF Fetched
    <3>2. job'[g].pc = pc /\ job'[g].err = job[g].err /\ \A h \in Games \ {g} : job'[h] = job[h]
      BY <3>1 DEF Job
    <3> QED BY <1>5, <2>2, <3>2 DEF Fetched, EndsKnown
  <2>3. CASE YieldPump(g)
    <3>1. PICK S \in SUBSET Games :
            /\ IF held THEN S = {} ELSE Starts(S)
            /\ job' = [h \in Games |-> IF h = g THEN [job[h] EXCEPT !.pc = "game"]
                                         ELSE IF h \in S THEN [job[h] EXCEPT !.pc = "signin"]
                                         ELSE job[h]]
      BY <2>3 DEF YieldPump
    <3>2. S \subseteq Startable
      BY <3>1 DEF Starts
    <3>3. job[g].err = "nil" /\ job'[g].pc = "game" /\ job'[g].err = job[g].err
      <4>1. job[g].err = "nil"
        BY <2>3 DEF YieldPump, EndsKnown
      <4>2. job'[g] = [job[g] EXCEPT !.pc = "game"]
        BY <3>1
      <4> QED BY <4>1, <4>2 DEF Job
    <3>4. \A h \in S \ {g} : job'[h].pc = "signin" /\ job'[h].err = job[h].err
      BY <3>1 DEF Job
    <3>5. \A h \in Games \ (S \cup {g}) : job'[h] = job[h]
      BY <3>1
    <3>6. \A h \in S : job[h].err = "nil"
      BY <3>2 DEF Startable, EndsKnown
    <3>7. \A h \in Games : \/ job'[h] = job[h]
                           \/ job'[h].pc \in {"signin", "game"} /\ job'[h].err = "nil"
      BY <3>3, <3>4, <3>5, <3>6
    <3>8. UNCHANGED <<owned, stopping>>
      BY <2>3 DEF YieldPump
    <3> QED BY <3>7, <3>8 DEF EndsKnown, Ended
  <2>4. CASE GameClosed(g)
    <3>1. job'[g].pc = "work" /\ job'[g].err = job[g].err /\ \A h \in Games \ {g} : job'[h] = job[h]
      BY <2>4 DEF GameClosed, Job
    <3> QED BY <1>5, <2>4, <3>1 DEF GameClosed, EndsKnown
  <2>5. CASE Install(g)
    <3>1. job'[g].pc = "ended" /\ job'[g].err = job[g].err /\ \A h \in Games \ {g} : job'[h] = job[h]
      BY <2>5 DEF Install, Job
    <3>2. job[g].err = "nil" /\ owned'[g] = "owned" /\ \A h \in Games \ {g} : owned'[h] = owned[h]
      BY <2>5 DEF Install, EndsKnown, TypeOK
    <3> QED BY <1>5, <2>5, <3>1, <3>2 DEF Install
  <2>6. CASE Interrupted(g) \/ Fails(g)
    <3>1. PICK err \in {"canceled", "error", "nospace"} : EndsWith(g, err) /\ (err = "canceled" => Ended(g))
      BY <2>6 DEF Interrupted, Fails
    <3>2. /\ job'[g].pc = "ended" /\ job'[g].err = err /\ job'[g].cancelled = job[g].cancelled
          /\ \A h \in Games \ {g} : job'[h] = job[h]
      BY <3>1 DEF EndsWith, Job
    <3>3. UNCHANGED <<owned, stopping>>
      BY <2>6 DEF Interrupted, Fails
    <3>4. err = "canceled" => Ended(g)'
      BY <3>1, <3>2, <3>3 DEF Ended
    <3> QED BY <1>5, <3>2, <3>3, <3>4
  <2>7. CASE Abandon(g)
    <3>1. job'[g].pc = "gone" /\ \A h \in Games \ {g} : job'[h] = job[h]
      BY <2>7 DEF Abandon, Job
    <3> QED BY <1>5, <2>7, <3>1 DEF Abandon
  <2>8. CASE CancelRunning(g)
    <3>1. /\ job'[g].pc = job[g].pc /\ job'[g].err = job[g].err /\ job'[g].cancelled = TRUE
          /\ \A h \in Games \ {g} : job'[h] = job[h]
      BY <2>8 DEF CancelRunning, Job
    <3> QED BY <2>8, <3>1 DEF CancelRunning, EndsKnown, Ended
  <2>9. CASE CutOff(g)
    <3>1. job'[g].pc = "signin" /\ job'[g].err = job[g].err /\ \A h \in Games \ {g} : job'[h] = job[h]
      BY <2>9 DEF CutOff, Job
    <3> QED BY <1>5, <2>9, <3>1 DEF CutOff, EndsKnown
  <2> QED BY <1>8, <2>1, <2>2, <2>3, <2>4, <2>5, <2>6, <2>7, <2>8, <2>9 DEF RunStep
<1>9. CASE ResumeStep
  <2>1. CASE ResumeMerge
    <3> DEFINE restored == {g \in Games : resume.saved[g].in /\ g \notin InQueue}
               FromRow(q) == [NewJob(q.update) EXCEPT !.partial = q.partial,
                                                      !.state = IF q.failed THEN "failed" ELSE "queued"]
    <3>1. job' = [g \in Games |-> IF g \in restored THEN FromRow(resume.saved[g]) ELSE job[g]]
      BY <2>1 DEF ResumeMerge
    <3>2. \A q : FromRow(q).pc = "none" /\ FromRow(q).err = "nil"
      BY DEF NewJob, NoJob
    <3>3. UNCHANGED <<owned, stopping>>
      BY <2>1 DEF ResumeMerge
    <3>4. \A g \in Games : job'[g] = job[g] \/ (job'[g].pc = "none" /\ job'[g].err = "nil")
      BY <3>1, <3>2
    <3> QED BY <1>1, <3>3, <3>4 DEF EndsKnown, Ended
  <2>2. CASE ResumePump
    BY <1>4, <2>2 DEF ResumePump
  <2> QED BY <1>2, <1>9, <2>1, <2>2 DEF ResumeStep, ResumeLoad, ResumeRow, ResumeClean
<1>10. CASE Stop \/ SignIn \/ Space \/ Play \/ UNCHANGED vars
  BY <1>2, <1>10 DEF Stop, SignIn, Space, Play, vars
<1>11. ASSUME NEW g \in Games, Ownership(g) PROVE EndsKnown'
  <2>1. job[g].pc = "none"
    BY <1>1, <1>11 DEF Ownership, InQueue, JobsInQueue
  <2>2. UNCHANGED <<job, stopping>> /\ \A h \in Games \ {g} : owned'[h] = owned[h]
    BY <1>1, <1>11 DEF Ownership, TypeOK
  <2> QED BY <1>1, <2>1, <2>2 DEF EndsKnown, Ended
<1>12. CASE Exit \/ Die
  <2>1. job' = [g \in Games |-> NoJob]
    BY <1>12 DEF Exit, Die, NewProcess
  <2> QED BY <2>1 DEF EndsKnown, NoJob
<1> QED BY <1>6, <1>7, <1>8, <1>9, <1>10, <1>11, <1>12 DEF Next, Step, Environment

\* A download leaves the queue installed, or because the user cancelled it, and not because the
\* backend stops.
THEOREM LeavesHolds == Spec => LeavesDone
<1>1. Init => EndsKnown
  BY DEF Init, EndsKnown, NoJob
<1>2. SlotsInv /\ EndsKnown /\ [Next]_vars => EndsKnown'
  BY EndsStep DEF SlotsInv, LeaveInv
<1>3. ASSUME LeaveInv, Next, stopping' = stopping, stops' = stops, NEW g \in InQueue
      PROVE  \/ job'[g].state # "none"
             \/ job[g].pc = "none" \/ job[g].cancelled \/ owned[g] = "owned"
  <2> SUFFICES ASSUME job'[g].state = "none", job[g].pc # "none"
               PROVE  job[g].cancelled \/ owned[g] = "owned"
    OBVIOUS
  <2> USE <1>3 DEF memory, disk, world, bounds
  <2>1. TypeOK /\ JobsInQueue /\ EndsKnown /\ job \in [Games -> Job] /\ job[g].state # "none" /\ g \in Games
    BY DEF LeaveInv, TypeOK, InQueue
  <2>2. ASSUME job'[g].state = job[g].state PROVE FALSE
    BY <2>1, <2>2
  <2>3. ~Pump
    <3> SUFFICES ASSUME Pump PROVE job'[g].state = job[g].state
      BY <2>2
    <3> QED BY <2>1 DEF Pump, Job
  <2>4. ASSUME NEW t \in Threads, ThreadStep(t) \/ WatchPoll(t) PROVE FALSE
    <3>1. CASE QueueAdd(t)
      <4>1. CASE thr[t].g = g
        <5>1. job'[g] = [job[g] EXCEPT !.state = "queued"]
          BY <2>1, <3>1, <4>1 DEF QueueAdd
        <5> QED BY <2>1, <5>1 DEF Job
      <4>2. CASE thr[t].g # g
        BY <2>1, <2>2, <3>1, <4>2 DEF QueueAdd
      <4> QED BY <4>1, <4>2
    <3>2. CASE ReleasePump(t) \/ LastPump(t)
      BY <2>3, <3>2 DEF ReleasePump, LastPump
    <3>3. CASE UNCHANGED job
      BY <2>2, <3>3
    <3> QED BY <2>4, <3>1, <3>2, <3>3
            DEF ThreadStep, QueueRefuse, SaveRow, DropRow, DropStaging, Hold, Release, Unhold, WatchPoll
  <2>5. ASSUME NEW t \in Threads, NEW h \in Games,
               QueueCheck(t, h) \/ CancelWaiting(t, h) \/ Finish(h, t)
        PROVE  job[g].cancelled \/ owned[g] = "owned"
    <3>1. CASE QueueCheck(t, h)
      BY <2>2, <3>1 DEF QueueCheck
    <3>2. CASE h # g
      <4>1. job'[g] = job[g]
        <5>1. CASE CancelWaiting(t, h)
          BY <2>1, <3>2, <5>1 DEF CancelWaiting, Removed
        <5>2. CASE Finish(h, t)
          BY <2>1, <3>2, <5>2 DEF Finish, Removed
        <5>3. CASE QueueCheck(t, h)
          BY <3>1, <5>3 DEF QueueCheck
        <5> QED BY <2>5, <5>1, <5>2, <5>3
      <4> QED BY <2>2, <4>1
    <3>3. CASE CancelWaiting(t, g)
      BY <3>3 DEF CancelWaiting
    <3>4. CASE Finish(g, t)
      <4>1. CASE job[g].err = "nil"
        BY <2>1, <3>4, <4>1 DEF Finish, EndsKnown
      <4>2. CASE job[g].err = "canceled"
        <5>1. Ended(g) /\ ~stopping
          BY <2>1, <3>4, <4>2 DEF Finish, Stays, EndsKnown
        <5> QED BY <5>1 DEF Ended
      <4>3. CASE job[g].err \notin {"nil", "canceled"}
        <5>1. job'[g].state = "failed"
          BY <2>1, <3>4, <4>3 DEF Finish, Failed
        <5> QED BY <5>1
      <4> QED BY <4>1, <4>2, <4>3
    <3> QED BY <2>5, <3>1, <3>2, <3>3, <3>4
  <2>6. ASSUME NEW h \in Games, RunStep(h) \/ CancelRunning(h) \/ CutOff(h) PROVE FALSE
    <3>1. CASE Begin(h)
      <4>1. CASE h = g
        <5>1. job'[g].state = "downloading"
          BY <2>1, <3>1, <4>1 DEF Begin, Job
        <5> QED BY <5>1
      <4>2. CASE h # g
        BY <2>1, <2>2, <3>1, <4>2 DEF Begin
      <4> QED BY <4>1, <4>2
    <3>2. CASE YieldPump(h)
      BY <2>1, <2>2, <3>2 DEF YieldPump, Job
    <3>3. CASE Interrupted(h) \/ Fails(h)
      <4>1. PICK err \in {"canceled", "error", "nospace"} : EndsWith(h, err)
        BY <3>3 DEF Interrupted, Fails
      <4> QED BY <2>1, <2>2, <4>1 DEF EndsWith, Job
    <3>4. CASE Fetched(h) \/ GameClosed(h) \/ Install(h) \/ Abandon(h) \/ CutOff(h)
      <4>1. PICK pc \in RunPC : job' = [job EXCEPT ![h].pc = pc]
        BY <3>4 DEF Fetched, GameClosed, Install, Abandon, CutOff, RunPC
      <4> QED BY <2>1, <2>2, <4>1 DEF Job
    <3>5. CASE CancelRunning(h)
      BY <2>1, <2>2, <3>5 DEF CancelRunning, Job
    <3> QED BY <2>6, <3>1, <3>2, <3>3, <3>4, <3>5 DEF RunStep
  <2>7. CASE ResumeStep
    <3>1. CASE ResumeMerge
      BY <2>1, <2>2, <3>1 DEF ResumeMerge, InQueue
    <3>2. CASE ResumePump
      BY <2>3, <3>2 DEF ResumePump
    <3> QED BY <2>2, <2>7, <3>1, <3>2 DEF ResumeStep, ResumeLoad, ResumeRow, ResumeClean
  <2>8. CASE Stop \/ Environment
    BY <2>2, <2>8 DEF Stop, Environment, SignIn, Space, Play, Ownership
  <2>9. CASE Exit \/ Die
    <3>1. stops' # stops \/ stopping' # stopping
      BY <2>1, <2>9 DEF Exit, Die, NewProcess, TypeOK
    <3> QED BY <3>1
  <2> QED BY <2>4, <2>5, <2>6, <2>7, <2>8, <2>9 DEF Next, Step
<1>4. LeaveInv /\ [Next]_vars => [stopping' = stopping /\ stops' = stops =>
       \A g \in InQueue : \/ job'[g].state # "none"
                          \/ job[g].pc = "none" \/ job[g].cancelled \/ owned[g] = "owned"]_vars
  BY <1>3
<1>5. SlotsInv /\ EndsKnown => LeaveInv
  BY DEF SlotsInv, LeaveInv
<1> QED BY <1>1, <1>2, <1>4, <1>5, SlotsInvariant, PTL DEF Spec, LeavesDone

-----------------------------------------------------------------------------
(* The rows and the staging folders. *)

\* Bytes arrive, or are unpacked.
UsesStaging == {"fetch", "yield", "game", "work"}

\* A download with a goroutine is under way.
Driven == \A g \in Games : job[g].pc # "none" => UnderWay(g)

\* Two goroutines change the same game's row or staging only if that was noticed.
Apart == \A g \in Games \ raced : ~Overlap(g)

\* What a goroutine is about to write of g is what the queue holds of it.
WritesTrue(g) ==
  \A t \in Writing(g) :
    /\ thr[t].pc = "save" => /\ g \in InQueue /\ thr[t].row.in
                             /\ thr[t].row.failed = (job[g].state = "failed")
                             /\ thr[t].row.update = job[g].update
    /\ thr[t].pc # "save" => g \notin InQueue
    /\ thr[t].pc = "dropStaging" => ~rows[g].in

\* Otherwise g's row is what the queue holds, or what Resume has yet to merge.
RowTrue(g) ==
  /\ resume.pc = "sift" /\ resume.saved[g].in => rows[g] = resume.saved[g]
  /\ Writing(g) = {} => \/ Saved(g)
                        \/ g \notin InQueue /\ resume.pc = "load"
                        \/ g \notin InQueue /\ resume.pc = "sift" /\ resume.saved[g].in

\* Resume is past g's staging folder.
Sifted(g) == resume.pc \in {"pump", "done"} \/ (resume.pc = "clean" /\ g \in resume.keep)

StagingTrue(g) ==
  /\ job[g].pc \in UsesStaging => g \in staging
  /\ g \notin InQueue /\ Writing(g) = {} /\ Sifted(g) => g \notin staging

Kept(g) == WritesTrue(g) /\ RowTrue(g) /\ StagingTrue(g)

\* Resume looks only at rows it read.
TodoSaved == resume.pc = "sift" => \A g \in resume.todo : resume.saved[g].in

KeptInv == SlotsInv /\ SaveOps /\ Driven /\ Apart /\ TodoSaved /\ \A g \in Games \ raced : Kept(g)

\* A step that changes neither g's place in the queue, nor its row, its staging or who writes them.
LEMMA Unmoved ==
  ASSUME NEW g \in Games, Kept(g),
         job'[g].state = job[g].state, job'[g].update = job[g].update,
         job'[g].pc \in UsesStaging => job[g].pc \in UsesStaging,
         rows'[g] = rows[g], g \in staging' <=> g \in staging,
         Writing(g)' = Writing(g), \A t \in Writing(g) : thr'[t] = thr[t],
         resume' = resume
  PROVE  Kept(g)'
<1>1. g \in InQueue' <=> g \in InQueue
  BY DEF InQueue
<1>2. WritesTrue(g)'
  BY <1>1 DEF Kept, WritesTrue
<1>3. RowTrue(g)'
  BY <1>1 DEF Kept, RowTrue, Saved
<1>4. StagingTrue(g)'
  BY <1>1 DEF Kept, StagingTrue, Sifted
<1> QED BY <1>2, <1>3, <1>4 DEF Kept

\* What a pump does to one download.
LEMMA PumpMoves ==
  ASSUME TypeOK, Pump, NEW g \in Games
  PROVE  /\ job'[g].state = job[g].state /\ job'[g].update = job[g].update
         /\ job'[g].pc \in {job[g].pc, "signin"}
         /\ job'[g].pc # job[g].pc => UnderWay(g)
<1>1. PICK S \in SUBSET Games :
        /\ IF held THEN S = {} ELSE Starts(S)
        /\ job' = [h \in Games |-> IF h \in S THEN [job[h] EXCEPT !.pc = "signin"] ELSE job[h]]
  BY DEF Pump
<1>2. job[g] \in Job
  BY DEF TypeOK
<1>3. g \in S => UnderWay(g)
  BY <1>1, <1>2 DEF Starts, Startable, InQueue, UnderWay, Job
<1>4. CASE g \in S
  BY <1>1, <1>2, <1>3, <1>4 DEF Job
<1>5. CASE g \notin S
  BY <1>1, <1>5
<1> QED BY <1>4, <1>5

\* The same of the pump that ends a wait for a game.
LEMMA YieldMoves ==
  ASSUME TypeOK, NEW h \in Games, YieldPump(h), NEW g \in Games
  PROVE  /\ job'[g].state = job[g].state /\ job'[g].update = job[g].update
         /\ IF g = h THEN job[g].pc = "yield" /\ job'[g].pc = "game"
                     ELSE job'[g].pc \in {job[g].pc, "signin"} /\ (job'[g].pc # job[g].pc => UnderWay(g))
<1>1. PICK S \in SUBSET Games :
        /\ IF held THEN S = {} ELSE Starts(S)
        /\ job' = [k \in Games |-> IF k = h THEN [job[k] EXCEPT !.pc = "game"]
                                   ELSE IF k \in S THEN [job[k] EXCEPT !.pc = "signin"]
                                   ELSE job[k]]
  BY DEF YieldPump
<1>2. job[g] \in Job
  BY DEF TypeOK
<1>3. g \in S => UnderWay(g)
  BY <1>1, <1>2 DEF Starts, Startable, InQueue, UnderWay, Job
<1>4. CASE g = h
  BY <1>1, <1>2, <1>4 DEF Job, YieldPump
<1>5. CASE g # h /\ g \in S
  BY <1>1, <1>2, <1>3, <1>5 DEF Job
<1>6. CASE g # h /\ g \notin S
  BY <1>1, <1>6
<1> QED BY <1>4, <1>5, <1>6

\* What a run does to its own download, and to no other.
LEMMA RunMoves ==
  ASSUME TypeOK, NEW h \in Games, ~Begin(h), ~YieldPump(h),
         RunStep(h) \/ CancelRunning(h) \/ CutOff(h), NEW g \in Games
  PROVE  /\ job'[g].state = job[g].state /\ job'[g].update = job[g].update
         /\ g # h => job'[g] = job[g]
         /\ job[g].pc = "none" <=> job'[g].pc = "none"
         /\ job'[g].pc \in UsesStaging => job[g].pc \in UsesStaging
<1> USE DEF UsesStaging, TypeOK
<1>1. job \in [Games -> Job]
  OBVIOUS
<1>2. CASE Interrupted(h) \/ Fails(h)
  <2>1. PICK err \in {"canceled", "error", "nospace"} :
          job' = [job EXCEPT ![h] = [@ EXCEPT !.pc = "ended", !.err = err]] /\ job[h].pc # "none"
    BY <1>2 DEF Interrupted, Fails, EndsWith
  <2> QED BY <1>1, <2>1 DEF Job
<1>3. CASE Fetched(h) \/ GameClosed(h)
  <2>1. PICK pc \in {"work", "yield"} : job' = [job EXCEPT ![h].pc = pc] /\ job[h].pc \in UsesStaging
    BY <1>3 DEF Fetched, GameClosed
  <2> QED BY <1>1, <2>1 DEF Job
<1>4. CASE Install(h) \/ Abandon(h) \/ CutOff(h)
  <2>1. PICK pc \in {"ended", "gone", "signin"} : job' = [job EXCEPT ![h].pc = pc] /\ job[h].pc # "none"
    BY <1>4 DEF Install, Abandon, CutOff
  <2> QED BY <1>1, <2>1 DEF Job
<1>5. CASE CancelRunning(h)
  BY <1>1, <1>5 DEF CancelRunning, Job
<1> QED BY <1>2, <1>3, <1>4, <1>5 DEF RunStep

\* A goroutine that writes nothing of g, before or after its step, leaves who writes g as it was.
LEMMA Elsewhere ==
  ASSUME NEW g \in Games, NEW t \in Threads, \A u \in Threads \ {t} : thr'[u] = thr[u],
         t \notin Writing(g), t \notin Writing(g)'
  PROVE  Writing(g)' = Writing(g) /\ \A u \in Writing(g) : thr'[u] = thr[u]
  BY DEF Writing

\* One that writes g afterwards: it is the only one, if that isn't noted as a race.
LEMMA Begun ==
  ASSUME NEW g \in Games, NEW t \in Threads, \A u \in Threads \ {t} : thr'[u] = thr[u],
         t \in Writing(g)', ~Overlap(g)'
  PROVE  /\ Writing(g)' = {t} /\ Writing(g) \subseteq {t}
         /\ ~(resume'.pc = "sift" /\ resume'.saved[g].in)
<1>1. Writing(g)' = {t}
  <2>1. \A u \in Writing(g)' : u = t
    BY DEF Overlap
  <2> QED BY <2>1
<1>2. Writing(g) \subseteq {t}
  BY <1>1 DEF Writing
<1>3. ~ResumeTouches(g)'
  BY <1>1 DEF Overlap
<1> QED BY <1>1, <1>2, <1>3 DEF ResumeTouches

\* Each step keeps downloads that have a goroutine under way.
LEMMA DrivenStep == SlotsInv /\ Driven /\ [Next]_vars => Driven'
<1> SUFFICES ASSUME SlotsInv, Driven, [Next]_vars, NEW g \in Games, job'[g].pc # "none"
             PROVE  UnderWay(g)'
  BY DEF Driven
<1> USE DEF memory, disk, world, bounds
<1>1. TypeOK /\ job \in [Games -> Job] /\ (job[g].pc # "none" => UnderWay(g))
  BY DEF SlotsInv, TypeOK, Driven
<1>2. CASE job'[g].state = job[g].state /\ (job'[g].pc # job[g].pc => UnderWay(g))
  BY <1>1, <1>2 DEF UnderWay
<1>3. CASE Pump
  BY <1>1, <1>2, <1>3, PumpMoves
<1>4. ASSUME NEW t \in Threads, ThreadStep(t) \/ WatchPoll(t) PROVE UnderWay(g)'
  <2>1. CASE QueueAdd(t)
    <3>1. CASE thr[t].g = g
      <4>1. job'[g].state = "queued"
        <5>1. CASE g \in InQueue
          BY <1>1, <2>1, <3>1, <5>1 DEF QueueAdd, Job
        <5>2. CASE g \notin InQueue
          BY <1>1, <2>1, <3>1, <5>2 DEF QueueAdd, NewJob, NoJob
        <5> QED BY <5>1, <5>2
      <4> QED BY <4>1 DEF UnderWay
    <3>2. CASE thr[t].g # g
      BY <1>1, <1>2, <2>1, <3>2 DEF QueueAdd
    <3> QED BY <3>1, <3>2
  <2>2. CASE ReleasePump(t) \/ LastPump(t)
    BY <1>3, <2>2 DEF ReleasePump, LastPump
  <2>3. CASE UNCHANGED job
    BY <1>2, <2>3
  <2> QED BY <1>4, <2>1, <2>2, <2>3
          DEF ThreadStep, QueueRefuse, SaveRow, DropRow, DropStaging, Hold, Release, Unhold, WatchPoll
<1>5. ASSUME NEW t \in Threads, NEW h \in Games,
             QueueCheck(t, h) \/ CancelWaiting(t, h) \/ Finish(h, t)
      PROVE  UnderWay(g)'
  <2>1. CASE g = h /\ (CancelWaiting(t, h) \/ Finish(h, t))
    BY <1>1, <2>1 DEF CancelWaiting, Finish, Removed, Failed, NoJob
  <2>2. CASE job'[g] = job[g]
    BY <1>2, <2>2
  <2> QED BY <1>1, <1>5, <2>1, <2>2 DEF QueueCheck, CancelWaiting, Finish, Removed
<1>6. ASSUME NEW h \in Games, RunStep(h) \/ CancelRunning(h) \/ CutOff(h) PROVE UnderWay(g)'
  <2>1. CASE Begin(h)
    <3>1. CASE h = g
      BY <1>1, <2>1, <3>1 DEF Begin, Job, UnderWay
    <3>2. CASE h # g
      BY <1>1, <1>2, <2>1, <3>2 DEF Begin
    <3> QED BY <3>1, <3>2
  <2>2. CASE YieldPump(h)
    BY <1>1, <1>2, <2>2, YieldMoves
  <2>3. CASE ~Begin(h) /\ ~YieldPump(h)
    BY <1>1, <1>6, <2>3, RunMoves DEF UnderWay
  <2> QED BY <2>1, <2>2, <2>3
<1>7. CASE ResumeStep
  <2>1. CASE ResumeMerge
    <3>1. job'[g] = job[g] \/ job'[g].pc = "none"
      BY <1>1, <2>1 DEF ResumeMerge, NewJob, NoJob
    <3> QED BY <1>2, <3>1
  <2>2. CASE ResumePump
    BY <1>3, <2>2 DEF ResumePump
  <2> QED BY <1>2, <1>7, <2>1, <2>2 DEF ResumeStep, ResumeLoad, ResumeRow, ResumeClean
<1>8. CASE Stop \/ Environment \/ UNCHANGED vars
  BY <1>2, <1>8 DEF Stop, Environment, SignIn, Space, Play, Ownership, vars
<1>9. CASE Exit \/ Die
  BY <1>9 DEF Exit, Die, NewProcess, NoJob
<1> QED BY <1>4, <1>5, <1>6, <1>7, <1>8, <1>9 DEF Next, Step

\* Each step notes the races it makes.
LEMMA ApartStep == Apart /\ [Next]_vars => Apart'
<1> SUFFICES ASSUME Apart, [Next]_vars PROVE Apart'
  OBVIOUS
<1>1. CASE raced' = raced \cup {g \in Games : Overlap(g)'}
  BY <1>1 DEF Apart
<1>2. CASE Exit \/ Die
  <2>1. thr' = [t \in Threads |-> Idle] /\ resume'.pc = "load"
    BY <1>2 DEF Exit, Die, NewProcess, Fresh
  <2>2. \A g \in Games : Writing(g)' = {}
    BY <2>1 DEF Writing, Idle
  <2> QED BY <2>1, <2>2 DEF Apart, Overlap, ResumeTouches
<1>3. CASE UNCHANGED vars
  BY <1>3 DEF vars, memory, Apart, Overlap, ResumeTouches, Writing, InQueue
<1> QED BY <1>1, <1>2, <1>3 DEF Next

\* Each step leaves Resume with rows it read to look at.
LEMMA TodoStep == TypeOK /\ TodoSaved /\ [Next]_vars => TodoSaved'
<1> SUFFICES ASSUME TypeOK, TodoSaved, [Next]_vars PROVE TodoSaved'
  OBVIOUS
<1>1. CASE UNCHANGED resume
  BY <1>1 DEF TodoSaved
<1>2. CASE ResumeLoad
  BY <1>2 DEF ResumeLoad, TodoSaved, TypeOK, Resuming
<1>3. ASSUME NEW g \in Games, ResumeRow(g) PROVE TodoSaved'
  BY <1>3 DEF ResumeRow, TodoSaved, TypeOK, Resuming
<1>4. CASE ResumeMerge \/ ResumeClean \/ ResumePump \/ Exit \/ Die
  <2>1. resume' = Fresh \/ \E pc \in {"clean", "pump", "done"} : resume'.pc = pc
    BY <1>4 DEF ResumeMerge, ResumeClean, ResumePump, Exit, Die, NewProcess, Fresh
  <2> QED BY <2>1 DEF TodoSaved, Fresh
<1> USE DEF memory, disk, world, bounds
<1>5. ASSUME NEW t \in Threads, ThreadStep(t) \/ WatchPoll(t) PROVE TodoSaved'
  BY <1>1, <1>5 DEF ThreadStep, QueueRefuse, QueueAdd, SaveRow, DropRow, DropStaging, Hold, Release, Unhold,
                    ReleasePump, LastPump, WatchPoll
<1>6. ASSUME NEW t \in Threads, NEW g \in Games,
             QueueCheck(t, g) \/ CancelWaiting(t, g) \/ Finish(g, t)
      PROVE  TodoSaved'
  BY <1>1, <1>6 DEF QueueCheck, CancelWaiting, Finish
<1>7. ASSUME NEW g \in Games, RunStep(g) \/ CancelRunning(g) \/ CutOff(g) PROVE TodoSaved'
  BY <1>1, <1>7 DEF RunStep, Begin, Fetched, YieldPump, GameClosed, Install, Interrupted, Fails,
                    Abandon, CancelRunning, CutOff
<1>8. CASE Stop \/ Environment \/ UNCHANGED vars
  BY <1>1, <1>8 DEF Stop, Environment, SignIn, Space, Play, Ownership, vars
<1> QED BY <1>2, <1>3, <1>4, <1>5, <1>6, <1>7, <1>8 DEF Next, Step, ResumeStep

\* The steps of a goroutine that writes rows and removes staging folders.
LEMMA ThreadKept ==
  ASSUME KeptInv, NEW g \in Games, Kept(g), ~Overlap(g), ~Overlap(g)',
         NEW t \in Threads, ThreadStep(t) \/ WatchPoll(t)
  PROVE  Kept(g)'
<1> USE DEF memory, disk, world, bounds
<1>1. TypeOK /\ job \in [Games -> Job] /\ thr \in [Threads -> Thread] /\ rows \in [Games -> Row]
  BY DEF KeptInv, SlotsInv, TypeOK
<1>2. ASSUME \A u \in Threads \ {t} : thr'[u] = thr[u], t \notin Writing(g), t \notin Writing(g)',
             job'[g].state = job[g].state, job'[g].update = job[g].update,
             job'[g].pc \in UsesStaging => job[g].pc \in UsesStaging,
             rows'[g] = rows[g], g \in staging' <=> g \in staging, resume' = resume
      PROVE  Kept(g)'
  <2>1. Writing(g)' = Writing(g) /\ \A u \in Writing(g) : thr'[u] = thr[u]
    BY <1>2, Elsewhere
  <2> QED BY <1>2, <2>1, Unmoved
<1>3. ASSUME t \in Writing(g)
      PROVE  Writing(g) = {t} /\ ~(resume.pc = "sift" /\ resume.saved[g].in)
  <2>1. \A u \in Writing(g) : u = t
    BY <1>3 DEF Overlap
  <2>2. ~ResumeTouches(g)
    BY <1>3 DEF Overlap
  <2> QED BY <1>3, <2>1, <2>2 DEF ResumeTouches
<1>4. CASE QueueAdd(t)
  <2> DEFINE h == thr[t].g
             j == IF h \in InQueue THEN [job[h] EXCEPT !.state = "queued"]
                                   ELSE NewJob(thr[t].row.update)
  <2>1. /\ thr[t].pc = "add" /\ ~UnderWay(h)
        /\ job' = [job EXCEPT ![h] = j]
        /\ thr' = [thr EXCEPT ![t] = [@ EXCEPT !.pc = "save", !.row = Record(j)]]
        /\ UNCHANGED <<resume, rows, staging>>
    BY <1>4 DEF QueueAdd
  <2>2. \A u \in Threads \ {t} : thr'[u] = thr[u]
    BY <1>1, <2>1
  <2>3. thr'[t].pc = "save" /\ thr'[t].g = h /\ thr'[t].row = Record(j)
    BY <1>1, <2>1 DEF Thread
  <2>4. CASE h = g
    <3>1. t \in Writing(g)'
      BY <2>3, <2>4 DEF Writing
    <3>2. Writing(g)' = {t} /\ ~(resume'.pc = "sift" /\ resume'.saved[g].in)
      BY <2>2, <3>1, Begun
    <3>3. job'[g] = j
      BY <1>1, <2>1, <2>4
    <3>4. j.state = "queued" /\ (j.pc = "none" \/ j.pc = job[g].pc)
      <4>1. CASE g \in InQueue
        BY <1>1, <2>4, <4>1 DEF Job
      <4>2. CASE g \notin InQueue
        BY <2>4, <4>2 DEF NewJob, NoJob
      <4> QED BY <4>1, <4>2
    <3>5. WritesTrue(g)'
      <4>1. g \in InQueue'
        BY <3>3, <3>4 DEF InQueue
      <4>2. /\ thr'[t].row.in /\ thr'[t].row.update = job'[g].update
            /\ thr'[t].row.failed = (job'[g].state = "failed")
        BY <2>3, <3>3 DEF Record
      <4> QED BY <2>3, <3>2, <4>1, <4>2 DEF WritesTrue
    <3>6. RowTrue(g)'
      BY <3>2 DEF RowTrue
    <3>7. StagingTrue(g)'
      BY <2>1, <3>2, <3>3, <3>4 DEF StagingTrue, Kept, UsesStaging
    <3> QED BY <3>5, <3>6, <3>7 DEF Kept
  <2>5. CASE h # g
    <3>1. t \notin Writing(g) /\ t \notin Writing(g)'
      BY <2>3, <2>5 DEF Writing
    <3>2. job'[g] = job[g]
      BY <1>1, <2>1, <2>5
    <3> QED BY <1>2, <2>1, <2>2, <3>1, <3>2
  <2> QED BY <2>4, <2>5
<1>5. CASE SaveRow(t)
  <2>1. /\ thr[t].pc = "save" /\ rows' = [rows EXCEPT ![thr[t].g] = thr[t].row]
        /\ UNCHANGED <<job, resume, staging>>
        /\ \A u \in Threads \ {t} : thr'[u] = thr[u]
    BY <1>1, <1>5 DEF SaveRow
  <2>2. t \notin Writing(g)'
    <3>1. thr'[t].pc \in {"pump", "hold", "release"}
      BY <1>1, <1>5 DEF SaveRow, Thread
    <3> QED BY <3>1 DEF Writing
  <2>3. CASE thr[t].g = g
    <3>1. Writing(g) = {t} /\ ~(resume.pc = "sift" /\ resume.saved[g].in)
      BY <1>3, <2>1, <2>3 DEF Writing
    <3>2. Writing(g)' = {}
      BY <2>1, <2>2, <3>1 DEF Writing
    <3>3. rows'[g] = thr[t].row
      BY <1>1, <2>1, <2>3
    <3>4. /\ g \in InQueue /\ thr[t].row.in
          /\ thr[t].row.failed = (job[g].state = "failed") /\ thr[t].row.update = job[g].update
      BY <2>1, <3>1 DEF Kept, WritesTrue
    <3>5. g \in InQueue'
      BY <2>1, <3>4 DEF InQueue
    <3>6. Saved(g)'
      BY <2>1, <3>3, <3>4, <3>5 DEF Saved
    <3>7. StagingTrue(g)'
      BY <2>1, <3>5 DEF Kept, StagingTrue
    <3> QED BY <2>1, <3>1, <3>2, <3>6, <3>7 DEF Kept, WritesTrue, RowTrue
  <2>4. CASE thr[t].g # g
    <3>1. rows'[g] = rows[g] /\ t \notin Writing(g)
      BY <1>1, <2>1, <2>4 DEF Writing
    <3> QED BY <1>2, <2>1, <2>2, <3>1
  <2> QED BY <2>3, <2>4
<1>6. CASE DropRow(t)
  <2>1. /\ thr[t].pc = "dropRow" /\ rows' = [rows EXCEPT ![thr[t].g] = NoRow]
        /\ UNCHANGED <<job, resume, staging>>
        /\ \A u \in Threads \ {t} : thr'[u] = thr[u]
        /\ thr'[t].pc = "dropStaging" /\ thr'[t].g = thr[t].g
    BY <1>1, <1>6 DEF DropRow, Goto, Thread
  <2>2. CASE thr[t].g = g
    <3>1. Writing(g) = {t} /\ ~(resume.pc = "sift" /\ resume.saved[g].in)
      BY <1>3, <2>1, <2>2 DEF Writing
    <3>2. Writing(g)' = {t}
      BY <2>1, <2>2, <3>1 DEF Writing
    <3>3. ~rows'[g].in
      BY <1>1, <2>1, <2>2 DEF NoRow
    <3>4. g \notin InQueue /\ g \notin InQueue'
      BY <2>1, <3>1 DEF Kept, WritesTrue, InQueue
    <3>5. WritesTrue(g)'
      BY <2>1, <3>2, <3>3, <3>4 DEF WritesTrue
    <3>6. StagingTrue(g)'
      BY <2>1, <3>2 DEF Kept, StagingTrue
    <3> QED BY <2>1, <3>1, <3>2, <3>5, <3>6 DEF Kept, RowTrue
  <2>3. CASE thr[t].g # g
    <3>1. rows'[g] = rows[g] /\ t \notin Writing(g) /\ t \notin Writing(g)'
      BY <1>1, <2>1, <2>3 DEF Writing
    <3> QED BY <1>2, <2>1, <3>1
  <2> QED BY <2>2, <2>3
<1>7. CASE DropStaging(t)
  <2>1. /\ thr[t].pc = "dropStaging" /\ staging' = staging \ {thr[t].g}
        /\ UNCHANGED <<job, resume, rows>>
        /\ \A u \in Threads \ {t} : thr'[u] = thr[u]
        /\ thr'[t].pc = "release"
    BY <1>1, <1>7 DEF DropStaging, Goto, Thread
  <2>2. t \notin Writing(g)'
    BY <2>1 DEF Writing
  <2>3. CASE thr[t].g = g
    <3>1. Writing(g) = {t} /\ ~(resume.pc = "sift" /\ resume.saved[g].in)
      BY <1>3, <2>1, <2>3 DEF Writing
    <3>2. Writing(g)' = {}
      BY <2>1, <2>2, <3>1 DEF Writing
    <3>3. g \notin InQueue /\ g \notin InQueue' /\ ~rows'[g].in /\ g \notin staging'
      BY <2>1, <2>3, <3>1 DEF Kept, WritesTrue, InQueue
    <3>4. job'[g].pc = "none"
      BY <2>1, <3>3 DEF KeptInv, SlotsInv, JobsInQueue, InQueue
    <3>5. StagingTrue(g)'
      BY <3>3, <3>4 DEF StagingTrue, UsesStaging
    <3> QED BY <2>1, <3>1, <3>2, <3>3, <3>5 DEF Kept, WritesTrue, RowTrue, Saved
  <2>4. CASE thr[t].g # g
    <3>1. t \notin Writing(g)
      BY <2>4 DEF Writing
    <3> QED BY <1>2, <2>1, <2>2, <2>4, <3>1
  <2> QED BY <2>3, <2>4
<1>8. ASSUME \A u \in Threads \ {t} : thr'[u] = thr[u],
             thr[t].pc \notin {"save", "dropRow", "dropStaging"},
             thr'[t].pc \notin {"save", "dropRow", "dropStaging"},
             UNCHANGED <<rows, staging, resume>>, UNCHANGED job \/ Pump
      PROVE  Kept(g)'
  <2>1. t \notin Writing(g) /\ t \notin Writing(g)'
    BY <1>8 DEF Writing
  <2>2. CASE UNCHANGED job
    BY <1>2, <1>8, <2>1, <2>2
  <2>3. CASE Pump
    BY <1>1, <1>2, <1>8, <2>1, <2>3, PumpMoves DEF UsesStaging
  <2> QED BY <1>8, <2>2, <2>3
<1>9. CASE QueueRefuse(t) \/ LastPump(t)
  <2>1. /\ thr' = [thr EXCEPT ![t] = Idle] /\ thr[t].pc \in {"add", "pump"}
        /\ UNCHANGED <<rows, staging, resume>> /\ (UNCHANGED job \/ Pump)
    BY <1>9 DEF QueueRefuse, LastPump
  <2>2. thr'[t].pc = "idle" /\ \A u \in Threads \ {t} : thr'[u] = thr[u]
    BY <1>1, <2>1 DEF Idle
  <2> QED BY <1>8, <2>1, <2>2
<1>10. CASE Hold(t) \/ Unhold(t)
  <2>1. PICK pc \in {"pump", "relPump"} : thr' = Goto(t, pc)
    BY <1>10 DEF Hold, Unhold
  <2>2. thr'[t].pc = pc /\ \A u \in Threads \ {t} : thr'[u] = thr[u]
    BY <1>1, <2>1 DEF Goto, Thread
  <2>3. thr[t].pc \in {"hold", "unhold"} /\ UNCHANGED <<rows, staging, resume, job>>
    BY <1>10 DEF Hold, Unhold
  <2> QED BY <1>8, <2>2, <2>3
<1>11. ASSUME NEW off \in BOOLEAN, Released(t, off)
       PROVE  thr'[t].pc \in {"pump", "idle"} /\ \A u \in Threads \ {t} : thr'[u] = thr[u]
  BY <1>1, <1>11 DEF Released, Idle, Thread
<1>12. CASE Release(t)
  <2>1. thr[t].pc = "release" /\ UNCHANGED <<rows, staging, resume, job>>
    BY <1>12 DEF Release
  <2>2. CASE thr' = Goto(t, "unhold")
    <3>1. thr'[t].pc = "unhold" /\ \A u \in Threads \ {t} : thr'[u] = thr[u]
      BY <1>1, <2>2 DEF Goto, Thread
    <3> QED BY <1>8, <2>1, <3>1
  <2>3. ASSUME NEW off \in BOOLEAN, Released(t, off) PROVE Kept(g)'
    BY <1>8, <1>11, <2>1, <2>3
  <2> QED BY <1>12, <2>2, <2>3 DEF Release
<1>13. CASE ReleasePump(t)
  <2>1. thr[t].pc = "relPump" /\ Released(t, TRUE) /\ Pump /\ UNCHANGED <<rows, staging, resume>>
    BY <1>13 DEF ReleasePump
  <2> QED BY <1>8, <1>11, <2>1
<1>14. CASE WatchPoll(t)
  <2>1. thr[t] = Idle /\ thr' = [thr EXCEPT ![t] = [Idle EXCEPT !.pc = "release", !.op = "watch"]]
        /\ UNCHANGED <<rows, staging, resume, job>>
    BY <1>14 DEF WatchPoll
  <2>2. thr[t].pc = "idle" /\ thr'[t].pc = "release" /\ \A u \in Threads \ {t} : thr'[u] = thr[u]
    BY <1>1, <2>1 DEF Idle
  <2> QED BY <1>8, <2>1, <2>2
<1> QED BY <1>4, <1>5, <1>6, <1>7, <1>9, <1>10, <1>12, <1>13, <1>14 DEF ThreadStep
\* The steps that give a goroutine its work: a call of Queue, of Cancel, the tail of run.
LEMMA CallKept ==
  ASSUME KeptInv, NEW g \in Games, Kept(g), ~Overlap(g), ~Overlap(g)',
         NEW t \in Threads, NEW h \in Games, QueueCheck(t, h) \/ CancelWaiting(t, h) \/ Finish(h, t)
  PROVE  Kept(g)'
<1> USE DEF disk, world
<1>1. TypeOK /\ job \in [Games -> Job] /\ thr \in [Threads -> Thread] /\ rows \in [Games -> Row]
  BY DEF KeptInv, SlotsInv, TypeOK
<1>2. /\ t \notin Writing(g) /\ \A u \in Threads \ {t} : thr'[u] = thr[u]
      /\ UNCHANGED <<rows, staging, resume>>
  BY <1>1 DEF QueueCheck, CancelWaiting, Finish, Writing, Idle
<1>3. CASE QueueCheck(t, h)
  <2>1. t \notin Writing(g)'
    BY <1>1, <1>3 DEF QueueCheck, Writing
  <2>2. UNCHANGED job
    BY <1>3 DEF QueueCheck
  <2> QED BY <1>2, <2>1, <2>2, Elsewhere, Unmoved
<1>4. CASE h # g /\ (CancelWaiting(t, h) \/ Finish(h, t))
  <2>1. job'[g] = job[g]
    BY <1>1, <1>4 DEF CancelWaiting, Finish, Removed
  <2>2. thr'[t].g = h
    <3>1. CASE CancelWaiting(t, h)
      BY <1>1, <3>1 DEF CancelWaiting, Idle
    <3>2. CASE Finish(h, t)
      <4>1. CASE thr' = [thr EXCEPT ![t] = [Idle EXCEPT !.pc = "dropRow", !.op = "run", !.g = h]]
        BY <1>1, <4>1 DEF Idle
      <4>2. CASE \E op \in {"full", "run"} :
                   thr' = [thr EXCEPT ![t] = [pc |-> "save", g |-> h, row |-> Record(Failed(job[h])), op |-> op]]
        <5>1. PICK op \in {"full", "run"} :
                thr' = [thr EXCEPT ![t] = [pc |-> "save", g |-> h, row |-> Record(Failed(job[h])), op |-> op]]
          BY <4>2
        <5>2. thr'[t] = [pc |-> "save", g |-> h, row |-> Record(Failed(job[h])), op |-> op]
          BY <1>1, <5>1
        <5> QED BY <5>2
      <4> QED BY <3>2, <4>1, <4>2 DEF Finish
    <3> QED BY <1>4, <3>1, <3>2
  <2>3. t \notin Writing(g)'
    BY <1>4, <2>2 DEF Writing
  <2> QED BY <1>2, <2>1, <2>3, Elsewhere, Unmoved
<1>5. ASSUME h = g, thr'[t].g = g, thr'[t].pc \in {"save", "dropRow"}, job'[g].pc = "none",
             thr'[t].pc = "save" => /\ g \in InQueue' /\ thr'[t].row.in
                                    /\ thr'[t].row.failed = (job'[g].state = "failed")
                                    /\ thr'[t].row.update = job'[g].update,
             thr'[t].pc # "save" => g \notin InQueue'
      PROVE  Kept(g)'
  <2>1. t \in Writing(g)'
    BY <1>5 DEF Writing
  <2>2. Writing(g)' = {t} /\ ~(resume'.pc = "sift" /\ resume'.saved[g].in)
    BY <1>2, <2>1, Begun
  <2>3. WritesTrue(g)'
    BY <1>5, <2>2 DEF WritesTrue
  <2>4. RowTrue(g)' /\ StagingTrue(g)'
    BY <1>5, <2>2 DEF RowTrue, StagingTrue, UsesStaging
  <2> QED BY <2>3, <2>4 DEF Kept
<1>6. CASE h = g /\ (CancelWaiting(t, h) \/ (Finish(h, t) /\ job[h].err \in {"nil", "canceled"}))
  <2>1. PICK op \in {"cancel", "run"} :
          /\ Removed(g)
          /\ thr' = [thr EXCEPT ![t] = [Idle EXCEPT !.pc = "dropRow", !.op = op, !.g = g]]
    BY <1>6 DEF CancelWaiting, Finish
  <2>2. job'[g] = NoJob
    BY <1>1, <2>1 DEF Removed
  <2>3. thr'[t].pc = "dropRow" /\ thr'[t].g = g
    BY <1>1, <2>1 DEF Idle
  <2>4. job'[g].pc = "none" /\ g \notin InQueue'
    BY <2>2 DEF NoJob, InQueue
  <2> QED BY <1>5, <1>6, <2>3, <2>4
<1>7. CASE h = g /\ Finish(h, t) /\ job[h].err \notin {"nil", "canceled"}
  <2>1. PICK op \in {"full", "run"} :
          /\ job' = [job EXCEPT ![g] = Failed(job[g])]
          /\ thr' = [thr EXCEPT ![t] = [pc |-> "save", g |-> g, row |-> Record(Failed(job[g])), op |-> op]]
    BY <1>7 DEF Finish
  <2>2. job'[g] = Failed(job[g])
    BY <1>1, <2>1
  <2>3. thr'[t].pc = "save" /\ thr'[t].g = g /\ thr'[t].row = Record(job'[g])
    BY <1>1, <2>1, <2>2
  <2>4. job'[g].pc = "none" /\ g \in InQueue'
    BY <2>2 DEF Failed, InQueue
  <2> QED BY <1>5, <1>7, <2>3, <2>4 DEF Record
<1> QED BY <1>3, <1>4, <1>6, <1>7

\* The steps of a run: an attempt begins, and the rest of its life.
LEMMA RunKept ==
  ASSUME KeptInv, NEW g \in Games, Kept(g), ~Overlap(g),
         NEW h \in Games, RunStep(h) \/ CancelRunning(h) \/ CutOff(h)
  PROVE  Kept(g)'
<1> USE DEF disk, world, bounds
<1>1. TypeOK /\ job \in [Games -> Job] /\ rows \in [Games -> Row] /\ staging \subseteq Games
  BY DEF KeptInv, SlotsInv, TypeOK
<1>2. UNCHANGED <<thr, resume>>
  BY DEF RunStep, Begin, Fetched, YieldPump, GameClosed, Install, Interrupted, Fails, Abandon,
         CancelRunning, CutOff
<1>3. Writing(g)' = Writing(g) /\ \A u \in Writing(g) : thr'[u] = thr[u]
  BY <1>2 DEF Writing
<1>4. CASE Begin(h)
  <2>1. PICK same \in {FALSE, job[h].partial} :
          /\ job' = [job EXCEPT ![h] = [@ EXCEPT !.pc = "fetch", !.state = "downloading", !.partial = TRUE]]
          /\ rows' = IF same THEN rows ELSE [rows EXCEPT ![h] = [Record(job[h]) EXCEPT !.partial = TRUE]]
          /\ staging' = staging \cup {h} /\ job[h].pc = "signin"
    BY <1>4 DEF Begin
  <2>2. CASE h # g
    <3>1. job'[g] = job[g] /\ rows'[g] = rows[g] /\ (g \in staging' <=> g \in staging)
      BY <1>1, <2>1, <2>2
    <3> QED BY <1>2, <1>3, <3>1, Unmoved
  <2>3. CASE h = g
    <3>1. UnderWay(g) /\ g \in InQueue
      BY <2>1, <2>3 DEF KeptInv, Driven, UnderWay, InQueue
    <3>2. /\ job'[g].state = "downloading" /\ job'[g].update = job[g].update
          /\ g \in InQueue' /\ g \in staging'
      BY <1>1, <2>1, <2>3 DEF Job, InQueue
    <3>3. (job'[g].state = "failed") = FALSE /\ (job[g].state = "failed") = FALSE
      BY <3>1, <3>2 DEF UnderWay
    <3>4. \/ rows'[g] = rows[g]
          \/ rows'[g].in /\ rows'[g].failed = FALSE /\ rows'[g].update = job[g].update
      <4>1. CASE same
        BY <2>1, <4>1
      <4>2. CASE ~same
        <5>1. rows'[g] = [Record(job[g]) EXCEPT !.partial = TRUE]
          BY <1>1, <2>1, <2>3, <4>2
        <5> QED BY <3>3, <5>1 DEF Record
      <4> QED BY <4>1, <4>2
    <3>5. WritesTrue(g)'
      <4> SUFFICES ASSUME NEW u \in Writing(g)
                   PROVE  /\ thr[u].pc = "save" /\ thr[u].row.in /\ thr[u].row.failed = FALSE
                          /\ thr[u].row.update = job[g].update
        BY <1>2, <1>3, <3>2, <3>3 DEF WritesTrue
      <4> QED BY <3>1, <3>3 DEF Kept, WritesTrue
    <3>6. RowTrue(g)'
      <4>1. ~(resume.pc = "sift" /\ resume.saved[g].in)
        BY <3>1 DEF Overlap, ResumeTouches
      <4>2. Writing(g) = {} => Saved(g)
        BY <3>1, <4>1 DEF Kept, RowTrue
      <4>3. Writing(g) = {} => Saved(g)'
        BY <3>1, <3>2, <3>3, <3>4, <4>2 DEF Saved
      <4> QED BY <1>2, <1>3, <4>1, <4>3 DEF RowTrue
    <3>7. StagingTrue(g)'
      BY <3>2 DEF StagingTrue
    <3> QED BY <3>5, <3>6, <3>7 DEF Kept
  <2> QED BY <2>2, <2>3
<1>5. CASE YieldPump(h)
  <2>1. UNCHANGED <<rows, staging>>
    BY <1>5 DEF YieldPump
  <2>2. job'[g].pc \in UsesStaging => job[g].pc \in UsesStaging
    BY <1>1, <1>5, YieldMoves DEF UsesStaging
  <2> QED BY <1>1, <1>2, <1>3, <1>5, <2>1, <2>2, YieldMoves, Unmoved
<1>6. CASE ~Begin(h) /\ ~YieldPump(h)
  <2>1. UNCHANGED <<rows, staging>>
    BY <1>6 DEF RunStep, Fetched, GameClosed, Install, Interrupted, Fails, Abandon, CancelRunning, CutOff
  <2> QED BY <1>1, <1>2, <1>3, <1>6, <2>1, RunMoves, Unmoved
<1> QED BY <1>4, <1>5, <1>6
\* The steps of Resume: rows read, sifted and merged, staging folders cleaned.
LEMMA ResumeKept ==
  ASSUME KeptInv, NEW g \in Games, Kept(g), ~Overlap(g), ResumeStep
  PROVE  Kept(g)'
<1> USE DEF disk, world, bounds
<1>1. /\ TypeOK /\ job \in [Games -> Job] /\ rows \in [Games -> Row] /\ staging \subseteq Games
      /\ resume \in Resuming
  BY DEF KeptInv, SlotsInv, TypeOK
<1>2. UNCHANGED thr
  BY DEF ResumeStep, ResumeLoad, ResumeRow, ResumeMerge, ResumeClean, ResumePump
<1>3. Writing(g)' = Writing(g) /\ \A u \in Writing(g) : thr'[u] = thr[u]
  BY <1>2 DEF Writing
<1>4. ASSUME UNCHANGED <<job, rows, staging>>, Sifted(g)' <=> Sifted(g), RowTrue(g)' PROVE Kept(g)'
  <2>1. g \in InQueue' <=> g \in InQueue
    BY <1>4 DEF InQueue
  <2> QED BY <1>2, <1>3, <1>4, <2>1 DEF Kept, WritesTrue, StagingTrue
<1>5. CASE ResumeLoad
  <2>1. /\ resume.pc = "load" /\ resume'.pc = "sift" /\ resume'.saved = rows
        /\ UNCHANGED <<job, rows, staging>>
    BY <1>1, <1>5 DEF ResumeLoad, Resuming
  <2>2. g \in InQueue' <=> g \in InQueue
    BY <2>1 DEF InQueue
  <2>3. CASE Writing(g) = {} /\ ~Saved(g)
    <3>1. g \notin InQueue
      BY <2>1, <2>3 DEF Kept, RowTrue
    <3>2. rows[g].in
      BY <1>1, <2>3, <3>1 DEF Saved, Row
    <3> QED BY <1>4, <2>1, <2>2, <3>1, <3>2 DEF RowTrue, Sifted
  <2>4. CASE Writing(g) # {} \/ Saved(g)
    <3>1. Writing(g)' = {} => Saved(g)'
      BY <1>3, <2>1, <2>2, <2>4 DEF Saved
    <3> QED BY <1>4, <2>1, <3>1 DEF RowTrue, Sifted
  <2> QED BY <2>3, <2>4
<1>6. ASSUME NEW h \in Games, ResumeRow(h) PROVE Kept(g)'
  <2>1. /\ resume.pc = "sift" /\ h \in resume.todo
        /\ resume' = [resume EXCEPT !.todo = @ \ {h}, !.saved[h] = IF Recorded(h) THEN NoRow ELSE @]
        /\ rows' = IF Recorded(h) THEN [rows EXCEPT ![h] = NoRow] ELSE rows
        /\ UNCHANGED <<job, staging>>
    BY <1>6 DEF ResumeRow
  <2>2. resume'.pc = "sift" /\ (~Recorded(h) \/ h # g => resume'.saved[g] = resume.saved[g])
    BY <1>1, <2>1 DEF Resuming
  <2>3. g \in InQueue' <=> g \in InQueue
    BY <2>1 DEF InQueue
  <2>4. CASE ~Recorded(h) \/ h # g
    <3>1. rows'[g] = rows[g]
      BY <1>1, <2>1, <2>4
    <3>2. RowTrue(g)'
      BY <1>3, <2>1, <2>2, <2>3, <2>4, <3>1 DEF Kept, RowTrue, Saved
    <3>3. WritesTrue(g)' /\ StagingTrue(g)'
      BY <1>2, <1>3, <2>1, <2>2, <2>3, <3>1 DEF Kept, WritesTrue, StagingTrue, Sifted
    <3> QED BY <3>2, <3>3 DEF Kept
  <2>5. CASE Recorded(h) /\ h = g
    <3>1. rows'[g] = NoRow /\ resume'.saved[g] = NoRow
      BY <1>1, <2>1, <2>5 DEF Resuming
    <3>2. resume.saved[g].in
      BY <2>1, <2>5 DEF KeptInv, TodoSaved
    <3>3. Writing(g) = {} /\ g \notin InQueue
      BY <2>1, <3>2 DEF Overlap, ResumeTouches
    <3>4. ~rows'[g].in /\ ~resume'.saved[g].in /\ g \notin InQueue'
      BY <2>3, <3>1, <3>3 DEF NoRow
    <3>5. RowTrue(g)'
      BY <3>4 DEF RowTrue, Saved
    <3>6. WritesTrue(g)' /\ StagingTrue(g)'
      BY <1>3, <2>1, <2>2, <2>3, <3>3 DEF Kept, WritesTrue, StagingTrue, Sifted
    <3> QED BY <3>5, <3>6 DEF Kept
  <2> QED BY <2>4, <2>5
<1>7. CASE ResumeMerge
  <2> DEFINE restored == {h \in Games : resume.saved[h].in /\ h \notin InQueue}
             q == resume.saved[g]
  <2>1. /\ resume.pc = "sift" /\ resume'.pc = "clean" /\ resume'.keep = InQueue \cup restored
        /\ UNCHANGED <<rows, staging>>
    BY <1>7 DEF ResumeMerge, Fresh
  <2>2. CASE g \in restored
    <3>1. job'[g] = [NewJob(q.update) EXCEPT !.partial = q.partial,
                                             !.state = IF q.failed THEN "failed" ELSE "queued"]
      BY <1>7, <2>2 DEF ResumeMerge
    <3>2. /\ job'[g].state = (IF q.failed THEN "failed" ELSE "queued")
          /\ job'[g].update = q.update /\ job'[g].pc = "none"
      BY <3>1 DEF NewJob, NoJob
    <3>3. Writing(g) = {} /\ rows[g] = q
      BY <2>1, <2>2 DEF Overlap, ResumeTouches, Kept, RowTrue
    <3>4. g \in InQueue'
      BY <3>2 DEF InQueue
    <3>5. q.failed \in BOOLEAN
      BY <1>1, <3>3 DEF Row
    <3>6. Saved(g)'
      BY <2>1, <2>2, <3>2, <3>3, <3>4, <3>5 DEF Saved
    <3>7. WritesTrue(g)' /\ RowTrue(g)'
      BY <1>3, <2>1, <3>3, <3>6 DEF WritesTrue, RowTrue
    <3>8. StagingTrue(g)'
      BY <3>2, <3>4 DEF StagingTrue, UsesStaging
    <3> QED BY <3>7, <3>8 DEF Kept
  <2>3. CASE g \notin restored
    <3>1. job'[g] = job[g]
      BY <1>7, <2>3 DEF ResumeMerge
    <3>2. g \in InQueue' <=> g \in InQueue
      BY <3>1 DEF InQueue
    <3>3. Writing(g) = {} => Saved(g)
      BY <2>1, <2>3 DEF Kept, RowTrue
    <3>4. WritesTrue(g)' /\ RowTrue(g)'
      BY <1>2, <1>3, <2>1, <3>1, <3>2, <3>3 DEF Kept, WritesTrue, RowTrue, Saved
    <3>5. StagingTrue(g)'
      BY <2>1, <2>3, <3>1, <3>2 DEF Kept, StagingTrue, Sifted
    <3> QED BY <3>4, <3>5 DEF Kept
  <2> QED BY <2>2, <2>3
<1>8. CASE ResumeClean
  <2>1. /\ resume.pc = "clean" /\ resume'.pc = "pump"
        /\ staging' = staging \cap resume.keep /\ UNCHANGED <<job, rows>>
    BY <1>8 DEF ResumeClean, Fresh
  <2>2. g \in InQueue' <=> g \in InQueue
    BY <2>1 DEF InQueue
  <2>3. WritesTrue(g)' /\ RowTrue(g)'
    BY <1>2, <1>3, <2>1, <2>2 DEF Kept, WritesTrue, RowTrue, Saved
  <2>4. g \in InQueue => g \in resume.keep
    BY <2>1 DEF Overlap, ResumeTouches
  <2>5. job[g].pc \in UsesStaging => g \in InQueue
    BY DEF KeptInv, SlotsInv, JobsInQueue, UsesStaging, InQueue
  <2>6. StagingTrue(g)'
    BY <1>3, <2>1, <2>2, <2>4, <2>5 DEF Kept, StagingTrue, Sifted
  <2> QED BY <2>3, <2>6 DEF Kept
<1>9. CASE ResumePump
  <2>1. Pump /\ resume.pc = "pump" /\ resume'.pc = "done" /\ UNCHANGED <<rows, staging>>
    BY <1>9 DEF ResumePump, Fresh
  <2>2. /\ job'[g].state = job[g].state /\ job'[g].update = job[g].update
        /\ job'[g].pc \in UsesStaging => job[g].pc \in UsesStaging
    BY <1>1, <2>1, PumpMoves DEF UsesStaging
  <2>3. g \in InQueue' <=> g \in InQueue
    BY <2>2 DEF InQueue
  <2>4. WritesTrue(g)'
    BY <1>2, <1>3, <2>1, <2>2, <2>3 DEF Kept, WritesTrue
  <2>5. RowTrue(g)'
    BY <1>3, <2>1, <2>2, <2>3 DEF Kept, RowTrue, Saved
  <2>6. StagingTrue(g)'
    BY <1>3, <2>1, <2>2, <2>3 DEF Kept, StagingTrue, Sifted
  <2> QED BY <2>4, <2>5, <2>6 DEF Kept
<1> QED BY <1>5, <1>6, <1>7, <1>8, <1>9 DEF ResumeStep

\* A new process reads the queue its rows hold.
LEMMA RestartKept ==
  ASSUME KeptInv, NEW g \in Games, NewProcess
  PROVE  Kept(g)'
<1>1. job'[g] = NoJob /\ thr' = [t \in Threads |-> Idle] /\ resume'.pc = "load"
  BY DEF NewProcess, Fresh
<1>2. Writing(g)' = {}
  BY <1>1 DEF Writing, Idle
<1>3. g \notin InQueue' /\ job'[g].pc = "none"
  BY <1>1 DEF InQueue, NoJob
<1> QED BY <1>1, <1>2, <1>3 DEF Kept, WritesTrue, RowTrue, StagingTrue, UsesStaging, Sifted

\* Each step keeps a game's row and staging, unless it notes a race of that game.
LEMMA KeptStep ==
  ASSUME KeptInv, [Next]_vars, NEW g \in Games, g \notin raced'
  PROVE  Kept(g)'
<1> USE DEF memory, disk, world, bounds
<1>1. CASE Exit \/ Die
  BY <1>1, RestartKept DEF Exit, Die
<1>2. CASE UNCHANGED vars
  <2>1. g \in Games \ raced
    BY <1>2 DEF vars
  <2> QED BY <1>2, <2>1, Unmoved DEF vars, KeptInv, Writing
<1>3. CASE (Step \/ Environment) /\ raced' = raced \cup {h \in Games : Overlap(h)'}
  <2>1. g \notin raced /\ ~Overlap(g)'
    BY <1>3
  <2>2. Kept(g) /\ ~Overlap(g)
    BY <2>1 DEF KeptInv, Apart
  <2>3. CASE Stop \/ Environment
    BY <2>2, <2>3, Unmoved DEF Stop, Environment, SignIn, Space, Play, Ownership, Writing
  <2> QED BY <1>3, <2>1, <2>2, <2>3, ThreadKept, CallKept, RunKept, ResumeKept DEF Step
<1> QED BY <1>1, <1>2, <1>3 DEF Next

LEMMA KeptInit == Init => KeptInv
<1> SUFFICES ASSUME Init PROVE KeptInv
  OBVIOUS
<1>1. /\ \A g \in Games : job[g] = NoJob /\ rows[g] = NoRow
      /\ \A t \in Threads : thr[t] = Idle
      /\ resume.pc = "load" /\ staging = {}
  BY DEF Init, Fresh
<1>2. \A g \in Games : Writing(g) = {}
  BY <1>1 DEF Writing, Idle
<1>3. SaveOps /\ Driven /\ Apart /\ TodoSaved
  BY <1>1, <1>2 DEF SaveOps, Idle, Driven, NoJob, Apart, Overlap, ResumeTouches, TodoSaved
<1>4. \A g \in Games : Kept(g)
  BY <1>1, <1>2 DEF Kept, WritesTrue, RowTrue, StagingTrue, NoJob, InQueue, UsesStaging
<1> QED BY <1>3, <1>4, SlotsInit DEF KeptInv

LEMMA KeptInductive == KeptInv /\ [Next]_vars => KeptInv'
<1> SUFFICES ASSUME KeptInv, [Next]_vars PROVE KeptInv'
  OBVIOUS
<1>1. SlotsInv' /\ SaveOps' /\ Driven' /\ Apart' /\ TodoSaved'
  BY SlotsInductive, SaveOpsStep, DrivenStep, ApartStep, TodoStep DEF KeptInv, SlotsInv
<1>2. \A g \in Games \ raced' : Kept(g)'
  BY KeptStep
<1> QED BY <1>1, <1>2 DEF KeptInv

\* Once what a call or a run does is written, state.db's rows are the queue in memory, through every
\* restart: downloads.go's saves, removals and Resume, wherever they interleave without two of
\* them changing the same game's row at once.
THEOREM QueueSavedHolds == Spec => []QueueSaved
<1>1. KeptInv => QueueSaved
  <2> SUFFICES ASSUME KeptInv, NEW g \in Games \ raced, Quiet(g) PROVE Saved(g)
    BY DEF QueueSaved
  <2>1. Writing(g) = {} /\ resume.pc # "load" /\ ~(resume.pc = "sift" /\ resume.saved[g].in)
    BY DEF Quiet, ResumeTouches
  <2> QED BY <2>1 DEF KeptInv, Kept, RowTrue
<1> QED BY <1>1, KeptInit, KeptInductive, PTL DEF Spec

\* A download under way has its staging folder, and none outlives its download: discard, Resume's
\* cleanStaging and the runs agree on whose folder is whose.
THEOREM StagingKeptHolds == Spec => []StagingKept
<1>1. KeptInv => StagingKept
  <2> SUFFICES ASSUME KeptInv, NEW g \in Games \ raced
               PROVE  /\ job[g].pc \in {"fetch", "yield", "game", "work"} => g \in staging
                      /\ Quiet(g) /\ resume.pc \notin {"sift", "clean"} /\ g \notin InQueue
                           => g \notin staging
    BY DEF StagingKept
  <2>1. StagingTrue(g) /\ resume \in Resuming
    BY DEF KeptInv, Kept, SlotsInv, TypeOK
  <2>2. Quiet(g) /\ resume.pc \notin {"sift", "clean"} => Writing(g) = {} /\ Sifted(g)
    BY <2>1 DEF Quiet, Sifted, Resuming
  <2> QED BY <2>1, <2>2 DEF StagingTrue, UsesStaging
<1> QED BY <1>1, KeptInit, KeptInductive, PTL DEF Spec

=============================================================================
