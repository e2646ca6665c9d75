------------------------------ MODULE PartsProofs ------------------------------
(* Theorems of the parts that keep to themselves (Parts), for every value  *)
(* of each part's constants that its Assumptions allow: of the relay, for  *)
(* every set of calls, every crash limit from two on, and any number of    *)
(* restarts and commands.                                                  *)
EXTENDS Parts, TLAPS, FiniteSetTheorems, WellFoundedInduction

-----------------------------------------------------------------------------
(* The relay (Supervisor): the inductive invariant. *)

\* The crashes that give up are counted, and not one more: a restart or a wake starts over.
CrashesCounted == crashes = CrashLimit => loop \in {"downEmit", "down"}

\* self.proc is set exactly while _run_once has a process, which is gone once it is reaped.
ProcessOwned == /\ proc <=> loop \in {"read", "eof", "drain"}
                /\ loop \notin {"read", "eof"} => os \in {"none", "dead"}

\* Ready is told by a handshake of this process, and only a ready backend gets calls.
ServedByReady == /\ ready => hand = "ok"
                 /\ proc /\ hand # "ok" => \A c \in Calls : calls[c] \notin {"woken", "pending"}

\* A wake nobody has waited for: the crashes were forgotten when it was set, so that the next one
\* can't be the one run gives up on, unless it was set since.
WakeOwned ==
  wake /\ ~stopping => \/ loop \in {"backEmit", "backoff"}
                       \/ crashes = 0 /\ (asked \/ loop \notin {"downEmit", "down"})

RelayInv == TypeOK /\ PendingServed /\ CrashesCounted /\ ProcessOwned /\ ServedByReady /\ WakeOwned

\* A count that starts over is within the limit.
LEMMA NoCrash == 0 \in 0 .. CrashLimit
BY LimitAssumption

\* Backend.__init__.
LEMMA RelayInit == Init => RelayInv
<1> SUFFICES ASSUME Init PROVE RelayInv
  OBVIOUS
<1>1. TypeOK
  BY NoCrash DEF Init, TypeOK, Loop, State, CallState
<1>2. CrashesCounted
  BY LimitAssumption DEF Init, CrashesCounted
<1>3. PendingServed /\ ProcessOwned /\ ServedByReady /\ WakeOwned
  BY DEF Init, PendingServed, ProcessOwned, ServedByReady, WakeOwned
<1> QED BY <1>1, <1>2, <1>3 DEF RelayInv

-----------------------------------------------------------------------------
(* The relay: what a step does to it. *)

\* run's judgement of a process that is gone, or of a spawn that failed: it goes on to a state the
\* invariant allows, whoever asked for what meanwhile.
LEMMA JudgeKeeps ==
  ASSUME RelayInv, Judge, loop \in {"spawn", "drain"},
         UNCHANGED <<stopping, os>>, asked' \in {asked, FALSE}
  PROVE  /\ loop' \in {"ended", "emit", "refused", "downEmit", "backEmit"}
         /\ state' \in State
         /\ ready' = FALSE
         /\ wake' \in BOOLEAN /\ restartReq' \in BOOLEAN
         /\ crashes' \in 0 .. CrashLimit
         /\ CrashesCounted'
         /\ WakeOwned'
<1> USE LimitAssumption
<1>1. ready = FALSE /\ crashes \in 0 .. CrashLimit /\ crashes # CrashLimit
  BY DEF RelayInv, TypeOK, CrashesCounted
<1>2. CASE stopping /\ loop' = "ended" /\ UNCHANGED <<state, ready, wake, crashes, restartReq>>
  BY <1>1, <1>2 DEF RelayInv, TypeOK, CrashesCounted, WakeOwned
<1>3. CASE /\ ~stopping /\ restartReq
           /\ restartReq' = FALSE /\ wake' = FALSE
           /\ GoOn
           /\ UNCHANGED crashes
  BY <1>1, <1>3 DEF GoOn, RelayInv, TypeOK, State, CrashesCounted, WakeOwned
<1>4. CASE /\ ~stopping /\ ~restartReq /\ state = "refused"
           /\ loop' = "refused"
           /\ UNCHANGED <<state, ready, wake, crashes, restartReq>>
  BY <1>1, <1>4 DEF RelayInv, TypeOK, CrashesCounted, WakeOwned
<1>5. CASE /\ ~stopping /\ ~restartReq /\ state # "refused"
           /\ \E n \in 0 .. crashes :
                /\ crashes' = n + 1
                /\ IF n + 1 >= CrashLimit THEN loop' = "downEmit" /\ state' = "down"
                                          ELSE loop' = "backEmit" /\ state' = "restarting"
           /\ UNCHANGED <<ready, wake, restartReq>>
  <2>1. PICK n \in 0 .. crashes :
          /\ crashes' = n + 1
          /\ IF n + 1 >= CrashLimit THEN loop' = "downEmit" /\ state' = "down"
                                    ELSE loop' = "backEmit" /\ state' = "restarting"
    BY <1>5
  <2>2. crashes' \in 0 .. CrashLimit /\ CrashesCounted'
    BY <1>1, <2>1 DEF CrashesCounted
  <2>3. WakeOwned'
    BY <1>1, <1>5, <2>1 DEF RelayInv, WakeOwned
  <2> QED BY <1>1, <1>5, <2>1, <2>2, <2>3 DEF RelayInv, TypeOK, State
<1> QED BY <1>2, <1>3, <1>4, <1>5 DEF Judge

\* The steps of Backend.run.
LEMMA RunKeeps == RelayInv /\ RunStep => RelayInv'
<1> SUFFICES ASSUME RelayInv, RunStep PROVE RelayInv'
  OBVIOUS
<1> USE LimitAssumption
<1>1. CASE Emitted
  BY ZenonT(60), <1>1 DEF Emitted, process, RelayInv, TypeOK, Loop, PendingServed, CrashesCounted, ProcessOwned,
     ServedByReady, WakeOwned
<1>2. CASE CommandEnds
  BY <1>2 DEF CommandEnds, process, RelayInv, TypeOK, Loop, PendingServed, CrashesCounted, ProcessOwned,
     ServedByReady, WakeOwned
<1>3. CASE Spawned
  BY <1>3 DEF Spawned, RelayInv, TypeOK, Loop, CallState, PendingServed, CrashesCounted, ProcessOwned,
     ServedByReady, WakeOwned
<1>4. CASE SpawnFails
  <2>1. /\ loop = "spawn" /\ Judge /\ asked' = FALSE
        /\ UNCHANGED <<stopping, command, proc, os, hand, stdin, calls, stop, requests>>
    BY <1>4 DEF SpawnFails, process
  <2>2. /\ loop' \in {"ended", "emit", "refused", "downEmit", "backEmit"} /\ state' \in State
        /\ ready' = FALSE /\ wake' \in BOOLEAN /\ restartReq' \in BOOLEAN
        /\ crashes' \in 0 .. CrashLimit /\ CrashesCounted' /\ WakeOwned'
    BY <2>1, JudgeKeeps
  <2> QED BY <2>1, <2>2 DEF RelayInv, TypeOK, Loop, PendingServed, ProcessOwned, ServedByReady
<1>5. CASE HandshakeTimeout
  BY <1>5 DEF HandshakeTimeout, RelayInv, TypeOK, PendingServed, CrashesCounted, ProcessOwned,
     ServedByReady, WakeOwned
<1>6. CASE os \in {"closing", "dead"} /\ ReadEnds
  BY <1>6 DEF ReadEnds, RelayInv, TypeOK, Loop, PendingServed, CrashesCounted, ProcessOwned,
     ServedByReady, WakeOwned
<1>7. CASE Reaped
  BY <1>7 DEF Reaped, process, RelayInv, TypeOK, Loop, PendingServed, CrashesCounted, ProcessOwned,
     ServedByReady, WakeOwned
<1>8. CASE Drained
  <2>1. /\ loop = "drain" /\ Judge /\ proc' = FALSE /\ asked' = asked
        /\ calls' = [c \in Calls |-> IF calls[c] = "pending" THEN "idle" ELSE calls[c]]
        /\ UNCHANGED <<stopping, command, os, hand, stdin, stop, requests>>
    BY <1>8 DEF Drained
  <2>2. /\ loop' \in {"ended", "emit", "refused", "downEmit", "backEmit"} /\ state' \in State
        /\ ready' = FALSE /\ wake' \in BOOLEAN /\ restartReq' \in BOOLEAN
        /\ crashes' \in 0 .. CrashLimit /\ CrashesCounted' /\ WakeOwned'
    BY <2>1, JudgeKeeps
  <2> QED BY ZenonT(60), <2>1, <2>2 DEF RelayInv, TypeOK, Loop, CallState, PendingServed, ProcessOwned, ServedByReady
<1>9. CASE GaveUp
  BY <1>9 DEF GaveUp, process, RelayInv, TypeOK, Loop, PendingServed, CrashesCounted, ProcessOwned,
     ServedByReady, WakeOwned
<1>10. CASE Woken
  <2>1. TypeOK'
    BY ZenonT(60), <1>10, NoCrash DEF Woken, GoOn, process, RelayInv, TypeOK, Loop, State
  <2>2. CrashesCounted' /\ WakeOwned'
    BY <1>10 DEF Woken, GoOn, process, RelayInv, TypeOK, CrashesCounted, WakeOwned
  <2>3. PendingServed' /\ ProcessOwned' /\ ServedByReady'
    BY <1>10 DEF Woken, GoOn, process, RelayInv, TypeOK, PendingServed, ProcessOwned, ServedByReady
  <2> QED BY <2>1, <2>2, <2>3 DEF RelayInv
<1>11. CASE BackedOff
  BY <1>11 DEF BackedOff, process, RelayInv, TypeOK, Loop, PendingServed, CrashesCounted, ProcessOwned,
     ServedByReady, WakeOwned
<1>12. CASE Retry
  <2>1. TypeOK'
    BY ZenonT(60), <1>12 DEF Retry, GoOn, process, RelayInv, TypeOK, Loop, State
  <2>2. CrashesCounted' /\ WakeOwned'
    BY <1>12 DEF Retry, GoOn, process, RelayInv, TypeOK, CrashesCounted, WakeOwned
  <2>3. PendingServed' /\ ProcessOwned' /\ ServedByReady'
    BY <1>12 DEF Retry, GoOn, process, RelayInv, TypeOK, PendingServed, ProcessOwned, ServedByReady
  <2> QED BY <2>1, <2>2, <2>3 DEF RelayInv
<1> QED BY <1>1, <1>2, <1>3, <1>4, <1>5, <1>6, <1>7, <1>8, <1>9, <1>10, <1>11, <1>12 DEF RunStep

\* What restart leaves has its types.
LEMMA RestartTypes ==
  ASSUME TypeOK, RestartEffect
  PROVE  /\ crashes' \in 0 .. CrashLimit /\ state' \in State /\ wake' \in BOOLEAN
         /\ restartReq' \in BOOLEAN /\ asked' \in BOOLEAN
         /\ os' \in {"none", "up", "closing", "dead"}
<1>1. CASE state \in {"down", "refused"}
  BY <1>1, NoCrash DEF RestartEffect, TypeOK, State
<1>2. CASE state \notin {"down", "refused"} /\ proc
  BY <1>2, NoCrash DEF RestartEffect, TypeOK
<1>3. CASE state \notin {"down", "refused"} /\ ~proc
  BY <1>3, NoCrash DEF RestartEffect, TypeOK
<1> QED BY <1>1, <1>2, <1>3

\* Restarts, commands and stop.
LEMMA AskedKeeps == RelayInv /\ (Restart \/ RunStopped \/ Stop \/ StopKills \/ Stopped) => RelayInv'
<1> SUFFICES ASSUME RelayInv, Restart \/ RunStopped \/ Stop \/ StopKills \/ Stopped PROVE RelayInv'
  OBVIOUS
<1> USE LimitAssumption
<1>1. CASE Restart
  <2>1. TypeOK'
    BY <1>1, RestartTypes DEF Restart, Ask, RelayInv, TypeOK
  <2>2. CrashesCounted' /\ WakeOwned'
    BY <1>1 DEF Restart, RestartEffect, Ask, RelayInv, TypeOK, CrashesCounted, WakeOwned
  <2>3. PendingServed' /\ ProcessOwned' /\ ServedByReady'
    BY <1>1 DEF Restart, RestartEffect, Ask, RelayInv, TypeOK, PendingServed, ProcessOwned, ServedByReady
  <2> QED BY <2>1, <2>2, <2>3 DEF RelayInv
<1>2. CASE RunStopped
  <2>1. TypeOK'
    BY <1>2, RestartTypes DEF RunStopped, Ask, RelayInv, TypeOK
  <2>2. CrashesCounted' /\ WakeOwned'
    BY <1>2 DEF RunStopped, RestartEffect, Ask, RelayInv, TypeOK, CrashesCounted, WakeOwned
  <2>3. PendingServed' /\ ProcessOwned' /\ ServedByReady'
    BY <1>2 DEF RunStopped, RestartEffect, Ask, RelayInv, TypeOK, PendingServed, ProcessOwned, ServedByReady
  <2> QED BY <2>1, <2>2, <2>3 DEF RelayInv
<1>3. CASE Stop
  BY <1>3 DEF Stop, RelayInv, TypeOK, PendingServed, CrashesCounted, ProcessOwned, ServedByReady, WakeOwned
<1>4. CASE StopKills
  BY <1>4 DEF StopKills, RelayInv, TypeOK, PendingServed, CrashesCounted, ProcessOwned, ServedByReady,
     WakeOwned
<1>5. CASE Stopped
  BY <1>5 DEF Stopped, process, RelayInv, TypeOK, State, PendingServed, CrashesCounted, ProcessOwned,
     ServedByReady, WakeOwned
<1> QED BY <1>1, <1>2, <1>3, <1>4, <1>5

\* Calls.
LEMMA CallKeeps == ASSUME NEW c \in Calls PROVE RelayInv /\ CallStep(c) => RelayInv'
<1> SUFFICES ASSUME RelayInv, CallStep(c) PROVE RelayInv'
  OBVIOUS
<1>1. PICK s \in CallState :
        /\ calls' = [calls EXCEPT ![c] = s]
        /\ s = "pending" => proc /\ calls[c] = "woken"
        /\ s = "woken" => ready
        /\ UNCHANGED <<loop, state, ready, wake, crashes, restartReq, stopping, command, proc, os,
                       hand, stdin, stop, asked, requests>>
  BY DEF CallStep, CallStarts, CallSent, CallAnswered, CallTimeout, CallState, process
<1>2. TypeOK' /\ PendingServed'
  BY <1>1 DEF RelayInv, TypeOK, PendingServed
<1>3. ServedByReady'
  BY <1>1 DEF RelayInv, TypeOK, ServedByReady
<1>4. CrashesCounted' /\ ProcessOwned' /\ WakeOwned'
  BY <1>1 DEF RelayInv, CrashesCounted, ProcessOwned, WakeOwned
<1> QED BY <1>2, <1>3, <1>4 DEF RelayInv

\* The backend process, and what it says.
LEMMA ProcessKeeps == RelayInv /\ (Welcome \/ Refuse \/ ReadEnds \/ Exits \/ ClosesStdout) => RelayInv'
<1> SUFFICES ASSUME RelayInv, Welcome \/ Refuse \/ ReadEnds \/ Exits \/ ClosesStdout PROVE RelayInv'
  OBVIOUS
<1> USE LimitAssumption
<1>1. CASE Welcome
  BY <1>1 DEF Welcome, RelayInv, TypeOK, State, CallState, PendingServed, CrashesCounted, ProcessOwned,
     ServedByReady, WakeOwned
<1>2. CASE Refuse
  BY <1>2 DEF Refuse, RelayInv, TypeOK, State, PendingServed, CrashesCounted, ProcessOwned,
     ServedByReady, WakeOwned
<1>3. CASE ReadEnds
  BY <1>3 DEF ReadEnds, RelayInv, TypeOK, Loop, PendingServed, CrashesCounted, ProcessOwned,
     ServedByReady, WakeOwned
<1>4. CASE Exits
  BY <1>4 DEF Exits, RelayInv, TypeOK, PendingServed, CrashesCounted, ProcessOwned, ServedByReady, WakeOwned
<1>5. CASE ClosesStdout
  BY <1>5 DEF ClosesStdout, RelayInv, TypeOK, PendingServed, CrashesCounted, ProcessOwned, ServedByReady,
     WakeOwned
<1> QED BY <1>1, <1>2, <1>3, <1>4, <1>5

\* Every step.
LEMMA RelayNext == RelayInv /\ [Next]_vars => RelayInv'
<1> SUFFICES ASSUME RelayInv, [Next]_vars PROVE RelayInv'
  OBVIOUS
<1>1. CASE UNCHANGED vars
  BY <1>1 DEF vars, process, RelayInv, TypeOK, PendingServed, CrashesCounted, ProcessOwned, ServedByReady,
     WakeOwned
<1>2. CASE Next
  BY <1>2, RunKeeps, AskedKeeps, CallKeeps, ProcessKeeps DEF Next
<1> QED BY <1>1, <1>2

-----------------------------------------------------------------------------
(* The theorems. *)

\* A step of the relay's behaviours is a step of the relay, and no other part's step changes what is its.
LEMMA RelaySteps ==
  ASSUME [PartsNext]_partsVars
  PROVE  whose' = whose /\ ((whose = "relay" /\ Next) \/ UNCHANGED vars)
BY DEF PartsNext, partsVars, Relay, Find, Transfer, Update, Firm, Store, Lay, Make

\* The invariant the others follow from.
THEOREM RelayInvHolds == PartsSpec => [](whose = "relay" => RelayInv)
<1>1. PartsInit => (whose = "relay" => RelayInv)
  BY RelayInit DEF PartsInit
<1>2. (whose = "relay" => RelayInv) /\ [PartsNext]_partsVars => (whose = "relay" => RelayInv)'
  <2> SUFFICES ASSUME whose = "relay" => RelayInv, [PartsNext]_partsVars, whose' = "relay" PROVE RelayInv'
    OBVIOUS
  <2>1. RelayInv /\ [Next]_vars
    BY RelaySteps
  <2> QED BY <2>1, RelayNext
<1> QED BY <1>1, <1>2, PTL DEF PartsSpec

\* What main.py keeps is of the types it means, crashes within the limit and ready only while a
\* process is read.
THEOREM TypesHold == PartsSpec => [](whose = "relay" => TypeOK)
<1>1. RelayInv => TypeOK
  BY DEF RelayInv
<1> QED BY <1>1, RelayInvHolds, PTL

\* Every call in flight fails when the binary exits (_fail_pending), the one written to a dying
\* process included: none waits for an answer of a process that is gone.  And a backend of another
\* protocol never gets one (_handshake), whatever woke it and whatever was asked for meanwhile.
THEOREM CallsServedHolds == PartsSpec => []CallsServed
<1>1. RelayInv => PendingServed /\ RefusedServesNone
  BY DEF RelayInv, ServedByReady, RefusedServesNone
<1>2. (whose = "relay" => RelayInv) => CallsServed
  BY <1>1 DEF CallsServed
<1> QED BY <1>2, RelayInvHolds, PTL

\* A command of run_stopped never runs beside a backend that may have its files open.
THEOREM CommandAloneHolds == PartsSpec => [](whose = "relay" => CommandAlone)
<1>1. RelayInv => CommandAlone
  BY DEF RelayInv, ProcessOwned, CommandAlone
<1> QED BY <1>1, RelayInvHolds, PTL

\* Giving up on a backend that keeps crashing lasts until a restart asked for after that, or stop.
THEOREM GivesUpHolds == PartsSpec => GivesUp
<1>1. (whose = "relay" => RelayInv) /\ [PartsNext]_partsVars
        => [loop = "down" /\ loop' # "down" => asked \/ stopping]_vars
  <2> SUFFICES ASSUME RelayInv, Next, loop = "down", loop' # "down" PROVE asked \/ stopping
    BY RelaySteps
  <2>1. CASE Woken
    BY <2>1 DEF Woken, RelayInv, WakeOwned
  <2>2. CASE ~Woken
    BY <2>2 DEF Next, RunStep, Emitted, CommandEnds, Spawned, SpawnFails, HandshakeTimeout, ReadEnds,
       Reaped, Drained, GaveUp, BackedOff, Retry, Welcome, Refuse, Restart, RunStopped, Stop,
       StopKills, Stopped, CallStep, CallStarts, CallSent, CallAnswered, CallTimeout, Exits, ClosesStdout
  <2> QED BY <2>1, <2>2
<1> QED BY <1>1, RelayInvHolds, PTL DEF PartsSpec, GivesUp

-----------------------------------------------------------------------------
(* The files of state.db (Stores): the inductive invariant. *)

\* A step of Stores' behaviours is a step of Stores.
LEMMA StoresSteps ==
  ASSUME whose = "stores", [PartsNext]_partsVars
  PROVE  whose' = whose /\ [S!Next]_(S!vars)
BY DEF PartsNext, partsVars, Relay, Find, Transfer, Update, Firm, Store, Lay, Make, stores, S!vars,
       S!files, S!signIn

Database == [at : {"absent", "whole", "partial", "empty"}, schema : Nat, data : Nat]
\* The files are databases of schemas there are, each backup under its own.
StoreTypes ==
  /\ knows \in Schemas /\ last \in Nat /\ from \in Nat /\ cut \in BOOLEAN
  /\ db \in Database /\ bak \in [Schemas -> Database]
  /\ \A s \in S!Backups : bak[s].schema = s /\ bak[s].at \in {"whole", "partial"}

Newer(s) == {t \in S!Backups : t > s}

\* Where a start or a restore stands, its files stand with it.
StartStands ==
  /\ pc \in {"remove", "copy", "prune"} =>
       S!Whole(db) /\ from = db.schema /\ from \in Schemas /\ from < knows
  /\ pc = "copy" => bak[from] \in {S!Absent, [db EXCEPT !.at = "partial"]}
  /\ pc = "prune" => bak[from] = db
  /\ pc = "migrate" => S!Whole(db) /\ from <= db.schema /\ db.schema < knows
  /\ pc \in {"read", "write"} => from \in S!Backups

\* The backups are at most those kept, and at most all but one of those are newer than state.db, so that the
\* one a start makes stays: unless a start or a restore was cut short, or a reset kept them alone.
RoomForOne ==
  ~cut => /\ pc \notin {"copy", "prune"} => Cardinality(S!Backups) <= keepBackups
          /\ S!Whole(db) => Cardinality(Newer(db.schema)) < keepBackups
          /\ db.at \in {"absent", "empty"} /\ pc \notin {"read", "write"} => S!Backups = {}

StoreInv == StoreTypes /\ StartStands /\ RoomForOne /\ S!BackedUp

\* What of the sign-in is there at each step of a change of it.
SignInStands ==
  /\ op # S!Still => op.next \in {"token", "settings", "mark", "drop", "remove"}
  /\ settings.server # S!None /\ ~settings.out => token # S!None
  /\ op.next \in {"token", "settings"} =>
       /\ op.writes.token # S!None /\ op.writes.server # S!None
       /\ op.will = [server |-> op.writes.server,
                     token |-> IF op.writes.out THEN "out" ELSE op.writes.token]
       /\ op.writes.out => op.writes.server = settings.server /\ token = op.writes.token /\ S!Saved = op.was
  /\ op.next \in {"token", "mark", "drop"} => S!Saved = op.was
  /\ op.next = "settings" =>
       /\ token = op.writes.token
       /\ settings.server = S!None => op.was = S!NoSignIn
       /\ settings.server # S!None => op.was # S!NoSignIn /\ op.was.server = settings.server
       /\ settings.server # S!None /\ settings.out => op.was = [server |-> settings.server, token |-> "out"]
  /\ op.next = "mark" => settings.server # S!None /\ op.will = [server |-> settings.server, token |-> "out"]
  /\ op.next = "drop" => op.will = S!NoSignIn
  /\ op.next = "remove" => S!Saved = op.will /\ (settings.server = S!None \/ settings.out)

\* A set of numbers has a least one.
LEMMA HasLeast ==
  ASSUME NEW Some \in SUBSET Nat, Some # {}
  PROVE  \E k \in Some : \A j \in Some : k <= j
<1> DEFINE Less == OpToRel(<, Nat)
<1>1. PICK k \in Some : \A j \in Some : ~(<<j, k>> \in Less)
  <2> HIDE DEF Less
  <2>1. IsWellFoundedOn(Less, Nat)
    BY NatLessThanWellFounded DEF Less
  <2> QED BY <2>1, WFMin
<1>2. ASSUME NEW j \in Some, j < k PROVE <<j, k>> \in Less
  <2>1. <<j, k>> \in Nat \X Nat /\ <<j, k>>[1] = j /\ <<j, k>>[2] = k
    OBVIOUS
  <2>2. <<j, k>>[1] < <<j, k>>[2]
    BY <1>2
  <2> QED BY Zenon, <2>1, <2>2 DEF OpToRel
<1>3. \A j \in Some : ~(j < k)
  BY <1>1, <1>2
<1> QED BY <1>3

\* A set of numbers up to a bound has a greatest.
LEMMA HasGreatest ==
  ASSUME NEW n \in Nat, NEW Some \in SUBSET (0 .. n), Some # {}
  PROVE  \E k \in Some : \A j \in Some : j <= k
<1> DEFINE D == {i \in 0 .. n : n - i \in Some}
<1>1. PICK t \in Some : TRUE
  OBVIOUS
<1>2. n - t \in D
  <2>1. n - t \in 0 .. n /\ n - (n - t) = t
    OBVIOUS
  <2> QED BY <2>1
<1>3. PICK d \in D : \A e \in D : d <= e
  <2>1. D # {}
    BY <1>2
  <2>2. 0 .. n \subseteq Nat /\ D \subseteq 0 .. n
    OBVIOUS
  <2>3. D \in SUBSET Nat
    BY <2>2
  <2> QED BY <2>1, <2>3, HasLeast
<1>4. ASSUME NEW j \in Some PROVE j <= n - d
  <2>1. n - j \in 0 .. n /\ n - (n - j) = j
    OBVIOUS
  <2>2. d <= n - j
    BY <1>3, <2>1
  <2> QED BY <2>1, <2>2
<1> QED BY <1>3, <1>4

\* Stores' finite sets are those of the theorems.
LEMMA StoresCount == \A X : S!Cardinality(X) = Cardinality(X) /\ (S!IsFiniteSet(X) <=> IsFiniteSet(X))
BY DEF S!Cardinality, Cardinality, S!IsFiniteSet, IsFiniteSet

LEMMA SchemasFinite ==
  /\ IsFiniteSet(Schemas) /\ Cardinality(Schemas) \in Nat /\ Schemas \subseteq Nat \ {0}
  /\ \A Some \in SUBSET Schemas : IsFiniteSet(Some) /\ Cardinality(Some) \in Nat
  /\ keepBackups \in Nat \ {0}
<1>1. IsFiniteSet(Schemas) /\ Schemas = 1 .. Cardinality(Schemas) /\ keepBackups \in Nat \ {0}
  BY StoresAssumptions, StoresCount DEF S!Assumptions
<1>2. Cardinality(Schemas) \in Nat
  BY <1>1, FS_CardinalityType
<1>3. \A Some \in SUBSET Schemas : IsFiniteSet(Some) /\ Cardinality(Some) \in Nat
  BY <1>1, FS_Subset, FS_CardinalityType
<1>4. Schemas \subseteq Nat \ {0}
  BY <1>1, <1>2
<1> QED BY <1>1, <1>2, <1>3, <1>4

\* Of a set of schemas, those that fewer than n others are newer than are no more than n: the oldest of them
\* has all the others above it.
LEMMA FewNewest ==
  ASSUME NEW Some \in SUBSET Schemas, NEW n \in Nat \ {0}
  PROVE  Cardinality({s \in Some : Cardinality({t \in Some : t > s}) < n}) <= n
<1> DEFINE K == {s \in Some : Cardinality({t \in Some : t > s}) < n}
<1> SUFFICES Cardinality(K) <= n
  OBVIOUS
<1> HIDE DEF K
<1>1. CASE K = {}
  BY <1>1, FS_EmptySet
<1>2. CASE K # {}
  <2>1. K \in SUBSET Nat
    BY SchemasFinite DEF K
  <2>2. PICK m \in K : \A k \in K : m <= k
    BY <1>2, <2>1, HasLeast
  <2> DEFINE A == {t \in Some : t > m}
  <2>3. A \in SUBSET Schemas /\ K \in SUBSET Schemas /\ IsFiniteSet(A) /\ IsFiniteSet(K)
    BY SchemasFinite DEF K
  <2>4. K \ {m} \in SUBSET A
    BY <2>1, <2>2 DEF K
  <2>5. Cardinality(K \ {m}) <= Cardinality(A)
    BY <2>3, <2>4, FS_Subset
  <2>6. Cardinality(A) < n /\ Cardinality(A) \in Nat /\ Cardinality(K) \in Nat
    BY <2>2, <2>3, FS_CardinalityType DEF K
  <2>7. Cardinality(K \ {m}) = Cardinality(K) - 1
    BY <2>2, <2>3, FS_RemoveElement
  <2> QED BY <2>5, <2>6, <2>7
<1> QED BY <1>1, <1>2

\* Fewer backups are kept as well.
LEMMA FewerBackups ==
  ASSUME NEW Some \in SUBSET Schemas, NEW Q \in SUBSET Some
  PROVE  Cardinality(Q) <= Cardinality(Some)
BY SchemasFinite, FS_Subset

-----------------------------------------------------------------------------
(* The files of state.db: what a step does to them. *)

LEMMA StoreInit == S!Init => StoreInv
<1> SUFFICES ASSUME S!Init PROVE StoreInv
  OBVIOUS
<1>1. S!Backups = {} /\ \A s : Newer(s) = {}
  BY DEF S!Init, S!Backups, Newer
<1>2. Cardinality({}) = 0
  BY FS_EmptySet
<1>3. StoreTypes
  BY <1>1 DEF S!Init, StoreTypes, Database, S!Absent
<1>4. StartStands /\ S!BackedUp
  BY DEF S!Init, StartStands, S!BackedUp
<1>5. RoomForOne
  BY <1>1, <1>2, SchemasFinite DEF S!Init, RoomForOne
<1> QED BY <1>3, <1>4, <1>5 DEF StoreInv

\* Steps that leave the files alone, and go on to where nothing is asked of them.
LEMMA StoreIdles ==
  ASSUME StoreInv, UNCHANGED <<db, bak>>, last' \in Nat, knows' \in Schemas, from' \in Nat, cut' \in BOOLEAN,
         cut => cut',
         pc' \in {"off", "open", "on", "refused", "broken"},
         pc \in {"copy", "prune", "read", "write"} => cut'
  PROVE  StoreInv'
<1> USE DEF StoreInv
<1>1. S!Backups' = S!Backups /\ \A s : Newer(s)' = Newer(s)
  BY DEF S!Backups, Newer
<1>2. StoreTypes'
  BY <1>1 DEF StoreTypes
<1>3. StartStands' /\ S!BackedUp'
  BY DEF StartStands, S!BackedUp
<1>4. RoomForOne'
  <2> SUFFICES ASSUME ~cut' PROVE RoomForOne'
    BY DEF RoomForOne
  <2>1. ~cut /\ pc \notin {"copy", "prune", "read", "write"}
    BY DEF StoreTypes
  <2>2. Newer(db.schema)' = Newer(db.schema)
    BY <1>1
  <2> QED BY <1>1, <2>1, <2>2 DEF RoomForOne, S!Whole
<1> QED BY <1>2, <1>3, <1>4

\* A whole database without a schema is newer than none.
LEMMA OpensKeeps == StoreInv /\ S!Opens => StoreInv'
<1> SUFFICES ASSUME StoreInv, S!Opens PROVE StoreInv'
  OBVIOUS
<1> USE DEF StoreInv
<1> DEFINE version == IF S!Whole(db) THEN db.schema ELSE 0
<1>0. UNCHANGED <<knows, bak, last, cut>> /\ S!Backups' = S!Backups /\ \A s : Newer(s)' = Newer(s)
  BY DEF S!Opens, S!Backups, Newer
<1>1. /\ pc = "open" /\ version \in Nat /\ knows \in Nat \ {0}
      /\ pc' = IF db.at = "partial" THEN "broken"
               ELSE CASE version > knows -> "refused"
                      [] version = knows -> "on"
                      [] version = 0 -> "migrate"
                      [] OTHER -> "remove"
      /\ from' = IF version < knows THEN version ELSE 0
      /\ db' = IF db.at \in {"absent", "empty"} THEN [at |-> "whole", schema |-> 0, data |-> 0] ELSE db
  BY SchemasFinite DEF S!Opens, StoreTypes, Database
<1>2. StoreTypes'
  BY <1>0, <1>1 DEF StoreTypes, Database
<1>3. StartStands'
  <2>1. CASE db.at = "partial"
    BY <1>1, <2>1 DEF StartStands
  <2>2. CASE db.at \in {"absent", "empty"}
    BY <1>0, <1>1, <2>2 DEF StartStands, S!Whole
  <2>3. CASE db.at = "whole"
    <3>1. db' = db /\ version = db.schema
      BY <1>1, <2>3 DEF S!Whole
    <3>2. pc' = "remove" => db.schema < knows /\ db.schema # 0 /\ from' = db.schema
      BY <1>1, <2>3, <3>1
    <3>3. \A s \in Nat : s # 0 /\ s < knows => s \in Schemas
      BY <1>0, StoresAssumptions, StoresCount, SchemasFinite DEF S!Assumptions, StoreTypes
    <3>4. pc' = "migrate" => version = 0 /\ from' = 0
      BY <1>1
    <3> QED BY <1>0, <1>1, <2>3, <3>1, <3>2, <3>3, <3>4 DEF StartStands, S!Whole
  <2> QED BY <2>1, <2>2, <2>3 DEF StoreTypes, Database
<1>4. S!BackedUp'
  <2>1. pc' = "migrate" => from' = 0
    BY <1>1
  <2> QED BY <2>1 DEF S!BackedUp
<1>5. RoomForOne'
  <2> SUFFICES ASSUME ~cut' PROVE RoomForOne'
    BY DEF RoomForOne
  <2>1. ~cut /\ Cardinality(S!Backups') <= keepBackups
    BY <1>0, <1>1 DEF RoomForOne
  <2>2. CASE db.at \in {"absent", "empty"}
    <3>1. S!Backups' = {}
      BY <1>0, <1>1, <2>1, <2>2 DEF RoomForOne
    <3>2. Newer(db.schema)' = {} /\ Cardinality({}) < keepBackups
      BY <3>1, FS_EmptySet, SchemasFinite DEF Newer
    <3> QED BY <2>1, <3>1, <3>2 DEF RoomForOne
  <2>3. CASE db.at \notin {"absent", "empty"}
    <3>1. db' = db /\ Newer(db.schema)' = Newer(db.schema)
      BY <1>0, <1>1, <2>3
    <3> QED BY <1>0, <1>1, <2>1, <2>3, <3>1 DEF RoomForOne, S!Whole
  <2> QED BY <2>2, <2>3
<1> QED BY <1>2, <1>3, <1>4, <1>5

LEMMA RemovesKeeps == StoreInv /\ S!RemovesBackup => StoreInv'
<1> SUFFICES ASSUME StoreInv, S!RemovesBackup PROVE StoreInv'
  OBVIOUS
<1> USE DEF StoreInv
<1>1. /\ pc = "remove" /\ pc' = "copy" /\ bak' = [bak EXCEPT ![from] = S!Absent]
      /\ UNCHANGED <<knows, from, db, last, cut>>
  BY DEF S!RemovesBackup, S!signIn
<1>2. from \in Schemas /\ S!Whole(db) /\ from = db.schema /\ from < knows
  BY <1>1 DEF StartStands
<1>3. S!Backups' = S!Backups \ {from}
  BY <1>1, <1>2 DEF S!Backups, StoreTypes
<1>4. StoreTypes'
  BY <1>1, <1>2, <1>3 DEF StoreTypes, Database, S!Absent, S!Backups
<1>5. StartStands' /\ S!BackedUp'
  BY <1>1, <1>2 DEF StartStands, S!BackedUp, StoreTypes, S!Whole
<1>6. Newer(db.schema)' = Newer(db.schema)
  <2>1. \A t \in S!Backups : t > db.schema => t # from
    BY <1>2, SchemasFinite DEF S!Backups
  <2> QED BY <1>1, <1>3, <2>1 DEF Newer
<1>7. RoomForOne'
  BY <1>1, <1>2, <1>6 DEF RoomForOne, S!Whole
<1> QED BY <1>4, <1>5, <1>7

LEMMA CopiesKeeps == StoreInv /\ S!Copies => StoreInv'
<1> SUFFICES ASSUME StoreInv, S!Copies PROVE StoreInv'
  OBVIOUS
<1> USE DEF StoreInv
<1>1. /\ pc = "copy" /\ pc' = (IF bak[from] = S!Absent THEN "copy" ELSE "prune")
      /\ bak' = [bak EXCEPT ![from] = IF bak[from] = S!Absent THEN [db EXCEPT !.at = "partial"] ELSE db]
      /\ UNCHANGED <<knows, from, db, last, cut>>
  BY DEF S!Copies, S!signIn
<1>2. from \in Schemas /\ S!Whole(db) /\ from = db.schema /\ from < knows
  BY <1>1 DEF StartStands
<1>3. bak'[from] = IF bak[from] = S!Absent THEN [db EXCEPT !.at = "partial"] ELSE db
  BY <1>1, <1>2 DEF StoreTypes
<1>4. /\ bak'[from] \in Database /\ bak'[from].schema = from /\ bak'[from] # S!Absent
      /\ bak'[from].at \in {"whole", "partial"}
  BY <1>2, <1>3 DEF StoreTypes, Database, S!Absent, S!Whole
<1>5. S!Backups' = S!Backups \cup {from}
  BY <1>1, <1>2, <1>4 DEF S!Backups, StoreTypes
<1>6. StoreTypes'
  BY <1>1, <1>2, <1>4, <1>5 DEF StoreTypes, S!Backups
<1>7. StartStands' /\ S!BackedUp'
  BY <1>1, <1>2, <1>3 DEF StartStands, S!BackedUp, S!Whole
<1>8. Newer(db.schema)' = Newer(db.schema)
  <2>1. ~(from > db.schema)
    BY <1>2, SchemasFinite
  <2> QED BY <1>1, <1>5, <2>1 DEF Newer
<1>9. RoomForOne'
  BY <1>1, <1>2, <1>8 DEF RoomForOne, S!Whole
<1> QED BY <1>6, <1>7, <1>9

\* What is pruned leaves no more than are kept, and what a start just copied among them.
LEMMA PrunesKeeps == StoreInv /\ S!Prunes => StoreInv'
<1> SUFFICES ASSUME StoreInv, S!Prunes PROVE StoreInv'
  OBVIOUS
<1> USE DEF StoreInv
<1>1. /\ pc = "prune" /\ pc' = "migrate"
      /\ bak' = [s \in Schemas |-> IF S!Out(s) THEN S!Absent ELSE bak[s]]
      /\ UNCHANGED <<knows, from, db, last, cut>>
  BY DEF S!Prunes, S!signIn
<1>2. from \in Schemas /\ S!Whole(db) /\ from = db.schema /\ from < knows /\ bak[from] = db
  BY <1>1 DEF StartStands
<1>3. \A s \in S!Backups : S!Out(s) <=> ~(Cardinality({t \in S!Backups : t > s}) < keepBackups)
  <2>1. \A s \in S!Backups : {t \in S!Backups : t > s} \in SUBSET Schemas
    BY DEF S!Backups
  <2> QED BY <2>1, StoresCount, SchemasFinite DEF S!Out
<1>4. S!Backups' = {s \in S!Backups : Cardinality({t \in S!Backups : t > s}) < keepBackups}
  BY <1>1, <1>3 DEF S!Backups, S!Out
<1>5. StoreTypes'
  BY <1>1, <1>4 DEF StoreTypes, Database, S!Absent, S!Backups
<1>6. StartStands'
  BY <1>1, <1>2, SchemasFinite DEF StartStands
<1>7. ~cut => from \in S!Backups'
  <2> SUFFICES ASSUME ~cut PROVE from \in S!Backups'
    OBVIOUS
  <2>1. Cardinality(Newer(from)) < keepBackups
    BY <1>2 DEF RoomForOne
  <2>2. from \in S!Backups
    BY <1>2 DEF S!Backups, S!Absent, S!Whole
  <2> QED BY <1>4, <2>1, <2>2 DEF Newer
<1>8. S!BackedUp'
  <2>1. ~cut => bak'[from] = db
    BY <1>1, <1>2, <1>7 DEF S!Backups
  <2> QED BY <1>1, <1>2, <2>1 DEF S!BackedUp, S!Whole
<1>9. RoomForOne'
  <2> SUFFICES ASSUME ~cut' PROVE RoomForOne'
    BY DEF RoomForOne
  <2>1. S!Backups \in SUBSET Schemas
    BY DEF S!Backups
  <2>2. Cardinality(S!Backups') <= keepBackups
    BY <1>4, <2>1, FewNewest, SchemasFinite
  <2>3. Cardinality(Newer(db.schema)') <= Cardinality(Newer(db.schema))
    <3>1. Newer(db.schema)' \in SUBSET Newer(db.schema) /\ Newer(db.schema) \in SUBSET Schemas
      BY <1>1, <1>4, <2>1 DEF Newer
    <3> QED BY <3>1, FewerBackups
  <2>4. Cardinality(Newer(db.schema)) < keepBackups
    BY <1>1, <1>2 DEF RoomForOne
  <2>5. Cardinality(Newer(db.schema)') \in Nat /\ Cardinality(Newer(db.schema)) \in Nat
    <3>1. Newer(db.schema)' \in SUBSET Schemas /\ Newer(db.schema) \in SUBSET Schemas
      BY <1>1, <1>4, <2>1 DEF Newer
    <3> QED BY <3>1, SchemasFinite
  <2>6. Cardinality(Newer(db.schema)') < keepBackups
    BY <2>3, <2>4, <2>5, SchemasFinite
  <2> QED BY <1>1, <1>2, <2>2, <2>6 DEF RoomForOne, S!Whole
<1> QED BY <1>5, <1>6, <1>8, <1>9

LEMMA MigratesKeeps == StoreInv /\ S!Migrates => StoreInv'
<1> SUFFICES ASSUME StoreInv, S!Migrates PROVE StoreInv'
  OBVIOUS
<1> USE DEF StoreInv
<1>1. /\ pc = "migrate" /\ db' = [db EXCEPT !.schema = @ + 1]
      /\ pc' = (IF db.schema + 1 = knows THEN "on" ELSE "migrate")
      /\ from' = (IF db.schema + 1 = knows THEN 0 ELSE from)
      /\ UNCHANGED <<knows, bak, last, cut>>
  BY DEF S!Migrates, S!signIn, S!Migrated
<1>2. S!Whole(db) /\ from <= db.schema /\ db.schema < knows /\ db.schema \in Nat /\ from \in Nat /\ knows \in Nat
  BY <1>1, SchemasFinite DEF StartStands, StoreTypes, Database
<1>3. db'.schema = db.schema + 1 /\ db'.at = "whole" /\ db' \in Database
  BY <1>1, <1>2 DEF S!Whole, StoreTypes, Database
<1>4. S!Backups' = S!Backups /\ S!Backups \in SUBSET Schemas
  BY <1>1 DEF S!Backups
<1>5. StoreTypes'
  BY <1>1, <1>2, <1>3, <1>4 DEF StoreTypes
<1>6. StartStands' /\ S!BackedUp'
  BY <1>1, <1>2, <1>3 DEF StartStands, S!BackedUp, S!Whole
<1>7. RoomForOne'
  <2> SUFFICES ASSUME ~cut' PROVE RoomForOne'
    BY DEF RoomForOne
  <2>1. Cardinality(Newer(db.schema)) < keepBackups /\ Cardinality(S!Backups) <= keepBackups
    BY <1>1, <1>2 DEF RoomForOne
  <2>2. Newer(db.schema)' \in SUBSET Newer(db.schema) /\ Newer(db.schema) \in SUBSET Schemas
    <3>1. \A t \in S!Backups : t > db.schema + 1 => t > db.schema
      BY <1>2, <1>4, SchemasFinite
    <3>2. Newer(db.schema)' = {t \in S!Backups : t > db.schema + 1}
      BY <1>3, <1>4 DEF Newer
    <3> QED BY <1>4, <3>1, <3>2 DEF Newer
  <2>3. Newer(db.schema)' \in SUBSET Schemas /\ Cardinality(Newer(db.schema)') <= Cardinality(Newer(db.schema))
    BY <2>2, FewerBackups
  <2>4. Cardinality(Newer(db.schema)') < keepBackups
    BY <2>1, <2>2, <2>3, SchemasFinite
  <2> QED BY <1>1, <1>3, <1>4, <2>1, <2>4 DEF RoomForOne
<1> QED BY <1>5, <1>6, <1>7

\* What the plugin writes leaves state.db of the schema it is.
LEMMA WritesKeeps == StoreInv /\ S!Writes => StoreInv'
<1> SUFFICES ASSUME StoreInv, S!Writes PROVE StoreInv'
  OBVIOUS
<1> USE DEF StoreInv
<1>1. /\ pc = "on" /\ last' = last + 1 /\ db' = [db EXCEPT !.data = last + 1]
      /\ UNCHANGED <<knows, pc, from, bak, cut>>
  BY DEF S!Writes, S!signIn
<1>2. db' \in Database /\ db'.at = db.at /\ db'.schema = db.schema
  BY <1>1 DEF StoreTypes, Database
<1>3. S!Backups' = S!Backups /\ \A s : Newer(s)' = Newer(s)
  BY <1>1 DEF S!Backups, Newer
<1>4. StoreTypes'
  BY <1>1, <1>2, <1>3 DEF StoreTypes
<1>5. StartStands' /\ S!BackedUp'
  BY <1>1 DEF StartStands, S!BackedUp
<1>6. Newer(db.schema)' = Newer(db.schema)
  BY <1>2, <1>3 DEF Newer
<1>7. RoomForOne'
  BY <1>1, <1>2, <1>3, <1>6 DEF RoomForOne, S!Whole
<1> QED BY <1>4, <1>5, <1>7

\* A restore goes back to a backup there is.
LEMMA SetsAsideKeeps == StoreInv /\ S!SetsAside => StoreInv'
<1> SUFFICES ASSUME StoreInv, S!SetsAside PROVE StoreInv'
  OBVIOUS
<1> USE DEF StoreInv
<1>1. /\ pc = "refused" /\ S!Readable # {} /\ pc' = "read" /\ db' = S!Absent
      /\ from' = CHOOSE s \in S!Readable : \A t \in S!Readable : t <= s
      /\ UNCHANGED <<knows, bak, last, cut>>
  BY DEF S!SetsAside, S!signIn
<1>2. from' \in S!Backups
  <2>1. S!Readable \in SUBSET (0 .. Cardinality(Schemas))
    BY StoresAssumptions, StoresCount, SchemasFinite DEF S!Assumptions, S!Readable, S!Backups
  <2>2. \E s \in S!Readable : \A t \in S!Readable : t <= s
    BY <1>1, <2>1, HasGreatest, SchemasFinite
  <2>3. from' \in S!Readable
    BY <1>1, <2>2
  <2> QED BY <2>3 DEF S!Readable
<1>3. S!Backups' = S!Backups /\ S!Backups \in SUBSET Schemas
  BY <1>1 DEF S!Backups
<1>4. StoreTypes'
  BY <1>1, <1>2, <1>3, SchemasFinite DEF StoreTypes, Database, S!Absent
<1>5. StartStands' /\ S!BackedUp'
  BY <1>1, <1>2, <1>3 DEF StartStands, S!BackedUp
<1>6. RoomForOne'
  BY <1>1, <1>3 DEF RoomForOne, S!Whole, S!Absent
<1> QED BY <1>4, <1>5, <1>6

LEMMA ReadsBackupKeeps == StoreInv /\ S!ReadsBackup => StoreInv'
<1> SUFFICES ASSUME StoreInv, S!ReadsBackup PROVE StoreInv'
  OBVIOUS
<1> USE DEF StoreInv
<1>1. /\ pc = "read" /\ pc' = "write" /\ db' = [at |-> "empty", schema |-> 0, data |-> 0]
      /\ UNCHANGED <<knows, from, bak, last, cut>>
  BY DEF S!ReadsBackup, S!signIn
<1>2. S!Backups' = S!Backups
  BY <1>1 DEF S!Backups
<1>3. StoreTypes'
  BY <1>1, <1>2 DEF StoreTypes, Database
<1>4. StartStands' /\ S!BackedUp'
  BY <1>1, <1>2 DEF StartStands, S!BackedUp
<1>5. RoomForOne'
  BY <1>1, <1>2 DEF RoomForOne, S!Whole
<1> QED BY <1>3, <1>4, <1>5

LEMMA WritesPartKeeps == StoreInv /\ S!WritesPart => StoreInv'
<1> SUFFICES ASSUME StoreInv, S!WritesPart PROVE StoreInv'
  OBVIOUS
<1> USE DEF StoreInv
<1>1. /\ pc = "write" /\ db' = [bak[from] EXCEPT !.at = "partial"]
      /\ UNCHANGED <<knows, pc, from, bak, last, cut>>
  BY DEF S!WritesPart, S!signIn
<1>2. S!Backups' = S!Backups /\ from \in S!Backups
  BY <1>1 DEF S!Backups, StartStands
<1>3. bak[from] \in Database
  BY <1>2 DEF StoreTypes, S!Backups
<1>4. db' \in Database /\ db'.at = "partial"
  BY <1>1, <1>3 DEF Database
<1>5. StoreTypes'
  BY <1>1, <1>2, <1>4 DEF StoreTypes
<1>6. StartStands' /\ S!BackedUp'
  BY <1>1, <1>2 DEF StartStands, S!BackedUp
<1>7. RoomForOne'
  BY <1>1, <1>2, <1>4 DEF RoomForOne, S!Whole
<1> QED BY <1>5, <1>6, <1>7

\* A restored state.db is of its backup's schema: the newer backups are all the others, at most.
LEMMA WritesRestKeeps == StoreInv /\ S!WritesRest => StoreInv'
<1> SUFFICES ASSUME StoreInv, S!WritesRest PROVE StoreInv'
  OBVIOUS
<1> USE DEF StoreInv
<1>1. /\ pc = "write" /\ db' = bak[from] /\ pc' = "off" /\ from' = 0
      /\ UNCHANGED <<knows, bak, last, cut>>
  BY DEF S!WritesRest, S!signIn
<1>2. S!Backups' = S!Backups /\ from \in S!Backups /\ S!Backups \in SUBSET Schemas
  BY <1>1 DEF S!Backups, StartStands
<1>3. bak[from] \in Database /\ bak[from].schema = from /\ bak[from].at \in {"whole", "partial"}
  BY <1>2 DEF StoreTypes, S!Backups
<1>4. StoreTypes'
  BY <1>1, <1>2, <1>3 DEF StoreTypes
<1>5. StartStands' /\ S!BackedUp'
  BY <1>1 DEF StartStands, S!BackedUp
<1>6. RoomForOne'
  <2> SUFFICES ASSUME ~cut' PROVE RoomForOne'
    BY DEF RoomForOne
  <2>1. Cardinality(S!Backups) <= keepBackups
    BY <1>1 DEF RoomForOne
  <2>2. IsFiniteSet(S!Backups) /\ Cardinality(S!Backups \ {from}) = Cardinality(S!Backups) - 1
    BY <1>2, SchemasFinite, FS_RemoveElement
  <2>3. Newer(db.schema)' \in SUBSET (S!Backups \ {from})
    BY <1>1, <1>2, <1>3, SchemasFinite DEF Newer
  <2>4. Cardinality(Newer(db.schema)') <= Cardinality(S!Backups \ {from})
    BY <1>2, <2>3, FewerBackups
  <2>5. Newer(db.schema)' \in SUBSET Schemas
    BY <1>2, <2>3
  <2>6. Cardinality(Newer(db.schema)') < keepBackups
    BY <1>2, <2>1, <2>2, <2>4, <2>5, SchemasFinite
  <2> QED BY <1>1, <1>2, <1>3, <2>1, <2>6 DEF RoomForOne
<1> QED BY <1>4, <1>5, <1>6

\* A reset that keeps the backups alone says so.
LEMMA ResetKeeps == StoreInv /\ S!Reset => StoreInv'
<1> SUFFICES ASSUME StoreInv, S!Reset PROVE StoreInv'
  OBVIOUS
<1> USE DEF StoreInv
<1>1. PICK kept \in SUBSET {"db", "bak", "aside"} :
        /\ db' = IF "db" \in kept THEN db ELSE S!Absent
        /\ bak' = IF "bak" \in kept THEN bak ELSE [s \in Schemas |-> S!Absent]
        /\ last' = IF "db" \in kept /\ S!Whole(db) /\ db.data = last THEN last ELSE 0
        /\ cut' = (cut \/ kept \cap {"db", "bak"} = {"bak"})
  BY DEF S!Reset
<1>2. pc = "off" /\ UNCHANGED <<knows, pc, from>>
  BY DEF S!Reset
<1>3. StoreTypes'
  BY <1>1, <1>2 DEF StoreTypes, Database, S!Absent, S!Backups
<1>4. StartStands' /\ S!BackedUp'
  BY <1>2 DEF StartStands, S!BackedUp
<1>5. RoomForOne'
  <2> SUFFICES ASSUME ~cut' PROVE RoomForOne'
    BY DEF RoomForOne
  <2>1. ~cut /\ ("bak" \in kept => "db" \in kept)
    BY <1>1
  <2>2. CASE "bak" \in kept
    <3>1. UNCHANGED <<db, bak>>
      BY <1>1, <2>1, <2>2
    <3>2. S!Backups' = S!Backups /\ Newer(db.schema)' = Newer(db.schema)
      BY <3>1 DEF S!Backups, Newer
    <3> QED BY <1>2, <2>1, <3>1, <3>2 DEF RoomForOne, S!Whole
  <2>3. CASE "bak" \notin kept
    <3>1. S!Backups' = {} /\ Newer(db.schema)' = {}
      BY <1>1, <2>3 DEF S!Backups, Newer
    <3>2. Cardinality({}) = 0
      BY FS_EmptySet
    <3> QED BY <3>1, <3>2, SchemasFinite DEF RoomForOne
  <2> QED BY <2>2, <2>3
<1> QED BY <1>3, <1>4, <1>5

LEMMA StoreSame ==
  ASSUME StoreInv, UNCHANGED <<knows, pc, from, db, bak, last, cut>>
  PROVE  StoreInv'
BY DEF StoreInv, StoreTypes, StartStands, RoomForOne, S!BackedUp, S!Backups, Newer, S!Whole

\* Every other step.
LEMMA StoreKeeps == StoreInv /\ [S!Next]_(S!vars) => StoreInv'
<1> SUFFICES ASSUME StoreInv, [S!Next]_(S!vars) PROVE StoreInv'
  OBVIOUS
<1>1. CASE S!Opens \/ S!RemovesBackup \/ S!Copies \/ S!Prunes \/ S!Migrates \/ S!Writes
  BY <1>1, OpensKeeps, RemovesKeeps, CopiesKeeps, PrunesKeeps, MigratesKeeps, WritesKeeps
<1>2. CASE S!SetsAside \/ S!ReadsBackup \/ S!WritesPart \/ S!WritesRest \/ S!Reset
  BY <1>2, SetsAsideKeeps, ReadsBackupKeeps, WritesPartKeeps, WritesRestKeeps, ResetKeeps
<1>3. CASE S!Start \/ S!OpenFails \/ S!RestoreFails \/ S!Stops \/ \E k \in Schemas : S!Installs(k)
  <2>1. UNCHANGED <<db, bak>> /\ last' = last
    BY <1>3 DEF S!Start, S!OpenFails, S!RestoreFails, S!Stops, S!Installs, S!files
  <2>2. knows' \in Schemas /\ from' \in Nat
    BY <1>3 DEF StoreInv, StoreTypes, S!Start, S!OpenFails, S!RestoreFails, S!Stops, S!Installs
  <2>3. cut' \in BOOLEAN /\ (cut => cut') /\ (pc \in {"copy", "prune", "read", "write"} => cut')
    BY <1>3 DEF StoreInv, StoreTypes, S!Start, S!OpenFails, S!RestoreFails, S!Stops, S!Installs
  <2>4. pc' \in {"off", "open", "on", "refused", "broken"}
    BY <1>3 DEF S!Start, S!OpenFails, S!RestoreFails, S!Stops, S!Installs
  <2> QED BY <2>1, <2>2, <2>3, <2>4, StoreIdles DEF StoreInv, StoreTypes
<1>4. CASE S!Settings \/ S!Uninstall \/ UNCHANGED S!vars
  <2>1. UNCHANGED <<knows, pc, from, db, bak, last, cut>>
    BY <1>4 DEF S!Settings, S!Uninstall, S!vars, S!files, S!SaveSignIn, S!Lapse, S!SignOut, S!ForgetSignIn,
         S!Begins, S!WritesToken, S!WritesSettings, S!Marks, S!Drops, S!RemovesToken, S!WriteFails
  <2> QED BY <2>1, StoreSame
<1> QED BY <1>1, <1>2, <1>3, <1>4 DEF S!Next, S!Database

-----------------------------------------------------------------------------
(* The sign-in's two files. *)

LEMMA SignInInit == S!Init => SignInStands
BY DEF S!Init, SignInStands, S!NoServer, S!Still, S!None

\* A change begins with the sign-in there is, and what it would write.
LEMMA BeginsKeep ==
  ASSUME SignInStands, UNCHANGED <<settings, token>>,
         op'.was = S!Saved,
         \/ op'.next \in {"mark", "drop"}
         \/ op'.next = "token" /\ op'.writes.token # S!None /\ op'.writes.server # S!None,
         op'.next = "token" =>
           /\ op'.will = [server |-> op'.writes.server,
                          token |-> IF op'.writes.out THEN "out" ELSE op'.writes.token]
           /\ op'.writes.out => op'.writes.server = settings.server /\ token = op'.writes.token,
         op'.next = "mark" =>
           settings.server # S!None /\ op'.will = [server |-> settings.server, token |-> "out"],
         op'.next = "drop" => op'.will = S!NoSignIn
  PROVE  SignInStands'
<1>1. S!Saved' = S!Saved
  BY DEF S!Saved
<1>2. op'.next \notin {"settings", "remove"}
  OBVIOUS
<1> QED BY <1>1, <1>2 DEF SignInStands

\* Each step of a change keeps what the next one needs.
LEMMA SignInKeeps == SignInStands /\ [S!Next]_(S!vars) => SignInStands'
<1> SUFFICES ASSUME SignInStands, [S!Next]_(S!vars) PROVE SignInStands'
  OBVIOUS
<1>0. S!None \notin Hosts \cup Tokens
  BY StoresAssumptions DEF S!Assumptions
<1>1. CASE S!Database \/ (\E k \in Schemas : S!Installs(k)) \/ UNCHANGED S!vars
  <2>1. UNCHANGED <<settings, token, op>>
    BY <1>1 DEF S!Database, S!Start, S!Opens, S!RemovesBackup, S!Copies, S!Prunes, S!Migrates, S!OpenFails,
         S!Writes, S!SetsAside, S!ReadsBackup, S!WritesPart, S!WritesRest, S!RestoreFails, S!Installs,
         S!vars, S!signIn
  <2>2. S!Saved' = S!Saved
    BY <2>1 DEF S!Saved
  <2> QED BY <2>1, <2>2 DEF SignInStands
<1>2. CASE \E server_1 \in Hosts, t \in Tokens : S!SaveSignIn(server_1, t)
  <2>1. PICK h \in Hosts, t \in Tokens : S!SaveSignIn(h, t)
    BY <1>2
  <2>2. /\ UNCHANGED <<settings, token>> /\ op'.was = S!Saved /\ op'.next = "token"
        /\ op'.writes = [server |-> h, token |-> t, out |-> FALSE]
        /\ op'.will = [server |-> h, token |-> t]
    BY <2>1 DEF S!SaveSignIn, S!Begins, S!First
  <2> QED BY <1>0, <2>2, BeginsKeep
<1>3. CASE S!Lapse
  <2>1. /\ UNCHANGED <<settings, token>> /\ op'.was = S!Saved /\ op'.next = "token"
        /\ op'.writes = [server |-> settings.server, token |-> token, out |-> TRUE]
        /\ op'.will = [server |-> settings.server, token |-> "out"]
    BY <1>3 DEF S!Lapse, S!Begins, S!First
  <2>2. settings.server # S!None /\ token # S!None
    BY <1>3 DEF S!Lapse, S!Saved, S!SignIn, S!NoSignIn
  <2> QED BY <2>1, <2>2, BeginsKeep
<1>4. CASE S!SignOut \/ S!ForgetSignIn \/ S!Uninstall \/ S!Reset
  <2>1. UNCHANGED <<settings, token>> /\ op'.was = S!Saved /\ op'.next \in {"mark", "drop"}
    BY <1>4 DEF S!SignOut, S!ForgetSignIn, S!Uninstall, S!Reset, S!Begins
  <2>2. /\ op'.next = "mark" =>
             settings.server # S!None /\ op'.will = [server |-> settings.server, token |-> "out"]
        /\ op'.next = "drop" => op'.will = S!NoSignIn
    BY <1>4 DEF S!SignOut, S!ForgetSignIn, S!Uninstall, S!Reset, S!Begins
  <2> QED BY <2>1, <2>2, BeginsKeep
<1>5. CASE S!WriteFails \/ S!Stops
  <2>1. UNCHANGED <<settings, token>> /\ op' = S!Still
    BY <1>5 DEF S!WriteFails, S!Stops, S!Ends
  <2> QED BY <2>1 DEF SignInStands, S!Still, S!None
<1>6. CASE S!WritesToken
  <2>1. /\ op.next = "token" /\ token' = op.writes.token /\ op' = [op EXCEPT !.next = "settings"]
        /\ UNCHANGED settings
    BY <1>6 DEF S!WritesToken, S!First
  <2>2. op'.next = "settings" /\ op'.writes = op.writes /\ op'.was = op.was /\ op'.will = op.will
    BY <2>1
  <2>3. op.was = S!SignIn(settings, token)
    BY <2>1 DEF SignInStands, S!Saved
  <2> QED BY <2>1, <2>2, <2>3 DEF SignInStands, S!Saved, S!SignIn, S!NoSignIn
<1>7. CASE S!WritesSettings
  <2>1. op' = S!Still /\ settings' = [server |-> op.writes.server, out |-> op.writes.out] /\ token' = token
    BY <1>7 DEF S!WritesSettings, S!First, S!Ends
  <2>2. token # S!None
    BY <1>7 DEF S!WritesSettings, SignInStands
  <2> QED BY <2>1, <2>2 DEF SignInStands, S!Still, S!None
<1>8. CASE S!Marks
  <2>1. op.next = "mark" /\ settings' = [settings EXCEPT !.out = TRUE] /\ token' = token
        /\ op' = [op EXCEPT !.next = "remove"]
    BY <1>8 DEF S!Marks
  <2> QED BY <2>1 DEF SignInStands, S!Saved, S!SignIn
<1>9. CASE S!Drops
  <2>1. op.next = "drop" /\ settings' = S!NoServer /\ op' = [op EXCEPT !.next = "remove"]
    BY <1>9 DEF S!Drops
  <2> QED BY <2>1 DEF SignInStands, S!Saved, S!SignIn, S!NoServer, S!NoSignIn
<1>10. CASE S!RemovesToken
  <2>1. op.next = "remove" /\ token' = S!None /\ op' = S!Still /\ settings' = settings
    BY <1>10 DEF S!RemovesToken, S!Ends
  <2> QED BY <2>1 DEF SignInStands, S!Still, S!None
<1> QED BY <1>1, <1>2, <1>3, <1>4, <1>5, <1>6, <1>7, <1>8, <1>9, <1>10 DEF S!Next, S!Settings

\* A sign-in read between the two files is the one before or after, or one that replaces another server's.
LEMMA SignInHolds == SignInStands => S!BeforeOrAfter
<1> SUFFICES ASSUME SignInStands, op # S!Still, S!Saved \notin {op.was, op.will}
    PROVE  op.writes # S!Nothing /\ op.was # S!NoSignIn /\ op.was.server # op.writes.server
  BY DEF S!BeforeOrAfter
<1>1. op.next = "settings"
  BY DEF SignInStands
<1>2. /\ op.writes.token # S!None /\ op.writes.server # S!None
      /\ op.will = [server |-> op.writes.server, token |-> IF op.writes.out THEN "out" ELSE op.writes.token]
      /\ op.writes.out => S!Saved = op.was
      /\ token = op.writes.token
      /\ settings.server = S!None => op.was = S!NoSignIn
      /\ settings.server # S!None => op.was # S!NoSignIn /\ op.was.server = settings.server
      /\ settings.server # S!None /\ settings.out => op.was = [server |-> settings.server, token |-> "out"]
  BY <1>1 DEF SignInStands
<1>3. S!Saved = S!SignIn(settings, token)
  BY DEF S!Saved
<1>4. settings.server # S!None /\ ~settings.out
  BY <1>2, <1>3 DEF S!SignIn
<1>5. S!Saved = [server |-> settings.server, token |-> token]
  BY <1>2, <1>3, <1>4 DEF S!SignIn
<1>6. op.was # S!NoSignIn /\ op.was.server # op.writes.server
  BY <1>2, <1>4, <1>5
<1> QED BY <1>2, <1>6 DEF S!Nothing

-----------------------------------------------------------------------------
(* The theorems of Stores. *)

LEMMA StoresInvariant == PartsSpec => [](whose = "stores" => StoreInv /\ SignInStands)
<1> DEFINE Holding == whose = "stores" => StoreInv /\ SignInStands
<1>1. PartsInit => Holding
  BY StoreInit, SignInInit DEF PartsInit
<1>2. Holding /\ [PartsNext]_partsVars => Holding'
  <2> SUFFICES ASSUME Holding, [PartsNext]_partsVars, whose' = "stores" PROVE (StoreInv /\ SignInStands)'
    OBVIOUS
  <2>1. whose = "stores"
    BY DEF PartsNext, partsVars, Relay, Find, Transfer, Update, Firm, Store, Lay, Make
  <2>2. [S!Next]_(S!vars)
    BY <2>1, StoresSteps
  <2> QED BY <2>1, <2>2, StoreKeeps, SignInKeeps
<1> QED BY <1>1, <1>2, PTL DEF PartsSpec

\* A migration begins with a whole copy of what it changes among the backups kept, however many schemas
\* there are and backups are kept, and whatever started and was restored before it, unless a start was
\* ended in its backup, or a restore or a reset half-way (state/store.go backup).
THEOREM BackedUpHolds == PartsSpec => []BackedUp
<1>1. (whose = "stores" => StoreInv /\ SignInStands) => BackedUp
  BY DEF StoreInv, BackedUp
<1> QED BY <1>1, StoresInvariant, PTL

\* Whatever server and token are signed in with and whatever fails, a sign-in between its two files is the one
\* before or after, unless it replaces another server's (settings/store.go SaveSignIn).
THEOREM BeforeOrAfterHolds == PartsSpec => []BeforeOrAfter
<1>1. (whose = "stores" => StoreInv /\ SignInStands) => BeforeOrAfter
  BY SignInHolds DEF BeforeOrAfter
<1> QED BY <1>1, StoresInvariant, PTL

-----------------------------------------------------------------------------
(* The requests of a download (Transfer): the inductive invariant. *)

TransferTypes ==
  /\ romm \in T!Versions /\ listed \in T!Versions /\ at \in T!Files
  /\ {partial, saved} \subseteq Nat /\ body.of \in Nat
  /\ part \in [T!Files -> Seq(T!Versions)]

\* No block of a file is of a version older than low, or than RomM has.
Since(blocks, low) == \A i \in 1 .. Len(blocks) : low <= blocks[i] /\ blocks[i] <= romm

\* A version before the last that was staged has nothing left in staging, except between the listing that
\* finds it and clearing it; and the queue saved names none later than what is staged.
StagedSince ==
  /\ saved <= partial /\ partial <= romm
  /\ \A f \in T!Files : Since(part[f], saved) /\ (pc # "clear" => Since(part[f], partial))

\* The files before the one the attempt is at are as long as those listed.
Fetched ==
  /\ pc \in {"clear", "save", "file", "ask", "askwhole", "read", "place"} => listed = partial
  /\ pc \in {"list", "clear", "save"} => at = 1
  /\ pc \in {"file", "ask", "askwhole", "read"} =>
       \A f \in T!Files : f < at => Len(part[f]) = Size[listed][f]
  /\ pc = "place" => \A f \in T!Files : Len(part[f]) = Size[listed][f]
  /\ pc = "read" => listed <= body.of /\ body.of <= romm

\* What was placed is as long as what it is recorded as.
PlacedSince ==
  rec = T!NoRecord \/
    /\ rec.of \in T!Versions /\ rec.of <= romm
    /\ \A f \in T!Files :
         rec.files[f] \in Seq(T!Versions) /\ Len(rec.files[f]) = Size[rec.of][f] /\ Since(rec.files[f], rec.of)

TransferInv == leftover \/ (TransferTypes /\ StagedSince /\ Fetched /\ PlacedSince)

\* A step of Transfer's behaviours is a step of Transfer.
LEMMA TransferSteps ==
  ASSUME whose = "transfer", [PartsNext]_partsVars
  PROVE  whose' = whose /\ [T!Next]_(T!vars)
BY DEF PartsNext, partsVars, Relay, Find, Transfer, Update, Firm, Store, Lay, Make, transfer, T!vars,
       T!attempt, T!job, T!effort, T!bounds

LEMMA SizesCount ==
  /\ T!Last \in Nat \ {0} /\ T!Files = 1 .. T!Last /\ 1 \in T!Files /\ T!Last \in T!Files
  /\ T!Versions \subseteq Nat \ {0} /\ 1 \in T!Versions
  /\ \A v \in T!Versions, f \in T!Files : Size[v][f] \in Nat \ {0}
<1>1. /\ Size \in Seq(Seq(Nat \ {0})) /\ Size # <<>> /\ Size[1] # <<>>
      /\ \A v \in T!Versions : Len(Size[v]) = Len(Size[1])
  BY TransferAssumptions DEF T!Assumptions
<1>2. Len(Size) \in Nat \ {0} /\ T!Versions = 1 .. Len(Size)
  BY <1>1 DEF T!Versions
<1>3. \A v \in T!Versions : Size[v] \in Seq(Nat \ {0})
  BY <1>1, <1>2
<1>4. T!Last \in Nat \ {0} /\ T!Files = 1 .. T!Last
  BY <1>1, <1>2, <1>3 DEF T!Last, T!Files
<1>5. ASSUME NEW v \in T!Versions, NEW f \in T!Files PROVE Size[v][f] \in Nat \ {0}
  <2>1. f \in 1 .. Len(Size[v])
    BY <1>1, <1>4 DEF T!Last
  <2> QED BY <1>3, <2>1
<1> QED BY <1>2, <1>4, <1>5

\* The start of a file holds what its start held.
LEMMA StartOf ==
  ASSUME NEW V, NEW s \in Seq(V), NEW n \in 0 .. Len(s)
  PROVE  /\ SubSeq(s, 1, n) \in Seq(V) /\ Len(SubSeq(s, 1, n)) = n
         /\ \A i \in 1 .. n : SubSeq(s, 1, n)[i] = s[i]
OBVIOUS

LEMMA TransferInit == T!Init => TransferInv
<1> SUFFICES ASSUME T!Init PROVE TransferInv
  OBVIOUS
<1>1. TransferTypes /\ StagedSince
  BY SizesCount DEF T!Init, T!NoBody, T!Empty, TransferTypes, StagedSince, Since
<1>2. Fetched /\ PlacedSince
  BY DEF T!Init, Fetched, PlacedSince
<1> QED BY <1>1, <1>2 DEF TransferInv

\* An attempt that ends leaves what is staged for the next.
LEMMA AttemptEnds ==
  ASSUME TransferTypes, StagedSince, PlacedSince, pc # "clear",
         pc' \in {"wait", "pause", "failed"}, saved' \in {saved, partial},
         UNCHANGED <<romm, listed, at, partial, part, rec>>, body' \in {body, T!NoBody}
  PROVE  TransferInv'
<1>1. TransferTypes' /\ PlacedSince'
  BY DEF TransferTypes, PlacedSince, Since, T!NoBody
<1>2. StagedSince' /\ Fetched'
  BY SMTT(60) DEF TransferTypes, StagedSince, Since, Fetched
<1> QED BY <1>1, <1>2 DEF TransferInv

\* A file of the attempt is there, whole: on to the next, or to placing them.
LEMMA NextKeeps ==
  ASSUME TransferTypes, StagedSince, Fetched, PlacedSince, pc \in {"file", "read"}, T!NextFile,
         Len(part[at]) = Size[listed][at],
         UNCHANGED <<romm, listed, partial, saved, part, rec>>, body' \in {body, T!NoBody}
  PROVE  TransferInv'
<1>1. TransferTypes'
  BY SMTT(60), SizesCount DEF TransferTypes, T!NoBody, T!NextFile
<1>2. PlacedSince' /\ StagedSince'
  BY DEF PlacedSince, StagedSince, Since, T!NextFile
<1>3. \A f \in T!Files : f <= at => Len(part[f]) = Size[listed][f]
  BY SizesCount DEF TransferTypes, Fetched
<1>4. Fetched'
  <2>1. CASE at = T!Last
    BY <2>1, <1>3, SizesCount DEF Fetched, T!NextFile
  <2>2. CASE at # T!Last
    <3>1. pc' = "file" /\ at' = at + 1 /\ listed = partial
      BY <2>2 DEF Fetched, T!NextFile
    <3>2. \A f \in T!Files : f < at' => Len(part'[f]) = Size[listed'][f]
      BY <1>3, <3>1, SizesCount DEF TransferTypes
    <3> QED BY <3>1, <3>2 DEF Fetched
  <2> QED BY <2>1, <2>2
<1> QED BY <1>1, <1>2, <1>4 DEF TransferInv

\* A change of the file an attempt is at, to blocks there were and ones RomM has.
LEMMA FileKeeps ==
  ASSUME TransferTypes, StagedSince, Fetched, PlacedSince, pc \in {"file", "ask", "askwhole", "read"},
         NEW blocks \in Seq(T!Versions), part' = [part EXCEPT ![at] = blocks], Since(blocks, partial),
         pc' \in {"file", "ask", "read"}, at' = at,
         UNCHANGED <<romm, listed, partial, saved, rec>>,
         body'.of \in Nat, pc' = "read" => listed <= body'.of /\ body'.of <= romm
  PROVE  TransferInv'
<1>1. TransferTypes' /\ PlacedSince'
  BY DEF TransferTypes, PlacedSince, Since
<1>2. \A f \in T!Files : part'[f] = IF f = at THEN blocks ELSE part[f]
  BY DEF TransferTypes
<1>3. \A i \in 1 .. Len(blocks) : blocks[i] \in Nat
  <2>1. \A i \in 1 .. Len(blocks) : blocks[i] \in T!Versions
    OBVIOUS
  <2> QED BY <2>1, SizesCount
<1>4. Since(blocks, saved)
  BY <1>3, SizesCount DEF TransferTypes, StagedSince, Since
<1>5. StagedSince'
  BY <1>2, <1>4 DEF StagedSince, Since
<1>6. Fetched'
  BY <1>2, SizesCount DEF TransferTypes, Fetched
<1> QED BY <1>1, <1>5, <1>6 DEF TransferInv

LEMMA ListsKeeps == TransferInv /\ ~leftover' /\ (T!Lists \/ T!Clears \/ T!ClearFails \/ T!Saves) => TransferInv'
<1> SUFFICES ASSUME TransferInv, ~leftover', T!Lists \/ T!Clears \/ T!ClearFails \/ T!Saves PROVE TransferInv'
  OBVIOUS
<1>0. ~leftover /\ TransferTypes /\ StagedSince /\ Fetched /\ PlacedSince
  BY DEF TransferInv, T!Lists, T!Clears, T!ClearFails, T!Saves
<1>1. ~T!ClearFails
  BY DEF T!ClearFails
<1>2. /\ UNCHANGED <<romm, at, body, rec>> /\ saved' \in {saved, partial} /\ partial' \in {partial, romm}
      /\ listed' \in {listed, romm} /\ part' \in {part, [f \in T!Files |-> <<>>]}
  BY <1>1 DEF T!Lists, T!Clears, T!Saves, T!SaveJob, T!Empty, T!job, T!attempt
<1>6. TransferTypes'
  <2>1. romm \in Nat /\ [f \in T!Files |-> <<>>] \in [T!Files -> Seq(T!Versions)]
    BY <1>0, SizesCount DEF TransferTypes
  <2> QED BY <1>0, <1>2, <2>1 DEF TransferTypes
<1>7. PlacedSince'
  BY <1>0, <1>2 DEF PlacedSince, Since
<1>3. CASE T!Lists
  <2>1. /\ pc = "list" /\ listed' = romm /\ partial' = romm /\ pc' = IF partial = romm THEN "file" ELSE "clear"
        /\ UNCHANGED <<romm, at, saved, part>>
    BY <1>3 DEF T!Lists, T!SamePartial
  <2>2. StagedSince' /\ Fetched'
    BY <1>0, <2>1, SizesCount DEF TransferTypes, StagedSince, Since, Fetched
  <2> QED BY <1>6, <1>7, <2>2 DEF TransferInv
<1>4. CASE T!Clears
  <2>1. pc = "clear" /\ pc' = "save" /\ part' = [f \in T!Files |-> <<>>]
        /\ UNCHANGED <<romm, listed, at, partial, saved>>
    BY <1>4 DEF T!Clears, T!Empty, T!attempt, T!job
  <2>2. StagedSince' /\ Fetched'
    BY <1>0, <2>1 DEF TransferTypes, StagedSince, Since, Fetched
  <2> QED BY <1>6, <1>7, <2>2 DEF TransferInv
<1>5. CASE T!Saves
  <2>1. pc = "save" /\ pc' = "file" /\ saved' \in {saved, partial} /\ UNCHANGED <<romm, listed, at, partial, part>>
    BY <1>5 DEF T!Saves, T!SaveJob, T!attempt, T!job
  <2>2. StagedSince' /\ Fetched'
    BY <1>0, <2>1, SizesCount DEF TransferTypes, StagedSince, Since, Fetched
  <2> QED BY <1>6, <1>7, <2>2 DEF TransferInv
<1> QED BY <1>1, <1>3, <1>4, <1>5

\* Each file: what earlier attempts left of it, and the blocks of the answer.
LEMMA FetchesKeep ==
  ASSUME TransferInv, ~leftover', T!HasFile \/ T!Fetches \/ T!Resumes \/ T!Restarts \/ T!Refused \/ T!Reads
  PROVE  TransferInv'
<1>0. ~leftover /\ TransferTypes /\ StagedSince /\ Fetched /\ PlacedSince
  BY DEF TransferInv, T!HasFile, T!Fetches, T!Resumes, T!Restarts, T!Refused, T!Reads
<1> DEFINE now == part[at]
<1>1. now \in Seq(T!Versions) /\ Size[listed][at] \in Nat /\ (pc # "clear" => Since(now, partial))
  BY <1>0, SizesCount DEF TransferTypes, StagedSince
<1>2. T!From \in 0 .. Len(now)
  BY <1>1 DEF T!From
<1>3. ASSUME NEW n \in 0 .. Len(now), pc # "clear"
      PROVE  SubSeq(now, 1, n) \in Seq(T!Versions) /\ Since(SubSeq(now, 1, n), partial)
  BY <1>1, <1>3, StartOf DEF Since
<1>4. CASE T!HasFile
  <2>1. pc = "file" /\ T!From = Size[listed][at] /\ Len(now) = Size[listed][at]
    BY <1>1, <1>4, SizesCount, <1>0 DEF T!HasFile, T!From, TransferTypes
  <2>2. SubSeq(now, 1, Len(now)) = now
    BY <1>1
  <2>3. part' = [part EXCEPT ![at] = now]
    BY <1>4, <2>1, <2>2 DEF T!HasFile, T!Opens
  <2>4. part' = part
    BY <1>0, <2>3 DEF TransferTypes
  <2> QED BY <1>0, <1>4, <2>1, <2>4, NextKeeps DEF T!HasFile
<1>5. CASE T!Resumes
  <2>1. pc = "ask" /\ pc' = "read" /\ part' = [part EXCEPT ![at] = SubSeq(now, 1, T!From)]
        /\ body' = [of |-> romm, read |-> T!From] /\ UNCHANGED <<romm, listed, at, partial, saved, rec>>
    BY <1>5 DEF T!Resumes, T!Opens
  <2>2. body'.of = romm /\ romm \in Nat /\ listed <= romm
    BY <1>0, <2>1, SizesCount DEF TransferTypes, StagedSince, Fetched
  <2>3. SubSeq(now, 1, T!From) \in Seq(T!Versions) /\ Since(SubSeq(now, 1, T!From), partial)
    BY <1>2, <1>3, <2>1
  <2>4. body'.of <= romm
    BY <2>2
  <2> QED BY <1>0, <2>1, <2>2, <2>3, <2>4, FileKeeps
<1>6. CASE T!Restarts
  <2>1. pc \in {"ask", "askwhole"} /\ pc' = "read" /\ part' = [part EXCEPT ![at] = SubSeq(now, 1, 0)]
        /\ body' = [of |-> romm, read |-> 0] /\ UNCHANGED <<romm, listed, at, partial, saved, rec>>
    BY <1>6 DEF T!Restarts, T!Opens
  <2>2. body'.of = romm /\ romm \in Nat /\ listed <= romm
    BY <1>0, <2>1, SizesCount DEF TransferTypes, StagedSince, Fetched
  <2>3. 0 \in 0 .. Len(now)
    BY <1>1
  <2>4. SubSeq(now, 1, 0) \in Seq(T!Versions) /\ Since(SubSeq(now, 1, 0), partial)
    BY <1>3, <2>1, <2>3
  <2>5. body'.of <= romm
    BY <2>2
  <2> QED BY <1>0, <2>1, <2>2, <2>4, <2>5, FileKeeps
<1>7. CASE T!Fetches \/ T!Refused
  <2>1. pc \in {"file", "ask"} /\ pc' \in {"ask", "askwhole"} /\ UNCHANGED <<romm, listed, at, body, partial, saved, part, rec>>
    BY <1>7 DEF T!Fetches, T!Refused, T!attempt, T!job
  <2>2. TransferTypes' /\ StagedSince' /\ Fetched' /\ PlacedSince'
    BY <1>0, <2>1 DEF TransferTypes, StagedSince, Since, Fetched, PlacedSince
  <2> QED BY <2>2 DEF TransferInv
<1>8. CASE T!Reads
  <2>1. pc = "read" /\ pc' = "read" /\ part' = [part EXCEPT ![at] = Append(now, body.of)]
        /\ body' = [body EXCEPT !.read = @ + 1] /\ UNCHANGED <<romm, listed, at, partial, saved, rec>>
    BY <1>8 DEF T!Reads
  <2>2. body'.of = body.of /\ body.of \in T!Versions /\ partial <= body.of /\ body.of <= romm
    <3>1. listed <= body.of /\ body.of <= romm /\ listed = partial
      BY <1>0, <2>1 DEF Fetched
    <3>2. body.of \in T!Versions
      BY <1>0, <3>1 DEF TransferTypes, T!Versions
    <3> QED BY <2>1, <3>1, <3>2
  <2>3. Append(now, body.of) \in Seq(T!Versions) /\ Since(Append(now, body.of), partial)
    BY <1>1, <2>1, <2>2 DEF Since
  <2>4. listed <= body'.of /\ body'.of \in Nat
    BY <1>0, <2>1, <2>2, SizesCount DEF Fetched
  <2> QED BY <1>0, <2>1, <2>2, <2>3, <2>4, FileKeeps
<1> QED BY <1>4, <1>5, <1>6, <1>7, <1>8

LEMMA TransferKeeps == TransferInv /\ [T!Next]_(T!vars) => TransferInv'
<1> SUFFICES ASSUME TransferInv, [T!Next]_(T!vars), ~leftover' PROVE TransferInv'
  BY DEF TransferInv
<1>1. CASE T!Lists \/ T!Clears \/ T!ClearFails \/ T!Saves
  BY <1>1, ListsKeeps
<1>2. CASE T!HasFile \/ T!Fetches \/ T!Resumes \/ T!Restarts \/ T!Refused \/ T!Reads
  BY <1>2, FetchesKeep
<1>0. ~leftover /\ TransferTypes /\ StagedSince /\ Fetched /\ PlacedSince
  <2>1. leftover => leftover'
    BY DEF T!Next, T!Work, T!Starts, T!Waits, T!Lists, T!AskFails, T!Clears, T!ClearFails, T!Saves, T!HasFile, T!Fetches,
         T!Resumes, T!Restarts, T!Refused, T!Reads, T!ReadsAll, T!Drops, T!Stalls, T!Places, T!Tick, T!RommChanges,
         T!SignIn, T!UserRetries, T!Stop, T!vars
  <2> QED BY <2>1 DEF TransferInv
<1>3. CASE T!ReadsAll /\ Len(part[at]) = Size[listed][at]
  <2>1. pc = "read" /\ T!NextFile /\ body' = T!NoBody /\ UNCHANGED <<romm, listed, partial, saved, part, rec, leftover>>
    BY <1>3 DEF T!ReadsAll, T!job
  <2> QED BY <1>0, <1>3, <2>1, NextKeeps
<1>4. CASE \/ T!AskFails("list") \/ T!AskFails("ask") \/ T!AskFails("askwhole") \/ T!Drops \/ T!Stalls
           \/ T!Waits \/ T!UserRetries \/ (T!ReadsAll /\ Len(part[at]) # Size[listed][at])
  <2>1. /\ pc # "clear" /\ pc' \in {"wait", "pause", "failed"} /\ saved' \in {saved, partial}
        /\ UNCHANGED <<romm, listed, at, partial, part, rec, leftover>> /\ body' \in {body, T!NoBody}
    BY <1>4 DEF T!AskFails, T!Drops, T!Stalls, T!Waits, T!UserRetries, T!ReadsAll, T!Interrupted, T!Rejected, T!Fails,
         T!SaveJob, T!attempt, T!job
  <2> QED BY <1>0, <2>1, AttemptEnds
<1>5. CASE T!Starts \/ T!Tick \/ T!SignIn \/ UNCHANGED T!vars
  <2>1. /\ \/ pc' = pc /\ at' = at
           \/ pc = "wait" /\ pc' = "list" /\ at' = 1
        /\ UNCHANGED <<romm, listed, partial, saved, part, body, rec, leftover>>
    BY <1>5 DEF T!Starts, T!Tick, T!SignIn, T!vars, T!attempt, T!job
  <2>2. TransferTypes' /\ StagedSince' /\ Fetched' /\ PlacedSince'
    BY <1>0, <2>1, SizesCount DEF TransferTypes, StagedSince, Since, Fetched, PlacedSince
  <2> QED BY <2>2 DEF TransferInv
<1>6. CASE T!Places
  <2>1. /\ pc = "place" /\ pc' = "done" /\ rec' = [of |-> listed, files |-> part]
        /\ part' = [f \in T!Files |-> <<>>] /\ partial' = 0 /\ saved' = 0 /\ UNCHANGED <<romm, listed, at, body, leftover>>
    BY <1>6 DEF T!Places, T!Empty, T!attempt
  <2>2. TransferTypes' /\ StagedSince' /\ Fetched'
    BY <1>0, <2>1, SizesCount DEF TransferTypes, StagedSince, Since, Fetched
  <2>3. listed = partial /\ partial <= romm /\ \A f \in T!Files : part[f] \in Seq(T!Versions)
    BY <1>0, <2>1 DEF TransferTypes, StagedSince, Fetched
  <2>4. PlacedSince'
    BY <1>0, <2>1, <2>3 DEF TransferTypes, StagedSince, Fetched, PlacedSince, Since
  <2> QED BY <2>2, <2>4 DEF TransferInv
<1>7. CASE T!RommChanges
  <2>1. romm' = romm + 1 /\ UNCHANGED <<pc, listed, at, body, partial, saved, part, rec, leftover>> /\ romm' \in T!Versions
    <3>1. romm < Len(Size) /\ romm' = romm + 1
          /\ UNCHANGED <<pc, listed, at, body, partial, saved, part, rec, leftover>>
      BY <1>7 DEF T!RommChanges, T!attempt, T!job
    <3>2. Len(Size) \in Nat
      BY TransferAssumptions DEF T!Assumptions
    <3> QED BY <1>0, <3>1, <3>2 DEF TransferTypes, T!Versions
  <2>2. TransferTypes' /\ Fetched'
    BY <1>0, <2>1, SizesCount DEF TransferTypes, Fetched
  <2>3. romm \in Nat /\ T!Versions \subseteq Nat
    BY <1>0, SizesCount DEF TransferTypes
  <2>4. ASSUME NEW f \in T!Files, NEW low, Since(part[f], low) PROVE Since(part[f], low)'
    <3>1. \A i \in 1 .. Len(part[f]) : part[f][i] \in T!Versions
      BY <1>0 DEF TransferTypes
    <3>2. \A i \in 1 .. Len(part[f]) : part[f][i] \in Nat /\ low <= part[f][i] /\ part[f][i] <= romm
      BY <2>3, <2>4, <3>1 DEF Since
    <3> QED BY <2>1, <2>3, <3>2 DEF Since
  <2>5. ASSUME NEW f \in T!Files, rec.files[f] \in Seq(T!Versions), Since(rec.files[f], rec.of)
        PROVE  Since(rec.files[f], rec.of)'
    <3>1. \A i \in 1 .. Len(rec.files[f]) : rec.files[f][i] \in T!Versions
      BY <2>5
    <3>2. \A i \in 1 .. Len(rec.files[f]) :
            rec.files[f][i] \in Nat /\ rec.of <= rec.files[f][i] /\ rec.files[f][i] <= romm
      BY <2>3, <2>5, <3>1 DEF Since
    <3> QED BY <2>1, <2>3, <3>2 DEF Since
  <2>6. StagedSince'
    <3>1. saved <= partial /\ partial <= romm + 1
      BY <1>0, <2>3 DEF TransferTypes, StagedSince
    <3>2. \A f \in T!Files : Since(part[f], saved)' /\ (pc # "clear" => Since(part[f], partial)')
      <4> SUFFICES ASSUME NEW f \in T!Files
          PROVE  Since(part[f], saved)' /\ (pc # "clear" => Since(part[f], partial)')
        OBVIOUS
      <4>1. Since(part[f], saved) /\ (pc # "clear" => Since(part[f], partial))
        BY <1>0 DEF StagedSince
      <4>2. Since(part[f], saved)'
        BY <2>1, <2>4, <4>1
      <4>3. CASE pc # "clear"
        BY <2>1, <2>4, <4>1, <4>2, <4>3
      <4> QED BY <4>2, <4>3
    <3> QED BY <2>1, <3>1, <3>2 DEF StagedSince
  <2>7. PlacedSince'
    <3>1. CASE rec = T!NoRecord
      BY <2>1, <3>1 DEF PlacedSince
    <3>2. CASE rec # T!NoRecord
      <4>1. /\ rec.of \in T!Versions /\ rec.of <= romm
            /\ \A f \in T!Files :
                 rec.files[f] \in Seq(T!Versions) /\ Len(rec.files[f]) = Size[rec.of][f] /\ Since(rec.files[f], rec.of)
        BY <1>0, <3>2 DEF PlacedSince
      <4>2. \A f \in T!Files : Since(rec.files[f], rec.of)'
        BY <2>5, <4>1
      <4>3. rec.of <= romm + 1
        <5>1. rec.of \in Nat /\ rec.of <= romm
          BY <2>3, <4>1
        <5> QED BY <2>3, <5>1
      <4> QED BY <2>1, <4>1, <4>2, <4>3 DEF PlacedSince
    <3> QED BY <3>1, <3>2
  <2> QED BY <2>2, <2>6, <2>7 DEF TransferInv
<1>8. CASE T!Stop
  <2>1. /\ pc' = "wait" /\ partial' = saved /\ listed' = 1 /\ at' = 1 /\ body' = T!NoBody
        /\ UNCHANGED <<romm, saved, part, rec, leftover>>
    BY <1>8 DEF T!Stop
  <2>2. TransferTypes' /\ StagedSince' /\ Fetched' /\ PlacedSince'
    BY <1>0, <2>1, SizesCount DEF TransferTypes, StagedSince, Since, Fetched, PlacedSince, T!NoBody
  <2> QED BY <2>2 DEF TransferInv
<1> QED BY <1>1, <1>2, <1>3, <1>4, <1>5, <1>6, <1>7, <1>8 DEF T!Next, T!Work

LEMMA TransferInvariant == PartsSpec => [](whose = "transfer" => TransferInv)
<1> DEFINE Holding == whose = "transfer" => TransferInv
<1>1. PartsInit => Holding
  BY TransferInit DEF PartsInit
<1>2. Holding /\ [PartsNext]_partsVars => Holding'
  <2> SUFFICES ASSUME Holding, [PartsNext]_partsVars, whose' = "transfer" PROVE TransferInv'
    OBVIOUS
  <2>1. whose = "transfer"
    BY DEF PartsNext, partsVars, Relay, Find, Transfer, Update, Firm, Store, Lay, Make
  <2>2. [T!Next]_(T!vars)
    BY <2>1, TransferSteps
  <2> QED BY <2>1, <2>2, TransferKeeps
<1> QED BY <1>1, <1>2, PTL DEF PartsSpec

\* However many files and versions of them RomM comes to have, however an attempt ends and whenever the
\* backend stops, what is placed is whole and of one version, or offered as having an update, unless
\* staging could not be emptied (downloads.go download, fetch, samePartial).
THEOREM WholeOrOfferedHolds == PartsSpec => []WholeOrOffered
<1>1. (whose = "transfer" => TransferInv) => WholeOrOffered
  <2> SUFFICES ASSUME TransferInv, ~leftover, rec # T!NoRecord, romm = rec.of, NEW f \in T!Files
      PROVE  rec.files[f] = [i \in 1 .. Size[rec.of][f] |-> rec.of]
    BY DEF WholeOrOffered, T!WholeOrOffered
  <2>1. /\ rec.of \in T!Versions /\ rec.files[f] \in Seq(T!Versions) /\ Len(rec.files[f]) = Size[rec.of][f]
        /\ Since(rec.files[f], rec.of)
    BY DEF TransferInv, PlacedSince
  <2>2. \A i \in 1 .. Len(rec.files[f]) : rec.files[f][i] = rec.of
    <3>1. \A i \in 1 .. Len(rec.files[f]) : rec.files[f][i] \in T!Versions
      BY <2>1
    <3> QED BY <2>1, <3>1, SizesCount DEF Since
  <2> QED BY <2>1, <2>2
<1> QED BY <1>1, TransferInvariant, PTL

-----------------------------------------------------------------------------
(* BIOS files (Bios): the inductive invariant. *)

BiosCall == [at : {"idle", "status", "look", "start", "begin", "next", "get", "check", "move", "stat", "record"},
             platform : B!Platforms \cup {B!None}, auto : BOOLEAN, read : SUBSET Firmware, fit : SUBSET Firmware,
             missing : SUBSET Firmware, file : Firmware \cup {B!None}, there : BOOLEAN]
BiosTypes == call \in [Calls -> BiosCall] /\ disk \in [B!Names -> Firmware \cup {B!None, "user"}]

Downloads(c) == call[c].at \in {"begin", "next", "get", "check", "move", "stat", "record"}
\* A platform's files are downloaded by one call, which no other starts beside.
OnePlatform ==
  /\ \A c \in Calls : Downloads(c) => call[c].platform \in busy
  /\ \A c, d \in Calls : c # d /\ Downloads(c) /\ Downloads(d) => call[c].platform # call[d].platform

\* A call downloads its platform's files.
OwnFiles ==
  \A c \in Calls :
    /\ call[c].missing \subseteq B!Of(call[c].platform)
    /\ call[c].at \in {"get", "check", "move", "stat", "record"} => call[c].file \in B!Of(call[c].platform)

\* Since its look at where the file goes, none of its platform's was placed there.
StillFree ==
  \A c \in Calls : call[c].at = "move" /\ B!Under(c) \in Firmware => Platform[B!Under(c)] # call[c].platform

BiosInv == BiosTypes /\ OnePlatform /\ OwnFiles /\ StillFree

\* A step of Bios' behaviours is a step of Bios.
LEMMA BiosSteps ==
  ASSUME whose = "bios", [PartsNext]_partsVars
  PROVE  whose' = whose /\ [B!Next]_(B!vars)
BY DEF PartsNext, partsVars, Relay, Find, Transfer, Update, Firm, Store, Lay, Make, bios, B!vars

LEMMA BiosInit == B!Init => BiosInv
<1> SUFFICES ASSUME B!Init PROVE BiosInv
  OBVIOUS
<1>1. BiosTypes
  BY DEF B!Init, BiosTypes, BiosCall, B!Idle
<1>2. \A c \in Calls : call[c].at = "idle" /\ call[c].missing = {}
  BY DEF B!Init, B!Idle
<1> QED BY <1>1, <1>2 DEF BiosInv, OnePlatform, OwnFiles, StillFree, Downloads

LEMMA IdleTyped == B!Idle \in BiosCall /\ B!Idle.at = "idle" /\ B!Idle.missing = {}
BY DEF B!Idle, BiosCall

LEMMA NotFirmware == B!None \notin Firmware /\ "user" \notin Firmware
BY BiosAssumptions DEF B!Assumptions

\* A step of a call that leaves the folder alone: it is at most at a move whose look it just made, and begins
\* only when its platform isn't busy, which it stops being only as the call ends.
LEMMA BiosGoes ==
  ASSUME BiosInv, NEW c \in Calls, NEW now \in BiosCall, call' = [call EXCEPT ![c] = now], disk' = disk,
         now.missing \subseteq B!Of(now.platform),
         now.at \in {"get", "check", "move", "stat", "record"} => now.file \in B!Of(now.platform),
         now.at = "move" => disk[Name[now.file]] = B!None,
         \/ now.at \in {"next", "get", "check", "move", "stat", "record"} /\ Downloads(c)
            /\ now.platform = call[c].platform /\ busy' = busy
         \/ now.at = "begin" /\ now.platform \notin busy /\ busy' = busy \cup {now.platform}
         \/ now.at \in {"idle", "status", "look", "start"} /\ busy' = busy
         \/ now.at = "idle" /\ Downloads(c) /\ busy' = busy \ {call[c].platform}
  PROVE  BiosInv'
<1>1. \A d \in Calls : call'[d] = IF d = c THEN now ELSE call[d]
  BY DEF BiosInv, BiosTypes
<1>2. BiosTypes'
  BY DEF BiosInv, BiosTypes
<1>3. OwnFiles'
  BY <1>1 DEF BiosInv, OwnFiles
<1>4. \A d \in Calls : d # c => (Downloads(d)' <=> Downloads(d))
  BY <1>1 DEF Downloads
<1>5. OnePlatform'
  <2>1. CASE now.at \in {"next", "get", "check", "move", "stat", "record"} /\ Downloads(c)
             /\ now.platform = call[c].platform /\ busy' = busy
    BY <2>1, <1>1, <1>4 DEF BiosInv, OnePlatform, Downloads
  <2>2. CASE now.at = "begin" /\ now.platform \notin busy /\ busy' = busy \cup {now.platform}
    BY <2>2, <1>1, <1>4 DEF BiosInv, OnePlatform, Downloads
  <2>3. CASE now.at \in {"idle", "status", "look", "start"} /\ busy' = busy
    <3>1. ~Downloads(c)'
      BY <2>3, <1>1 DEF Downloads
    <3> QED BY <2>3, <3>1, <1>1, <1>4 DEF BiosInv, OnePlatform
  <2>4. CASE now.at = "idle" /\ Downloads(c) /\ busy' = busy \ {call[c].platform}
    <3>1. ~Downloads(c)'
      BY <2>4, <1>1 DEF Downloads
    <3> QED BY <2>4, <3>1, <1>1, <1>4 DEF BiosInv, OnePlatform
  <2> QED BY <2>1, <2>2, <2>3, <2>4
<1>6. StillFree'
  <2>1. ASSUME NEW d \in Calls, d # c, call'[d].at = "move", B!Under(d)' \in Firmware
        PROVE  Platform[B!Under(d)'] # call'[d].platform
    BY <2>1, <1>1 DEF BiosInv, StillFree, B!Under
  <2>2. now.at = "move" => B!Under(c)' \notin Firmware
    BY <1>1, NotFirmware DEF B!Under
  <2>3. call'[c] = now
    BY <1>1
  <2> QED BY <2>1, <2>2, <2>3 DEF StillFree
<1> QED BY <1>2, <1>3, <1>5, <1>6 DEF BiosInv

\* Another file under a name, of RomM's, of the user's or none: no call of the same platform as one of RomM's
\* is about to place another there.
LEMMA BiosPlaces ==
  ASSUME BiosInv, NEW n \in B!Names, NEW to \in Firmware \cup {B!None, "user"}, disk' = [disk EXCEPT ![n] = to],
         busy' = busy, call' \in [Calls -> BiosCall],
         \A d \in Calls :
           /\ call'[d].platform = call[d].platform /\ call'[d].missing = call[d].missing
           /\ \/ call'[d].at = call[d].at /\ call'[d].file = call[d].file
              \/ call[d].at = "move" /\ call'[d].at = "stat" /\ call'[d].file = call[d].file
              \/ call[d].at = "record" /\ call'[d].at = "next"
           /\ to \in Firmware /\ call'[d].at = "move" => Platform[to] # call[d].platform
  PROVE  BiosInv'
<1>1. BiosTypes'
  BY DEF BiosInv, BiosTypes
<1>2. \A d \in Calls : Downloads(d)' <=> Downloads(d)
  BY DEF Downloads
<1>3. OnePlatform'
  BY <1>2 DEF BiosInv, OnePlatform
<1>4. OwnFiles'
  BY DEF BiosInv, OwnFiles
<1>5. ASSUME NEW d \in Calls, call'[d].at = "move", B!Under(d)' \in Firmware
      PROVE  Platform[B!Under(d)'] # call'[d].platform
  <2>1. call[d].at = "move" /\ call'[d].file = call[d].file /\ call[d].file \in Firmware
    BY <1>5 DEF BiosInv, OwnFiles, B!Of
  <2>2. Name[call[d].file] \in B!Names
    BY <2>1 DEF B!Names
  <2>3. B!Under(d)' = IF Name[call[d].file] = n THEN to ELSE B!Under(d)
    BY SMTT(60), <2>1, <2>2 DEF B!Under, BiosInv, BiosTypes
  <2> QED BY <1>5, <2>1, <2>3 DEF BiosInv, StillFree
<1> QED BY <1>1, <1>3, <1>4, <1>5 DEF BiosInv, StillFree

\* What is put under a name is no longer what the calls read and saw.
LEMMA UnseenTyped ==
  ASSUME BiosTypes, NEW n
  PROVE  /\ B!Unseen(n) \in [Calls -> BiosCall]
         /\ \A d \in Calls : /\ B!Unseen(n)[d].platform = call[d].platform /\ B!Unseen(n)[d].missing = call[d].missing
                             /\ B!Unseen(n)[d].at = call[d].at /\ B!Unseen(n)[d].file = call[d].file
<1>1. ASSUME NEW d \in Calls
      PROVE  [call[d] EXCEPT !.fit = {f \in @ : Name[f] # n},
                             !.there = IF @ THEN Name[call[d].file] # n ELSE FALSE] \in BiosCall
  BY DEF BiosTypes, BiosCall
<1> QED BY <1>1 DEF B!Unseen, BiosTypes, BiosCall

LEMMA BiosKeeps == BiosInv /\ [B!Next]_(B!vars) => BiosInv'
<1> SUFFICES ASSUME BiosInv, [B!Next]_(B!vars) PROVE BiosInv'
  OBVIOUS
<1>0. \A c \in Calls : call[c] \in BiosCall
  BY DEF BiosInv, BiosTypes
<1>1. ASSUME NEW c \in Calls, NEW p \in B!Platforms, B!Download(c, p) \/ B!GameQueued(c, p) PROVE BiosInv'
  <2>1. PICK now : /\ call' = [call EXCEPT ![c] = now]
                   /\ \/ now = [B!Idle EXCEPT !.at = "status", !.platform = p]
                      \/ now = [B!Idle EXCEPT !.at = "status", !.platform = p, !.auto = TRUE]
    BY <1>1 DEF B!Download, B!GameQueued, B!Goes
  <2>2. now \in BiosCall /\ now.at = "status" /\ now.missing = {}
    BY <2>1 DEF B!Idle, BiosCall
  <2>3. busy' = busy /\ disk' = disk
    BY <1>1 DEF B!Download, B!GameQueued
  <2> QED BY <2>1, <2>2, <2>3, BiosGoes
<1>2. ASSUME NEW c \in Calls, B!StatusFails(c) \/ B!NotAllowed(c) \/ B!ReadsRecords(c) \/ B!Looks(c) PROVE BiosInv'
  <2>1. busy' = busy /\ disk' = disk
    BY <1>2 DEF B!StatusFails, B!NotAllowed, B!ReadsRecords, B!Looks
  <2>2. CASE call' = [call EXCEPT ![c] = B!Idle]
    BY <2>1, <2>2, IdleTyped, BiosGoes
  <2>3. CASE B!ReadsRecords(c)
    <3> DEFINE read == {f \in B!Of(call[c].platform) : rec[f] # B!None}
               now == [call[c] EXCEPT !.at = "look", !.read = read, !.fit = {f \in read : rec[f] = "fits"}]
    <3>1. call' = [call EXCEPT ![c] = now]
      BY <2>3 DEF B!ReadsRecords, B!Goes
    <3>2. read \subseteq Firmware
      BY DEF B!Of
    <3>3. now \in BiosCall /\ now.at = "look" /\ now.missing = call[c].missing /\ now.platform = call[c].platform
      BY <1>0, <3>2 DEF BiosCall
    <3>4. now.missing \subseteq B!Of(now.platform)
      BY <3>3 DEF BiosInv, OwnFiles
    <3> HIDE DEF now
    <3> QED BY <2>1, <3>1, <3>3, <3>4, BiosGoes
  <2>4. CASE B!Looks(c) /\ call' # [call EXCEPT ![c] = B!Idle]
    <3> DEFINE missing == B!Missing(call[c].platform)
               now == [call[c] EXCEPT !.at = "start", !.missing = missing, !.read = {}, !.fit = {}]
    <3>1. call' = [call EXCEPT ![c] = now]
      BY <2>4 DEF B!Looks, B!Goes
    <3>2. missing \subseteq B!Of(call[c].platform) /\ missing \subseteq Firmware
      BY DEF B!Missing, B!Of
    <3>3. now \in BiosCall /\ now.at = "start" /\ now.missing = missing /\ now.platform = call[c].platform
      BY <1>0, <3>2 DEF BiosCall
    <3> HIDE DEF now, missing
    <3> QED BY <2>1, <3>1, <3>2, <3>3, BiosGoes
  <2> QED BY <1>2, <2>2, <2>3, <2>4 DEF B!StatusFails, B!NotAllowed, B!Looks, B!Goes
<1>3. ASSUME NEW c \in Calls, B!Starts(c) \/ B!Begins(c) \/ B!NextFile(c) PROVE BiosInv'
  <2>1. disk' = disk
    BY <1>3 DEF B!Starts, B!Begins, B!NextFile
  <2>2. CASE call' = [call EXCEPT ![c] = B!Idle]
    <3>1. \/ busy' = busy
          \/ Downloads(c) /\ busy' = busy \ {call[c].platform}
      <4>1. CASE busy' = busy
        BY <4>1
      <4>2. CASE B!Starts(c) /\ busy' # busy
        <5>1. call' = [call EXCEPT ![c] = [call[c] EXCEPT !.at = "begin"]]
          BY <4>2 DEF B!Starts, B!Busy, B!Goes
        <5> QED BY <1>0, <2>2, <5>1, IdleTyped DEF BiosInv, BiosTypes, BiosCall
      <4>3. CASE ~B!Starts(c) /\ busy' # busy
        BY <1>3, <4>3 DEF B!Begins, B!NextFile, B!At, Downloads
      <4> QED BY <4>1, <4>2, <4>3
    <3> QED BY <2>1, <2>2, <3>1, IdleTyped, BiosGoes
  <2>3. CASE B!Starts(c) /\ call' # [call EXCEPT ![c] = B!Idle]
    <3> DEFINE now == [call[c] EXCEPT !.at = "begin"]
    <3>1. call' = [call EXCEPT ![c] = now] /\ call[c].platform \notin busy /\ busy' = busy \cup {call[c].platform}
      BY <2>3 DEF B!Starts, B!Busy, B!Goes
    <3>2. now \in BiosCall /\ now.at = "begin" /\ now.missing = call[c].missing /\ now.platform = call[c].platform
      BY <1>0 DEF BiosCall
    <3>3. now.missing \subseteq B!Of(now.platform)
      BY <3>2 DEF BiosInv, OwnFiles
    <3> HIDE DEF now
    <3> QED BY <2>1, <3>1, <3>2, <3>3, BiosGoes
  <2>4. CASE B!Begins(c) /\ call' # [call EXCEPT ![c] = B!Idle]
    <3> DEFINE now == [call[c] EXCEPT !.at = "next"]
    <3>1. call' = [call EXCEPT ![c] = now] /\ busy' = busy /\ Downloads(c)
      BY <2>4 DEF B!Begins, B!Goes, B!At, Downloads
    <3>2. now \in BiosCall /\ now.at = "next" /\ now.missing = call[c].missing /\ now.platform = call[c].platform
      BY <1>0 DEF BiosCall
    <3>3. now.missing \subseteq B!Of(now.platform)
      BY <3>2 DEF BiosInv, OwnFiles
    <3> HIDE DEF now
    <3> QED BY <2>1, <3>1, <3>2, <3>3, BiosGoes
  <2>5. CASE B!NextFile(c) /\ call' # [call EXCEPT ![c] = B!Idle]
    <3>1. PICK f \in call[c].missing : call' = [call EXCEPT ![c] = [call[c] EXCEPT !.at = "get", !.file = f, !.missing = @ \ {f}]]
      BY <2>5 DEF B!NextFile, B!Goes
    <3> DEFINE now == [call[c] EXCEPT !.at = "get", !.file = f, !.missing = @ \ {f}]
    <3>2. busy' = busy /\ Downloads(c)
      BY <2>5 DEF B!NextFile, B!Goes, B!At, Downloads
    <3>3. f \in Firmware /\ f \in B!Of(call[c].platform) /\ call[c].missing \subseteq B!Of(call[c].platform)
      BY <1>0, <3>1 DEF BiosInv, OwnFiles, BiosCall
    <3>4. /\ now \in BiosCall /\ now.at = "get" /\ now.file = f /\ now.missing = call[c].missing \ {f}
          /\ now.platform = call[c].platform
      BY <1>0, <3>3 DEF BiosCall
    <3>5. now.missing \subseteq B!Of(now.platform) /\ call' = [call EXCEPT ![c] = now]
      BY <3>1, <3>3, <3>4
    <3> HIDE DEF now
    <3> QED BY <2>1, <3>2, <3>3, <3>4, <3>5, BiosGoes
  <2> QED BY <1>3, <2>2, <2>3, <2>4, <2>5
<1>4. ASSUME NEW c \in Calls, B!Gets(c) \/ B!FileFails(c) \/ B!Checks(c) \/ B!Stats(c) \/ B!Records(c) PROVE BiosInv'
  <2>1. disk' = disk /\ busy' = busy /\ Downloads(c)
    BY <1>4 DEF B!Gets, B!FileFails, B!Checks, B!Stats, B!Records, B!At, Downloads
  <2>2. PICK now : /\ call' = [call EXCEPT ![c] = now]
                   /\ \/ now = [call[c] EXCEPT !.at = "check"] /\ call[c].at = "get"
                      \/ now = [call[c] EXCEPT !.at = "next", !.file = B!None]
                      \/ now = [call[c] EXCEPT !.at = "move"] /\ call[c].at = "check" /\ disk[Name[call[c].file]] = B!None
                      \/ now = [call[c] EXCEPT !.at = "record", !.there = TRUE] /\ call[c].at = "stat"
                      \/ now = [call[c] EXCEPT !.at = "next", !.file = B!None, !.there = FALSE]
    BY <1>4 DEF B!Gets, B!FileFails, B!Checks, B!Stats, B!Records, B!At, B!Goes
  <2>3. /\ now \in BiosCall /\ now.missing = call[c].missing /\ now.platform = call[c].platform
        /\ \/ now.at = "check" /\ call[c].at = "get" /\ now.file = call[c].file
           \/ now.at = "next"
           \/ now.at = "move" /\ call[c].at = "check" /\ now.file = call[c].file /\ disk[Name[call[c].file]] = B!None
           \/ now.at = "record" /\ call[c].at = "stat" /\ now.file = call[c].file
    BY <1>0, <2>2 DEF BiosCall
  <2>4. /\ now.missing \subseteq B!Of(now.platform)
        /\ now.at \in {"get", "check", "move", "stat", "record"} => now.file \in B!Of(now.platform)
    BY <2>3 DEF BiosInv, OwnFiles
  <2> QED BY <2>1, <2>2, <2>3, <2>4, BiosGoes
<1>5. ASSUME NEW c \in Calls, B!MovesFile(c) PROVE BiosInv'
  <2> DEFINE f == call[c].file
             n == Name[f]
  <2>1. call[c].at = "move" /\ f \in B!Of(call[c].platform)
    BY <1>5 DEF B!MovesFile, B!At, BiosInv, OwnFiles
  <2>2. f \in Firmware /\ Platform[f] = call[c].platform /\ n \in B!Names
    BY <2>1 DEF B!Of, B!Names
  <2>3. disk' = [disk EXCEPT ![n] = f] /\ busy' = busy /\ call' = [B!Unseen(n) EXCEPT ![c].at = "stat"]
    BY SMTT(60), <1>5 DEF B!MovesFile
  <2>4. /\ call' \in [Calls -> BiosCall]
        /\ \A d \in Calls : /\ call'[d].platform = call[d].platform /\ call'[d].missing = call[d].missing
                            /\ call'[d].file = call[d].file
                            /\ call'[d].at = IF d = c THEN "stat" ELSE call[d].at
    BY <2>3, UnseenTyped DEF BiosInv, BiosCall
  <2>5. \A d \in Calls : call'[d].at = "move" => Platform[f] # call[d].platform
    BY <2>1, <2>2, <2>4 DEF BiosInv, OnePlatform, Downloads
  <2>6. \A d \in Calls : \/ call'[d].at = call[d].at /\ call'[d].file = call[d].file
                         \/ call[d].at = "move" /\ call'[d].at = "stat" /\ call'[d].file = call[d].file
    BY <2>1, <2>4
  <2> HIDE DEF f, n
  <2>7. /\ disk' = [disk EXCEPT ![n] = f] /\ busy' = busy /\ call' \in [Calls -> BiosCall] /\ n \in B!Names
        /\ f \in Firmware \cup {B!None, "user"}
    BY <2>2, <2>3, <2>4
  <2>8. \A d \in Calls :
          /\ call'[d].platform = call[d].platform /\ call'[d].missing = call[d].missing
          /\ \/ call'[d].at = call[d].at /\ call'[d].file = call[d].file
             \/ call[d].at = "move" /\ call'[d].at = "stat" /\ call'[d].file = call[d].file
          /\ call'[d].at = "move" => Platform[f] # call[d].platform
    BY <2>4, <2>5, <2>6
  <2> QED BY <2>7, <2>8, BiosPlaces
<1>6. ASSUME NEW c \in Calls, B!RecordFails(c) PROVE BiosInv'
  <2> DEFINE n == Name[call[c].file]
  <2>1. call[c].at = "record" /\ call[c].file \in B!Of(call[c].platform)
    BY <1>6 DEF B!RecordFails, B!At, BiosInv, OwnFiles
  <2>2. n \in B!Names
    BY <2>1 DEF B!Of, B!Names
  <2>3. /\ disk' = [disk EXCEPT ![n] = B!None] /\ busy' = busy
        /\ call' = [B!Unseen(n) EXCEPT ![c].at = "next", ![c].file = B!None]
    BY <1>6 DEF B!RecordFails
  <2>4. /\ call' \in [Calls -> BiosCall]
        /\ \A d \in Calls : /\ call'[d].platform = call[d].platform /\ call'[d].missing = call[d].missing
                            /\ IF d = c THEN call'[d].at = "next"
                               ELSE call'[d].at = call[d].at /\ call'[d].file = call[d].file
    <3> DEFINE unseen == B!Unseen(n)
    <3>1. unseen \in [Calls -> BiosCall] /\ call' = [unseen EXCEPT ![c].at = "next", ![c].file = B!None]
      BY <2>3, UnseenTyped DEF BiosInv
    <3>2. \A d \in Calls : /\ unseen[d].platform = call[d].platform /\ unseen[d].missing = call[d].missing
                            /\ unseen[d].at = call[d].at /\ unseen[d].file = call[d].file
      BY UnseenTyped DEF BiosInv
    <3> HIDE DEF unseen
    <3>3. call'[c] = [unseen[c] EXCEPT !.at = "next", !.file = B!None] /\ \A d \in Calls : d # c => call'[d] = unseen[d]
      BY <3>1
    <3>4. call'[c] \in BiosCall /\ call'[c].platform = unseen[c].platform /\ call'[c].missing = unseen[c].missing
          /\ call'[c].at = "next"
      <4>1. unseen[c] \in BiosCall
        BY <3>1
      <4>2. [unseen[c] EXCEPT !.at = "next", !.file = B!None] \in BiosCall
        BY <4>1 DEF BiosCall
      <4> QED BY <3>3, <4>1, <4>2 DEF BiosCall
    <3>5. call' \in [Calls -> BiosCall]
      BY <3>1, <3>3, <3>4
    <3> QED BY <3>2, <3>3, <3>4, <3>5
  <2>5. \A d \in Calls : \/ call'[d].at = call[d].at /\ call'[d].file = call[d].file
                         \/ call[d].at = "record" /\ call'[d].at = "next"
    BY <2>1, <2>4
  <2> HIDE DEF n
  <2> QED BY <2>2, <2>3, <2>4, <2>5, NotFirmware, BiosPlaces
<1>7. ASSUME NEW n \in B!Names, NEW to \in {B!None, "user"}, B!UserPuts(n, to) PROVE BiosInv'
  <2>1. disk' = [disk EXCEPT ![n] = to] /\ busy' = busy /\ call' = B!Unseen(n)
    BY <1>7 DEF B!UserPuts
  <2>2. /\ call' \in [Calls -> BiosCall]
        /\ \A d \in Calls : /\ call'[d].platform = call[d].platform /\ call'[d].missing = call[d].missing
                            /\ call'[d].at = call[d].at /\ call'[d].file = call[d].file
    BY <2>1, UnseenTyped DEF BiosInv
  <2> QED BY <2>1, <2>2, NotFirmware, BiosPlaces
<1>8. CASE B!Restart
  <2>1. disk' = disk /\ call' = [c \in Calls |-> B!Idle]
    BY <1>8 DEF B!Restart
  <2>2. BiosTypes' /\ \A c \in Calls : call'[c].at = "idle" /\ call'[c].missing = {}
    BY <2>1, IdleTyped DEF BiosInv, BiosTypes
  <2> QED BY <2>2 DEF BiosInv, OnePlatform, OwnFiles, StillFree, Downloads
<1>9. CASE UNCHANGED B!vars
  BY <1>9 DEF B!vars, BiosInv, BiosTypes, OnePlatform, OwnFiles, StillFree, Downloads, B!Under
<1> QED BY <1>1, <1>2, <1>3, <1>4, <1>5, <1>6, <1>7, <1>8, <1>9 DEF B!Next, B!Working

\* However many platforms, files and calls there are, downloads of a platform's files never replace one
\* another's (bios.go start, checkFree).
THEOREM PlacedOnceHolds == PartsSpec => PlacedOnce
<1> DEFINE Holding == whose = "bios" => BiosInv
<1>1. PartsInit => Holding
  BY BiosInit DEF PartsInit
<1>2. Holding /\ [PartsNext]_partsVars => Holding'
  <2> SUFFICES ASSUME Holding, [PartsNext]_partsVars, whose' = "bios" PROVE BiosInv'
    OBVIOUS
  <2>1. whose = "bios"
    BY DEF PartsNext, partsVars, Relay, Find, Transfer, Update, Firm, Store, Lay, Make
  <2>2. [B!Next]_(B!vars)
    BY <2>1, BiosSteps
  <2> QED BY <2>1, <2>2, BiosKeeps
<1>3. Holding => (whose = "bios" => B!PlacesApart)
  BY DEF BiosInv, StillFree, B!PlacesApart, B!MovesFile, B!At
<1>4. Holding /\ [PartsNext]_partsVars => [whose = "bios" => B!PlacesApart]_partsVars
  BY <1>3
<1> HIDE DEF Holding
<1> QED BY <1>1, <1>2, <1>4, PTL DEF PartsSpec, PlacedOnce

-----------------------------------------------------------------------------
(* Games found and adopted (Finding): the inductive invariant. *)

Held == Contents \cup {F!None}
Entry == Paths \cup {F!None}
FindingJob == [pc : {"free", "ask", "stat", "hash", "done", "failed"}, game : F!Games \cup {0}, path : Entry,
               at : Nat, holds : Held, of : Nat, matches : BOOLEAN]
FindingOut == [game : F!Games, path : Paths, at : Nat, holds : Held, of : Nat]
FindingRun == [pc : {"new", "take", "ask", "list", "match", "hash", "done"}, rom : F!Games \cup {0}, of : Nat,
               taken : SUBSET Entry, games : SUBSET F!Games, left : SUBSET Paths, at : Nat, path : Entry,
               out : SUBSET FindingOut]
FindingCall == [op : {F!None, "adopt", "all", "link", "unlink", "stop"}, game : F!Games \cup {0},
                pc : {F!None, "job", "wait", "save", "unlink", "clear", "next", "link", "drop"},
                job : F!Checks \cup {0}, path : Entry, rest : SUBSET F!Games]

FindingTypes ==
  /\ server \in Nat /\ wrote \in Seq(Contents) /\ file \in [Paths -> 0 .. Len(wrote)] /\ back \in BOOLEAN
  /\ owned \in [F!Games -> [path : Entry, at : Nat, of : Nat]] /\ linked \in [F!Games -> Entry]
  /\ find \in [known : BOOLEAN, running : BOOLEAN, adopting : BOOLEAN, failed : BOOLEAN]
  /\ found \in [F!Games -> [path : Entry, at : Nat, holds : Held, of : Nat]]
  /\ check \in [F!Games -> F!Checks \cup {0}] /\ job \in [F!Checks -> FindingJob]
  /\ runs \in [F!Finds -> FindingRun] /\ call \in [Callers -> FindingCall]

\* A look at an entry that said it is game g: what it hashed is g's and, unless a file came back, that of the
\* file it looked at, while that one is there.
Right(l, g) ==
  /\ l.path \in Paths /\ l.at \in 1 .. Len(wrote) /\ l.holds = Holds[l.of][g]
  /\ ~back /\ file[l.path] = l.at => l.holds = wrote[l.at]

RunRight(run) ==
  /\ run.pc = "hash" => run.path \in Paths /\ run.at \in 1 .. Len(wrote)
  /\ \A o \in run.out : Right(o, o.game)
JobRight(j) ==
  /\ j.pc \in {"ask", "stat", "hash"} => j.path \in Paths
  /\ j.pc = "hash" => j.at \in 1 .. Len(wrote)
  /\ j.matches => j.pc = "done" /\ Right(j, j.game)
LooksRight ==
  /\ \A r \in F!Finds : RunRight(runs[r])
  /\ \A j \in F!Checks : JobRight(job[j])
  /\ \A g \in F!Games : found[g] # F!NotFound => Right(found[g], g)

\* What a game or a call refers to is a comparison of that game; what a call is about to save was current.
CallRight(c) ==
  /\ c.pc = "job" => c.game \in F!Games
  /\ c.pc \in {"wait", "save"} => c.game \in F!Games /\ c.job \in F!Checks /\ job[c.job].game = c.game
  /\ c.pc = "save" => /\ job[c.job].matches
                      /\ ~back => job[c.job].holds = wrote[job[c.job].at]
JobsReferred ==
  /\ \A g \in F!Games : check[g] # 0 => job[check[g]].game = g
  /\ \A u \in Callers : CallRight(call[u])

OwnedRight ==
  \A g \in F!Games :
    F!Owned(g) => owned[g].at \in 1 .. Len(wrote) /\ (~back => wrote[owned[g].at] = Holds[owned[g].of][g])

FoundInv == FindingTypes /\ LooksRight /\ JobsReferred /\ OwnedRight

\* One search runs at a time, of which Downloads.finds knows, unless one outlived its server.
Active(r) == runs[r].pc \notin {"new", "done"}
OneSearch ==
  \A r \in F!Finds : Active(r) => find.known /\ find.running /\ \A q \in F!Finds : Active(q) => q = r

\* No entry is twice among those a search found, is at and has left.
EachOnce(run) ==
  /\ \A o, n \in run.out : o # n => o.path # n.path
  /\ \A o \in run.out : o.path \notin run.left /\ (run.pc = "hash" => o.path # run.path)
  /\ run.pc = "hash" => run.path \notin run.left
\* Nor is one found earlier, of a game it doesn't look for.
Elsewhere(run, path) ==
  /\ run.pc \in {"ask", "list"} => path \in run.taken
  /\ path \notin run.left /\ \A o \in run.out : o.path # path
  /\ run.pc = "hash" => path # run.path
SearchApart ==
  \A r \in F!Finds :
    /\ runs[r].pc \in {"new", "take", "ask", "list"} => runs[r].left = {} /\ runs[r].out = {}
    /\ Active(r) =>
         /\ EachOnce(runs[r])
         /\ \A h \in F!Games : runs[r].pc # "take" /\ runs[r].rom \notin {0, h} /\ found[h] # F!NotFound =>
                                 Elsewhere(runs[r], found[h].path)

FoundApartInv == overlap \/ (OneSearch /\ SearchApart /\ F!FoundApart)
FindingInv == FoundInv /\ FoundApartInv

\* A step of Finding's behaviours is a step of Finding.
LEMMA FindingSteps ==
  ASSUME whose = "finding", [PartsNext]_partsVars
  PROVE  whose' = whose /\ [F!Next]_(F!vars)
BY DEF PartsNext, partsVars, Relay, Find, Transfer, Update, Firm, Store, Lay, Make, finding, F!vars,
       F!disk, F!records, F!memory

LEMMA FindingConstants ==
  /\ 0 \notin F!Games /\ 0 \notin F!Checks /\ F!None \notin Paths
  /\ F!Games \subseteq Nat /\ F!Checks \subseteq Nat /\ Home \in [F!Games -> Paths]
BY FindingAssumptions DEF F!Assumptions, F!Games, F!Checks

LEMMA NothingTyped ==
  /\ F!NoJob \in FindingJob /\ F!NoRun \in FindingRun /\ F!NoCall \in FindingCall /\ F!NotFound.path = F!None
  /\ JobRight(F!NoJob) /\ F!NoCall.pc = F!None /\ F!NoRun.pc = "new" /\ F!NoRun.out = {}
  /\ F!NotFound \in [path : Entry, at : Nat, holds : Held, of : Nat]
  /\ F!NotOwned \in [path : Entry, at : Nat, of : Nat]
BY DEF F!NoJob, F!NoRun, F!NoCall, F!NotFound, F!NotOwned, FindingJob, FindingRun, FindingCall, Entry, Held, JobRight

\* What a file holds.
LEMMA ContentHeld ==
  ASSUME FindingTypes, NEW p \in Paths
  PROVE  /\ F!Content(file[p]) \in Held /\ file[p] \in 0 .. Len(wrote) /\ Len(wrote) \in Nat
         /\ file[p] # 0 => file[p] \in 1 .. Len(wrote) /\ F!Content(file[p]) = wrote[file[p]]
BY DEF FindingTypes, F!Content, Held

LEMMA OccupantEntry ==
  ASSUME FindingTypes, NEW g \in F!Games
  PROVE  F!Occupant(g) \in Entry
<1>1. found[g].path \in Entry /\ linked[g] \in Entry /\ Home[g] \in Entry /\ F!None \in Entry
  BY FindingConstants DEF FindingTypes, Entry
<1> QED BY <1>1 DEF F!Occupant

LEMMA FindingInit == F!Init => FindingInv
<1> SUFFICES ASSUME F!Init PROVE FindingInv
  OBVIOUS
<1>1. FindingTypes
  <2>1. wrote \in Seq(Contents) /\ file \in [Paths -> 0 .. Len(wrote)] /\ server \in Nat /\ back \in BOOLEAN
    <3>1. wrote = <<>> /\ file = [p \in Paths |-> 0] /\ server = 1 /\ back = FALSE
      BY DEF F!Init
    <3>2. Len(wrote) = 0 /\ wrote \in Seq(Contents)
      BY <3>1
    <3>3. 0 \in 0 .. Len(wrote)
      BY <3>2
    <3>4. file \in [Paths -> 0 .. Len(wrote)]
      BY <3>1, <3>3
    <3> QED BY <3>1, <3>2, <3>4
  <2>2. /\ owned \in [F!Games -> [path : Entry, at : Nat, of : Nat]] /\ linked \in [F!Games -> Entry]
        /\ find \in [known : BOOLEAN, running : BOOLEAN, adopting : BOOLEAN, failed : BOOLEAN]
    BY NothingTyped DEF F!Init, F!NoFind, Entry
  <2>3. /\ found \in [F!Games -> [path : Entry, at : Nat, holds : Held, of : Nat]]
        /\ check \in [F!Games -> F!Checks \cup {0}] /\ job \in [F!Checks -> FindingJob]
    BY NothingTyped DEF F!Init
  <2>4. runs \in [F!Finds -> FindingRun] /\ call \in [Callers -> FindingCall]
    BY NothingTyped DEF F!Init
  <2> QED BY <2>1, <2>2, <2>3, <2>4 DEF FindingTypes
<1>2. LooksRight /\ JobsReferred /\ OwnedRight
  BY NothingTyped DEF F!Init, LooksRight, JobsReferred, OwnedRight, RunRight, CallRight, F!Owned, F!None
<1>3. OneSearch /\ SearchApart /\ F!FoundApart
  BY DEF F!Init, OneSearch, SearchApart, Active, F!NoRun, F!FoundApart
<1> QED BY <1>1, <1>2, <1>3 DEF FindingInv, FoundInv, FoundApartInv

\* A step that leaves the folder alone.
LEMMA FolderStays ==
  ASSUME FoundInv, FindingTypes', UNCHANGED <<wrote, file, back>>,
         \A r \in F!Finds : runs'[r] = runs[r] \/ RunRight(runs'[r]),
         \A j \in F!Checks : job'[j] \in {job[j], F!NoJob} \/ JobRight(job'[j]),
         \A g \in F!Games : found'[g] \in {found[g], F!NotFound} \/ Right(found'[g], g),
         \A g \in F!Games : check'[g] # 0 => job'[check'[g]].game = g,
         \A u \in Callers : CallRight(call[u])',
         \A g \in F!Games :
           \/ owned'[g] \in {owned[g], F!NotOwned}
           \/ owned'[g].at \in 1 .. Len(wrote) /\ (~back => wrote[owned'[g].at] = Holds[owned'[g].of][g])
  PROVE  FoundInv'
<1>1. \A r \in F!Finds : RunRight(runs[r])'
  BY DEF FoundInv, LooksRight, RunRight, Right
<1>2. \A j \in F!Checks : JobRight(job[j])'
  <2> SUFFICES ASSUME NEW j \in F!Checks PROVE JobRight(job[j])'
    OBVIOUS
  <2>1. JobRight(job'[j])
    BY NothingTyped DEF FoundInv, LooksRight
  <2> QED BY <2>1 DEF JobRight, Right
<1>3. \A g \in F!Games : (found[g] # F!NotFound => Right(found[g], g))'
  BY DEF FoundInv, LooksRight, Right
<1>4. LooksRight'
  BY <1>1, <1>2, <1>3 DEF LooksRight
<1>5. JobsReferred'
  BY DEF JobsReferred
<1>6. OwnedRight'
  BY DEF FoundInv, OwnedRight, F!Owned
<1> QED BY <1>4, <1>5, <1>6 DEF FoundInv

\* A comparison is kept while a check or a call refers to it.
LEMMA KeepsReferred ==
  ASSUME FindingTypes, NEW checks, NEW held, F!Keeps(checks, held)
  PROVE  /\ job' \in [F!Checks -> FindingJob] /\ \A j \in F!Checks : job'[j] \in {job[j], F!NoJob}
         /\ \A g \in F!Games : checks[g] \in F!Checks => job'[checks[g]] = job[checks[g]]
         /\ \A u \in Callers : held[u].job \in F!Checks => job'[held[u].job] = job[held[u].job]
BY NothingTyped DEF FindingTypes, F!Keeps

\* What a call still refers to stays as it was.
LEMMA CallStays ==
  ASSUME NEW u, CallRight(call'[u]), UNCHANGED <<wrote, back>>,
         call'[u].job \in F!Checks => job'[call'[u].job] = job[call'[u].job]
  PROVE  CallRight(call[u])'
BY DEF CallRight

\* What a search, a check or an Adopt may still go by.
Looked(l, g) ==
  \/ \E r \in F!Finds : l \in runs[r].out /\ g = l.game
  \/ \E j \in F!Checks : l = job[j] /\ g = l.game /\ l.matches
  \/ g \in F!Games /\ l = found[g] /\ l # F!NotFound

\* A change of the folder: the files written stay what they were, and no file is where another was looked at.
LEMMA FolderKeeps ==
  ASSUME FoundInv, UNCHANGED <<server, linked, find, found, check, job, runs, call>>,
         wrote' \in Seq(Contents), file' \in [Paths -> 0 .. Len(wrote')], back' \in BOOLEAN, back => back',
         \A i \in 1 .. Len(wrote) : i \in 1 .. Len(wrote') /\ wrote'[i] = wrote[i],
         owned' \in [F!Games -> [path : Entry, at : Nat, of : Nat]],
         \A g \in F!Games : owned'[g] \in {owned[g], F!NotOwned},
         \A l, g : Looked(l, g) /\ ~back' /\ file'[l.path] = l.at => file[l.path] = l.at \/ l.holds = wrote[l.at]
  PROVE  FoundInv'
<1>1. FindingTypes'
  BY DEF FoundInv, FindingTypes
<1>2. ASSUME NEW l, NEW g, Looked(l, g), Right(l, g) PROVE Right(l, g)'
  BY <1>2 DEF Right
<1>3. \A r \in F!Finds : RunRight(runs[r])'
  <2> SUFFICES ASSUME NEW r \in F!Finds PROVE RunRight(runs[r])'
    OBVIOUS
  <2>1. RunRight(runs[r])
    BY DEF FoundInv, LooksRight
  <2>2. ASSUME NEW o \in runs[r].out PROVE Right(o, o.game)'
    BY <1>2, <2>1 DEF RunRight, Looked
  <2> QED BY <2>1, <2>2 DEF RunRight
<1>4. \A j \in F!Checks : JobRight(job[j])'
  <2> SUFFICES ASSUME NEW j \in F!Checks PROVE JobRight(job[j])'
    OBVIOUS
  <2>1. JobRight(job[j])
    BY DEF FoundInv, LooksRight
  <2>2. job[j].matches => Right(job[j], job[j].game)'
    BY <1>2, <2>1 DEF JobRight, Looked
  <2> QED BY <2>1, <2>2 DEF JobRight
<1>5. \A g \in F!Games : (found[g] # F!NotFound => Right(found[g], g))'
  <2> SUFFICES ASSUME NEW g \in F!Games, found[g] # F!NotFound PROVE Right(found[g], g)'
    OBVIOUS
  <2> QED BY <1>2 DEF FoundInv, LooksRight, Looked
<1>6. LooksRight'
  BY <1>3, <1>4, <1>5 DEF LooksRight
<1>7. JobsReferred'
  <2>1. \A u \in Callers : CallRight(call[u])'
    <3> SUFFICES ASSUME NEW u \in Callers PROVE CallRight(call[u])'
      OBVIOUS
    <3>1. CallRight(call[u])
      BY DEF FoundInv, JobsReferred
    <3>2. CASE call[u].pc = "save"
      <4>1. job[call[u].job].matches /\ call[u].job \in F!Checks
        BY <3>1, <3>2 DEF CallRight
      <4>2. job[call[u].job].at \in 1 .. Len(wrote)
        BY <4>1 DEF FoundInv, LooksRight, JobRight, Right
      <4> QED BY <3>1, <3>2, <4>1, <4>2 DEF CallRight
    <3>3. CASE call[u].pc # "save"
      BY <3>1, <3>3 DEF CallRight
    <3> QED BY <3>2, <3>3
  <2> QED BY <2>1 DEF FoundInv, JobsReferred
<1>8. OwnedRight'
  <2> SUFFICES ASSUME NEW g \in F!Games, owned'[g] # F!NotOwned
      PROVE  owned'[g].at \in 1 .. Len(wrote') /\ (~back' => wrote'[owned'[g].at] = Holds[owned'[g].of][g])
    BY DEF OwnedRight, F!Owned
  <2>1. owned'[g] = owned[g] /\ F!Owned(g)
    BY DEF F!Owned
  <2>2. owned[g].at \in 1 .. Len(wrote) /\ (~back => wrote[owned[g].at] = Holds[owned[g].of][g])
    BY <2>1 DEF FoundInv, OwnedRight
  <2> QED BY <2>1, <2>2
<1> QED BY <1>1, <1>6, <1>7, <1>8 DEF FoundInv

LEMMA WriteKeeps ==
  ASSUME FoundInv, NEW p \in Paths, NEW c \in Contents, F!Write(p, c)
  PROVE  FoundInv'
<1>1. /\ wrote' = Append(wrote, c) /\ file' = [file EXCEPT ![p] = Len(wrote) + 1]
      /\ UNCHANGED <<server, owned, linked, find, found, check, job, runs, call, back>>
  BY DEF F!Write, F!Written, F!records, F!memory
<1>2. FindingTypes
  BY DEF FoundInv
<1>3. wrote' \in Seq(Contents) /\ Len(wrote') = Len(wrote) + 1 /\ Len(wrote) \in Nat
      /\ \A i \in 1 .. Len(wrote) : i \in 1 .. Len(wrote') /\ wrote'[i] = wrote[i]
  BY <1>1, <1>2 DEF FindingTypes
<1>4. file' \in [Paths -> 0 .. Len(wrote')]
  BY <1>1, <1>2, <1>3 DEF FindingTypes
<1>5. ASSUME NEW l, NEW g, Looked(l, g), file'[l.path] = l.at PROVE file[l.path] = l.at
  <2>1. l.path \in Paths /\ l.at \in 1 .. Len(wrote)
    BY <1>5 DEF Looked, FoundInv, LooksRight, RunRight, JobRight, Right
  <2> QED BY <1>1, <1>2, <1>3, <1>5, <2>1 DEF FindingTypes
<1>6. owned' \in [F!Games -> [path : Entry, at : Nat, of : Nat]] /\ back' \in BOOLEAN
  BY <1>1, <1>2 DEF FindingTypes
<1> QED BY <1>1, <1>3, <1>4, <1>5, <1>6, FolderKeeps

LEMMA RenameKeeps ==
  ASSUME FoundInv, NEW p \in Paths, NEW q \in Paths, F!Rename(p, q)
  PROVE  FoundInv'
<1>1. /\ file[p] # 0 /\ file[q] = 0 /\ file' = [file EXCEPT ![q] = file[p], ![p] = 0] /\ wrote' = wrote
      /\ UNCHANGED <<server, owned, linked, find, found, check, job, runs, call>>
  BY DEF F!Rename, F!records, F!memory
<1>2. FindingTypes
  BY DEF FoundInv
<1>3. back' \in BOOLEAN /\ (back => back')
  BY <1>2 DEF F!Rename, FindingTypes
<1>4. ASSUME NEW l, NEW g, Looked(l, g), ~back' PROVE ~F!Mistook(l, p, q)
  BY <1>4 DEF Looked, F!Rename
<1>5. file' \in [Paths -> 0 .. Len(wrote')] /\ \A e \in Paths : file'[e] = IF e = p THEN 0 ELSE IF e = q THEN file[p] ELSE file[e]
  BY <1>1, <1>2 DEF FindingTypes
<1>6. F!Content(file[p]) = wrote[file[p]]
  BY <1>1 DEF F!Content
<1>7. ASSUME NEW l, NEW g, Looked(l, g), ~back', file'[l.path] = l.at PROVE file[l.path] = l.at \/ l.holds = wrote[l.at]
  <2>1. l.path \in Paths /\ l.at \in 1 .. Len(wrote)
    BY <1>7 DEF Looked, FoundInv, LooksRight, RunRight, JobRight, Right
  <2>2. l.path # p
    BY <1>2, <1>5, <1>7, <2>1 DEF FindingTypes
  <2> QED BY <1>4, <1>5, <1>6, <1>7, <2>1, <2>2 DEF F!Mistook
<1>8. owned' \in [F!Games -> [path : Entry, at : Nat, of : Nat]] /\ wrote' \in Seq(Contents)
  BY <1>1, <1>2 DEF FindingTypes
<1> QED BY <1>1, <1>3, <1>5, <1>7, <1>8, FolderKeeps

LEMMA UninstallKeeps ==
  ASSUME FoundInv, NEW g \in F!Games, F!Uninstall(g)
  PROVE  FoundInv'
<1>1. /\ owned' = [owned EXCEPT ![g] = F!NotOwned] /\ wrote' = wrote
      /\ file' = [file EXCEPT ![owned[g].path] = IF @ = owned[g].at THEN 0 ELSE @]
      /\ UNCHANGED <<server, linked, find, found, check, job, runs, call, back>>
  BY DEF F!Uninstall, F!memory
<1>2. FindingTypes
  BY DEF FoundInv
<1>3. owned' \in [F!Games -> [path : Entry, at : Nat, of : Nat]] /\ \A h \in F!Games : owned'[h] \in {owned[h], F!NotOwned}
  BY <1>1, <1>2, NothingTyped DEF FindingTypes
<1>4. file' \in [Paths -> 0 .. Len(wrote')] /\ \A e \in Paths : file'[e] \in {file[e], 0}
  <2>1. file \in [Paths -> 0 .. Len(wrote)] /\ 0 \in 0 .. Len(wrote)
    BY <1>2 DEF FindingTypes
  <2> QED BY <1>1, <2>1
<1>5. ASSUME NEW l, NEW h, Looked(l, h), file'[l.path] = l.at PROVE file[l.path] = l.at
  <2>1. l.path \in Paths /\ l.at \in 1 .. Len(wrote)
    BY <1>5 DEF Looked, FoundInv, LooksRight, RunRight, JobRight, Right
  <2> QED BY <1>2, <1>4, <1>5, <2>1 DEF FindingTypes
<1>6. wrote' \in Seq(Contents) /\ back' \in BOOLEAN
  BY <1>1, <1>2 DEF FindingTypes
<1> QED BY <1>1, <1>3, <1>4, <1>5, <1>6, FolderKeeps

\* A step of a search leaves all but what it is at.
LEMMA SearchKeeps ==
  ASSUME FoundInv, NEW r \in F!Finds, NEW now \in FindingRun, runs' = [runs EXCEPT ![r] = now], RunRight(now),
         UNCHANGED <<server, wrote, file, owned, linked, found, check, job, call, back>>,
         find' \in [known : BOOLEAN, running : BOOLEAN, adopting : BOOLEAN, failed : BOOLEAN]
  PROVE  FoundInv'
<1>1. FindingTypes'
  BY DEF FoundInv, FindingTypes
<1>2. \A q \in F!Finds : runs'[q] = runs[q] \/ RunRight(runs'[q])
  BY DEF FoundInv, FindingTypes
<1>3. \A g \in F!Games : check'[g] # 0 => job'[check'[g]].game = g
  BY DEF FoundInv, JobsReferred
<1>4. \A u \in Callers : CallRight(call[u])'
  BY DEF FoundInv, JobsReferred, CallRight
<1> QED BY <1>1, <1>2, <1>3, <1>4, FolderStays

\* The steps of a search up to what it records.
FindWorks(r) ==
  \/ \E g \in F!Games \cup {0} : F!StartFind(r, g)
  \/ F!FindTakes(r) \/ F!FindAsks(r) \/ F!FindLists(r) \/ F!FindHashes(r)
  \/ \E p \in Paths : F!FindStats(r, p)

LEMMA FindWorksKeep ==
  ASSUME FoundInv, NEW r \in F!Finds, FindWorks(r)
  PROVE  FoundInv'
<1>0. FindingTypes /\ runs[r] \in FindingRun /\ RunRight(runs[r])
  BY DEF FoundInv, FindingTypes, LooksRight
<1>1. ASSUME NEW g \in F!Games \cup {0}, F!StartFind(r, g) PROVE FoundInv'
  <2> DEFINE now == [runs[r] EXCEPT !.pc = "take", !.rom = g]
  <2>1. /\ runs' = [runs EXCEPT ![r].pc = "take", ![r].rom = g]
        /\ find' = [F!NoFind EXCEPT !.known = TRUE, !.running = TRUE]
        /\ UNCHANGED <<server, wrote, file, owned, linked, found, check, job, call, back>>
    BY <1>1 DEF F!StartFind, F!disk, F!records
  <2>2. now \in FindingRun /\ now.pc = "take" /\ now.out = runs[r].out
    BY <1>0 DEF FindingRun
  <2>3. runs' = [runs EXCEPT ![r] = now] /\ RunRight(now)
    BY <1>0, <2>1, <2>2 DEF RunRight, FindingTypes
  <2>4. find' \in [known : BOOLEAN, running : BOOLEAN, adopting : BOOLEAN, failed : BOOLEAN]
    BY <2>1 DEF F!NoFind
  <2> HIDE DEF now
  <2> QED BY <2>1, <2>2, <2>3, <2>4, SearchKeeps
<1>2. CASE F!FindTakes(r) \/ F!FindAsks(r) \/ F!FindLists(r) \/ F!FindHashes(r) \/ \E p \in Paths : F!FindStats(r, p)
  <2>1. /\ UNCHANGED <<server, wrote, file, owned, linked, found, check, job, call, back>>
        /\ find' \in [known : BOOLEAN, running : BOOLEAN, adopting : BOOLEAN, failed : BOOLEAN]
    BY <1>0, <1>2 DEF F!FindTakes, F!FindAsks, F!FindLists, F!FindHashes, F!FindStats, F!disk, F!records, F!memory,
         FindingTypes
  <2>2. PICK now : runs' = [runs EXCEPT ![r] = now] /\ now \in FindingRun /\ RunRight(now)
    <3>1. CASE F!FindTakes(r)
      <4> DEFINE taken == F!TakenByRecords \cup F!FoundElsewhere(runs[r].rom)
                 now == [runs[r] EXCEPT !.pc = "ask", !.of = server, !.taken = taken]
      <4>1. runs' = [runs EXCEPT ![r] = now]
        BY <1>0, <3>1 DEF F!FindTakes, FindingTypes
      <4>2. taken \in SUBSET Entry /\ server \in Nat
        BY <1>0 DEF FindingTypes, F!TakenByRecords, F!FoundElsewhere
      <4>3. now \in FindingRun /\ now.pc = "ask" /\ now.out = runs[r].out
        BY <1>0, <4>2 DEF FindingRun
      <4> QED BY <1>0, <4>1, <4>3 DEF RunRight
    <3>2. CASE F!FindAsks(r)
      <4> DEFINE games == {g \in F!Games : ~F!Skipped(g, runs[r].rom)}
                 now == [runs[r] EXCEPT !.pc = "list", !.games = games]
      <4>1. runs' = [runs EXCEPT ![r] = now]
        BY <1>0, <3>2 DEF F!FindAsks, FindingTypes
      <4>2. games \in SUBSET F!Games
        OBVIOUS
      <4>3. now \in FindingRun /\ now.pc = "list" /\ now.out = runs[r].out
        BY <1>0, <4>2 DEF FindingRun
      <4> QED BY <1>0, <4>1, <4>3 DEF RunRight
    <3>3. CASE F!FindLists(r)
      <4> DEFINE left == {p \in Paths : file[p] # 0} \ runs[r].taken
                 now == [runs[r] EXCEPT !.pc = "match", !.left = left, !.taken = {}]
      <4>1. runs' = [runs EXCEPT ![r] = now]
        BY <1>0, <3>3 DEF F!FindLists, FindingTypes
      <4>2. left \in SUBSET Paths
        OBVIOUS
      <4>3. now \in FindingRun /\ now.pc = "match" /\ now.out = runs[r].out
        BY <1>0, <4>2 DEF FindingRun
      <4> QED BY <1>0, <4>1, <4>3 DEF RunRight
    <3>4. ASSUME NEW p \in Paths, F!FindStats(r, p) PROVE \E now : runs' = [runs EXCEPT ![r] = now] /\ now \in FindingRun /\ RunRight(now)
      <4> DEFINE step == IF file[p] = 0 THEN "match" ELSE "hash"
                 now == [runs[r] EXCEPT !.left = @ \ {p}, !.path = p, !.at = file[p], !.pc = step]
      <4>1. runs' = [runs EXCEPT ![r] = now]
        BY <1>0, <3>4 DEF F!FindStats, FindingTypes
      <4>2. step \in {"match", "hash"} /\ file[p] \in Nat /\ p \in Entry /\ (step = "hash" => file[p] \in 1 .. Len(wrote))
        BY <1>0, ContentHeld DEF Entry
      <4> HIDE DEF step
      <4>3. now \in FindingRun /\ now.pc = step /\ now.out = runs[r].out /\ now.path = p /\ now.at = file[p]
        BY <1>0, <4>2 DEF FindingRun
      <4>4. RunRight(now)
        BY <1>0, <4>2, <4>3 DEF RunRight
      <4> QED BY <4>1, <4>3, <4>4
    <3>5. CASE F!FindHashes(r)
      <4> DEFINE run == runs[r]
                 c == F!Content(file[run.path])
                 new == {[game |-> g, path |-> run.path, at |-> run.at, holds |-> c, of |-> run.of] : g \in F!Whole(run, c)}
                 left == IF run.rom # 0 /\ new # {} THEN {} ELSE run.left
                 now == [run EXCEPT !.pc = "match", !.out = @ \cup new, !.left = left]
      <4>1. runs' = [runs EXCEPT ![r] = now]
        BY <1>0, <3>5 DEF F!FindHashes, FindingTypes
      <4>2. run.path \in Paths /\ run.at \in 1 .. Len(wrote) /\ run.at \in Nat /\ run.of \in Nat
        BY <1>0, <3>5 DEF F!FindHashes, RunRight, FindingRun
      <4>3. c \in Held
        BY <1>0, <4>2, ContentHeld
      <4>4. \A g \in F!Whole(run, c) : g \in F!Games /\ Holds[run.of][g] = c
        BY <1>0 DEF F!Whole, FindingRun
      <4>5. file[run.path] = run.at => c = wrote[run.at]
        BY <1>0, <4>2, ContentHeld
      <4>6. new \in SUBSET FindingOut /\ left \in SUBSET Paths
        BY <1>0, <4>2, <4>3, <4>4 DEF FindingOut, FindingRun
      <4>7. \A o \in new : Right(o, o.game)
        BY <4>2, <4>4, <4>5 DEF Right
      <4> HIDE DEF new, left
      <4>8. now \in FindingRun /\ now.pc = "match" /\ now.out = run.out \cup new
        BY <1>0, <4>6 DEF FindingRun
      <4>9. RunRight(now)
        BY <1>0, <4>7, <4>8 DEF RunRight
      <4> QED BY <4>1, <4>8, <4>9
    <3> QED BY <1>2, <3>1, <3>2, <3>3, <3>4, <3>5
  <2> QED BY <2>1, <2>2, SearchKeeps
<1> QED BY <1>1, <1>2 DEF FindWorks

\* What a check gets of onDeckJob: a comparison of the game, the one kept or a new one.
LEMMA OnDeckGives ==
  ASSUME FoundInv, NEW g \in F!Games, NEW j \in F!Checks \cup {0}, F!OnDeckJob(g, j), UNCHANGED <<wrote, file, back>>
  PROVE  /\ j \in F!Checks /\ check' \in [F!Games -> F!Checks \cup {0}] /\ job' \in [F!Checks -> FindingJob]
         /\ \A i \in F!Checks : job'[i] = job[i] \/ JobRight(job'[i])
         /\ \A h \in F!Games : check'[h] # 0 => job'[check'[h]].game = h
         /\ \A u \in Callers : call[u].job \in F!Checks => job'[call[u].job] = job[call[u].job]
         /\ job'[j].game = g
<1> DEFINE path == F!Occupant(g)
<1>1. FindingTypes /\ path \in Entry
  BY OccupantEntry DEF FoundInv
<1>2. CASE F!Kept(g, path)
  <2>1. j = check[g] /\ UNCHANGED <<check, job>> /\ check[g] # 0
    BY <1>2 DEF F!OnDeckJob, F!Kept
  <2>2. check[g] \in F!Checks /\ job[check[g]].game = g
    BY <1>1, <2>1 DEF FindingTypes, FoundInv, JobsReferred
  <2> QED BY <1>1, <2>1, <2>2 DEF FindingTypes, FoundInv, JobsReferred
<1>3. CASE ~F!Kept(g, path)
  <2> DEFINE new == F!Compared(g, path)
  <2>1. path # F!None /\ j \in F!FreeJobs /\ check' = [check EXCEPT ![g] = j] /\ job' = [job EXCEPT ![j] = new]
    BY <1>3 DEF F!OnDeckJob
  <2>2. j \in F!Checks /\ (\A h \in F!Games : check[h] # j) /\ \A u \in Callers : call[u].job # j
    BY <2>1 DEF F!FreeJobs
  <2>3. path \in Paths
    BY <1>1, <2>1 DEF Entry
  <2> HIDE DEF path
  <2>4. new \in FindingJob /\ new.game = g /\ JobRight(new)
    <3> DEFINE f == found[g]
               known == [F!NoJob EXCEPT !.pc = "done", !.game = g, !.path = path, !.at = f.at, !.holds = f.holds, !.of = f.of,
                                        !.matches = TRUE]
               fresh == [F!NoJob EXCEPT !.pc = "ask", !.game = g, !.path = path]
    <3>1. fresh \in FindingJob /\ fresh.game = g /\ fresh.pc = "ask" /\ ~fresh.matches /\ fresh.path = path
      BY <2>3 DEF F!NoJob, FindingJob, Entry, Held
    <3>2. JobRight(fresh)
      BY <2>3, <3>1 DEF JobRight
    <3>3. /\ known \in FindingJob /\ known.game = g /\ known.pc = "done" /\ known.matches /\ known.path = path
          /\ known.at = f.at /\ known.holds = f.holds /\ known.of = f.of
      BY <1>1, <2>3 DEF F!NoJob, FindingJob, Entry, FindingTypes
    <3>4. f.path = path => JobRight(known)
      <4> SUFFICES ASSUME f.path = path PROVE JobRight(known)
        OBVIOUS
      <4>1. f # F!NotFound
        BY <2>3, NothingTyped, FindingConstants
      <4>2. Right(f, g)
        BY <4>1 DEF FoundInv, LooksRight
      <4> HIDE DEF known, f
      <4>3. Right(known, known.game)
        BY <3>3, <4>2 DEF Right
      <4> QED BY <3>3, <4>3 DEF JobRight
    <3>5. new = IF f.path = path /\ ~F!Stale(known) THEN known ELSE fresh
      BY DEF F!Compared
    <3> HIDE DEF known, fresh, f
    <3> QED BY <3>1, <3>2, <3>3, <3>4, <3>5
  <2> HIDE DEF new
  <2>5. job' \in [F!Checks -> FindingJob] /\ check' \in [F!Games -> F!Checks \cup {0}]
    BY <1>1, <2>1, <2>2, <2>4 DEF FindingTypes
  <2>6. job'[j] = new /\ \A i \in F!Checks : i # j => job'[i] = job[i]
    BY <1>1, <2>1, <2>2 DEF FindingTypes
  <2>7. ASSUME NEW h \in F!Games, check'[h] # 0 PROVE job'[check'[h]].game = h
    <3>1. CASE h = g
      BY <1>1, <2>1, <2>4, <2>6, <3>1 DEF FindingTypes
    <3>2. CASE h # g
      <4>1. check'[h] = check[h] /\ check[h] \in F!Checks /\ check[h] # j
        BY <1>1, <2>1, <2>2, <2>7, <3>2 DEF FindingTypes
      <4>2. job[check[h]].game = h
        BY <4>1, FindingConstants DEF FoundInv, JobsReferred
      <4> QED BY <2>6, <4>1, <4>2
    <3> QED BY <3>1, <3>2
  <2> QED BY <2>2, <2>4, <2>5, <2>6, <2>7
<1> QED BY <1>2, <1>3

LEMMA CheckOnDeckKeeps ==
  ASSUME FoundInv, NEW g \in F!Games, F!CheckOnDeck(g)
  PROVE  FoundInv'
<1>1. PICK j \in F!Checks : F!OnDeckJob(g, j)
  BY DEF F!CheckOnDeck
<1>2. UNCHANGED <<server, wrote, file, owned, linked, find, found, runs, call, back>>
  BY DEF F!CheckOnDeck, F!disk, F!records
<1>3. /\ check' \in [F!Games -> F!Checks \cup {0}] /\ job' \in [F!Checks -> FindingJob]
      /\ \A i \in F!Checks : job'[i] = job[i] \/ JobRight(job'[i])
      /\ \A h \in F!Games : check'[h] # 0 => job'[check'[h]].game = h
      /\ \A u \in Callers : call[u].job \in F!Checks => job'[call[u].job] = job[call[u].job]
  BY <1>1, <1>2, OnDeckGives
<1>4. FindingTypes'
  BY <1>2, <1>3 DEF FoundInv, FindingTypes
<1>5. ASSUME NEW u \in Callers PROVE CallRight(call[u])'
  BY <1>2, <1>3, CallStays DEF FoundInv, JobsReferred
<1> QED BY <1>2, <1>3, <1>4, <1>5, FolderStays

LEMMA CompareKeeps ==
  ASSUME FoundInv, NEW j \in F!Checks, F!Compare(j)
  PROVE  FoundInv'
<1>0. FindingTypes /\ job[j] \in FindingJob /\ JobRight(job[j])
  BY DEF FoundInv, FindingTypes, LooksRight
<1>1. UNCHANGED <<server, wrote, file, owned, linked, find, found, check, runs, call, back>>
  BY DEF F!Compare, F!CompareAsks, F!CompareFails, F!CompareStats, F!CompareHashes, F!disk, F!records
<1>2. PICK now : /\ job' = [job EXCEPT ![j] = now] /\ now \in FindingJob /\ JobRight(now) /\ now.game = job[j].game
                 /\ job[j].pc \in {"ask", "stat", "hash"}
  <2>1. CASE F!CompareAsks(j)
    <3> DEFINE now == [job[j] EXCEPT !.pc = "stat", !.of = server]
    <3>1. job' = [job EXCEPT ![j] = now] /\ job[j].pc = "ask"
      BY <1>0, <2>1 DEF F!CompareAsks, FindingTypes
    <3>2. now \in FindingJob /\ now.pc = "stat" /\ now.path = job[j].path /\ now.matches = job[j].matches /\ now.game = job[j].game
      BY <1>0 DEF FindingJob, FindingTypes
    <3>3. JobRight(now)
      BY <1>0, <3>1, <3>2 DEF JobRight
    <3> QED BY <3>1, <3>2, <3>3
  <2>2. CASE F!CompareFails(j)
    <3> DEFINE now == [F!NoJob EXCEPT !.pc = "failed", !.game = job[j].game, !.path = job[j].path]
    <3>1. job' = [job EXCEPT ![j] = now] /\ job[j].pc \in {"ask", "stat", "hash"}
      BY <2>2 DEF F!CompareFails
    <3>2. now \in FindingJob /\ now.pc = "failed" /\ now.matches = FALSE /\ now.game = job[j].game
      BY <1>0 DEF FindingJob, F!NoJob, Held
    <3>3. JobRight(now)
      BY <3>2 DEF JobRight
    <3> QED BY <3>1, <3>2, <3>3
  <2>3. CASE F!CompareStats(j)
    <3> DEFINE a == file[job[j].path]
               now == [job[j] EXCEPT !.pc = "hash", !.at = a]
    <3>1. job' = [job EXCEPT ![j] = now] /\ job[j].pc = "stat" /\ a # 0
      BY <1>0, <2>3 DEF F!CompareStats, F!There, FindingTypes
    <3>2. job[j].path \in Paths /\ ~job[j].matches
      BY <1>0, <3>1 DEF JobRight
    <3>3. a \in 1 .. Len(wrote) /\ a \in Nat
      BY <1>0, <3>1, <3>2, ContentHeld
    <3> HIDE DEF a
    <3>4. now \in FindingJob /\ now.pc = "hash" /\ now.path = job[j].path /\ now.matches = job[j].matches /\ now.game = job[j].game
          /\ now.at = a
      BY <1>0, <3>3 DEF FindingJob
    <3>5. JobRight(now)
      BY <3>2, <3>3, <3>4 DEF JobRight
    <3> QED BY <3>1, <3>4, <3>5
  <2>4. CASE F!CompareHashes(j)
    <3> DEFINE c == F!Content(file[job[j].path])
               same == c = Holds[job[j].of][job[j].game]
               now == [job[j] EXCEPT !.pc = "done", !.holds = c, !.matches = same]
    <3>1. job' = [job EXCEPT ![j] = now] /\ job[j].pc = "hash"
      BY <1>0, <2>4 DEF F!CompareHashes, FindingTypes
    <3>2. job[j].path \in Paths /\ job[j].at \in 1 .. Len(wrote)
      BY <1>0, <3>1 DEF JobRight
    <3>3. c \in Held /\ same \in BOOLEAN /\ (file[job[j].path] = job[j].at => c = wrote[job[j].at])
      BY <1>0, <3>2, ContentHeld
    <3> HIDE DEF c
    <3>4. /\ now \in FindingJob /\ now.pc = "done" /\ now.path = job[j].path /\ now.matches = same /\ now.game = job[j].game
          /\ now.at = job[j].at /\ now.of = job[j].of /\ now.holds = c
      BY <1>0, <3>3 DEF FindingJob
    <3> HIDE DEF now
    <3>5. JobRight(now)
      BY <3>2, <3>3, <3>4 DEF JobRight, Right
    <3> QED BY <3>1, <3>4, <3>5
  <2> QED BY <2>1, <2>2, <2>3, <2>4 DEF F!Compare
<1>3. job' \in [F!Checks -> FindingJob] /\ job'[j] = now /\ \A i \in F!Checks : i # j => job'[i] = job[i]
  BY <1>0, <1>2 DEF FindingTypes
<1>4. FindingTypes'
  BY <1>0, <1>1, <1>3 DEF FindingTypes
<1>5. \A h \in F!Games : check'[h] # 0 => job'[check'[h]].game = h
  BY <1>0, <1>1, <1>2, <1>3 DEF FoundInv, JobsReferred, FindingTypes
<1>6. ASSUME NEW u \in Callers PROVE CallRight(call[u])'
  <2>1. CallRight(call[u])
    BY DEF FoundInv, JobsReferred
  <2>2. call[u].pc = "save" => call[u].job # j
    BY <1>0, <1>2, <2>1 DEF CallRight, JobRight
  <2> QED BY <1>1, <1>2, <1>3, <2>1, <2>2 DEF CallRight
<1>7. \A i \in F!Checks : job'[i] = job[i] \/ JobRight(job'[i])
  BY <1>2, <1>3
<1> QED BY <1>1, <1>4, <1>5, <1>6, <1>7, FolderStays

\* How a call goes on: it waits for the comparison it was given, and saves what that found while it is current.
GoesOn(c, d) ==
  /\ d.pc = "job" => d.game \in F!Games
  /\ d.pc \in {"wait", "save"} => c.pc = "wait" /\ d.job = c.job /\ d.game = c.game
  /\ d.pc = "save" => job[d.job].matches /\ ~F!Stale(job[d.job])

\* A step of a call, or one that forgets.
LEMMA CallsKeep ==
  ASSUME FoundInv, UNCHANGED <<wrote, file, back, runs>>, server' \in Nat,
         linked' \in [F!Games -> Entry], owned' \in [F!Games -> [path : Entry, at : Nat, of : Nat]],
         find' \in [known : BOOLEAN, running : BOOLEAN, adopting : BOOLEAN, failed : BOOLEAN],
         found' \in [F!Games -> [path : Entry, at : Nat, holds : Held, of : Nat]],
         \A g \in F!Games : found'[g] \in {found[g], F!NotFound},
         check' \in [F!Games -> F!Checks \cup {0}], \A g \in F!Games : check'[g] \in {check[g], 0},
         job' = job \/ F!Keeps(check', call'),
         call' \in [Callers -> FindingCall], \A u \in Callers : call'[u] = call[u] \/ GoesOn(call[u], call'[u]),
         \A g \in F!Games :
           \/ owned'[g] \in {owned[g], F!NotOwned}
           \/ owned'[g].at \in 1 .. Len(wrote) /\ (~back => wrote[owned'[g].at] = Holds[owned'[g].of][g])
  PROVE  FoundInv'
<1>0. FindingTypes
  BY DEF FoundInv
<1>1. /\ job' \in [F!Checks -> FindingJob] /\ \A j \in F!Checks : job'[j] \in {job[j], F!NoJob}
      /\ \A g \in F!Games : check'[g] \in F!Checks => job'[check'[g]] = job[check'[g]]
      /\ \A u \in Callers : call'[u].job \in F!Checks => job'[call'[u].job] = job[call'[u].job]
  <2>1. CASE job' = job
    BY <1>0, <2>1 DEF FindingTypes
  <2>2. CASE F!Keeps(check', call')
    BY <1>0, <2>2, KeepsReferred
  <2> QED BY <2>1, <2>2
<1>2. FindingTypes'
  BY <1>0, <1>1 DEF FindingTypes
<1>3. ASSUME NEW g \in F!Games, check'[g] # 0 PROVE job'[check'[g]].game = g
  <2>1. check'[g] = check[g] /\ check'[g] \in F!Checks
    BY <1>3
  <2> QED BY <1>1, <1>3, <2>1 DEF FoundInv, JobsReferred
<1>4. ASSUME NEW u \in Callers PROVE CallRight(call'[u])
  <2>1. CallRight(call[u])
    BY DEF FoundInv, JobsReferred
  <2>2. CASE call'[u] = call[u]
    BY <2>1, <2>2
  <2>3. CASE GoesOn(call[u], call'[u])
    <3> DEFINE d == call'[u]
               j == job[d.job]
    <3> SUFFICES ASSUME d.pc = "save", ~back PROVE j.holds = wrote[j.at]
      BY <2>1, <2>3 DEF GoesOn, CallRight
    <3>1. d.job \in F!Checks /\ j.matches /\ ~F!Stale(j)
      BY <2>1, <2>3 DEF GoesOn, CallRight
    <3>2. Right(j, j.game) /\ file[j.path] = j.at
      BY <3>1 DEF FoundInv, LooksRight, JobRight, F!Stale
    <3> HIDE DEF d, j
    <3> QED BY <3>2 DEF Right
  <2> QED BY <2>2, <2>3
<1>5. \A u \in Callers : CallRight(call[u])'
  BY <1>1, <1>4, CallStays
<1>6. \A j \in F!Checks : job'[j] \in {job[j], F!NoJob} \/ JobRight(job'[j])
  BY <1>1
<1> QED BY <1>2, <1>3, <1>5, <1>6, FolderStays

\* A game that was done gives way to the next.
LEMMA DoneTyped ==
  ASSUME FindingTypes, NEW u \in Callers
  PROVE  F!Done(u) \in FindingCall /\ F!Done(u).pc \in {F!None, "next"} /\ F!Done(u).job = 0
<1>1. call[u].rest \in SUBSET F!Games
  BY DEF FindingTypes, FindingCall
<1> QED BY <1>1, NothingTyped DEF F!Done, F!NoCall, FindingCall

\* The user's requests, and what a change of server forgets first.
LEMMA AsksKeep ==
  ASSUME FoundInv, NEW u \in Callers,
         \/ F!AdoptFound(u)
         \/ \E g \in F!Games : F!Adopt(u, g) \/ F!Link(u, g) \/ \E what \in {"unlink", "stop"} : F!Release(u, what, g)
  PROVE  FoundInv'
<1>0. FindingTypes
  BY SMTT(60) DEF FoundInv
<1>1. /\ UNCHANGED <<server, wrote, file, owned, linked, found, check, job, runs, back>>
      /\ find' \in [known : BOOLEAN, running : BOOLEAN, adopting : BOOLEAN, failed : BOOLEAN]
  BY <1>0 DEF F!AdoptFound, F!Adopt, F!Link, F!Release, F!Begin, F!disk, F!records, F!memory, FindingTypes
<1>2. PICK now : call' = [call EXCEPT ![u] = now] /\ now \in FindingCall /\ now.pc \in {"next", "job", "link", "drop"}
                   /\ (now.pc = "job" => now.game \in F!Games)
  <2>1. CASE F!AdoptFound(u)
    <3> DEFINE rest == {h \in F!Games : F!StillFound(h)}
               now == [F!NoCall EXCEPT !.op = "all", !.pc = "next", !.rest = rest]
    <3>1. call' = [call EXCEPT ![u] = now]
      BY <2>1 DEF F!AdoptFound
    <3>2. rest \in SUBSET F!Games
      OBVIOUS
    <3> HIDE DEF rest
    <3>3. now \in FindingCall /\ now.pc = "next"
      BY <3>2, NothingTyped DEF F!NoCall, FindingCall
    <3> QED BY <3>1, <3>3
  <2>2. ASSUME NEW g \in F!Games, F!Adopt(u, g)
        PROVE  \E now : /\ call' = [call EXCEPT ![u] = now] /\ now \in FindingCall /\ now.pc = "job"
                        /\ now.game \in F!Games
    <3> DEFINE now == [F!NoCall EXCEPT !.op = "adopt", !.game = g, !.pc = "job"]
    <3>1. call' = [call EXCEPT ![u] = now]
      BY <2>2 DEF F!Adopt, F!Begin
    <3>2. now \in FindingCall /\ now.pc = "job" /\ now.game = g
      BY NothingTyped DEF F!NoCall, FindingCall
    <3> QED BY <3>1, <3>2
  <2>3. ASSUME NEW g \in F!Games, F!Link(u, g)
        PROVE  \E now : call' = [call EXCEPT ![u] = now] /\ now \in FindingCall /\ now.pc = "link"
    <3> DEFINE path == F!Occupant(g)
               now == [F!NoCall EXCEPT !.op = "link", !.game = g, !.pc = "link", !.path = path]
    <3>1. call' = [call EXCEPT ![u] = now]
      BY <2>3 DEF F!Link
    <3>2. path \in Entry
      BY <1>0, OccupantEntry
    <3> HIDE DEF path
    <3>3. now \in FindingCall /\ now.pc = "link"
      BY <3>2, NothingTyped DEF F!NoCall, FindingCall
    <3> QED BY <3>1, <3>3
  <2>4. ASSUME NEW g \in F!Games, NEW what \in {"unlink", "stop"}, F!Release(u, what, g)
        PROVE  \E now : call' = [call EXCEPT ![u] = now] /\ now \in FindingCall /\ now.pc = "drop"
    <3> DEFINE now == [F!NoCall EXCEPT !.op = what, !.game = g, !.pc = "drop"]
    <3>1. call' = [call EXCEPT ![u] = now]
      BY <2>4 DEF F!Release, F!Begin
    <3>2. now \in FindingCall /\ now.pc = "drop"
      BY NothingTyped DEF F!NoCall, FindingCall
    <3> QED BY <3>1, <3>2
  <2> QED BY <2>1, <2>2, <2>3, <2>4
<1>3. call' \in [Callers -> FindingCall] /\ \A v \in Callers : call'[v] = IF v = u THEN now ELSE call[v]
  BY <1>0, <1>2 DEF FindingTypes
<1>4. \A v \in Callers : call'[v] = call[v] \/ GoesOn(call[v], call'[v])
  BY <1>2, <1>3 DEF GoesOn
<1>5. /\ server' \in Nat /\ linked' \in [F!Games -> Entry] /\ owned' \in [F!Games -> [path : Entry, at : Nat, of : Nat]]
      /\ found' \in [F!Games -> [path : Entry, at : Nat, holds : Held, of : Nat]]
      /\ check' \in [F!Games -> F!Checks \cup {0}]
  BY <1>0, <1>1 DEF FindingTypes
<1> QED BY <1>1, <1>3, <1>4, <1>5, CallsKeep

LEMMA ForgetKeeps ==
  ASSUME FoundInv, F!Forget \/ F!ForgetFinds
  PROVE  FoundInv'
<1>0. FindingTypes
  BY DEF FoundInv
<1>1. UNCHANGED <<wrote, file, back, runs, call>> /\ server' \in Nat
  BY <1>0 DEF F!Forget, F!ForgetFinds, F!disk, FindingTypes
<1>2. /\ linked' \in [F!Games -> Entry] /\ owned' \in [F!Games -> [path : Entry, at : Nat, of : Nat]]
      /\ \A g \in F!Games : owned'[g] \in {owned[g], F!NotOwned}
  BY SMTT(60), <1>0, NothingTyped DEF F!Forget, F!ForgetFinds, F!records, FindingTypes, Entry
<1>3. /\ find' \in [known : BOOLEAN, running : BOOLEAN, adopting : BOOLEAN, failed : BOOLEAN]
      /\ found' \in [F!Games -> [path : Entry, at : Nat, holds : Held, of : Nat]]
      /\ \A g \in F!Games : found'[g] \in {found[g], F!NotFound}
  <2>1. CASE F!Forget
    BY <1>0, <2>1 DEF F!Forget, F!memory, FindingTypes
  <2>2. CASE F!ForgetFinds
    <3>1. find' = F!NoFind /\ found' = [g \in F!Games |-> F!NotFound]
      BY <2>2 DEF F!ForgetFinds
    <3>2. F!NoFind \in [known : BOOLEAN, running : BOOLEAN, adopting : BOOLEAN, failed : BOOLEAN]
      BY DEF F!NoFind
    <3> QED BY <3>1, <3>2, NothingTyped
  <2> QED BY <2>1, <2>2
<1>4. /\ check' \in [F!Games -> F!Checks \cup {0}] /\ \A g \in F!Games : check'[g] \in {check[g], 0}
      /\ job' = job \/ F!Keeps(check', call')
  BY <1>0, <1>1 DEF F!Forget, F!ForgetFinds, F!memory, FindingTypes
<1>5. call' \in [Callers -> FindingCall] /\ \A u \in Callers : call'[u] = call[u]
  BY <1>0, <1>1 DEF FindingTypes
<1> QED BY <1>1, <1>2, <1>3, <1>4, <1>5, CallsKeep

LEMMA AdoptJobKeeps ==
  ASSUME FoundInv, NEW u \in Callers, NEW j \in F!Checks, F!AdoptJob(u, j)
  PROVE  FoundInv'
<1>0. FindingTypes
  BY DEF FoundInv
<1> DEFINE now == [call[u] EXCEPT !.pc = "wait", !.job = j]
           g == call[u].game
<1>1. /\ call[u].pc = "job" /\ F!OnDeckJob(g, j) /\ call' = [call EXCEPT ![u] = now]
      /\ UNCHANGED <<server, wrote, file, owned, linked, find, found, runs, back>>
  BY <1>0 DEF F!AdoptJob, F!CallStep, F!disk, F!records, FindingTypes
<1>2. g \in F!Games
  BY <1>1 DEF FoundInv, JobsReferred, CallRight
<1>3. /\ check' \in [F!Games -> F!Checks \cup {0}] /\ job' \in [F!Checks -> FindingJob]
      /\ \A i \in F!Checks : job'[i] = job[i] \/ JobRight(job'[i])
      /\ \A h \in F!Games : check'[h] # 0 => job'[check'[h]].game = h
      /\ \A v \in Callers : call[v].job \in F!Checks => job'[call[v].job] = job[call[v].job]
      /\ job'[j].game = g
  BY <1>1, <1>2, OnDeckGives
<1>4. now \in FindingCall /\ now.pc = "wait" /\ now.job = j /\ now.game = g
  BY <1>0 DEF FindingTypes, FindingCall
<1> HIDE DEF now, g
<1>5. call' \in [Callers -> FindingCall] /\ \A v \in Callers : call'[v] = IF v = u THEN now ELSE call[v]
  BY <1>0, <1>1, <1>4 DEF FindingTypes
<1>6. FindingTypes'
  BY <1>0, <1>1, <1>3, <1>5 DEF FindingTypes
<1>7. ASSUME NEW v \in Callers PROVE CallRight(call[v])'
  <2>1. CASE v = u
    BY <1>2, <1>3, <1>4, <1>5, <2>1 DEF CallRight
  <2>2. CASE v # u
    BY <1>1, <1>3, <1>5, <2>2, CallStays DEF FoundInv, JobsReferred
  <2> QED BY <2>1, <2>2
<1> QED BY <1>1, <1>3, <1>6, <1>7, FolderStays

\* The steps of a call that look at what it waited for, or save it.
LEMMA AdoptKeeps ==
  ASSUME FoundInv, NEW u \in Callers, F!AdoptRefused(u) \/ F!AdoptCurrent(u) \/ F!AdoptSaves(u)
  PROVE  FoundInv'
<1>0. FindingTypes /\ call[u] \in FindingCall /\ CallRight(call[u])
  BY DEF FoundInv, FindingTypes, JobsReferred
<1>1. /\ UNCHANGED <<server, wrote, file, linked, find, found, check, runs, back>>
      /\ job' = job \/ F!Keeps(check', call')
  BY DEF F!AdoptRefused, F!AdoptCurrent, F!AdoptSaves, F!disk, F!records, F!memory
<1>2. PICK now : call' = [call EXCEPT ![u] = now] /\ now \in FindingCall /\ GoesOn(call[u], now)
  <2>1. CASE call' = [call EXCEPT ![u] = F!Done(u)]
    BY <1>0, <2>1, DoneTyped DEF GoesOn, F!None
  <2>2. CASE F!AdoptCurrent(u)
    <3> DEFINE now == [call[u] EXCEPT !.pc = "save"]
    <3>1. /\ call[u].pc = "wait" /\ job[call[u].job].matches /\ ~F!Stale(job[call[u].job])
          /\ call' = [call EXCEPT ![u] = now]
      BY <1>0, <2>2 DEF F!AdoptCurrent, F!CallStep, FindingTypes
    <3>2. now \in FindingCall /\ now.pc = "save" /\ now.job = call[u].job /\ now.game = call[u].game
      BY <1>0 DEF FindingCall
    <3> QED BY <3>1, <3>2 DEF GoesOn
  <2>3. CASE F!AdoptSaves(u) /\ call' # [call EXCEPT ![u] = F!Done(u)]
    <3> DEFINE now == [call[u] EXCEPT !.pc = "unlink", !.job = 0]
    <3>1. call' = [call EXCEPT ![u] = now]
      BY <1>0, <2>3 DEF F!AdoptSaves, FindingTypes
    <3>2. now \in FindingCall /\ now.pc = "unlink"
      BY <1>0 DEF FindingCall
    <3> QED BY <3>1, <3>2 DEF GoesOn
  <2> QED BY <2>1, <2>2, <2>3 DEF F!AdoptRefused
<1>3. call' \in [Callers -> FindingCall] /\ \A v \in Callers : call'[v] = call[v] \/ GoesOn(call[v], call'[v])
  BY <1>0, <1>2 DEF FindingTypes
<1>4. /\ owned' \in [F!Games -> [path : Entry, at : Nat, of : Nat]]
      /\ \A g \in F!Games :
           \/ owned'[g] \in {owned[g], F!NotOwned}
           \/ owned'[g].at \in 1 .. Len(wrote) /\ (~back => wrote[owned'[g].at] = Holds[owned'[g].of][g])
  <2>1. CASE owned' = owned
    BY <1>0, <2>1 DEF FindingTypes
  <2>2. CASE owned' # owned
    <3> DEFINE g == call[u].game
               j == job[call[u].job]
               new == [path |-> j.path, at |-> j.at, of |-> j.of]
    <3>1. call[u].pc = "save" /\ owned' = [owned EXCEPT ![g] = new]
      BY <2>2 DEF F!AdoptRefused, F!AdoptCurrent, F!AdoptSaves, F!CallStep, F!records
    <3>2. call[u].job \in F!Checks /\ j.game = g /\ j.matches /\ (~back => j.holds = wrote[j.at]) /\ g \in F!Games
      BY <1>0, <3>1 DEF CallRight
    <3>3. Right(j, g) /\ j \in FindingJob
      BY <1>0, <3>2 DEF FoundInv, LooksRight, JobRight, FindingTypes
    <3>4. new \in [path : Entry, at : Nat, of : Nat] /\ new.at = j.at /\ new.of = j.of
      BY <3>3 DEF FindingJob
    <3> HIDE DEF g, j, new
    <3>5. new.at \in 1 .. Len(wrote) /\ (~back => wrote[new.at] = Holds[new.of][g])
      BY <3>2, <3>3, <3>4 DEF Right
    <3>6. \A h \in F!Games : owned'[h] = IF h = g THEN new ELSE owned[h]
      BY <1>0, <3>1, <3>2 DEF FindingTypes
    <3> QED BY <1>0, <3>1, <3>2, <3>4, <3>5, <3>6 DEF FindingTypes
  <2> QED BY <2>1, <2>2
<1>5. /\ server' \in Nat /\ linked' \in [F!Games -> Entry] /\ check' \in [F!Games -> F!Checks \cup {0}]
      /\ find' \in [known : BOOLEAN, running : BOOLEAN, adopting : BOOLEAN, failed : BOOLEAN]
      /\ found' \in [F!Games -> [path : Entry, at : Nat, holds : Held, of : Nat]]
  BY <1>0, <1>1 DEF FindingTypes
<1> QED BY <1>1, <1>3, <1>4, <1>5, CallsKeep

\* The others.
CallEnds(u) ==
  \/ F!AdoptUnlinks(u) \/ F!AdoptClears(u) \/ F!AdoptNext(u) \/ F!AdoptedAll(u) \/ F!LinkSaves(u)
  \/ F!ReleaseDrops(u) \/ F!ReleaseClears(u)

LEMMA CallEndsKeep ==
  ASSUME FoundInv, NEW u \in Callers, CallEnds(u)
  PROVE  FoundInv'
<1>0. FindingTypes /\ call[u] \in FindingCall
  BY SMTT(60) DEF FoundInv, FindingTypes
<1>1. UNCHANGED <<server, wrote, file, runs, back>> /\ (job' = job \/ F!Keeps(check', call'))
  BY DEF CallEnds, F!AdoptUnlinks, F!AdoptClears, F!AdoptNext, F!AdoptedAll, F!LinkSaves, F!ReleaseDrops,
         F!ReleaseClears, F!disk, F!memory
<1>2. PICK now : call' = [call EXCEPT ![u] = now] /\ now \in FindingCall /\ GoesOn(call[u], now)
  <2>1. CASE F!AdoptUnlinks(u) \/ F!ReleaseDrops(u)
    <3> DEFINE now == [call[u] EXCEPT !.pc = "clear"]
    <3>1. call' = [call EXCEPT ![u] = now]
      BY <1>0, <2>1 DEF F!AdoptUnlinks, F!ReleaseDrops, FindingTypes
    <3>2. now \in FindingCall /\ now.pc = "clear"
      BY <1>0 DEF FindingCall
    <3> QED BY <3>1, <3>2 DEF GoesOn
  <2>2. CASE F!AdoptClears(u)
    <3>1. call' = [call EXCEPT ![u] = F!Done(u)]
      BY <2>2 DEF F!AdoptClears
    <3> QED BY <1>0, <3>1, DoneTyped DEF GoesOn, F!None
  <2>3. CASE F!AdoptNext(u)
    <3>1. PICK g \in call[u].rest :
            call' = [call EXCEPT ![u].game = g, ![u].rest = @ \ {g}, ![u].pc = IF F!Owned(g) THEN "next" ELSE "job"]
      BY <2>3 DEF F!AdoptNext
    <3> DEFINE step == IF F!Owned(g) THEN "next" ELSE "job"
               now == [call[u] EXCEPT !.game = g, !.rest = @ \ {g}, !.pc = step]
    <3>2. call' = [call EXCEPT ![u] = now]
      BY <1>0, <3>1 DEF FindingTypes
    <3>3. g \in F!Games /\ step \in {"next", "job"}
      BY <1>0, <3>1 DEF FindingCall
    <3> HIDE DEF step
    <3>4. now \in FindingCall /\ now.pc = step /\ now.game = g
      BY <1>0, <3>3 DEF FindingCall
    <3> QED BY <3>2, <3>3, <3>4 DEF GoesOn
  <2>4. CASE F!AdoptedAll(u) \/ F!LinkSaves(u) \/ F!ReleaseClears(u)
    <3>1. call' = [call EXCEPT ![u] = F!NoCall]
      BY <2>4 DEF F!AdoptedAll, F!LinkSaves, F!ReleaseClears
    <3> QED BY <3>1, NothingTyped DEF GoesOn, F!None
  <2> QED BY <2>1, <2>2, <2>3, <2>4 DEF CallEnds
<1>3. call' \in [Callers -> FindingCall] /\ \A v \in Callers : call'[v] = call[v] \/ GoesOn(call[v], call'[v])
  BY <1>0, <1>2 DEF FindingTypes
<1>4. /\ owned' \in [F!Games -> [path : Entry, at : Nat, of : Nat]]
      /\ \A g \in F!Games : owned'[g] \in {owned[g], F!NotOwned}
  <2>1. owned' \in {owned, [owned EXCEPT ![call[u].game] = F!NotOwned]}
    BY DEF CallEnds, F!AdoptUnlinks, F!AdoptClears, F!AdoptNext, F!AdoptedAll, F!LinkSaves, F!ReleaseDrops,
           F!ReleaseClears, F!records
  <2>2. [owned EXCEPT ![call[u].game] = F!NotOwned] \in [F!Games -> [path : Entry, at : Nat, of : Nat]]
    BY <1>0, NothingTyped DEF FindingTypes
  <2>3. \A g \in F!Games : [owned EXCEPT ![call[u].game] = F!NotOwned][g] \in {owned[g], F!NotOwned}
    BY <1>0 DEF FindingTypes
  <2> QED BY <1>0, <2>1, <2>2, <2>3 DEF FindingTypes
<1>5. linked' \in [F!Games -> Entry]
  <2>1. \E p \in Entry : linked' \in {linked, [linked EXCEPT ![call[u].game] = p]}
    <3>1. F!None \in Entry /\ call[u].path \in Entry
      BY <1>0 DEF FindingCall, Entry
    <3> QED BY <3>1 DEF CallEnds, F!AdoptUnlinks, F!AdoptClears, F!AdoptNext, F!AdoptedAll, F!LinkSaves, F!ReleaseDrops,
           F!ReleaseClears, F!records
  <2> QED BY SMTT(60), <1>0, <2>1 DEF FindingTypes
<1>6. /\ find' \in [known : BOOLEAN, running : BOOLEAN, adopting : BOOLEAN, failed : BOOLEAN] /\ server' \in Nat
  <2>1. find' \in {find, [find EXCEPT !.known = TRUE, !.adopting = FALSE]}
    BY DEF CallEnds, F!AdoptUnlinks, F!AdoptClears, F!AdoptNext, F!AdoptedAll, F!LinkSaves, F!ReleaseDrops,
           F!ReleaseClears, F!memory
  <2> QED BY <1>0, <1>1, <2>1 DEF FindingTypes
<1>7. /\ found' \in [F!Games -> [path : Entry, at : Nat, holds : Held, of : Nat]]
      /\ \A g \in F!Games : found'[g] \in {found[g], F!NotFound}
  <2>1. found' \in {found, [found EXCEPT ![call[u].game] = F!NotFound]}
    BY DEF CallEnds, F!AdoptUnlinks, F!AdoptClears, F!AdoptNext, F!AdoptedAll, F!LinkSaves, F!ReleaseDrops,
           F!ReleaseClears, F!memory
  <2>2. [found EXCEPT ![call[u].game] = F!NotFound] \in [F!Games -> [path : Entry, at : Nat, holds : Held, of : Nat]]
    BY <1>0, NothingTyped DEF FindingTypes
  <2>3. \A g \in F!Games : [found EXCEPT ![call[u].game] = F!NotFound][g] \in {found[g], F!NotFound}
    BY <1>0 DEF FindingTypes
  <2> QED BY <1>0, <2>1, <2>2, <2>3 DEF FindingTypes
<1>8. /\ check' \in [F!Games -> F!Checks \cup {0}] /\ \A g \in F!Games : check'[g] \in {check[g], 0}
  <2>1. check' \in {check, [check EXCEPT ![call[u].game] = 0]}
    BY DEF CallEnds, F!AdoptUnlinks, F!AdoptClears, F!AdoptNext, F!AdoptedAll, F!LinkSaves, F!ReleaseDrops,
           F!ReleaseClears, F!memory
  <2> QED BY <1>0, <2>1 DEF FindingTypes
<1> QED BY <1>1, <1>3, <1>4, <1>5, <1>6, <1>7, <1>8, CallsKeep

LEMMA FindEndsKeeps ==
  ASSUME FoundInv, NEW r \in F!Finds, NEW failed \in BOOLEAN, F!FindEnds(r, failed)
  PROVE  FoundInv'
<1>0. FindingTypes /\ runs[r] \in FindingRun /\ RunRight(runs[r])
  BY DEF FoundInv, FindingTypes, LooksRight
<1>1. UNCHANGED <<server, wrote, file, owned, linked, back>>
  BY DEF F!FindEnds, F!disk, F!records
<1>2. CASE find.known
  <2> DEFINE run == [runs[r] EXCEPT !.out = IF failed THEN {} ELSE @]
             ended == [F!NoRun EXCEPT !.pc = "done"]
  <2>1. /\ found' = F!Recorded(run) /\ find' = F!Ended(find, failed) /\ runs' = [runs EXCEPT ![r] = ended]
        /\ check' \in [F!Games -> F!Checks \cup {0}] /\ (\A g \in F!Games : check'[g] \in {check[g], 0})
        /\ F!Keeps(check', call) /\ call' = call
    BY ZenonT(60), <1>0, <1>2 DEF F!FindEnds, FindingTypes
  <2>2. run.out \subseteq runs[r].out /\ runs[r].out \subseteq FindingOut
    BY <1>0 DEF FindingRun
  <2>3. find' \in [known : BOOLEAN, running : BOOLEAN, adopting : BOOLEAN, failed : BOOLEAN]
    BY <1>0, <2>1 DEF F!Ended, FindingTypes
  <2>4. ASSUME NEW g \in F!Games
        PROVE  /\ found'[g] \in [path : Entry, at : Nat, holds : Held, of : Nat]
               /\ found'[g] \in {found[g], F!NotFound} \/ Right(found'[g], g)
    <3>1. CASE \E o \in run.out : o.game = g
      <4> DEFINE o == CHOOSE o \in run.out : o.game = g
                 f == [path |-> o.path, at |-> o.at, holds |-> o.holds, of |-> o.of]
      <4>1. found'[g] = f
        BY <2>1, <3>1 DEF F!Recorded
      <4>2. o \in run.out /\ o.game = g
        BY <3>1
      <4> HIDE DEF o
      <4>3. o \in FindingOut /\ Right(o, g)
        BY <1>0, <2>2, <4>2 DEF RunRight
      <4>4. f \in [path : Entry, at : Nat, holds : Held, of : Nat] /\ Right(f, g)
        BY <4>3 DEF FindingOut, Entry, Right
      <4> QED BY <4>1, <4>4
    <3>2. CASE ~\E o \in run.out : o.game = g
      <4>1. found'[g] = IF run.rom \in {0, g} THEN F!NotFound ELSE found[g]
        BY <2>1, <3>2 DEF F!Recorded
      <4> QED BY <1>0, <4>1, NothingTyped DEF FindingTypes
    <3> QED BY <3>1, <3>2
  <2>5. found' \in [F!Games -> [path : Entry, at : Nat, holds : Held, of : Nat]]
    <3>1. found' = [g \in F!Games |-> found'[g]]
      BY <2>1 DEF F!Recorded
    <3> QED BY <2>4, <3>1
  <2>6. /\ job' \in [F!Checks -> FindingJob] /\ \A j \in F!Checks : job'[j] \in {job[j], F!NoJob}
        /\ \A g \in F!Games : check'[g] \in F!Checks => job'[check'[g]] = job[check'[g]]
        /\ \A u \in Callers : call[u].job \in F!Checks => job'[call[u].job] = job[call[u].job]
    BY <1>0, <2>1, KeepsReferred
  <2>7. ended \in FindingRun /\ RunRight(ended)
    BY NothingTyped DEF FindingRun, RunRight
  <2>8. runs' \in [F!Finds -> FindingRun] /\ \A q \in F!Finds : runs'[q] = runs[q] \/ RunRight(runs'[q])
    BY <1>0, <2>1, <2>7 DEF FindingTypes
  <2>9. FindingTypes'
    BY <1>0, <1>1, <2>1, <2>3, <2>5, <2>6, <2>8 DEF FindingTypes
  <2>10. ASSUME NEW g \in F!Games, check'[g] # 0 PROVE job'[check'[g]].game = g
    <3>1. check'[g] = check[g] /\ check'[g] \in F!Checks
      BY <2>1, <2>10
    <3> QED BY <2>6, <2>10, <3>1 DEF FoundInv, JobsReferred
  <2>11. ASSUME NEW u \in Callers PROVE CallRight(call[u])'
    BY <1>1, <2>1, <2>6, CallStays DEF FoundInv, JobsReferred
  <2> QED BY <1>1, <2>4, <2>6, <2>8, <2>9, <2>10, <2>11, FolderStays
<1>3. CASE ~find.known
  <2>1. F!Panic
    BY <1>3 DEF F!FindEnds
  <2>2. /\ find' = F!NoFind /\ found' = [g \in F!Games |-> F!NotFound] /\ check' = [g \in F!Games |-> 0]
        /\ job' = [j \in F!Checks |-> F!NoJob] /\ call' = [u \in Callers |-> F!NoCall]
        /\ runs' = [q \in F!Finds |-> IF runs[q].pc = "new" THEN F!NoRun ELSE [F!NoRun EXCEPT !.pc = "done"]]
    BY <2>1 DEF F!Panic
  <2>3. [F!NoRun EXCEPT !.pc = "done"] \in FindingRun /\ RunRight([F!NoRun EXCEPT !.pc = "done"]) /\ RunRight(F!NoRun)
    BY NothingTyped DEF FindingRun, RunRight
  <2>4. F!NoFind \in [known : BOOLEAN, running : BOOLEAN, adopting : BOOLEAN, failed : BOOLEAN]
    BY DEF F!NoFind
  <2>5. /\ runs' \in [F!Finds -> FindingRun] /\ (\A q \in F!Finds : RunRight(runs'[q]))
        /\ check' \in [F!Games -> F!Checks \cup {0}] /\ job' \in [F!Checks -> FindingJob]
        /\ found' \in [F!Games -> [path : Entry, at : Nat, holds : Held, of : Nat]] /\ call' \in [Callers -> FindingCall]
    BY <2>2, <2>3, NothingTyped
  <2>6. FindingTypes'
    BY <1>0, <1>1, <2>2, <2>4, <2>5 DEF FindingTypes
  <2>7. \A u \in Callers : CallRight(call[u])'
    BY <2>2, NothingTyped DEF CallRight, F!None
  <2>8. /\ \A j \in F!Checks : job'[j] = F!NoJob
        /\ \A g \in F!Games : found'[g] = F!NotFound /\ check'[g] = 0
    BY <2>2
  <2>9. \A g \in F!Games : owned'[g] \in {owned[g], F!NotOwned}
    BY <1>1
  <2> QED BY <1>1, <2>5, <2>6, <2>7, <2>8, <2>9, FolderStays
<1> QED BY <1>2, <1>3

LEMMA FoundKeeps == FoundInv /\ [F!Next]_(F!vars) => FoundInv'
<1> SUFFICES ASSUME FoundInv, [F!Next]_(F!vars) PROVE FoundInv'
  OBVIOUS
<1>1. CASE UNCHANGED F!vars
  <2>1. UNCHANGED <<server, wrote, file, owned, linked, find, found, check, job, runs, call, back>>
    BY <1>1 DEF F!vars, F!disk, F!records, F!memory
  <2>2. FindingTypes' /\ LooksRight'
    BY <2>1 DEF FoundInv, FindingTypes, LooksRight, RunRight, JobRight, Right
  <2>3. JobsReferred' /\ OwnedRight'
    BY <2>1 DEF FoundInv, JobsReferred, CallRight, OwnedRight, F!Owned
  <2> QED BY <2>2, <2>3 DEF FoundInv
<1>2. CASE F!User
  <2>1. ASSUME NEW r \in F!Finds, NEW g \in F!Games \cup {0}, F!StartFind(r, g) PROVE FoundInv'
    BY <2>1, FindWorksKeep DEF FindWorks
  <2>2. ASSUME NEW u \in Callers,
               \/ F!AdoptFound(u)
               \/ \E g \in F!Games : F!Adopt(u, g) \/ F!Link(u, g) \/ \E what \in {"unlink", "stop"} : F!Release(u, what, g)
        PROVE  FoundInv'
    BY <2>2, AsksKeep
  <2> QED BY <1>2, <2>1, <2>2, WriteKeeps, RenameKeeps, UninstallKeeps, CheckOnDeckKeeps, ForgetKeeps DEF F!User
<1>3. CASE F!Backend
  <2>1. ASSUME NEW r \in F!Finds, F!Run(r) PROVE FoundInv'
    BY <2>1, FindWorksKeep, FindEndsKeeps DEF F!Run, FindWorks
  <2>2. ASSUME NEW u \in Callers, F!Call(u) PROVE FoundInv'
    BY <2>2, AdoptJobKeeps, AdoptKeeps, CallEndsKeep DEF F!Call, CallEnds
  <2> QED BY <1>3, <2>1, <2>2, CompareKeeps, ForgetKeeps DEF F!Backend
<1> QED BY <1>1, <1>2, <1>3 DEF F!Next

-----------------------------------------------------------------------------
(* Games found: no entry for two. *)

\* A step that runs no search: found games may be forgotten.
LEMMA ApartStays ==
  ASSUME FoundInv, FoundApartInv, UNCHANGED <<runs, overlap>>,
         find.known => find'.known, find'.running = find.running,
         \A g \in F!Games : found'[g] \in {found[g], F!NotFound}
  PROVE  FoundApartInv'
<1> SUFFICES ASSUME OneSearch, SearchApart, F!FoundApart, ~overlap
    PROVE  OneSearch' /\ SearchApart' /\ F!FoundApart'
  BY DEF FoundApartInv
<1>1. \A r \in F!Finds : Active(r)' <=> Active(r)
  BY DEF Active
<1>2. OneSearch'
  BY <1>1 DEF OneSearch
<1>3. SearchApart'
  BY <1>1 DEF SearchApart, EachOnce, Elsewhere
<1>4. F!FoundApart'
  <2> SUFFICES ASSUME NEW g \in F!Games, NEW h \in F!Games, g # h, found'[g] # F!NotFound
      PROVE  found'[g].path # found'[h].path
    BY DEF F!FoundApart
  <2>1. found'[g] = found[g] /\ found[g].path \in Paths
    BY DEF FoundInv, LooksRight, Right
  <2>2. found'[h] = found[h] \/ found'[h].path = F!None
    BY NothingTyped
  <2> QED BY <2>1, <2>2, FindingConstants DEF F!FoundApart
<1> QED BY <1>2, <1>3, <1>4

\* A step of a search before its end.
LEMMA SearchStays ==
  ASSUME FoundInv, OneSearch, SearchApart, F!FoundApart, NEW r \in F!Finds, NEW now \in FindingRun,
         runs' = [runs EXCEPT ![r] = now], UNCHANGED <<found, overlap>>, find'.known, find'.running,
         \A q \in F!Finds : Active(q) => q = r,
         EachOnce(now), now.pc # "new",
         now.pc \in {"take", "ask", "list"} => now.left = {} /\ now.out = {},
         \A h \in F!Games : now.pc # "take" /\ now.rom \notin {0, h} /\ found[h] # F!NotFound =>
                              Elsewhere(now, found[h].path)
  PROVE  FoundApartInv'
<1>1. \A q \in F!Finds : runs'[q] = IF q = r THEN now ELSE runs[q]
  BY DEF FoundInv, FindingTypes
<1>2. \A q \in F!Finds : Active(q)' => q = r
  BY <1>1 DEF Active
<1>3. OneSearch'
  BY <1>2 DEF OneSearch
<1>4. SearchApart'
  <2> SUFFICES ASSUME NEW q \in F!Finds
      PROVE  /\ runs'[q].pc \in {"new", "take", "ask", "list"} => runs'[q].left = {} /\ runs'[q].out = {}
             /\ Active(q)' =>
                  /\ EachOnce(runs'[q])
                  /\ \A h \in F!Games :
                       runs'[q].pc # "take" /\ runs'[q].rom \notin {0, h} /\ found[h] # F!NotFound =>
                         Elsewhere(runs'[q], found[h].path)
    BY DEF SearchApart, EachOnce, Elsewhere
  <2>1. CASE q = r
    BY <1>1, <2>1
  <2>2. CASE q # r
    BY <1>1, <1>2, <2>2 DEF SearchApart
  <2> QED BY <2>1, <2>2
<1> QED BY <1>3, <1>4 DEF FoundApartInv, F!FoundApart
\* A search up to what it records leaves the entries of others.
LEMMA FindWorksApart ==
  ASSUME FoundInv, FoundApartInv, NEW r \in F!Finds, FindWorks(r)
  PROVE  FoundApartInv'
<1>a. overlap' = overlap
  <2>1. ASSUME NEW g \in F!Games \cup {0}, F!StartFind(r, g) PROVE overlap' = overlap
    BY <2>1 DEF F!StartFind
  <2>2. ASSUME NEW p \in Paths, F!FindStats(r, p) PROVE overlap' = overlap
    BY <2>2 DEF F!FindStats
  <2>3. CASE F!FindTakes(r)
    BY <2>3 DEF F!FindTakes
  <2>4. CASE F!FindAsks(r) \/ F!FindLists(r) \/ F!FindHashes(r)
    BY <2>4 DEF F!FindAsks, F!FindLists, F!FindHashes
  <2> QED BY <2>1, <2>2, <2>3, <2>4 DEF FindWorks
<1> SUFFICES ASSUME OneSearch, SearchApart, F!FoundApart, ~overlap PROVE FoundApartInv'
  BY <1>a DEF FoundApartInv
<1> DEFINE run == runs[r]
           others == {h \in F!Games : run.rom \notin {0, h} /\ found[h] # F!NotFound}
<1>0. FindingTypes /\ run \in FindingRun
  BY DEF FoundInv, FindingTypes
<1>1. ASSUME NEW g \in F!Games \cup {0}, F!StartFind(r, g) PROVE FoundApartInv'
  <2> DEFINE now == [run EXCEPT !.pc = "take", !.rom = g]
  <2>1. /\ runs' = [runs EXCEPT ![r] = now] /\ run.pc = "new" /\ ~find.running
        /\ find' = [F!NoFind EXCEPT !.known = TRUE, !.running = TRUE] /\ UNCHANGED <<found, overlap>>
    BY <1>0, <1>1 DEF F!StartFind, FindingTypes
  <2>2. \A q \in F!Finds : ~Active(q)
    BY <2>1 DEF OneSearch
  <2>3. find'.known /\ find'.running
    BY <2>1 DEF F!NoFind
  <2>4. now \in FindingRun /\ now.pc = "take" /\ now.out = {} /\ now.left = {}
    BY <1>0, <2>1 DEF FindingRun, SearchApart
  <2> HIDE DEF now
  <2>5. EachOnce(now)
    BY <2>4 DEF EachOnce
  <2> QED BY <2>1, <2>2, <2>3, <2>4, <2>5, SearchStays
<1>2. CASE F!FindTakes(r) \/ F!FindAsks(r) \/ F!FindLists(r) \/ F!FindHashes(r) \/ \E p \in Paths : F!FindStats(r, p)
  <2>1. UNCHANGED <<find, found, overlap>> /\ Active(r)
    BY <1>2 DEF F!FindTakes, F!FindAsks, F!FindLists, F!FindHashes, F!FindStats, F!memory, Active
  <2>2. /\ find'.known /\ find'.running /\ \A q \in F!Finds : Active(q) => q = r
        /\ EachOnce(run) /\ (run.pc \in {"take", "ask", "list"} => run.left = {} /\ run.out = {})
        /\ \A h \in others : run.pc # "take" => Elsewhere(run, found[h].path)
    BY <2>1 DEF OneSearch, SearchApart
  <2>3. PICK now : /\ runs' = [runs EXCEPT ![r] = now] /\ now \in FindingRun /\ EachOnce(now)
                   /\ now.pc # "new" /\ now.pc # "take" /\ now.rom = run.rom
                   /\ now.pc \in {"ask", "list"} => now.left = {} /\ now.out = {}
                   /\ \A h \in others : Elsewhere(now, found[h].path)
    <3>1. CASE F!FindTakes(r)
      <4> DEFINE taken == F!TakenByRecords \cup F!FoundElsewhere(run.rom)
                 now == [run EXCEPT !.pc = "ask", !.of = server, !.taken = taken]
      <4>1. runs' = [runs EXCEPT ![r] = now] /\ run.pc = "take"
        BY <1>0, <3>1 DEF F!FindTakes, FindingTypes
      <4>2. taken \in SUBSET Entry /\ server \in Nat /\ \A h \in others : found[h].path \in taken
        BY <1>0 DEF FindingTypes, F!TakenByRecords, F!FoundElsewhere
      <4> HIDE DEF taken
      <4>3. now \in FindingRun /\ now.pc = "ask" /\ now.out = {} /\ now.left = {} /\ now.taken = taken /\ now.rom = run.rom
        BY <1>0, <2>2, <4>1, <4>2 DEF FindingRun
      <4> HIDE DEF now
      <4> QED BY <4>1, <4>2, <4>3 DEF EachOnce, Elsewhere
    <3>2. CASE F!FindAsks(r)
      <4> DEFINE games == {g \in F!Games : ~F!Skipped(g, run.rom)}
                 now == [run EXCEPT !.pc = "list", !.games = games]
      <4>1. runs' = [runs EXCEPT ![r] = now] /\ run.pc = "ask"
        BY <1>0, <3>2 DEF F!FindAsks, FindingTypes
      <4>2. games \in SUBSET F!Games
        OBVIOUS
      <4> HIDE DEF games
      <4>3. now \in FindingRun /\ now.pc = "list" /\ now.out = {} /\ now.left = {} /\ now.taken = run.taken /\ now.rom = run.rom
        BY <1>0, <2>2, <4>1, <4>2 DEF FindingRun
      <4>4. \A h \in others : found[h].path \in run.taken
        BY <2>2, <4>1 DEF Elsewhere
      <4> HIDE DEF now
      <4> QED BY <4>1, <4>3, <4>4 DEF EachOnce, Elsewhere
    <3>3. CASE F!FindLists(r)
      <4> DEFINE left == {p \in Paths : file[p] # 0} \ run.taken
                 now == [run EXCEPT !.pc = "match", !.left = left, !.taken = {}]
      <4>1. runs' = [runs EXCEPT ![r] = now] /\ run.pc = "list"
        BY <1>0, <3>3 DEF F!FindLists, FindingTypes
      <4>2. left \in SUBSET Paths /\ \A h \in others : found[h].path \notin left
        BY <2>2, <4>1 DEF Elsewhere
      <4> HIDE DEF left
      <4>3. now \in FindingRun /\ now.pc = "match" /\ now.out = {} /\ now.left = left /\ now.rom = run.rom
        BY <1>0, <2>2, <4>1, <4>2 DEF FindingRun
      <4> HIDE DEF now
      <4> QED BY <4>1, <4>2, <4>3 DEF EachOnce, Elsewhere
    <3>4. ASSUME NEW p \in Paths, F!FindStats(r, p)
          PROVE  \E now : /\ runs' = [runs EXCEPT ![r] = now] /\ now \in FindingRun /\ EachOnce(now)
                          /\ now.pc # "new" /\ now.pc # "take" /\ now.rom = run.rom
                          /\ now.pc \in {"ask", "list"} => now.left = {} /\ now.out = {}
                          /\ \A h \in others : Elsewhere(now, found[h].path)
      <4> DEFINE step == IF file[p] = 0 THEN "match" ELSE "hash"
                 now == [run EXCEPT !.left = @ \ {p}, !.path = p, !.at = file[p], !.pc = step]
      <4>1. runs' = [runs EXCEPT ![r] = now] /\ run.pc = "match" /\ p \in run.left
        BY <1>0, <3>4 DEF F!FindStats, F!InPlace, FindingTypes
      <4>2. step \in {"match", "hash"} /\ file[p] \in Nat /\ p \in Entry
        BY <1>0, ContentHeld DEF Entry
      <4> HIDE DEF step
      <4>3. /\ now \in FindingRun /\ now.pc = step /\ now.out = run.out /\ now.path = p /\ now.left = run.left \ {p}
            /\ now.rom = run.rom
        BY <1>0, <4>2 DEF FindingRun
      <4> HIDE DEF now
      <4>4. EachOnce(now)
        BY <2>2, <4>1, <4>3 DEF EachOnce
      <4>5. \A h \in others : Elsewhere(now, found[h].path)
        BY <2>2, <4>1, <4>2, <4>3 DEF Elsewhere
      <4> QED BY <4>1, <4>2, <4>3, <4>4, <4>5
    <3>5. CASE F!FindHashes(r)
      <4> DEFINE c == F!Content(file[run.path])
                 new == {[game |-> g, path |-> run.path, at |-> run.at, holds |-> c, of |-> run.of] : g \in F!Whole(run, c)}
                 left == IF run.rom # 0 /\ new # {} THEN {} ELSE run.left
                 now == [run EXCEPT !.pc = "match", !.out = @ \cup new, !.left = left]
      <4>1. runs' = [runs EXCEPT ![r] = now] /\ run.pc = "hash"
        BY <1>0, <3>5 DEF F!FindHashes, FindingTypes
      <4>2. F!Whole(run, c) \subseteq F!Games /\ \A g, h \in F!Whole(run, c) : g = h
        <5>1. \A g \in F!Whole(run, c) : g \in run.games /\ \A h \in F!Whole(run, c) : g <= h
          BY DEF F!Whole
        <5>2. \A g \in run.games : g \in F!Games /\ g \in Nat
          BY <1>0, FindingConstants DEF FindingRun
        <5> QED BY <5>1, <5>2
      <4>3. run.path \in Paths /\ c \in Held /\ run.at \in Nat /\ run.of \in Nat
        BY <1>0, <4>1, ContentHeld DEF FoundInv, LooksRight, RunRight, FindingRun
      <4>4. new \in SUBSET FindingOut
        BY <4>2, <4>3 DEF FindingOut
      <4>5. left \in SUBSET Paths /\ left \subseteq run.left
        BY <1>0 DEF FindingRun
      <4>6. (\A o \in new : o.path = run.path) /\ (\A o, n \in new : o = n)
        BY <4>2
      <4> HIDE DEF c, new, left
      <4>7. now \in FindingRun /\ now.pc = "match" /\ now.out = run.out \cup new /\ now.left = left /\ now.rom = run.rom
        BY <1>0, <4>4, <4>5 DEF FindingRun
      <4> HIDE DEF now
      <4>8. EachOnce(now)
        BY <2>2, <4>1, <4>5, <4>6, <4>7 DEF EachOnce
      <4>9. \A h \in others : Elsewhere(now, found[h].path)
        BY <2>2, <4>1, <4>5, <4>6, <4>7 DEF Elsewhere
      <4> QED BY <4>1, <4>7, <4>8, <4>9
    <3> QED BY <1>2, <3>1, <3>2, <3>3, <3>4, <3>5
  <2> QED BY <1>0, <2>1, <2>2, <2>3, SearchStays
<1> QED BY <1>1, <1>2 DEF FindWorks
\* What a search records: what it found itself leaves what earlier ones found.
LEMMA FindEndsApart ==
  ASSUME FoundInv, FoundApartInv, NEW r \in F!Finds, NEW failed \in BOOLEAN, F!FindEnds(r, failed)
  PROVE  FoundApartInv'
<1>a. overlap' = overlap
  BY DEF F!FindEnds
<1> SUFFICES ASSUME OneSearch, SearchApart, F!FoundApart, ~overlap PROVE FoundApartInv'
  BY <1>a DEF FoundApartInv
<1> DEFINE run == [runs[r] EXCEPT !.out = IF failed THEN {} ELSE @]
           ended == [F!NoRun EXCEPT !.pc = "done"]
<1>0. FindingTypes /\ runs[r] \in FindingRun
  BY DEF FoundInv, FindingTypes
<1>1. Active(r) /\ (runs[r].pc = "match" \/ failed)
  BY DEF Active, F!FindEnds
<1>2. find.known /\ (\A q \in F!Finds : Active(q) => q = r) /\ EachOnce(runs[r])
  BY <1>1 DEF OneSearch, SearchApart
<1>3. found' = F!Recorded(run) /\ runs' = [runs EXCEPT ![r] = ended]
  BY <1>2 DEF F!FindEnds
<1>4. /\ run.rom = runs[r].rom /\ run.out \subseteq runs[r].out /\ run.out \subseteq FindingOut
      /\ (failed => run.out = {})
  BY <1>0 DEF FindingRun
<1>5. ended.pc = "done"
  BY NothingTyped DEF FindingRun
<1>6. \A q \in F!Finds : runs'[q] = IF q = r THEN ended ELSE runs[q]
  BY <1>0, <1>3 DEF FindingTypes
<1>7. \A q \in F!Finds : ~Active(q)'
  BY <1>2, <1>5, <1>6 DEF Active
<1>8. OneSearch' /\ SearchApart'
  BY <1>5, <1>6, <1>7 DEF OneSearch, SearchApart
<1> HIDE DEF run, ended
<1>9. ASSUME NEW g \in F!Games, found'[g] # F!NotFound
      PROVE  \/ \E o \in run.out : o.game = g /\ found'[g].path = o.path
             \/ run.rom \notin {0, g} /\ found'[g] = found[g]
  <2>1. CASE \E o \in run.out : o.game = g
    <3> DEFINE o == CHOOSE o \in run.out : o.game = g
               f == [path |-> o.path, at |-> o.at, holds |-> o.holds, of |-> o.of]
    <3>1. found'[g] = f
      BY <1>3, <2>1 DEF F!Recorded
    <3>2. o \in run.out /\ o.game = g
      BY <2>1
    <3> HIDE DEF o
    <3>3. found'[g].path = o.path
      BY <3>1
    <3> QED BY <3>2, <3>3
  <2>2. CASE ~\E o \in run.out : o.game = g
    <3>1. found'[g] = IF run.rom \in {0, g} THEN F!NotFound ELSE found[g]
      BY <1>3, <2>2 DEF F!Recorded
    <3> QED BY <1>9, <3>1
  <2> QED BY <2>1, <2>2
<1>10. \A o \in run.out : o.path \in Paths
  BY <1>4 DEF FindingOut
<1>11. ASSUME NEW h \in F!Games, run.rom \notin {0, h}, found[h] # F!NotFound, NEW o \in run.out
       PROVE  o.path # found[h].path
  <2>1. ~failed /\ o \in runs[r].out
    BY <1>4, <1>11
  <2>2. Elsewhere(runs[r], found[h].path)
    BY <1>1, <1>4, <1>11, <2>1 DEF SearchApart
  <2> QED BY <2>1, <2>2 DEF Elsewhere
<1>12. ASSUME NEW g \in F!Games, NEW h \in F!Games, g # h, found'[g] # F!NotFound, found'[h] # F!NotFound
       PROVE  found'[g].path # found'[h].path
  <2>1. CASE /\ \E o \in run.out : o.game = g /\ found'[g].path = o.path
             /\ \E o \in run.out : o.game = h /\ found'[h].path = o.path
    BY <1>2, <1>4, <1>12, <2>1 DEF EachOnce
  <2>2. CASE \E o \in run.out : o.game = g /\ found'[g].path = o.path
    BY <1>9, <1>11, <1>12, <2>1, <2>2
  <2>3. CASE \E o \in run.out : o.game = h /\ found'[h].path = o.path
    BY <1>9, <1>11, <1>12, <2>1, <2>3
  <2>4. CASE found'[g] = found[g] /\ found'[h] = found[h]
    BY <1>12, <2>4 DEF F!FoundApart
  <2> QED BY <1>9, <1>12, <2>2, <2>3, <2>4
<1>13. ASSUME NEW g \in F!Games, found'[g] # F!NotFound PROVE found'[g].path \in Paths
  <2>1. found[g] # F!NotFound => found[g].path \in Paths
    BY DEF FoundInv, LooksRight, Right
  <2> QED BY <1>9, <1>10, <1>13, <2>1
<1>14. F!FoundApart'
  <2> SUFFICES ASSUME NEW g \in F!Games, NEW h \in F!Games, g # h, found'[g] # F!NotFound
      PROVE  found'[g].path # found'[h].path
    BY DEF F!FoundApart
  <2> QED BY <1>12, <1>13, NothingTyped, FindingConstants
<1> QED BY <1>8, <1>14 DEF FoundApartInv

\* A change of server forgets what was found; a search it finds under way outlives its server.
LEMMA ForgetApart ==
  ASSUME FoundInv, FoundApartInv, F!ForgetFinds
  PROVE  FoundApartInv'
<1> SUFFICES ASSUME ~overlap' PROVE OneSearch' /\ SearchApart' /\ F!FoundApart'
  BY DEF FoundApartInv
<1>1. ~overlap /\ UNCHANGED runs /\ (\A r \in F!Finds : ~Active(r)) /\ \A g \in F!Games : found'[g] = F!NotFound
  BY DEF F!ForgetFinds, Active
<1>2. \A r \in F!Finds : ~Active(r)'
  BY <1>1 DEF Active
<1>3. OneSearch' /\ SearchApart'
  BY <1>1, <1>2 DEF OneSearch, SearchApart, FoundApartInv
<1>4. F!FoundApart'
  BY <1>1 DEF F!FoundApart
<1> QED BY <1>3, <1>4

LEMMA ApartKeeps == FoundInv /\ FoundApartInv /\ [F!Next]_(F!vars) => FoundApartInv'
<1> SUFFICES ASSUME FoundInv, FoundApartInv, [F!Next]_(F!vars) PROVE FoundApartInv'
  OBVIOUS
<1>0. /\ find \in [known : BOOLEAN, running : BOOLEAN, adopting : BOOLEAN, failed : BOOLEAN]
      /\ found \in [F!Games -> [path : Entry, at : Nat, holds : Held, of : Nat]]
  BY DEF FoundInv, FindingTypes
<1> DEFINE Still == /\ UNCHANGED <<runs, overlap>> /\ (find.known => find'.known) /\ find'.running = find.running
                    /\ \A g \in F!Games : found'[g] \in {found[g], F!NotFound}
<1>a. Still => FoundApartInv'
  BY ApartStays
<1>1. CASE UNCHANGED F!vars
  <2>1. UNCHANGED <<runs, overlap, find, found>>
    BY <1>1 DEF F!vars, F!memory
  <2> QED BY <1>a, <2>1
<1>2. CASE F!User
  <2>1. ASSUME NEW p \in Paths, NEW c \in Contents, F!Write(p, c) PROVE Still
    BY <2>1 DEF F!Write, F!memory
  <2>2. ASSUME NEW p \in Paths, NEW q \in Paths, F!Rename(p, q) PROVE Still
    BY <2>2 DEF F!Rename, F!memory
  <2>3. ASSUME NEW g \in F!Games, F!Uninstall(g) \/ F!CheckOnDeck(g) PROVE Still
    BY <2>3 DEF F!Uninstall, F!CheckOnDeck, F!memory
  <2>4. ASSUME NEW r \in F!Finds, NEW g \in F!Games \cup {0}, F!StartFind(r, g) PROVE FoundApartInv'
    BY <2>4, FindWorksApart DEF FindWorks
  <2>5. ASSUME NEW u \in Callers, F!AdoptFound(u) PROVE Still
    BY <1>0, <2>5 DEF F!AdoptFound
  <2>6. ASSUME NEW u \in Callers, NEW g \in F!Games,
               F!Adopt(u, g) \/ F!Link(u, g) \/ \E what \in {"unlink", "stop"} : F!Release(u, what, g)
        PROVE  Still
    BY <2>6 DEF F!Adopt, F!Link, F!Release, F!memory
  <2>7. CASE F!Forget
    BY <2>7, <1>a DEF F!Forget, F!memory
  <2> HIDE DEF Still
  <2> QED BY <1>2, <1>a, <2>1, <2>2, <2>3, <2>4, <2>5, <2>6, <2>7 DEF F!User
<1>3. CASE F!Backend
  <2>1. ASSUME NEW r \in F!Finds, F!Run(r) PROVE FoundApartInv'
    BY <2>1, FindWorksApart, FindEndsApart DEF F!Run, FindWorks
  <2>2. ASSUME NEW j \in F!Checks, F!Compare(j) PROVE Still
    BY <2>2 DEF F!Compare, F!CompareAsks, F!CompareFails, F!CompareStats, F!CompareHashes
  <2>3. ASSUME NEW u \in Callers, F!Call(u) PROVE Still
    <3>1. CASE \/ (\E j \in F!Checks : F!AdoptJob(u, j)) \/ F!AdoptRefused(u) \/ F!AdoptCurrent(u) \/ F!AdoptSaves(u)
               \/ F!AdoptUnlinks(u) \/ F!AdoptNext(u) \/ F!LinkSaves(u) \/ F!ReleaseDrops(u) \/ F!ReleaseClears(u)
      <4>1. UNCHANGED <<runs, overlap, find, found>>
        BY <3>1 DEF F!AdoptJob, F!AdoptRefused, F!AdoptCurrent, F!AdoptSaves, F!AdoptUnlinks, F!AdoptNext,
             F!LinkSaves, F!ReleaseDrops, F!ReleaseClears, F!memory
      <4> QED BY SMTT(60), <4>1
    <3>2. CASE F!AdoptClears(u)
      BY <1>0, <3>2 DEF F!AdoptClears
    <3>3. CASE F!AdoptedAll(u)
      BY <1>0, <3>3 DEF F!AdoptedAll
    <3> QED BY <2>3, <3>1, <3>2, <3>3 DEF F!Call
  <2> HIDE DEF Still
  <2> QED BY <1>3, <1>a, <2>1, <2>2, <2>3, ForgetApart DEF F!Backend
<1> QED BY <1>1, <1>2, <1>3 DEF F!Next

LEMMA FindingInvariant == PartsSpec => [](whose = "finding" => FindingInv)
<1> DEFINE Holding == whose = "finding" => FindingInv
<1>1. PartsInit => Holding
  BY FindingInit DEF PartsInit
<1>2. Holding /\ [PartsNext]_partsVars => Holding'
  <2> SUFFICES ASSUME Holding, [PartsNext]_partsVars, whose' = "finding" PROVE FindingInv'
    OBVIOUS
  <2>1. whose = "finding"
    BY DEF PartsNext, partsVars, Relay, Find, Transfer, Update, Firm, Store, Lay, Make
  <2>2. [F!Next]_(F!vars)
    BY <2>1, FindingSteps
  <2> QED BY <2>1, <2>2, FoundKeeps, ApartKeeps DEF FindingInv
<1> QED BY <1>1, <1>2, PTL DEF PartsSpec

\* Whatever the user writes, moves and deletes, whoever searches, checks, adopts and releases beside it:
\* the file a record lists holds what the server it was compared with has for the game, unless a file
\* came back to where it was looked at before another was hashed there (ondeck.go Adopt, onDeckJob.stale).
THEOREM AdoptedTrueHolds == PartsSpec => []AdoptedTrue
<1>1. (whose = "finding" => FindingInv) => AdoptedTrue
  <2> SUFFICES ASSUME FoundInv, ~back, NEW g \in F!Games, F!Owned(g)
      PROVE  F!Content(owned[g].at) = Holds[owned[g].of][g]
    BY DEF AdoptedTrue, F!AdoptedTrue, FindingInv
  <2>1. owned[g].at \in 1 .. Len(wrote) /\ wrote[owned[g].at] = Holds[owned[g].of][g]
    BY DEF FoundInv, OwnedRight
  <2>2. owned[g].at # 0
    BY <2>1
  <2> QED BY <2>1, <2>2 DEF F!Content
<1> QED BY <1>1, FindingInvariant, PTL

\* No entry is found for two games: a search leaves what earlier ones found of the games it doesn't look
\* for, so long as no search outlives its server (find.go findIn, runFind).
THEOREM FoundApartHolds == PartsSpec => []FoundApart
<1>1. (whose = "finding" => FindingInv) => FoundApart
  BY DEF FoundApart, F!FoundApart, FindingInv, FoundApartInv
<1> QED BY <1>1, FindingInvariant, PTL
-----------------------------------------------------------------------------
(* Room: sums over the batch. *)

\* A step of Room's behaviours is a step of Room.
LEMMA RoomSteps ==
  ASSUME whose = "room", [PartsNext]_partsVars
  PROVE  whose' = whose /\ [R!Next]_(R!vars)
BY DEF PartsNext, partsVars, Relay, Find, Transfer, Update, Firm, Store, Lay, Make, room, R!vars

Last == Len(Order)
LEMMA RoomConstants ==
  /\ Last \in Nat /\ (\A i \in 1 .. Last : Order[i] \in R!Games)
  /\ (\A i, j \in 1 .. Last : Order[i] = Order[j] => i = j) /\ \A g \in R!Games : \E i \in 1 .. Last : Order[i] = g
  /\ (\A g \in R!Games : Sizes[g] \in Nat) /\ (\A d \in R!Drives : Capacity[d] \in Nat) /\ spaceMargin \in Nat
BY SMTT(60), RoomAssumptions DEF R!Assumptions, R!Games, Last

\* What the values in v of the first games add up to.
SumsOf(v, s) ==
  /\ s \in [0 .. Last -> Int] /\ s[0] = 0
  /\ \A i \in 1 .. Last : s[i] = s[i - 1] + v[Order[i]]

LEMMA SumsExist ==
  ASSUME NEW v \in [R!Games -> Int]
  PROVE  \E s : SumsOf(v, s)
<1> DEFINE Upto(n, s) == /\ s \in [0 .. n -> Int] /\ s[0] = 0
                         /\ \A i \in 1 .. n : s[i] = s[i - 1] + v[Order[i]]
           Without == {n \in 0 .. Last : ~\E s : Upto(n, s)}
<1>1. ASSUME Without # {} PROVE FALSE
  <2>1. Without \in SUBSET Nat
    BY RoomConstants
  <2>2. PICK n \in Without : \A k \in Without : n <= k
    BY <1>1, <2>1, HasLeast
  <2>3. n # 0
    <3>1. Upto(0, [i \in 0 .. 0 |-> 0])
      OBVIOUS
    <3> QED BY <3>1, <2>2
  <2>a. n \in 0 .. Last
    BY <2>2
  <2>4. n \in 1 .. Last /\ n - 1 \in 0 .. Last /\ ~(n <= n - 1) /\ n - 1 \in Nat /\ n \in Nat
    BY <2>a, <2>3, RoomConstants
  <2> HIDE DEF Without
  <2>b. n - 1 \notin Without
    BY <2>2, <2>4
  <2> USE DEF Without
  <2>5. PICK s : Upto(n - 1, s)
    BY <2>4, <2>b
  <2> DEFINE t == [i \in 0 .. n |-> IF i = n THEN s[n - 1] + v[Order[n]] ELSE s[i]]
  <2>6. s[n - 1] + v[Order[n]] \in Int
    BY <2>4, <2>5, RoomConstants
  <2>7. t \in [0 .. n -> Int] /\ t[0] = 0
    BY <2>3, <2>4, <2>5, <2>6
  <2>8. ASSUME NEW i \in 1 .. n PROVE t[i] = t[i - 1] + v[Order[i]]
    BY <2>4, <2>5
  <2>9. Upto(n, t)
    BY <2>7, <2>8
  <2> QED BY <2>2, <2>9
<1>2. \E s : Upto(Last, s)
  BY <1>1, RoomConstants
<1> QED BY <1>2 DEF SumsOf

\* Total is the last of them.
LEMMA TotalSums ==
  ASSUME NEW v \in [R!Games -> Int]
  PROVE  \E s : SumsOf(v, s) /\ R!Total(v) = s[Last]
<1>1. PICK s : SumsOf(v, s)
  BY SumsExist
<1> DEFINE Step(x) == [i \in 0 .. Last |-> IF i = 0 THEN 0 ELSE x[i - 1] + v[Order[i]]]
           sum == CHOOSE x : x = Step(x)
<1>2. s = Step(s)
  <2>1. \A i \in 0 .. Last : s[i] = Step(s)[i]
    BY <1>1, RoomConstants DEF SumsOf
  <2> QED BY <1>1, <2>1 DEF SumsOf
<1>3. sum = Step(sum)
  BY <1>2
<1>4. R!Total(v) = sum[Last]
  BY DEF R!Total, Last
<1> HIDE DEF sum
<1> DEFINE Differ == {i \in 0 .. Last : sum[i] # s[i]}
<1>5. ASSUME Differ # {} PROVE FALSE
  <2>1. Differ \in SUBSET Nat
    BY RoomConstants
  <2>2. PICK n \in Differ : \A k \in Differ : n <= k
    BY <1>5, <2>1, HasLeast
  <2>3. n # 0
    BY <1>1, <1>3, <2>2, RoomConstants DEF SumsOf
  <2>4. n \in 1 .. Last /\ n - 1 \in 0 .. Last /\ n - 1 \notin Differ
    BY <2>2, <2>3, RoomConstants
  <2>5. sum[n] = sum[n - 1] + v[Order[n]] /\ s[n] = s[n - 1] + v[Order[n]]
    BY <1>1, <1>3, <2>4, RoomConstants DEF SumsOf
  <2> QED BY <2>2, <2>4, <2>5
<1>6. sum[Last] = s[Last]
  BY <1>5, RoomConstants
<1> QED BY <1>1, <1>4, <1>6

LEMMA TotalType ==
  ASSUME NEW v \in [R!Games -> Int]
  PROVE  R!Total(v) \in Int
BY TotalSums, RoomConstants DEF SumsOf

\* A total changes by as much as one of its values.
LEMMA TotalChanges ==
  ASSUME NEW v \in [R!Games -> Int], NEW w \in [R!Games -> Int], NEW g \in R!Games,
         \A h \in R!Games \ {g} : w[h] = v[h]
  PROVE  R!Total(w) = R!Total(v) + w[g] - v[g]
<1>1. PICK s : SumsOf(v, s) /\ R!Total(v) = s[Last]
  BY TotalSums
<1>2. PICK t : SumsOf(w, t) /\ R!Total(w) = t[Last]
  BY TotalSums
<1>3. PICK k \in 1 .. Last : Order[k] = g
  BY RoomConstants
<1> DEFINE by(i) == IF k <= i THEN w[g] - v[g] ELSE 0
           Differ == {i \in 0 .. Last : t[i] # s[i] + by(i)}
<1>4. ASSUME Differ # {} PROVE FALSE
  <2>1. Differ \in SUBSET Nat
    BY RoomConstants
  <2>2. PICK n \in Differ : \A i \in Differ : n <= i
    BY <1>4, <2>1, HasLeast
  <2>3. n # 0
    BY <1>1, <1>2, <2>2, RoomConstants DEF SumsOf
  <2>4. n \in 1 .. Last /\ n - 1 \in 0 .. Last /\ n - 1 \notin Differ /\ Order[n] \in R!Games
    BY <2>2, <2>3, RoomConstants
  <2>5. t[n] = t[n - 1] + w[Order[n]] /\ s[n] = s[n - 1] + v[Order[n]] /\ t[n - 1] = s[n - 1] + by(n - 1)
    BY <1>1, <1>2, <2>4 DEF SumsOf
  <2>6. s[n - 1] \in Int /\ v[Order[n]] \in Int /\ w[Order[n]] \in Int /\ w[g] \in Int /\ v[g] \in Int
    BY <1>1, <2>4 DEF SumsOf
  <2>7. CASE n = k
    BY <1>3, <2>2, <2>4, <2>5, <2>6, <2>7
  <2>8. CASE n # k
    <3>1. Order[n] # g
      BY <1>3, <2>4, <2>8, RoomConstants
    <3>2. w[Order[n]] = v[Order[n]]
      BY <2>4, <3>1
    <3>3. by(n) = by(n - 1)
      BY <2>4, <2>8, RoomConstants
    <3> QED BY <2>2, <2>4, <2>5, <2>6, <3>2, <3>3
  <2> QED BY <2>7, <2>8
<1>5. t[Last] = s[Last] + by(Last)
  BY <1>4, RoomConstants
<1>6. by(Last) = w[g] - v[g] /\ s[Last] \in Int /\ w[g] \in Int /\ v[g] \in Int
  BY <1>1, <1>3, RoomConstants DEF SumsOf
<1> QED BY <1>1, <1>2, <1>5, <1>6

\* A total is no more than one of values that are no less.
LEMMA TotalGrows ==
  ASSUME NEW v \in [R!Games -> Int], NEW w \in [R!Games -> Int], \A g \in R!Games : v[g] <= w[g]
  PROVE  R!Total(v) <= R!Total(w)
<1>1. PICK s : SumsOf(v, s) /\ R!Total(v) = s[Last]
  BY TotalSums
<1>2. PICK t : SumsOf(w, t) /\ R!Total(w) = t[Last]
  BY TotalSums
<1> DEFINE Above == {i \in 0 .. Last : ~(s[i] <= t[i])}
<1>3. ASSUME Above # {} PROVE FALSE
  <2>1. Above \in SUBSET Nat
    BY RoomConstants
  <2>2. PICK n \in Above : \A i \in Above : n <= i
    BY <1>3, <2>1, HasLeast
  <2>3. n # 0
    BY <1>1, <1>2, <2>2, RoomConstants DEF SumsOf
  <2>4. n \in 1 .. Last /\ n - 1 \in 0 .. Last /\ n - 1 \notin Above /\ Order[n] \in R!Games
    BY <2>2, <2>3, RoomConstants
  <2>5. t[n] = t[n - 1] + w[Order[n]] /\ s[n] = s[n - 1] + v[Order[n]] /\ s[n - 1] <= t[n - 1]
    BY <1>1, <1>2, <2>4 DEF SumsOf
  <2>6. s[n - 1] \in Int /\ t[n - 1] \in Int /\ v[Order[n]] \in Int /\ w[Order[n]] \in Int
    BY <1>1, <1>2, <2>4 DEF SumsOf
  <2> QED BY <2>2, <2>4, <2>5, <2>6
<1> QED BY <1>1, <1>2, <1>3, RoomConstants

\* The total of sums is the sum of the totals.
LEMMA TotalAdds ==
  ASSUME NEW u \in [R!Games -> Int], NEW v \in [R!Games -> Int], NEW w \in [R!Games -> Int],
         \A g \in R!Games : w[g] = u[g] + v[g]
  PROVE  R!Total(w) = R!Total(u) + R!Total(v)
<1>1. PICK r : SumsOf(u, r) /\ R!Total(u) = r[Last]
  BY TotalSums
<1>2. PICK s : SumsOf(v, s) /\ R!Total(v) = s[Last]
  BY TotalSums
<1>3. PICK t : SumsOf(w, t) /\ R!Total(w) = t[Last]
  BY TotalSums
<1> DEFINE Differ == {i \in 0 .. Last : t[i] # r[i] + s[i]}
<1>4. ASSUME Differ # {} PROVE FALSE
  <2>1. Differ \in SUBSET Nat
    BY RoomConstants
  <2>2. PICK n \in Differ : \A i \in Differ : n <= i
    BY <1>4, <2>1, HasLeast
  <2>3. n # 0
    BY <1>1, <1>2, <1>3, <2>2, RoomConstants DEF SumsOf
  <2>4. n \in 1 .. Last /\ n - 1 \in 0 .. Last /\ n - 1 \notin Differ /\ Order[n] \in R!Games
    BY <2>2, <2>3, RoomConstants
  <2>5. /\ t[n] = t[n - 1] + w[Order[n]] /\ s[n] = s[n - 1] + v[Order[n]] /\ r[n] = r[n - 1] + u[Order[n]]
        /\ t[n - 1] = r[n - 1] + s[n - 1] /\ w[Order[n]] = u[Order[n]] + v[Order[n]]
    BY <1>1, <1>2, <1>3, <2>4 DEF SumsOf
  <2>6. s[n - 1] \in Int /\ r[n - 1] \in Int /\ v[Order[n]] \in Int /\ u[Order[n]] \in Int
    BY <1>1, <1>2, <2>4 DEF SumsOf
  <2> QED BY <2>2, <2>4, <2>5, <2>6
<1> QED BY <1>1, <1>2, <1>3, <1>4, RoomConstants
-----------------------------------------------------------------------------
(* Room: the inductive invariant. *)

RoomCall == [at : {"idle", "plan", "next", "measure", "add"}, todo : Seq(R!Games), ahead : Int, changed : BOOLEAN]
RoomTypes ==
  /\ job \in [R!Games -> {"none", "queued", "unpacked", "failed", "installed"}]
  /\ received \in [R!Games -> Nat] /\ staged \in [R!Games -> Nat] /\ other \in [R!Drives -> Nat]
  /\ \A g \in R!Games : received[g] <= staged[g] /\ staged[g] <= Sizes[g]
  /\ call \in [Calls -> RoomCall] /\ alone \in BOOLEAN
  /\ \A c \in Calls : call[c].at \in {"next", "measure", "add"} => call[c].todo # <<>>

\* What is extracted is all there, and nothing is left of what isn't in the queue.
StagedRight ==
  \A g \in R!Games :
    /\ job[g] \in {"none", "installed"} => staged[g] = 0
    /\ job[g] = "unpacked" => staged[g] = Sizes[g]

\* The room there is, and what is extracted beside its archive.
Spare == R!Free("main") + R!contents
\* A call that goes on alone has added up no less than the queue and its game have still to come, and has
\* found room for it once it measured.
Added(c) == R!coming + Sizes[Head(call[c].todo)] - staged[Head(call[c].todo)]
OneCall ==
  /\ \A c, d \in Calls : call[c].at # "idle" /\ call[d].at # "idle" => c = d
  /\ \A c \in Calls : call[c].at \in {"measure", "add"} => job[Head(call[c].todo)] \in {"none", "failed"}
  /\ \A c \in Calls : call[c].at = "measure" => call[c].ahead >= Added(c)
  /\ \A c \in Calls : call[c].at = "add" => Spare >= Added(c) + spaceMargin
\* A plan counts what the queue has to download, which only a call adds to.
PlanRight == \A c \in Calls : call[c].at = "plan" /\ ~call[c].changed => call[c].ahead >= R!pending

RoomInv == RoomTypes /\ StagedRight /\ PlanRight /\ (alone => OneCall /\ R!Committed)

\* What a game takes of staging's drive but for what is extracted, and has still to come: there, and as
\* the queue knows it.
Taking(g) == staged[g] + (IF job[g] = "installed" /\ g \notin Card THEN Sizes[g] ELSE 0)
Owing(g) == IF job[g] = "queued" THEN Sizes[g] - staged[g] ELSE 0
Awaiting(g) == IF job[g] = "queued" THEN Sizes[g] - received[g] ELSE 0
Takes == [g \in R!Games |-> Taking(g)]
Owes == [g \in R!Games |-> Owing(g)]
Awaits == [g \in R!Games |-> Awaiting(g)]

RoomSummed ==
  /\ Takes \in [R!Games -> Int] /\ Owes \in [R!Games -> Int] /\ Awaits \in [R!Games -> Int]
  /\ R!coming = R!Total(Owes) /\ R!pending = R!Total(Awaits)
  /\ Spare = Capacity["main"] - other["main"] - R!Total(Takes)
  /\ R!coming \in Int /\ R!pending \in Int /\ Spare \in Int /\ R!coming <= R!pending
LEMMA RoomSums == RoomTypes => RoomSummed
<1> SUFFICES ASSUME RoomTypes PROVE RoomSummed
  OBVIOUS
<1>1. Takes \in [R!Games -> Int] /\ Owes \in [R!Games -> Int] /\ Awaits \in [R!Games -> Int]
  BY RoomConstants DEF RoomTypes, Takes, Owes, Awaits, Taking, Owing, Awaiting
<1>2. R!coming = R!Total(Owes) /\ R!pending = R!Total(Awaits)
  BY DEF R!coming, R!pending, Owes, Owing, Awaits, Awaiting
<1>3. R!Total(Takes) \in Int /\ R!Total(Owes) \in Int /\ R!Total(Awaits) \in Int
  BY <1>1, TotalType
<1>4. Spare = Capacity["main"] - other["main"] - R!Total(Takes)
  <2> DEFINE main == [g \in R!Games |-> R!OnMain(g)]
             beside == [g \in R!Games |-> IF job[g] = "unpacked" THEN Sizes[g] ELSE 0]
  <2>1. main \in [R!Games -> Int] /\ beside \in [R!Games -> Int]
    BY RoomConstants DEF RoomTypes, R!OnMain
  <2>2. \A g \in R!Games : main[g] = Takes[g] + beside[g]
    BY RoomConstants DEF RoomTypes, R!OnMain, Takes, Taking
  <2>3. R!Free("main") = Capacity["main"] - other["main"] - R!Total(main)
    BY DEF R!Free
  <2>4. R!contents = R!Total(beside)
    BY DEF R!contents
  <2> HIDE DEF main, beside
  <2>5. R!Total(main) = R!Total(Takes) + R!Total(beside) /\ R!Total(beside) \in Int /\ R!Total(main) \in Int
    BY <1>1, <2>1, <2>2, TotalAdds, TotalType
  <2>6. Capacity["main"] \in Int /\ other["main"] \in Int
    BY RoomConstants DEF RoomTypes, R!Drives
  <2> QED BY <1>3, <2>3, <2>4, <2>5, <2>6 DEF Spare
<1>5. Capacity["main"] \in Int /\ other["main"] \in Int
  BY RoomConstants DEF RoomTypes, R!Drives
<1>6. \A g \in R!Games : Owes[g] <= Awaits[g]
  BY RoomConstants DEF RoomTypes, Owes, Owing, Awaits, Awaiting
<1>7. R!Total(Owes) <= R!Total(Awaits)
  BY <1>1, <1>6, TotalGrows
<1> QED BY <1>1, <1>2, <1>3, <1>4, <1>5, <1>7 DEF RoomSummed

LEMMA RoomInit == R!Init => RoomInv
<1> SUFFICES ASSUME R!Init PROVE RoomInv
  OBVIOUS
<1>1. R!Idle \in RoomCall /\ R!Idle.at = "idle"
  <2>1. <<>> \in Seq(R!Games)
    OBVIOUS
  <2> QED BY <2>1 DEF R!Idle, RoomCall
<1>2. RoomTypes /\ StagedRight /\ PlanRight
  BY <1>1, RoomConstants DEF R!Init, RoomTypes, StagedRight, PlanRight
<1>3. R!coming = R!coming + R!coming
  <2>1. \A g \in R!Games : Owes[g] = Owes[g] + Owes[g]
    BY DEF R!Init, Owes, Owing
  <2>2. Owes \in [R!Games -> Int] /\ R!coming = R!Total(Owes)
    BY <1>2, RoomSums DEF RoomSummed
  <2> QED BY <2>1, <2>2, TotalAdds
<1>4. R!Committed
  BY <1>2, <1>3, RoomSums DEF R!Committed, RoomSummed
<1>5. OneCall
  BY <1>1 DEF R!Init, OneCall
<1> QED BY <1>2, <1>4, <1>5 DEF RoomInv

\* The totals follow the one game that changes,
LEMMA OneChanges ==
  ASSUME RoomTypes, RoomTypes', NEW g \in R!Games, UNCHANGED other,
         \A h \in R!Games \ {g} : job'[h] = job[h] /\ received'[h] = received[h] /\ staged'[h] = staged[h]
  PROVE  /\ Spare' = Spare + Taking(g) - Taking(g)'
         /\ R!coming' = R!coming + Owing(g)' - Owing(g)
         /\ R!pending' = R!pending + Awaiting(g)' - Awaiting(g)
<1>a. RoomSummed /\ RoomSummed'
  BY RoomSums, PTL
<1>1. /\ Takes' \in [R!Games -> Int] /\ Owes' \in [R!Games -> Int] /\ Awaits' \in [R!Games -> Int]
      /\ R!coming' = R!Total(Owes') /\ R!pending' = R!Total(Awaits')
      /\ Spare' = Capacity["main"] - other'["main"] - R!Total(Takes')
  BY <1>a DEF RoomSummed
<1>2. \A h \in R!Games \ {g} : Takes'[h] = Takes[h] /\ Owes'[h] = Owes[h] /\ Awaits'[h] = Awaits[h]
  BY DEF Takes, Taking, Owes, Owing, Awaits, Awaiting
<1>3. /\ Takes[g] = Taking(g) /\ Owes[g] = Owing(g) /\ Awaits[g] = Awaiting(g)
      /\ Takes'[g] = Taking(g)' /\ Owes'[g] = Owing(g)' /\ Awaits'[g] = Awaiting(g)'
  BY DEF Takes, Owes, Awaits
<1>4. /\ R!Total(Takes') = R!Total(Takes) + Takes'[g] - Takes[g]
      /\ R!Total(Owes') = R!Total(Owes) + Owes'[g] - Owes[g]
      /\ R!Total(Awaits') = R!Total(Awaits) + Awaits'[g] - Awaits[g]
  BY <1>a, <1>1, <1>2, TotalChanges DEF RoomSummed
<1>5. Capacity["main"] \in Int /\ other["main"] \in Int /\ R!Total(Takes) \in Int
  BY SMTT(60), <1>a, RoomConstants, TotalType DEF RoomSummed, RoomTypes, R!Drives
<1>6. Takes[g] \in Int /\ Takes'[g] \in Int
  BY <1>a, <1>1 DEF RoomSummed
<1> QED BY <1>1, <1>3, <1>4, <1>5, <1>6, <1>a DEF RoomSummed

\* and stay when none does.
LEMMA NoneChanges ==
  ASSUME RoomTypes, UNCHANGED <<job, received, staged, other>>
  PROVE  Spare' = Spare /\ R!coming' = R!coming /\ R!pending' = R!pending
BY DEF Spare, R!Free, R!OnMain, R!OnCard, R!contents, R!coming, R!pending

LEMMA Shifted == \A s, t, k, l, m \in Int : s - k <= t - l /\ s >= k + m => t >= l + m
OBVIOUS

\* What the queue took on keeps its room in a step that takes no more of it than there was to come, and
\* the game of a call that measures or adds is no step's but Cancel's and Delete's.
LEMMA QueueKeeps ==
  ASSUME RoomInv, RoomTypes', StagedRight', UNCHANGED call, alone' => alone,
         R!pending' <= R!pending, R!coming' <= R!coming, Spare - R!coming <= Spare' - R!coming',
         \A h \in R!Games :
           job[h] \in {"none", "failed"} =>
             /\ job'[h] \in {"none", "failed"}
             /\ Spare - R!coming + staged[h] <= Spare' - R!coming' + staged'[h]
             /\ \/ staged'[h] = staged[h]
                \/ alone' => \A c \in Calls : call[c].at = "measure" => Head(call[c].todo) # h
  PROVE  RoomInv'
<1>1. RoomTypes /\ RoomSummed /\ RoomSummed'
  BY RoomSums, PTL DEF RoomInv
<1>2. /\ Spare \in Int /\ R!coming \in Int /\ R!pending \in Int /\ spaceMargin \in Int
      /\ Spare' \in Int /\ R!coming' \in Int /\ R!pending' \in Int
  BY <1>1, RoomConstants DEF RoomSummed
<1>3. PlanRight'
  <2> SUFFICES ASSUME NEW c \in Calls, call[c].at = "plan", ~call[c].changed PROVE call[c].ahead >= R!pending'
    BY DEF PlanRight
  <2>1. call[c].ahead \in Int /\ call[c].ahead >= R!pending
    BY <1>1 DEF RoomInv, PlanRight, RoomTypes, RoomCall
  <2> QED BY <1>2, <2>1
<1>4. ASSUME alone' PROVE OneCall' /\ R!Committed'
  <2>1. OneCall /\ R!Committed
    BY <1>4 DEF RoomInv
  <2>2. R!Committed'
    <3>1. R!coming > 0 => Spare >= R!coming + spaceMargin
      BY <1>4, <2>1 DEF R!Committed, Spare
    <3>2. R!coming' > 0 => Spare' >= R!coming' + spaceMargin
      <4> SUFFICES ASSUME R!coming' > 0 PROVE Spare' >= R!coming' + spaceMargin
        OBVIOUS
      <4>1. R!coming > 0
        BY <1>2
      <4>2. Spare >= R!coming + spaceMargin
        BY <3>1, <4>1
      <4> QED BY <1>2, <4>2, Shifted
    <3> QED BY <3>2 DEF R!Committed, Spare
  <2>3. ASSUME NEW c \in Calls, call[c].at \in {"measure", "add"}
        PROVE  /\ job'[Head(call[c].todo)] \in {"none", "failed"}
               /\ call[c].at = "measure" => call[c].ahead >= Added(c)'
               /\ call[c].at = "add" => Spare' >= Added(c)' + spaceMargin
    <3> DEFINE h == Head(call[c].todo)
    <3>1. h \in R!Games /\ call[c].ahead \in Int
      BY <1>1, <2>3 DEF RoomTypes, RoomCall
    <3>2. job[h] \in {"none", "failed"}
      BY <2>1, <2>3 DEF OneCall
    <3>3. /\ call[c].at = "measure" => call[c].ahead >= R!coming + Sizes[h] - staged[h]
          /\ call[c].at = "add" => Spare >= R!coming + Sizes[h] - staged[h] + spaceMargin
      BY <2>1, <2>3 DEF OneCall, Added
    <3>4. Added(c)' = R!coming' + Sizes[h] - staged'[h]
      BY DEF Added
    <3>5. Sizes[h] \in Int /\ staged[h] \in Int /\ staged'[h] \in Int
      BY <1>1, <3>1, RoomConstants DEF RoomTypes
    <3>6. /\ job'[h] \in {"none", "failed"}
          /\ Spare - R!coming + staged[h] <= Spare' - R!coming' + staged'[h]
          /\ staged'[h] = staged[h] \/ call[c].at # "measure"
      BY <1>4, <3>1, <3>2
    <3> HIDE DEF h
    <3>7. call[c].at = "measure" => call[c].ahead >= Added(c)'
      BY <1>2, <3>1, <3>3, <3>4, <3>5, <3>6
    <3>8. call[c].at = "add" => Spare' >= Added(c)' + spaceMargin
      BY <1>2, <3>3, <3>4, <3>5, <3>6
    <3> QED BY <3>6, <3>7, <3>8 DEF h
  <2>4. OneCall'
    BY <2>1, <2>3 DEF OneCall
  <2> QED BY <2>2, <2>4
<1> QED BY <1>3, <1>4 DEF RoomInv
\* A step of one download: what its game takes and has still to come doesn't grow.
LEMMA GameKeeps ==
  ASSUME RoomInv, RoomTypes', StagedRight', NEW g \in R!Games, UNCHANGED <<other, call>>, alone' => alone,
         \A h \in R!Games \ {g} : job'[h] = job[h] /\ received'[h] = received[h] /\ staged'[h] = staged[h],
         Taking(g) \in Int, Owing(g) \in Int, Awaiting(g) \in Int,
         Taking(g)' \in Int, Owing(g)' \in Int, Awaiting(g)' \in Int,
         Awaiting(g)' <= Awaiting(g), Owing(g)' <= Owing(g), Taking(g)' + Owing(g)' <= Taking(g) + Owing(g),
         \/ job[g] \notin {"none", "failed"}
         \/ /\ job'[g] \in {"none", "failed"}
            /\ Taking(g)' + Owing(g)' - staged'[g] <= Taking(g) + Owing(g) - staged[g]
            /\ alone' => \A c \in Calls : call[c].at = "measure" => Head(call[c].todo) # g
  PROVE  RoomInv'
<1>1. RoomTypes /\ RoomSummed /\ RoomSummed'
  BY RoomSums, PTL DEF RoomInv
<1>2. /\ Spare' = Spare + Taking(g) - Taking(g)' /\ R!coming' = R!coming + Owing(g)' - Owing(g)
      /\ R!pending' = R!pending + Awaiting(g)' - Awaiting(g)
  BY <1>1, OneChanges
<1>3. Spare \in Int /\ R!coming \in Int /\ R!pending \in Int
  BY <1>1 DEF RoomSummed
<1>4. R!pending' <= R!pending /\ R!coming' <= R!coming /\ Spare - R!coming <= Spare' - R!coming'
  BY <1>2, <1>3
<1>5. ASSUME NEW h \in R!Games, job[h] \in {"none", "failed"}
      PROVE  /\ job'[h] \in {"none", "failed"}
             /\ Spare - R!coming + staged[h] <= Spare' - R!coming' + staged'[h]
             /\ \/ staged'[h] = staged[h]
                \/ alone' => \A c \in Calls : call[c].at = "measure" => Head(call[c].todo) # h
  <2>1. staged[h] \in Int /\ staged'[h] \in Int
    BY <1>1 DEF RoomTypes
  <2>2. CASE h # g
    BY <1>2, <1>3, <1>5, <2>1, <2>2
  <2>3. CASE h = g
    BY <1>2, <1>3, <1>5, <2>1, <2>3
  <2> QED BY <2>2, <2>3
<1> QED BY <1>4, <1>5, QueueKeeps

LEMMA DownloadingKeeps ==
  ASSUME RoomInv, NEW g \in R!Games, R!Downloading(g)
  PROVE  RoomInv'
<1> DEFINE z == Sizes[g]
           y == staged[g]
           x == received[g]
<1>0. /\ RoomTypes /\ StagedRight /\ z \in Nat /\ x \in Nat /\ y \in Nat /\ x <= y /\ y <= z
      /\ job[g] \in {"none", "queued", "unpacked", "failed", "installed"}
  BY RoomConstants DEF RoomInv, RoomTypes
<1>1. CASE R!Receives(g)
  <2>1. job[g] = "queued" /\ x < z /\ UNCHANGED <<job, other, call, alone>>
    BY <1>1 DEF R!Receives
  <2> DEFINE x2 == IF y > x THEN y ELSE x + 1
             y2 == IF y > x THEN y ELSE y + 1
  <2>2. /\ received' = [received EXCEPT ![g] = x2] /\ staged' = [staged EXCEPT ![g] = y2]
        /\ x2 \in Nat /\ y2 \in Nat /\ x <= x2 /\ x2 <= y2 /\ y <= y2 /\ y2 <= z
    <3>1. CASE y > x
      <4>1. received' = [received EXCEPT ![g] = y] /\ staged' = staged
        BY <1>1, <3>1 DEF R!Receives
      <4>2. staged' = [staged EXCEPT ![g] = y]
        BY <1>0, <4>1 DEF RoomTypes
      <4>3. x2 = y /\ y2 = y
        BY <3>1
      <4> HIDE DEF x2, y2
      <4>4. received' = [received EXCEPT ![g] = x2] /\ staged' = [staged EXCEPT ![g] = y2]
        BY <4>1, <4>2, <4>3
      <4> QED BY <1>0, <4>3, <4>4
    <3>2. CASE ~(y > x)
      <4>1. received' = [received EXCEPT ![g] = x + 1] /\ staged' = [staged EXCEPT ![g] = y + 1]
        BY <1>1, <3>2 DEF R!Receives
      <4> QED BY <1>0, <2>1, <3>2, <4>1
    <3> QED BY <3>1, <3>2
  <2>3. /\ received'[g] = x2 /\ staged'[g] = y2
        /\ \A h \in R!Games \ {g} : received'[h] = received[h] /\ staged'[h] = staged[h]
    BY <1>0, <2>2 DEF RoomTypes
  <2> HIDE DEF x2, y2
  <2>4. RoomTypes' /\ StagedRight'
    BY <1>0, <2>1, <2>2, <2>3 DEF RoomTypes, StagedRight
  <2>5. /\ Taking(g) = y /\ Owing(g) = z - y /\ Awaiting(g) = z - x
        /\ Taking(g)' = y2 /\ Owing(g)' = z - y2 /\ Awaiting(g)' = z - x2
    BY <1>0, <2>1, <2>2, <2>3 DEF Taking, Owing, Awaiting
  <2>6. /\ Taking(g) \in Int /\ Owing(g) \in Int /\ Awaiting(g) \in Int
        /\ Taking(g)' \in Int /\ Owing(g)' \in Int /\ Awaiting(g)' \in Int
        /\ Awaiting(g)' <= Awaiting(g) /\ Owing(g)' <= Owing(g) /\ Taking(g)' + Owing(g)' <= Taking(g) + Owing(g)
    BY <1>0, <2>2, <2>5
  <2> QED BY <2>1, <2>3, <2>4, <2>6, GameKeeps
<1>2. CASE R!Unpacks(g) \/ R!Fails(g)
  <2>1. /\ job[g] \in {"queued", "unpacked"} /\ UNCHANGED <<received, staged, other, call, alone>>
        /\ (job[g] = "queued" /\ x = z => y = z)
    BY <1>0, <1>2 DEF R!Unpacks, R!Fails
  <2>2. PICK now \in {"unpacked", "failed"} : job' = [job EXCEPT ![g] = now] /\ (now = "unpacked" => x = z)
    BY <1>2 DEF R!Unpacks, R!Fails
  <2>3. job'[g] = now /\ \A h \in R!Games \ {g} : job'[h] = job[h]
    BY <1>0, <2>2 DEF RoomTypes
  <2>4. RoomTypes' /\ StagedRight'
    BY <1>0, <2>1, <2>2, <2>3 DEF RoomTypes, StagedRight
  <2>5. /\ Taking(g) = y /\ Owing(g) \in {0, z - y} /\ Awaiting(g) \in {0, z - x}
        /\ Taking(g)' = y /\ Owing(g)' = 0 /\ Awaiting(g)' = 0
    BY <1>0, <2>1, <2>3 DEF Taking, Owing, Awaiting
  <2>6. /\ Taking(g) \in Int /\ Owing(g) \in Int /\ Awaiting(g) \in Int
        /\ Taking(g)' \in Int /\ Owing(g)' \in Int /\ Awaiting(g)' \in Int
        /\ Awaiting(g)' <= Awaiting(g) /\ Owing(g)' <= Owing(g) /\ Taking(g)' + Owing(g)' <= Taking(g) + Owing(g)
    BY <1>0, <2>5
  <2> QED BY <2>1, <2>3, <2>4, <2>6, GameKeeps
<1>3. CASE R!Places(g)
  <2>1. /\ job[g] \in {"queued", "unpacked"} /\ UNCHANGED <<other, call, alone>> /\ y = z /\ x = z
        /\ job' = [job EXCEPT ![g] = "installed"]
        /\ received' = [received EXCEPT ![g] = 0] /\ staged' = [staged EXCEPT ![g] = 0]
    BY <1>0, <1>3 DEF R!Places
  <2>2. /\ job'[g] = "installed" /\ received'[g] = 0 /\ staged'[g] = 0
        /\ \A h \in R!Games \ {g} : job'[h] = job[h] /\ received'[h] = received[h] /\ staged'[h] = staged[h]
    BY <1>0, <2>1 DEF RoomTypes
  <2>3. RoomTypes' /\ StagedRight'
    BY <1>0, <2>1, <2>2 DEF RoomTypes, StagedRight
  <2>4. /\ Taking(g) = y /\ Owing(g) = 0 /\ Awaiting(g) = 0
        /\ Taking(g)' \in {0, z} /\ Owing(g)' = 0 /\ Awaiting(g)' = 0
    BY <1>0, <2>1, <2>2 DEF Taking, Owing, Awaiting
  <2>6. /\ Taking(g) \in Int /\ Owing(g) \in Int /\ Awaiting(g) \in Int
        /\ Taking(g)' \in Int /\ Owing(g)' \in Int /\ Awaiting(g)' \in Int
        /\ Awaiting(g)' <= Awaiting(g) /\ Owing(g)' <= Owing(g) /\ Taking(g)' + Owing(g)' <= Taking(g) + Owing(g)
    BY <1>0, <2>1, <2>4
  <2> QED BY <2>1, <2>2, <2>3, <2>6, GameKeeps
<1>4. CASE R!Goes(g)
  <2>1. /\ UNCHANGED <<other, call>> /\ job' = [job EXCEPT ![g] = "none"]
        /\ received' = [received EXCEPT ![g] = 0] /\ staged' = [staged EXCEPT ![g] = 0]
        /\ alone' = (alone /\ \A c \in Calls : call[c].at = "measure" => Head(call[c].todo) # g)
    BY <1>4 DEF R!Goes
  <2>2. /\ job'[g] = "none" /\ received'[g] = 0 /\ staged'[g] = 0
        /\ \A h \in R!Games \ {g} : job'[h] = job[h] /\ received'[h] = received[h] /\ staged'[h] = staged[h]
    BY <1>0, <2>1 DEF RoomTypes
  <2>3. alone' \in BOOLEAN /\ (alone' => alone)
        /\ (alone' => \A c \in Calls : call[c].at = "measure" => Head(call[c].todo) # g)
    BY <2>1
  <2>4. RoomTypes' /\ StagedRight'
    BY <1>0, <2>1, <2>2, <2>3 DEF RoomTypes, StagedRight
  <2>5. /\ Taking(g) \in {y, y + z} /\ Owing(g) \in {0, z - y} /\ Awaiting(g) \in {0, z - x}
        /\ Taking(g)' = 0 /\ Owing(g)' = 0 /\ Awaiting(g)' = 0
    BY <1>0, <2>2 DEF Taking, Owing, Awaiting
  <2>6. /\ Taking(g) \in Int /\ Owing(g) \in Int /\ Awaiting(g) \in Int
        /\ Taking(g)' \in Int /\ Owing(g)' \in Int /\ Awaiting(g)' \in Int
        /\ Awaiting(g)' <= Awaiting(g) /\ Owing(g)' <= Owing(g) /\ Taking(g)' + Owing(g)' <= Taking(g) + Owing(g)
        /\ Taking(g)' + Owing(g)' - staged'[g] <= Taking(g) + Owing(g) - staged[g]
    BY <1>0, <2>2, <2>5
  <2> QED BY <2>1, <2>2, <2>3, <2>4, <2>6, GameKeeps
<1> QED BY <1>1, <1>2, <1>3, <1>4 DEF R!Downloading
\* A restart leaves what was staged, and nobody calls.
LEMMA RestartKeeps ==
  ASSUME RoomInv, R!Restart
  PROVE  RoomInv'
<1>0. RoomTypes /\ StagedRight
  BY DEF RoomInv
<1>1. /\ received' = [g \in R!Games |-> 0] /\ call' = [c \in Calls |-> R!Idle] /\ UNCHANGED <<staged, other, alone>>
      /\ job' = [g \in R!Games |-> IF job[g] = "unpacked" THEN "queued" ELSE job[g]]
  BY DEF R!Restart
<1>2. R!Idle \in RoomCall /\ R!Idle.at = "idle"
  BY DEF R!Idle, RoomCall
<1>3. RoomTypes' /\ StagedRight'
  BY <1>0, <1>1, <1>2 DEF RoomTypes, StagedRight
<1>4. RoomSummed /\ RoomSummed'
  BY <1>0, <1>3, RoomSums, PTL
<1>5. \A g \in R!Games : Taking(g)' = Taking(g) /\ Owing(g)' = Owing(g)
  BY <1>0, <1>1, RoomConstants DEF RoomTypes, StagedRight, Taking, Owing
<1>6. Takes' = Takes /\ Owes' = Owes
  BY <1>5 DEF Takes, Owes
<1>7. Spare' = Spare /\ R!coming' = R!coming
  BY <1>1, <1>4, <1>6 DEF RoomSummed
<1>8. PlanRight' /\ OneCall'
  BY <1>1, <1>2 DEF PlanRight, OneCall
<1>9. alone' => R!Committed'
  BY <1>1, <1>7 DEF RoomInv, R!Committed, Spare
<1> QED BY <1>3, <1>8, <1>9 DEF RoomInv

\* The user's files: then nothing is promised.
LEMMA UserKeeps ==
  ASSUME RoomInv, NEW d \in R!Drives, R!UserWrites(d)
  PROVE  RoomInv'
<1>1. other' = [other EXCEPT ![d] = @ + 1] /\ alone' = FALSE /\ UNCHANGED <<job, received, staged, call>>
  BY DEF R!UserWrites
<1>a. RoomTypes /\ StagedRight
  BY DEF RoomInv
<1>b. other' \in [R!Drives -> Nat] /\ alone' \in BOOLEAN
  <2>1. other[d] + 1 \in Nat
    BY <1>a DEF RoomTypes
  <2> QED BY <1>1, <1>a, <2>1 DEF RoomTypes
<1>2. RoomTypes' /\ StagedRight'
  BY <1>1, <1>a, <1>b DEF RoomTypes, StagedRight
<1>3. R!pending' = R!pending
  BY <1>1 DEF R!pending
<1> QED BY <1>1, <1>2, <1>3 DEF RoomInv, PlanRight

\* What a call that goes on holds: its game is one that isn't in the queue, counted once it is summed up
\* and found room for once it is measured.
CallRoom(d) ==
  /\ d.at \in {"next", "measure", "add"} => d.todo # <<>>
  /\ d.at = "plan" /\ ~d.changed => d.ahead >= R!pending
  /\ alone /\ d.at \in {"measure", "add"} => job[Head(d.todo)] \in {"none", "failed"}
  /\ alone /\ d.at = "measure" => d.ahead >= R!coming + Sizes[Head(d.todo)] - staged[Head(d.todo)]
  /\ alone /\ d.at = "add" => Spare >= R!coming + Sizes[Head(d.todo)] - staged[Head(d.todo)] + spaceMargin

LEMMA CallingKeeps ==
  ASSUME RoomInv, UNCHANGED <<job, received, staged, other>>, NEW c \in Calls, NEW d \in RoomCall,
         call' = [call EXCEPT ![c] = d], CallRoom(d), alone' \in BOOLEAN, alone' => alone,
         alone' => call[c].at # "idle" \/ \A e \in Calls \ {c} : call[e].at = "idle"
  PROVE  RoomInv'
<1>0. RoomTypes /\ StagedRight
  BY DEF RoomInv
<1>1. \A e \in Calls : call'[e] = IF e = c THEN d ELSE call[e]
  BY <1>0 DEF RoomTypes
<1>2. RoomTypes' /\ StagedRight'
  BY <1>0, <1>1 DEF RoomTypes, StagedRight, CallRoom
<1>3. Spare' = Spare /\ R!coming' = R!coming /\ R!pending' = R!pending
  BY <1>0, NoneChanges
<1>4. PlanRight'
  BY <1>1, <1>3 DEF RoomInv, PlanRight, CallRoom
<1>5. ASSUME alone' PROVE OneCall' /\ R!Committed'
  <2>1. OneCall /\ R!Committed
    BY <1>5 DEF RoomInv
  <2>2. R!Committed'
    BY <1>3, <1>5, <2>1 DEF R!Committed, Spare
  <2>3. \A e, f \in Calls : call'[e].at # "idle" /\ call'[f].at # "idle" => e = f
    BY <1>1, <1>5, <2>1 DEF OneCall
  <2>4. ASSUME NEW e \in Calls
        PROVE  /\ call'[e].at \in {"measure", "add"} => job'[Head(call'[e].todo)] \in {"none", "failed"}
               /\ call'[e].at = "measure" => call'[e].ahead >= Added(e)'
               /\ call'[e].at = "add" => Spare' >= Added(e)' + spaceMargin
    <3>1. CASE e = c
      BY <1>1, <1>3, <1>5, <3>1 DEF CallRoom, Added
    <3>2. CASE e # c
      BY <1>1, <1>3, <2>1, <3>2 DEF OneCall, Added
    <3> QED BY <3>1, <3>2
  <2> QED BY <2>2, <2>3, <2>4 DEF OneCall
<1> QED BY <1>2, <1>4, <1>5 DEF RoomInv
\* What a plan takes: an entry of the batch's order after another.
PlanStep(before, g) ==
  IF g \in R!Missing /\ R!roomFor(g) <= before.left
  THEN [games |-> Append(before.games, g), left |-> before.left - R!roomFor(g)] ELSE before
PlansOf(free, made) ==
  /\ made \in [0 .. Last -> [games : Seq(R!Games), left : Int]] /\ made[0] = [games |-> <<>>, left |-> free]
  /\ \A i \in 1 .. Last : made[i] = PlanStep(made[i - 1], Order[i])

LEMMA RoomNeeds == \A g \in R!Games : R!roomFor(g) \in Nat /\ R!roomFor(g) >= Sizes[g]
BY RoomConstants DEF R!roomFor

LEMMA PlanStepTyped ==
  ASSUME NEW before \in [games : Seq(R!Games), left : Int], NEW g \in R!Games
  PROVE  PlanStep(before, g) \in [games : Seq(R!Games), left : Int]
<1>1. Append(before.games, g) \in Seq(R!Games) /\ before.left - R!roomFor(g) \in Int
  BY RoomNeeds
<1> QED BY <1>1 DEF PlanStep

LEMMA PlansExist ==
  ASSUME NEW free \in Int
  PROVE  \E made : PlansOf(free, made)
<1> DEFINE Plan == [games : Seq(R!Games), left : Int]
           first == [games |-> <<>>, left |-> free]
           Upto(n, s) == s \in [0 .. n -> Plan] /\ s[0] = first /\ \A i \in 1 .. n : s[i] = PlanStep(s[i - 1], Order[i])
           Without == {n \in 0 .. Last : ~\E s : Upto(n, s)}
<1>0. first \in Plan
  <2>1. <<>> \in Seq(R!Games)
    OBVIOUS
  <2> QED BY <2>1
<1>a. \A before \in Plan, g \in R!Games : PlanStep(before, g) \in Plan
  BY PlanStepTyped
<1> HIDE DEF Plan, first
<1>1. ASSUME Without # {} PROVE FALSE
  <2>1. Without \in SUBSET Nat
    BY RoomConstants
  <2>2. PICK n \in Without : \A k \in Without : n <= k
    BY <1>1, <2>1, HasLeast
  <2>3. n # 0
    <3>1. Upto(0, [i \in 0 .. 0 |-> first])
      BY <1>0
    <3> QED BY <3>1, <2>2
  <2>4. n \in 0 .. Last
    BY <2>2
  <2>5. n \in 1 .. Last /\ n - 1 \in 0 .. Last /\ ~(n <= n - 1) /\ n - 1 \in Nat /\ n \in Nat
    BY <2>3, <2>4, RoomConstants
  <2> HIDE DEF Without
  <2>6. n - 1 \notin Without
    BY <2>2, <2>5
  <2> USE DEF Without
  <2>7. PICK s : Upto(n - 1, s)
    BY <2>5, <2>6
  <2> DEFINE next == PlanStep(s[n - 1], Order[n])
             t == [i \in 0 .. n |-> IF i = n THEN next ELSE s[i]]
  <2>8. next \in Plan
    BY <1>a, <2>5, <2>7, RoomConstants
  <2> HIDE DEF next
  <2>9. t \in [0 .. n -> Plan] /\ t[0] = first
    BY <2>3, <2>5, <2>7, <2>8
  <2>10. ASSUME NEW i \in 1 .. n PROVE t[i] = PlanStep(t[i - 1], Order[i])
    <3>1. t[i - 1] = s[i - 1]
      BY <2>5
    <3>2. CASE i = n
      BY <2>5, <3>1, <3>2 DEF next
    <3>3. CASE i # n
      BY <2>5, <2>7, <3>1, <3>3
    <3> QED BY <3>2, <3>3
  <2>11. Upto(n, t)
    BY <2>9, <2>10
  <2> QED BY <2>2, <2>11
<1>2. \E s : Upto(Last, s)
  BY <1>1, RoomConstants
<1> QED BY <1>2 DEF PlansOf, Plan, first

\* Fit is the games of the last of them.
LEMMA FitPlans ==
  ASSUME NEW free \in Int
  PROVE  \E made : PlansOf(free, made) /\ R!Fit(free) = made[Last].games
<1>1. PICK made : PlansOf(free, made)
  BY PlansExist
<1> DEFINE Body(x) ==
             [i \in 0 .. Last |->
                IF i = 0 THEN [games |-> <<>>, left |-> free]
                ELSE IF Order[i] \in R!Missing /\ R!roomFor(Order[i]) <= x[i - 1].left
                     THEN [games |-> Append(x[i - 1].games, Order[i]), left |-> x[i - 1].left - R!roomFor(Order[i])]
                     ELSE x[i - 1]]
           plan == CHOOSE x : x = Body(x)
<1>2. \A x, i : i \in 1 .. Last => Body(x)[i] = PlanStep(x[i - 1], Order[i])
  BY RoomConstants DEF PlanStep
<1>3. \A x : Body(x)[0] = [games |-> <<>>, left |-> free] /\ DOMAIN Body(x) = 0 .. Last
  BY RoomConstants
<1>4. R!Fit(free) = plan[Last].games
  BY DEF R!Fit, Last
<1>5. made = Body(made)
  <2>1. DOMAIN made = 0 .. Last /\ made = [i \in 0 .. Last |-> made[i]] /\ Body(made) = [i \in 0 .. Last |-> Body(made)[i]]
    BY <1>1 DEF PlansOf
  <2>2. ASSUME NEW i \in 0 .. Last PROVE made[i] = Body(made)[i]
    <3>1. CASE i = 0
      BY <1>1, <1>3, <3>1 DEF PlansOf
    <3>2. CASE i \in 1 .. Last
      BY <1>1, <1>2, <3>2 DEF PlansOf
    <3> QED BY <3>1, <3>2, RoomConstants
  <2> HIDE DEF Body
  <2> QED BY <2>1, <2>2
<1> HIDE DEF Body
<1>6. plan = Body(plan)
  BY <1>5
<1> HIDE DEF plan
<1> DEFINE Differ == {i \in 0 .. Last : plan[i] # made[i]}
<1>7. ASSUME Differ # {} PROVE FALSE
  <2>1. Differ \in SUBSET Nat
    BY RoomConstants
  <2>2. PICK n \in Differ : \A k \in Differ : n <= k
    BY <1>7, <2>1, HasLeast
  <2>3. n # 0
    BY <1>1, <1>3, <1>6, <2>2 DEF PlansOf
  <2>4. n \in 1 .. Last /\ n - 1 \in 0 .. Last /\ n - 1 \notin Differ
    BY <2>2, <2>3, RoomConstants
  <2>5. plan[n] = PlanStep(plan[n - 1], Order[n]) /\ made[n] = PlanStep(made[n - 1], Order[n])
    BY <1>1, <1>2, <1>6, <2>4 DEF PlansOf
  <2> QED BY <2>2, <2>4, <2>5
<1>8. plan[Last] = made[Last]
  BY <1>7, RoomConstants
<1> QED BY <1>1, <1>4, <1>8
Among(games) == {games[k] : k \in 1 .. Len(games)}
Needing(games) == [g \in R!Games |-> IF g \in Among(games) THEN R!roomFor(g) ELSE 0]

LEMMA AmongAppended ==
  ASSUME NEW games \in Seq(R!Games), NEW g \in R!Games
  PROVE  Append(games, g) \in Seq(R!Games) /\ Append(games, g) # <<>> /\ Among(Append(games, g)) = Among(games) \cup {g}
<1>1. /\ Append(games, g) \in Seq(R!Games) /\ Len(Append(games, g)) = Len(games) + 1
      /\ Len(games) \in Nat
      /\ \A k \in 1 .. Len(games) + 1 : Append(games, g)[k] = IF k <= Len(games) THEN games[k] ELSE g
  OBVIOUS
<1>2. 1 .. Len(games) + 1 = 1 .. Len(games) \cup {Len(games) + 1}
  BY <1>1
<1>3. Among(Append(games, g)) = Among(games) \cup {g}
  BY <1>1, <1>2 DEF Among
<1>4. Append(games, g) # <<>>
  BY <1>1
<1> QED BY <1>1, <1>3, <1>4

\* A plan is of missing games, which together need what it took of the room there was.
LEMMA FitRight ==
  ASSUME NEW free \in Int
  PROVE  /\ R!Fit(free) \in Seq(R!Games) /\ Among(R!Fit(free)) \subseteq R!Missing
         /\ Among(R!Fit(free)) # {} => R!Total(Needing(R!Fit(free))) <= free
<1>1. PICK made : PlansOf(free, made) /\ R!Fit(free) = made[Last].games
  BY FitPlans
<1> DEFINE Good(i) == /\ \A g \in Among(made[i].games) : g \in R!Missing /\ \E j \in 1 .. i : Order[j] = g
                      /\ R!Total(Needing(made[i].games)) = free - made[i].left
                      /\ Among(made[i].games) # {} => made[i].left >= 0
           Bad == {i \in 0 .. Last : ~Good(i)}
<1>2. \A games : Needing(games) \in [R!Games -> Int]
  BY RoomNeeds DEF Needing
<1>3. Good(0)
  <2>1. made[0].games = <<>> /\ made[0].left = free
    BY <1>1 DEF PlansOf
  <2>2. Among(<<>>) = {}
    BY DEF Among
  <2>3. R!Total(Needing(<<>>)) = R!Total(Needing(<<>>)) + R!Total(Needing(<<>>))
    <3>1. \A g \in R!Games : Needing(<<>>)[g] = Needing(<<>>)[g] + Needing(<<>>)[g]
      BY <2>2 DEF Needing
    <3> QED BY <1>2, <3>1, TotalAdds
  <2>4. R!Total(Needing(<<>>)) = 0
    BY <1>2, <2>3, TotalType
  <2> QED BY <2>1, <2>2, <2>4
<1>4. ASSUME Bad # {} PROVE FALSE
  <2>1. Bad \in SUBSET Nat
    BY RoomConstants
  <2>2. PICK n \in Bad : \A i \in Bad : n <= i
    BY <1>4, <2>1, HasLeast
  <2>3. n \in 0 .. Last /\ ~Good(n)
    BY <2>2
  <2>4. n # 0
    BY <1>3, <2>3
  <2>5. n \in 1 .. Last /\ n - 1 \in 0 .. Last /\ ~(n <= n - 1) /\ Order[n] \in R!Games
    BY <2>3, <2>4, RoomConstants
  <2> HIDE DEF Bad
  <2>6. n - 1 \notin Bad
    BY <2>2, <2>5
  <2> USE DEF Bad
  <2>7. Good(n - 1)
    BY <2>5, <2>6
  <2> DEFINE g == Order[n]
             before == made[n - 1]
  <2>8. /\ before \in [games : Seq(R!Games), left : Int] /\ made[n] = PlanStep(before, g)
        /\ before.games \in Seq(R!Games) /\ before.left \in Int
    BY <1>1, <2>5 DEF PlansOf
  <2>9. CASE g \in R!Missing /\ R!roomFor(g) <= before.left
    <3>1. made[n].games = Append(before.games, g) /\ made[n].left = before.left - R!roomFor(g)
      BY <2>8, <2>9 DEF PlanStep
    <3>2. Among(made[n].games) = Among(before.games) \cup {g}
      BY <2>5, <2>8, <3>1, AmongAppended
    <3>3. g \notin Among(before.games)
      BY <2>5, <2>7, RoomConstants
    <3>4. R!Total(Needing(made[n].games)) = R!Total(Needing(before.games)) + R!roomFor(g)
      <4>1. \A h \in R!Games \ {g} : Needing(made[n].games)[h] = Needing(before.games)[h]
        BY <3>2 DEF Needing
      <4>2. Needing(made[n].games)[g] = R!roomFor(g) /\ Needing(before.games)[g] = 0
        BY <2>5, <3>2, <3>3 DEF Needing
      <4>3. R!Total(Needing(made[n].games)) = R!Total(Needing(before.games)) + R!roomFor(g) - 0
        BY <1>2, <2>5, <4>1, <4>2, TotalChanges
      <4> QED BY <1>2, <2>5, <4>3, TotalType, RoomNeeds
    <3>5. R!roomFor(g) \in Nat
      BY <2>5, RoomNeeds
    <3>6. R!Total(Needing(made[n].games)) = free - made[n].left /\ made[n].left >= 0
      BY <2>7, <2>8, <2>9, <3>1, <3>4, <3>5
    <3>7. \A h \in Among(made[n].games) : h \in R!Missing /\ \E j \in 1 .. n : Order[j] = h
      <4> SUFFICES ASSUME NEW h \in Among(made[n].games) PROVE h \in R!Missing /\ \E j \in 1 .. n : Order[j] = h
        OBVIOUS
      <4>1. CASE h = g
        BY <2>5, <2>9, <4>1
      <4>2. CASE h # g
        <5>1. h \in R!Missing /\ \E j \in 1 .. (n - 1) : Order[j] = h
          BY <2>7, <3>2, <4>2
        <5> QED BY <2>5, <5>1
      <4> QED BY <4>1, <4>2
    <3> QED BY <2>3, <3>6, <3>7
  <2>10. CASE ~(g \in R!Missing /\ R!roomFor(g) <= before.left)
    <3>1. made[n] = before
      BY <2>8, <2>10 DEF PlanStep
    <3>2. \A j \in 1 .. (n - 1) : j \in 1 .. n
      BY <2>5
    <3> QED BY <2>3, <2>7, <3>1, <3>2
  <2> QED BY <2>9, <2>10
<1>5. Last \in 0 .. Last
  BY RoomConstants
<1>6. Good(Last)
  BY <1>4, <1>5
<1>7. made[Last].games \in Seq(R!Games) /\ made[Last].left \in Int
  BY <1>1, <1>5 DEF PlansOf
<1> QED BY <1>1, <1>6, <1>7
LEMMA DriveFree ==
  ASSUME RoomTypes
  PROVE  \A d \in R!Drives : R!Free(d) \in Int
<1>1. ASSUME NEW d \in R!Drives PROVE R!Free(d) \in Int
  <2> DEFINE on == [g \in R!Games |-> IF d = "main" THEN R!OnMain(g) ELSE R!OnCard(g)]
  <2>1. on \in [R!Games -> Int]
    BY RoomConstants DEF RoomTypes, R!OnMain, R!OnCard
  <2>2. R!Free(d) = Capacity[d] - other[d] - R!Total(on)
    BY DEF R!Free
  <2> HIDE DEF on
  <2>3. R!Total(on) \in Int
    BY <2>1, TotalType
  <2>4. Capacity[d] \in Int /\ other[d] \in Int
    BY RoomConstants DEF RoomTypes
  <2> QED BY <2>2, <2>3, <2>4
<1> QED BY <1>1

\* The fullest of the drives.
LEMMA LeastFree ==
  ASSUME RoomTypes, NEW games \in SUBSET R!Games
  PROVE  /\ R!Least(R!Folders(games)) \in Int
         /\ \A d \in R!Folders(games) : R!Free(d) >= R!Least(R!Folders(games))
<1> DEFINE ds == R!Folders(games)
<1>1. ds \subseteq {"main", "card"} /\ "main" \in ds
  BY DEF R!Folders, R!DriveOf
<1>2. R!Free("main") \in Int /\ R!Free("card") \in Int
  BY DriveFree DEF R!Drives
<1> HIDE DEF ds
<1>3. \E n \in {R!Free(d) : d \in ds} : \A d \in ds : R!Free(d) >= n
  <2>1. CASE "card" \in ds /\ R!Free("card") <= R!Free("main")
    BY <1>1, <1>2, <2>1
  <2>2. CASE "card" \notin ds \/ R!Free("main") <= R!Free("card")
    BY <1>1, <1>2, <2>2
  <2> QED BY <1>2, <2>1, <2>2
<1> DEFINE least == CHOOSE n \in {R!Free(d) : d \in ds} : \A d \in ds : R!Free(d) >= n
<1>4. least \in {R!Free(d) : d \in ds} /\ \A d \in ds : R!Free(d) >= least
  BY <1>3
<1>5. R!Least(ds) = least
  BY DEF R!Least
<1> HIDE DEF least
<1>6. R!Least(ds) \in Int /\ \A d \in ds : R!Free(d) >= R!Least(ds)
  BY <1>1, <1>2, <1>4, <1>5
<1> QED BY <1>6 DEF ds

LEMMA PlannedFree ==
  ASSUME RoomTypes, NEW c \in Calls
  PROVE  R!Least(R!Folders(R!Missing)) - call[c].ahead - spaceMargin \in Int
<1>1. R!Missing \in SUBSET R!Games /\ call[c].ahead \in Int
  BY DEF R!Missing, RoomTypes, RoomCall
<1> QED BY <1>1, LeastFree, RoomConstants

LEMMA TodoParts ==
  ASSUME NEW todo \in Seq(R!Games), todo # <<>>
  PROVE  /\ Head(todo) \in R!Games /\ Len(todo) \in Nat \ {0}
         /\ Len(todo) # 1 => Tail(todo) \in Seq(R!Games) /\ Tail(todo) # <<>>
<1>1. Len(todo) \in Nat \ {0}
  OBVIOUS
<1>2. Head(todo) = todo[1] /\ todo[1] \in R!Games
  BY <1>1
<1>3. Tail(todo) \in Seq(R!Games) /\ Len(Tail(todo)) = Len(todo) - 1
  BY <1>1
<1>4. Len(todo) # 1 => Len(Tail(todo)) # 0
  BY <1>1, <1>3
<1> QED BY <1>1, <1>2, <1>3, <1>4

\* A call that has games to queue.
LEMMA NextRight ==
  ASSUME NEW todo \in Seq(R!Games), todo # <<>>
  PROVE  /\ [R!Idle EXCEPT !.at = "next", !.todo = todo] \in RoomCall
         /\ [R!Idle EXCEPT !.at = "next", !.todo = todo].at = "next"
         /\ CallRoom([R!Idle EXCEPT !.at = "next", !.todo = todo])
<1> DEFINE next == [R!Idle EXCEPT !.at = "next", !.todo = todo]
<1>1. R!Idle \in RoomCall
  BY DEF R!Idle, RoomCall
<1>2. next \in RoomCall /\ next.at = "next" /\ next.todo = todo
  BY <1>1 DEF RoomCall
<1> HIDE DEF next
<1>3. CallRoom(next)
  BY <1>2 DEF CallRoom
<1> QED BY <1>2, <1>3 DEF next

LEMMA IdleRight == R!Idle \in RoomCall /\ R!Idle.at = "idle" /\ CallRoom(R!Idle)
BY DEF R!Idle, RoomCall, CallRoom

\* The rest of a batch, and nothing after its last game.
LEMMA RestRight ==
  ASSUME RoomInv, NEW c \in Calls, call[c].at \in {"next", "measure", "add"}
  PROVE  R!Rest(c) \in RoomCall /\ CallRoom(R!Rest(c)) /\ R!Rest(c).at \in {"idle", "next"}
<1>1. call[c].todo \in Seq(R!Games) /\ call[c].todo # <<>>
  BY DEF RoomInv, RoomTypes, RoomCall
<1>2. CASE Len(call[c].todo) = 1
  BY <1>2, IdleRight DEF R!Rest
<1>3. CASE Len(call[c].todo) # 1
  <2>1. Tail(call[c].todo) \in Seq(R!Games) /\ Tail(call[c].todo) # <<>>
    BY <1>1, <1>3, TodoParts
  <2>2. R!Rest(c) = [R!Idle EXCEPT !.at = "next", !.todo = Tail(call[c].todo)]
    BY <1>3 DEF R!Rest
  <2> QED BY <2>1, <2>2, NextRight
<1> QED BY <1>2, <1>3

LEMMA CallsAlone ==
  ASSUME RoomInv, NEW c \in Calls, R!Plans(c) \/ R!Sums(c) \/ R!Measures(c)
  PROVE  RoomInv'
<1>0. RoomTypes /\ call[c] \in RoomCall /\ alone \in BOOLEAN
  BY DEF RoomInv, RoomTypes
<1>1. UNCHANGED <<job, received, staged, other, alone>> /\ call[c].at # "idle"
  BY DEF R!Plans, R!Sums, R!Measures
<1>2. PICK d \in RoomCall : call' = [call EXCEPT ![c] = d] /\ CallRoom(d)
  <2>1. CASE R!Plans(c)
    <3> DEFINE next == [R!Idle EXCEPT !.at = "next", !.todo = R!Planned(c)]
    <3>1. call' = [call EXCEPT ![c] = R!Idle] \/ (call' = [call EXCEPT ![c] = next] /\ R!Planned(c) # <<>>)
      BY <2>1 DEF R!Plans
    <3>3. R!Planned(c) \in Seq(R!Games)
      BY <1>0, PlannedFree, FitRight DEF R!Planned
    <3>4. R!Planned(c) # <<>> => next \in RoomCall /\ CallRoom(next)
      BY <3>3, NextRight
    <3> HIDE DEF next
    <3> QED BY <3>1, <3>4, IdleRight
  <2>2. CASE R!Sums(c)
    <3> DEFINE g == Head(call[c].todo)
               next == [call[c] EXCEPT !.at = "measure", !.ahead = R!pending + R!Need(g)]
    <3>1. call[c].at = "next"
      BY <2>2 DEF R!Sums
    <3>2. CASE job[g] \in {"none", "failed"}
      <4>1. call' = [call EXCEPT ![c] = next]
        BY <2>2, <3>2 DEF R!Sums
      <4>2. g \in R!Games /\ call[c].todo # <<>>
        BY <1>0, <3>1, TodoParts DEF RoomTypes, RoomCall
      <4>3. R!pending \in Int /\ R!coming \in Int /\ R!coming <= R!pending
        BY <1>0, RoomSums DEF RoomSummed
      <4>4. /\ R!roomFor(g) \in Nat /\ R!roomFor(g) >= Sizes[g] /\ received[g] \in Nat /\ staged[g] \in Nat
            /\ received[g] <= staged[g] /\ Sizes[g] \in Nat /\ (job[g] = "none" => staged[g] = 0)
        BY <1>0, <4>2, RoomNeeds, RoomConstants DEF RoomInv, RoomTypes, StagedRight
      <4>5. R!Need(g) \in Int /\ R!Need(g) >= Sizes[g] - staged[g]
        BY <3>2, <4>4 DEF R!Need
      <4>6. R!pending + R!Need(g) \in Int /\ R!pending + R!Need(g) >= R!coming + Sizes[g] - staged[g]
        BY <4>3, <4>4, <4>5
      <4>7. next \in RoomCall /\ next.at = "measure" /\ next.todo = call[c].todo /\ next.ahead = R!pending + R!Need(g)
        BY <1>0, <4>6 DEF RoomCall
      <4> HIDE DEF next
      <4>8. CallRoom(next)
        BY <3>2, <4>2, <4>6, <4>7 DEF CallRoom
      <4> QED BY <4>1, <4>7, <4>8
    <3>3. CASE job[g] \notin {"none", "failed"}
      <4>1. call' = [call EXCEPT ![c] = R!Rest(c)]
        BY <2>2, <3>3 DEF R!Sums
      <4> QED BY <3>1, <4>1, RestRight
    <3> QED BY <3>2, <3>3
  <2>3. CASE R!Measures(c)
    <3> DEFINE g == Head(call[c].todo)
               next == [call[c] EXCEPT !.at = "add"]
    <3>1. call[c].at = "measure"
      BY <2>3 DEF R!Measures
    <3>2. CASE R!Fits(0, call[c].ahead, g)
      <4>1. call' = [call EXCEPT ![c] = next]
        BY <2>3, <3>2 DEF R!Measures
      <4>2. next \in RoomCall /\ next.at = "add" /\ next.todo = call[c].todo /\ call[c].ahead \in Int
        BY <1>0 DEF RoomCall
      <4> HIDE DEF next
      <4>3. g \in R!Games /\ call[c].todo # <<>>
        BY <1>0, <3>1, TodoParts DEF RoomTypes, RoomCall
      <4>4. R!Free("main") >= call[c].ahead + spaceMargin /\ R!Free("main") \in Int /\ spaceMargin \in Int
        BY <1>0, <3>2, <4>2, DriveFree, RoomConstants DEF R!Fits, R!Drives
      <4>5. R!contents \in Int /\ R!contents >= 0
        <5> DEFINE beside == [h \in R!Games |-> IF job[h] = "unpacked" THEN Sizes[h] ELSE 0]
                   zero == [h \in R!Games |-> 0]
        <5>1. beside \in [R!Games -> Int] /\ zero \in [R!Games -> Int] /\ \A h \in R!Games : zero[h] <= beside[h]
          BY RoomConstants
        <5>2. R!contents = R!Total(beside)
          BY DEF R!contents
        <5>3. \A h \in R!Games : zero[h] = zero[h] + zero[h]
          OBVIOUS
        <5> HIDE DEF beside, zero
        <5>4. R!Total(zero) <= R!Total(beside) /\ R!Total(zero) \in Int /\ R!Total(beside) \in Int
          BY <5>1, TotalGrows, TotalType
        <5>5. R!Total(zero) = R!Total(zero) + R!Total(zero)
          BY <5>1, <5>3, TotalAdds
        <5> QED BY <5>2, <5>4, <5>5
      <4>6. alone => job[g] \in {"none", "failed"} /\ call[c].ahead >= R!coming + Sizes[g] - staged[g]
        BY <3>1 DEF RoomInv, OneCall, Added
      <4>7. R!coming \in Int /\ Sizes[g] \in Int /\ staged[g] \in Int
        BY <1>0, <4>3, RoomSums, RoomConstants DEF RoomSummed, RoomTypes
      <4>8. alone => Spare >= R!coming + Sizes[g] - staged[g] + spaceMargin
        BY <4>2, <4>4, <4>5, <4>6, <4>7 DEF Spare
      <4>9. CallRoom(next)
        BY <4>2, <4>3, <4>6, <4>8 DEF CallRoom
      <4> QED BY <4>1, <4>2, <4>9
    <3>3. CASE ~R!Fits(0, call[c].ahead, g)
      <4>1. call' = [call EXCEPT ![c] = R!Rest(c)]
        BY <2>3, <3>3 DEF R!Measures
      <4> QED BY <3>1, <4>1, RestRight
    <3> QED BY <3>2, <3>3
  <2> QED BY <2>1, <2>2, <2>3
<1> QED BY <1>0, <1>1, <1>2, CallingKeeps
LEMMA CallsBegin ==
  ASSUME RoomInv, NEW c \in Calls, R!PlanAll(c) \/ \E g \in R!Games : R!Queue(c, g)
  PROVE  RoomInv'
<1>0. RoomTypes /\ alone \in BOOLEAN
  BY DEF RoomInv, RoomTypes
<1>1. UNCHANGED <<job, received, staged, other>> /\ R!Begins(c)
  BY DEF R!PlanAll, R!Queue
<1>2. /\ alone' \in BOOLEAN /\ (alone' => alone) /\ (alone' => \A e \in Calls \ {c} : call[e].at = "idle")
  BY <1>0, <1>1 DEF R!Begins
<1>3. PICK d \in RoomCall : call' = [call EXCEPT ![c] = d] /\ CallRoom(d)
  <2>1. CASE R!PlanAll(c)
    <3> DEFINE next == [R!Idle EXCEPT !.at = "plan", !.ahead = R!pending]
    <3>1. call' = [call EXCEPT ![c] = next]
      BY <2>1 DEF R!PlanAll
    <3>2. R!pending \in Int
      BY <1>0, RoomSums DEF RoomSummed
    <3>3. next \in RoomCall /\ next.at = "plan" /\ next.ahead = R!pending
      BY <3>2, IdleRight DEF RoomCall
    <3> HIDE DEF next
    <3>4. CallRoom(next)
      BY <3>2, <3>3 DEF CallRoom
    <3> QED BY <3>1, <3>3, <3>4
  <2>2. ASSUME NEW g \in R!Games, R!Queue(c, g) PROVE \E d \in RoomCall : call' = [call EXCEPT ![c] = d] /\ CallRoom(d)
    <3>1. call' = [call EXCEPT ![c] = [R!Idle EXCEPT !.at = "next", !.todo = <<g>>]]
      BY <2>2 DEF R!Queue
    <3>2. <<g>> \in Seq(R!Games) /\ <<g>> # <<>>
      OBVIOUS
    <3> QED BY <3>1, <3>2, NextRight
  <2> QED BY <2>1, <2>2
<1> QED BY <1>1, <1>2, <1>3, CallingKeeps

\* A game queued takes the room it was found, and whatever plan is being made knows it is late.
LEMMA AddsKeep ==
  ASSUME RoomInv, NEW c \in Calls, R!Adds(c)
  PROVE  RoomInv'
<1> DEFINE marked(e) == [call[e] EXCEPT !.changed = call[e].at = "plan"]
<1>0. RoomTypes /\ StagedRight /\ call[c] \in RoomCall
  BY DEF RoomInv, RoomTypes
<1>1. /\ UNCHANGED <<received, staged, other, alone>> /\ call[c].at = "add"
      /\ job' = [job EXCEPT ![Head(call[c].todo)] = IF @ \in {"none", "failed"} THEN "queued" ELSE @]
      /\ call' = [R!Overtaken EXCEPT ![c] = R!Rest(c)]
  BY DEF R!Adds
<1>2. PICK g \in R!Games : g = Head(call[c].todo)
  BY <1>0, <1>1, TodoParts DEF RoomTypes, RoomCall
<1>3. \A e \in Calls : call'[e] = IF e = c THEN R!Rest(c) ELSE marked(e)
  BY <1>1 DEF R!Overtaken
<1>4. \A e \in Calls : /\ marked(e) \in RoomCall /\ marked(e).at = call[e].at /\ marked(e).todo = call[e].todo
                       /\ marked(e).ahead = call[e].ahead /\ marked(e).changed = (call[e].at = "plan")
  BY <1>0 DEF RoomTypes, RoomCall
<1>5. R!Rest(c) \in RoomCall /\ CallRoom(R!Rest(c)) /\ R!Rest(c).at \in {"idle", "next"}
  BY <1>1, RestRight
<1> HIDE DEF marked
<1>6. /\ job'[g] = IF job[g] \in {"none", "failed"} THEN "queued" ELSE job[g]
      /\ \A h \in R!Games \ {g} : job'[h] = job[h]
      /\ job' \in [R!Games -> {"none", "queued", "unpacked", "failed", "installed"}]
  BY <1>0, <1>1, <1>2 DEF RoomTypes
<1>7. RoomTypes'
  <2>1. call' \in [Calls -> RoomCall]
    BY <1>1, <1>3, <1>4, <1>5 DEF R!Overtaken
  <2>2. \A e \in Calls : call'[e].at \in {"next", "measure", "add"} => call'[e].todo # <<>>
    BY SMTT(60), <1>0, <1>3, <1>4, <1>5 DEF RoomTypes, CallRoom
  <2> QED BY <1>0, <1>1, <1>6, <2>1, <2>2 DEF RoomTypes
<1>8. StagedRight'
  BY <1>0, <1>1, <1>2, <1>6 DEF StagedRight
<1>9. PlanRight'
  BY <1>3, <1>4, <1>5 DEF PlanRight
<1>10. ASSUME alone' PROVE OneCall' /\ R!Committed'
  <2>1. OneCall /\ R!Committed
    BY <1>1, <1>10 DEF RoomInv
  <2>2. \A e \in Calls \ {c} : call[e].at = "idle"
    BY <1>1, <2>1 DEF OneCall
  <2>3. \A e \in Calls \ {c} : call'[e].at = "idle"
    BY <1>3, <1>4, <2>2
  <2>4. OneCall'
    BY <1>3, <1>5, <2>3 DEF OneCall
  <2>5. job[g] \in {"none", "failed"} /\ Spare >= R!coming + Sizes[g] - staged[g] + spaceMargin
    BY <1>1, <1>2, <2>1 DEF OneCall, Added
  <2>6. Spare' = Spare + Taking(g) - Taking(g)' /\ R!coming' = R!coming + Owing(g)' - Owing(g)
    BY <1>0, <1>1, <1>2, <1>6, <1>7, OneChanges
  <2>7. staged[g] \in Nat /\ Sizes[g] \in Nat
    BY <1>0, <1>2, RoomConstants DEF RoomTypes
  <2>8. Taking(g) = staged[g] /\ Taking(g)' = staged[g] /\ Owing(g) = 0 /\ Owing(g)' = Sizes[g] - staged[g]
    BY <1>1, <1>6, <2>5, <2>7 DEF Taking, Owing
  <2>9. Spare \in Int /\ R!coming \in Int /\ spaceMargin \in Int
    BY <1>0, RoomSums, RoomConstants DEF RoomSummed
  <2>10. Spare' >= R!coming' + spaceMargin
    BY <2>5, <2>6, <2>7, <2>8, <2>9
  <2> QED BY <2>4, <2>10 DEF R!Committed, Spare
<1> QED BY <1>7, <1>8, <1>9, <1>10 DEF RoomInv

LEMMA RoomKeeps == RoomInv /\ [R!Next]_(R!vars) => RoomInv'
<1> SUFFICES ASSUME RoomInv, [R!Next]_(R!vars) PROVE RoomInv'
  OBVIOUS
<1>1. CASE UNCHANGED R!vars
  <2>1. UNCHANGED <<job, received, staged, other, call, alone>>
    BY <1>1 DEF R!vars
  <2>2. Spare' = Spare /\ R!coming' = R!coming /\ R!pending' = R!pending
    BY <2>1, NoneChanges DEF RoomInv
  <2> QED BY <2>1, <2>2 DEF RoomInv, RoomTypes, StagedRight, PlanRight, OneCall, Added, R!Committed, Spare
<1>2. ASSUME NEW c \in Calls, R!Calling(c) PROVE RoomInv'
  BY <1>2, CallsAlone, CallsBegin, AddsKeep DEF R!Calling
<1> QED BY <1>1, <1>2, DownloadingKeeps, RestartKeeps, UserKeeps DEF R!Next

LEMMA RoomInvariant == PartsSpec => [](whose = "room" => RoomInv)
<1> DEFINE Holding == whose = "room" => RoomInv
<1>1. PartsInit => Holding
  BY RoomInit DEF PartsInit
<1>2. Holding /\ [PartsNext]_partsVars => Holding'
  <2> SUFFICES ASSUME Holding, [PartsNext]_partsVars, whose' = "room" PROVE RoomInv'
    OBVIOUS
  <2>1. whose = "room"
    BY DEF PartsNext, partsVars, Relay, Find, Transfer, Update, Firm, Store, Lay, Make
  <2>2. [R!Next]_(R!vars)
    BY <2>1, RoomSteps
  <2> QED BY <2>1, <2>2, RoomKeeps
<1> QED BY <1>1, <1>2, PTL DEF PartsSpec

\* However many games of whatever sizes are queued, retried, cancelled and extracted, and whatever fails or
\* restarts: what the queue took on, one call after another, fits staging's drive (downloads.go checkSpace).
THEOREM CommittedHolds == PartsSpec => []Committed
<1>1. (whose = "room" => RoomInv) => Committed
  BY DEF Committed, RoomInv, R!Committed
<1> QED BY <1>1, RoomInvariant, PTL

\* What a plan of however many games fits has room on every drive it goes to, whatever downloads while it
\* is made, unless the queue took on more meanwhile (bulk.go PlanAll, Downloads.room).
THEOREM PlanHoldsHolds == PartsSpec => []PlanHolds
<1>1. (whose = "room" => RoomInv) => PlanHolds
  <2> SUFFICES ASSUME RoomInv, NEW c \in Calls, call[c].at = "plan", ~call[c].changed,
                      NEW g \in Among(R!Planned(c))
      PROVE  R!Total(Needing(R!Planned(c))) + R!pending + spaceMargin <= R!Free(R!DriveOf(g))
    BY DEF PlanHolds, R!PlanHolds, Among, Needing
  <2> DEFINE least == R!Least(R!Folders(R!Missing))
             free == least - call[c].ahead - spaceMargin
             needs == R!Total(Needing(R!Planned(c)))
  <2>1. RoomTypes /\ R!Missing \in SUBSET R!Games
    BY DEF RoomInv, R!Missing
  <2>2. free \in Int
    BY <2>1, PlannedFree
  <2>3. R!Planned(c) = R!Fit(free)
    BY DEF R!Planned
  <2>4. least \in Int /\ \A d \in R!Folders(R!Missing) : R!Free(d) >= least
    BY <2>1, LeastFree
  <2>5. call[c].ahead \in Int /\ call[c].ahead >= R!pending /\ R!pending \in Int /\ spaceMargin \in Int
    BY <2>1, RoomSums, RoomConstants DEF RoomInv, PlanRight, RoomSummed, RoomTypes, RoomCall
  <2> HIDE DEF least
  <2>6. g \in R!Missing /\ needs <= free
    BY <2>2, <2>3, FitRight
  <2>7. needs \in Int
    <3>1. Needing(R!Planned(c)) \in [R!Games -> Int]
      BY RoomNeeds DEF Needing
    <3> QED BY <3>1, TotalType
  <2>8. R!DriveOf(g) \in R!Folders(R!Missing) /\ R!DriveOf(g) \in R!Drives
    BY <2>6 DEF R!Folders, R!DriveOf, R!Drives
  <2>9. R!Free(R!DriveOf(g)) \in Int /\ R!Free(R!DriveOf(g)) >= least
    BY <2>1, <2>4, <2>8, DriveFree
  <2> HIDE DEF needs
  <2> QED BY <2>4, <2>5, <2>6, <2>7, <2>9 DEF needs
<1> QED BY <1>1, RoomInvariant, PTL
-----------------------------------------------------------------------------
(* Layouts: the files, and what the record keeps of them. *)

\* A step of Layouts' behaviours is a step of Layouts.
LEMMA LayoutsSteps ==
  ASSUME whose = "layouts", [PartsNext]_partsVars
  PROVE  whose' = whose /\ [L!Next]_(L!vars)
BY DEF PartsNext, partsVars, Relay, Find, Transfer, Update, Firm, Store, Lay, Make, layouts, L!vars

\* Layouts' finite sets are those of the theorems.
LEMMA LayoutsCount == \A X : L!Cardinality(X) = Cardinality(X) /\ (L!IsFiniteSet(X) <=> IsFiniteSet(X))
BY DEF L!Cardinality, Cardinality, L!IsFiniteSet, IsFiniteSet

LEMMA LayoutConstants ==
  /\ IsFiniteSet(Shapes) /\ \A s, t \in Shapes : s.id = t.id => s = t
  /\ \A s \in Shapes : s.id \in Nat /\ s.disc \in Nat /\ s.name \in Nat
  /\ \A s \in Shapes : s.path = GameName => s.class = "m3u"
BY LayoutAssumptions, LayoutsCount DEF L!Assumptions

\* A file of a shape, whose bytes are of the rescan that gave it its time.
ServerFile == {L!File(s, n, n, hashes) : s \in Shapes, n \in Nat, hashes \in L!Hashings}
\* The Server has no two files of one id or path.
FilesRight ==
  /\ moves \in Nat /\ files \in SUBSET ServerFile /\ IsFiniteSet(files)
  /\ \A f, g \in files : f.id = g.id \/ f.path = g.path => f = g

Content == {[id |-> s.id, bytes |-> n, class |-> s.class] : s \in Shapes, n \in Nat}
SnapOf(s, c) == s.id = c.id /\ s.at = c.bytes /\ (s.kind # "none" => s.hash = c.bytes)
\* The snapshots are of what the Server had, and of all of it that a game is played from.
Kept(snapshot, contents) ==
  /\ IsFiniteSet(snapshot) /\ contents \in SUBSET Content
  /\ \A s \in snapshot : \E c \in contents : SnapOf(s, c)
  /\ \A c \in L!Played(contents) : \E s \in snapshot : SnapOf(s, c)
LayoutInv ==
  /\ FilesRight /\ had \in [owned : SUBSET Content, ignored : SUBSET Content]
  /\ rec.of => Kept(rec.snapshot, had.owned)
  /\ ignored.chosen => Kept(ignored.snapshot, had.ignored)

LEMMA FileParts ==
  ASSUME NEW f \in ServerFile
  PROVE  /\ f.bytes = f.at /\ f.at \in Nat /\ f.hashes \in L!Hashings
         /\ f.id \in Nat /\ f.disc \in Nat /\ f.name \in Nat
         /\ f.path = GameName => f.class = "m3u"
         /\ [id |-> f.id, bytes |-> f.bytes, class |-> f.class] \in Content
         /\ \A n \in Nat, h \in L!Hashings : L!File(f, n, n, h) \in ServerFile
<1>1. PICK s \in Shapes, n \in Nat, h \in L!Hashings : f = L!File(s, n, n, h)
  BY DEF ServerFile
<1>2. /\ f.id = s.id /\ f.path = s.path /\ f.class = s.class /\ f.disc = s.disc /\ f.name = s.name
      /\ f.at = n /\ f.bytes = n /\ f.hashes = h
  BY <1>1 DEF L!File
<1>3. \A m \in Nat, k \in L!Hashings : L!File(f, m, m, k) = L!File(s, m, m, k)
  BY <1>1 DEF L!File
<1>4. [id |-> f.id, bytes |-> f.bytes, class |-> f.class] \in Content
  BY <1>2 DEF Content
<1>5. \A m \in Nat, k \in L!Hashings : L!File(f, m, m, k) \in ServerFile
  BY <1>3 DEF ServerFile
<1>6. s.id \in Nat /\ s.disc \in Nat /\ s.name \in Nat /\ (s.path = GameName => s.class = "m3u")
  BY LayoutConstants
<1>7. /\ f.bytes = f.at /\ f.at \in Nat /\ f.hashes \in L!Hashings
      /\ f.id \in Nat /\ f.disc \in Nat /\ f.name \in Nat
      /\ f.path = GameName => f.class = "m3u"
  BY <1>2, <1>6
<1> QED BY <1>4, <1>5, <1>7

LEMMA SameContent ==
  ASSUME NEW f \in ServerFile, NEW c \in Content, f.id = c.id, f.bytes = c.bytes
  PROVE  c = [id |-> f.id, bytes |-> f.bytes, class |-> f.class]
<1>1. PICK s \in Shapes, n \in Nat, h \in L!Hashings : f = L!File(s, n, n, h)
  BY DEF ServerFile
<1>2. PICK t \in Shapes, m \in Nat : c = [id |-> t.id, bytes |-> m, class |-> t.class]
  BY DEF Content
<1>3. s = t
  BY <1>1, <1>2, LayoutConstants DEF L!File
<1> QED BY <1>1, <1>2, <1>3 DEF L!File

\* What is made of each file of a finite set is finite: an image.
LEMMA SnapshotsFinite ==
  ASSUME NEW fs, IsFiniteSet(fs)
  PROVE  IsFiniteSet(L!SnapshotsOf(fs))
<1> DEFINE m == [f \in fs |-> L!SnapshotOf(f)]
<1>1. m \in Surjection(fs, L!SnapshotsOf(fs))
  BY DEF Surjection, L!SnapshotsOf
<1> QED BY <1>1, FS_Surjection

LEMMA LayoutInit == L!Init => LayoutInv
<1> SUFFICES ASSUME L!Init PROVE LayoutInv
  OBVIOUS
<1>1. PICK chosen \in SUBSET Shapes, hashes \in L!Hashings :
        /\ \A s, t \in chosen : s.path = t.path => s = t
        /\ files = {L!File(s, 0, 0, hashes) : s \in chosen}
  BY DEF L!Init
<1> DEFINE m == [s \in chosen |-> L!File(s, 0, 0, hashes)]
<1>2. IsFiniteSet(chosen)
  BY LayoutConstants, FS_Subset
<1>3. m \in Surjection(chosen, files)
  BY <1>1 DEF Surjection
<1>4. IsFiniteSet(files)
  BY <1>2, <1>3, FS_Surjection
<1>5. files \in SUBSET ServerFile
  BY <1>1 DEF ServerFile
<1>6. \A f, g \in files : f.id = g.id \/ f.path = g.path => f = g
  BY <1>1, LayoutConstants DEF L!File
<1>7. /\ moves \in Nat /\ ~rec.of /\ ~ignored.chosen
      /\ had \in [owned : SUBSET Content, ignored : SUBSET Content]
  BY DEF L!Init, L!Unowned, L!NoneIgnored
<1> QED BY <1>4, <1>5, <1>6, <1>7 DEF LayoutInv, FilesRight

\* The files of a set are those of the game, but for the Server's playlist where the plugin writes one.
PlannedFrom(fs) ==
  /\ fs \in SUBSET L!GameFiles
  /\ \A f \in L!GameFiles \ fs : system.multi = "playlist" /\ f.class = "m3u"

LEMMA SnapshotRight ==
  ASSUME NEW f \in ServerFile
  PROVE  SnapOf(L!SnapshotOf(f), [id |-> f.id, bytes |-> f.bytes, class |-> f.class])
BY FileParts DEF SnapOf, L!SnapshotOf, L!Strongest

LEMMA SnapshotsKept ==
  ASSUME FilesRight, NEW fs, PlannedFrom(fs)
  PROVE  Kept(L!SnapshotsOf(fs), L!ContentsOf(L!GameFiles))
<1>1. fs \in SUBSET files /\ fs \in SUBSET ServerFile /\ L!GameFiles \in SUBSET ServerFile
  BY DEF FilesRight, PlannedFrom, L!GameFiles
<1>2. IsFiniteSet(L!SnapshotsOf(fs))
  BY <1>1, SnapshotsFinite, FS_Subset DEF FilesRight
<1>3. L!ContentsOf(L!GameFiles) \in SUBSET Content
  BY <1>1, FileParts DEF L!ContentsOf
<1>4. \A s \in L!SnapshotsOf(fs) : \E c \in L!ContentsOf(L!GameFiles) : SnapOf(s, c)
  BY <1>1, SnapshotRight DEF L!SnapshotsOf, L!ContentsOf, PlannedFrom
<1>5. ASSUME NEW c \in L!Played(L!ContentsOf(L!GameFiles)) PROVE \E s \in L!SnapshotsOf(fs) : SnapOf(s, c)
  <2>1. PICK f \in L!GameFiles : c = [id |-> f.id, bytes |-> f.bytes, class |-> f.class]
    BY <1>5 DEF L!Played, L!ContentsOf
  <2>2. f \in fs
    BY <1>5, <2>1 DEF L!Played, PlannedFrom
  <2> QED BY <1>1, <2>1, <2>2, SnapshotRight DEF L!SnapshotsOf
<1> QED BY <1>2, <1>3, <1>4, <1>5 DEF Kept

LEMMA LayoutFrom ==
  ASSUME L!PlanLayout(L!GameFiles).kind # "none"
  PROVE  PlannedFrom(L!PlanLayout(L!GameFiles).files)
<1> DEFINE fs == L!GameFiles
           set(in, ls) == [kind |-> "set", files |-> in, lines |-> ls]
<1>1. CASE L!PlanLayout(fs).files = fs
  BY <1>1 DEF PlannedFrom
<1>2. CASE system.multi = "playlist" /\ L!PlanLayout(fs) = L!PlaylistLayout(fs)
  <2>1. L!PlaylistLayout(fs) # L!NoLayout
    BY <1>2 DEF L!NoLayout
  <2>2. L!PlanLayout(fs).files = L!PlaylistFiles(fs)
    BY <1>2, <2>1 DEF L!PlaylistLayout
  <2> QED BY <1>2, <2>2 DEF PlannedFrom, L!PlaylistFiles
<1> QED BY <1>1, <1>2 DEF L!PlanLayout, L!NoLayout

\* Where no update is found, what the game is played from is as it was.
LEMMA NotOffered ==
  ASSUME FilesRight, NEW snapshot, NEW contents, Kept(snapshot, contents),
         ~L!UpdateAvailable(snapshot, L!GameFiles)
  PROVE  ~L!Changed(contents)
<1> DEFINE fs == L!GameFiles
           taken(f) == CHOOSE s \in snapshot : s.id = f.id /\ ~L!Rehashed(s, f)
           m == [f \in fs |-> taken(f)]
<1>1. /\ fs \in SUBSET files /\ fs \in SUBSET ServerFile /\ IsFiniteSet(fs) /\ IsFiniteSet(snapshot)
      /\ \A f, g \in fs : f.id = g.id => f = g
  BY FS_Subset DEF FilesRight, L!GameFiles, Kept
<1>2. Cardinality(fs) = Cardinality(snapshot)
      /\ \A f \in fs : \E s \in snapshot : s.id = f.id /\ ~L!Rehashed(s, f)
  BY LayoutsCount DEF L!UpdateAvailable
<1> HIDE DEF fs
<1>3. \A f \in fs : taken(f) \in snapshot /\ taken(f).id = f.id /\ ~L!Rehashed(taken(f), f)
  BY <1>2
<1> HIDE DEF taken
<1>4. m \in Injection(fs, snapshot)
  BY <1>1, <1>3 DEF Injection, IsInjective
<1>5. m \in Surjection(fs, snapshot)
  BY <1>1, <1>2, <1>4, FS_Injection
<1>6. \A s \in snapshot : \E f \in fs : s.id = f.id /\ ~L!Rehashed(s, f)
  BY <1>3, <1>5 DEF Surjection
<1>7. ASSUME NEW f \in fs, NEW s \in snapshot, NEW c \in contents, SnapOf(s, c), s.id = f.id, ~L!Rehashed(s, f)
      PROVE  c = [id |-> f.id, bytes |-> f.bytes, class |-> f.class]
  <2>1. f \in ServerFile /\ c \in Content /\ f.id = c.id
    BY <1>1, <1>7 DEF Kept, SnapOf
  <2>2. f.bytes = f.at /\ "none" \notin f.hashes
    <3>1. f.hashes \in L!Hashings /\ f.bytes = f.at
      BY <2>1, FileParts
    <3> QED BY <3>1 DEF L!Hashings
  <2>3. f.bytes = c.bytes
    BY <1>7, <2>2 DEF SnapOf, L!Rehashed
  <2> QED BY <2>1, <2>3, SameContent
<1>8. L!ContentsOf(fs) \in SUBSET contents
  <2> SUFFICES ASSUME NEW f \in fs PROVE [id |-> f.id, bytes |-> f.bytes, class |-> f.class] \in contents
    BY DEF L!ContentsOf
  <2>1. PICK s \in snapshot : s.id = f.id /\ ~L!Rehashed(s, f)
    BY <1>2
  <2>2. PICK c \in contents : SnapOf(s, c)
    BY DEF Kept
  <2> QED BY <1>7, <2>1, <2>2
<1>9. L!Played(contents) \in SUBSET L!ContentsOf(fs)
  <2> SUFFICES ASSUME NEW c \in L!Played(contents) PROVE c \in L!ContentsOf(fs)
    OBVIOUS
  <2>1. PICK s \in snapshot : SnapOf(s, c)
    BY DEF Kept
  <2>2. PICK f \in fs : s.id = f.id /\ ~L!Rehashed(s, f)
    BY <1>6
  <2>3. c \in contents
    BY DEF L!Played
  <2> QED BY <1>7, <2>1, <2>2, <2>3 DEF L!ContentsOf
<1> QED BY <1>8, <1>9 DEF L!Changed, L!Played, fs

LEMMA RewritesKeep ==
  ASSUME LayoutInv, NEW f \in files, NEW n \in Nat, NEW hashes \in L!Hashings, moves' \in Nat,
         L!Has(f, L!File(f, n, n, hashes))
  PROVE  LayoutInv'
<1> DEFINE g == L!File(f, n, n, hashes)
<1>1. g \in ServerFile /\ g.id = f.id /\ g.path = f.path
  BY FileParts DEF LayoutInv, FilesRight, L!File
<1>2. files' = (files \ {f}) \cup {g} /\ UNCHANGED <<system, rec, ignored, had>>
  BY DEF L!Has
<1> HIDE DEF g
<1>3. IsFiniteSet(files')
  BY <1>2, FS_RemoveElement, FS_AddElement DEF LayoutInv, FilesRight
<1>4. FilesRight'
  BY <1>1, <1>2, <1>3 DEF LayoutInv, FilesRight
<1> QED BY <1>2, <1>4 DEF LayoutInv, Kept, L!Played

LEMMA ServerKeeps == LayoutInv /\ L!Server => LayoutInv'
<1> SUFFICES ASSUME LayoutInv, L!Server PROVE LayoutInv'
  OBVIOUS
<1>1. moves' = moves + 1 /\ moves' \in Nat /\ files \in SUBSET ServerFile
  BY DEF L!Server, L!ServerRewrites, L!ServerHashes, L!ServerAdds, L!ServerRemoves, L!Move, LayoutInv, FilesRight
<1>2. ASSUME NEW f \in files, L!ServerRewrites(f) PROVE LayoutInv'
  <2>1. f.hashes \in L!Hashings
    BY <1>1, FileParts
  <2> QED BY <1>1, <1>2, <2>1, RewritesKeep DEF L!ServerRewrites
<1>3. ASSUME NEW f \in files, NEW hashes \in L!Hashings, L!ServerHashes(f, hashes) PROVE LayoutInv'
  <2>1. f.bytes = f.at /\ f.at \in Nat
    BY <1>1, FileParts
  <2> QED BY <1>1, <1>3, <2>1, RewritesKeep DEF L!ServerHashes
<1>4. ASSUME NEW f \in files, L!ServerRemoves(f) PROVE LayoutInv'
  <2>1. FilesRight'
    BY <1>1, <1>4, FS_RemoveElement DEF L!ServerRemoves, LayoutInv, FilesRight
  <2> QED BY <1>4, <2>1 DEF L!ServerRemoves, LayoutInv, Kept, L!Played
<1>5. ASSUME NEW s \in Shapes, NEW hashes \in L!Hashings, L!ServerAdds(s, hashes) PROVE LayoutInv'
  <2> DEFINE g == L!File(s, moves + 1, moves + 1, hashes)
  <2>1. files' = files \cup {g} /\ UNCHANGED <<system, rec, ignored, had>>
        /\ \A f \in files : f.id # s.id /\ f.path # s.path
    BY <1>5 DEF L!ServerAdds
  <2>2. g \in ServerFile /\ g.id = s.id /\ g.path = s.path
    BY <1>1 DEF ServerFile, L!File
  <2> HIDE DEF g
  <2>3. IsFiniteSet(files')
    BY <2>1, FS_AddElement DEF LayoutInv, FilesRight
  <2>4. FilesRight'
    BY <1>1, <2>1, <2>2, <2>3 DEF LayoutInv, FilesRight
  <2> QED BY <2>1, <2>4 DEF LayoutInv, Kept, L!Played
<1> QED BY <1>2, <1>3, <1>4, <1>5 DEF L!Server

LEMMA LayoutKeeps == LayoutInv /\ [L!Next]_(L!vars) => LayoutInv'
<1> SUFFICES ASSUME LayoutInv, [L!Next]_(L!vars) PROVE LayoutInv'
  OBVIOUS
<1>1. CASE L!Download
  <2> DEFINE layout == L!PlanLayout(L!GameFiles)
  <2>1. layout.kind # "none"
    BY <1>1 DEF L!Download, L!Staged
  <2>2. Kept(L!SnapshotsOf(layout.files), L!ContentsOf(L!GameFiles))
    BY <2>1, LayoutFrom, SnapshotsKept DEF LayoutInv
  <2>3. /\ rec'.snapshot = L!SnapshotsOf(layout.files) /\ had' = [owned |-> L!ContentsOf(L!GameFiles), ignored |-> {}]
        /\ ~ignored'.chosen /\ UNCHANGED <<files, system, moves>>
    BY <1>1 DEF L!Download, L!Recorded, L!NoneIgnored
  <2> HIDE DEF layout
  <2>4. Kept(rec.snapshot, had.owned)'
    BY <2>2, <2>3 DEF Kept, L!Played
  <2>5. had' \in [owned : SUBSET Content, ignored : SUBSET Content]
    BY <2>2, <2>3 DEF Kept
  <2> QED BY <2>3, <2>4, <2>5 DEF LayoutInv, FilesRight
<1>2. CASE L!IgnoreUpdate
  <2>1. Kept(L!SnapshotsOf(L!GameFiles), L!ContentsOf(L!GameFiles))
    BY SnapshotsKept DEF LayoutInv, PlannedFrom
  <2>2. /\ ignored'.snapshot = L!SnapshotsOf(L!GameFiles)
        /\ had' = [had EXCEPT !.ignored = L!ContentsOf(L!GameFiles)]
        /\ UNCHANGED <<files, system, rec, moves>>
    BY <1>2 DEF L!IgnoreUpdate
  <2>3. /\ had'.owned = had.owned /\ had'.ignored = L!ContentsOf(L!GameFiles)
        /\ had' \in [owned : SUBSET Content, ignored : SUBSET Content]
    BY <2>1, <2>2 DEF Kept, LayoutInv
  <2>4. Kept(ignored.snapshot, had.ignored)'
    BY <2>1, <2>2, <2>3 DEF Kept, L!Played
  <2>5. rec'.of => Kept(rec.snapshot, had.owned)'
    BY <2>2, <2>3 DEF Kept, L!Played, LayoutInv
  <2> QED BY <2>2, <2>3, <2>4, <2>5 DEF LayoutInv, FilesRight
<1>3. CASE UNCHANGED L!vars
  BY <1>3 DEF L!vars, LayoutInv, FilesRight, Kept, L!Played
<1> QED BY <1>1, <1>2, <1>3, ServerKeeps DEF L!Next

LEMMA LayoutInvariant == PartsSpec => [](whose = "layouts" => LayoutInv)
<1> DEFINE Holding == whose = "layouts" => LayoutInv
<1>1. PartsInit => Holding
  BY LayoutInit DEF PartsInit
<1>2. Holding /\ [PartsNext]_partsVars => Holding'
  <2> SUFFICES ASSUME Holding, [PartsNext]_partsVars, whose' = "layouts" PROVE LayoutInv'
    OBVIOUS
  <2>1. whose = "layouts"
    BY DEF PartsNext, partsVars, Relay, Find, Transfer, Update, Firm, Store, Lay, Make
  <2>2. [L!Next]_(L!vars)
    BY <2>1, LayoutsSteps
  <2> QED BY <2>1, <2>2, LayoutKeeps
<1> QED BY <1>1, <1>2, PTL DEF PartsSpec

\* Whatever files a game has, whatever hashes the Server makes of them, and whatever it then rewrites, adds
\* and removes: a change of what is played is offered (download.go UpdateAvailable, HasUpdate).
THEOREM ChangeOfferedHolds == PartsSpec => []ChangeOffered
<1>1. (whose = "layouts" => LayoutInv) => ChangeOffered
  <2> SUFFICES ASSUME LayoutInv, rec.of, L!Changed(had.owned), ignored.chosen => L!Changed(had.ignored)
      PROVE  L!HasUpdate
    BY DEF ChangeOffered, L!ChangeOffered
  <2> QED BY NotOffered DEF L!HasUpdate, LayoutInv
<1> QED BY <1>1, LayoutInvariant, PTL

-----------------------------------------------------------------------------
(* Layouts: the places of a set's files, and its playlist's lines. *)

\* The discs come one before another.
LEMMA DiscsOrdered ==
  ASSUME FilesRight
  PROVE  /\ \A d \in files : ~L!DiscBefore(d, d)
         /\ \A d, e \in files : d # e => L!DiscBefore(d, e) \/ L!DiscBefore(e, d)
         /\ \A c, d, e \in files : L!DiscBefore(c, d) /\ L!DiscBefore(d, e) => L!DiscBefore(c, e)
<1>1. \A d \in files : d.id \in Nat /\ d.disc \in Nat /\ d.name \in Nat
  BY FileParts DEF FilesRight
<1>2. \A d, e \in files : d.id = e.id => d = e
  BY DEF FilesRight
<1>3. \A d \in files : ~L!DiscBefore(d, d)
  BY <1>1 DEF L!DiscBefore
<1>4. ASSUME NEW d \in files, NEW e \in files, d # e PROVE L!DiscBefore(d, e) \/ L!DiscBefore(e, d)
  BY <1>1, <1>2, <1>4 DEF L!DiscBefore
<1>5. ASSUME NEW c \in files, NEW d \in files, NEW e \in files, L!DiscBefore(c, d), L!DiscBefore(d, e)
      PROVE  L!DiscBefore(c, e)
  BY <1>1, <1>5 DEF L!DiscBefore
<1> QED BY <1>3, <1>4, <1>5

\* Each has a place of its own, and no place is left: a list of them all, each once.
LEMMA PlacesApart ==
  ASSUME FilesRight, NEW ds \in SUBSET files
  PROVE  /\ Cardinality(ds) \in Nat
         /\ \A d \in ds : L!Place(d, ds) \in 1 .. Cardinality(ds)
         /\ \A d, e \in ds : L!Place(d, ds) = L!Place(e, ds) => d = e
         /\ \A k \in 1 .. Cardinality(ds) : \E d \in ds : L!Place(d, ds) = k
<1> DEFINE first(d) == {e \in ds : L!DiscBefore(e, d)}
           n == Cardinality(ds)
           m == [d \in ds |-> L!Place(d, ds)]
<1>1. IsFiniteSet(ds) /\ n \in Nat
  BY FS_Subset, FS_CardinalityType DEF FilesRight
<1>2. \A d \in ds : L!Place(d, ds) = Cardinality(first(d)) + 1
  BY LayoutsCount DEF L!Place
<1>3. ASSUME NEW d \in ds
      PROVE  first(d) \in SUBSET (ds \ {d}) /\ IsFiniteSet(first(d)) /\ Cardinality(first(d)) \in 0 .. (n - 1)
  <2>1. first(d) \in SUBSET (ds \ {d})
    BY DiscsOrdered
  <2>2. IsFiniteSet(ds \ {d}) /\ Cardinality(ds \ {d}) = n - 1
    BY <1>1, FS_RemoveElement
  <2> HIDE DEF first, n
  <2>3. IsFiniteSet(first(d)) /\ Cardinality(first(d)) <= n - 1 /\ Cardinality(first(d)) \in Nat
    BY <2>1, <2>2, FS_Subset, FS_CardinalityType
  <2> QED BY <1>1, <2>1, <2>3
<1>4. \A d \in ds : L!Place(d, ds) \in 1 .. n
  <2> HIDE DEF first, n
  <2> QED BY <1>1, <1>2, <1>3
<1>5. ASSUME NEW d \in ds, NEW e \in ds, L!DiscBefore(d, e) PROVE Cardinality(first(d)) < Cardinality(first(e))
  <2>1. first(d) \in SUBSET first(e) /\ d \in first(e) /\ d \notin first(d)
    BY <1>5, DiscsOrdered
  <2> HIDE DEF first, n
  <2>2. IsFiniteSet(first(e)) /\ Cardinality(first(e)) \in Nat /\ Cardinality(first(d)) \in Nat
    BY <1>3
  <2>3. Cardinality(first(d)) <= Cardinality(first(e)) /\ Cardinality(first(d)) # Cardinality(first(e))
    BY <2>1, <2>2, FS_Subset
  <2> QED BY <2>2, <2>3
<1>6. \A d, e \in ds : L!Place(d, ds) = L!Place(e, ds) => d = e
  <2> SUFFICES ASSUME NEW d \in ds, NEW e \in ds, d # e PROVE L!Place(d, ds) # L!Place(e, ds)
    OBVIOUS
  <2>1. L!DiscBefore(d, e) \/ L!DiscBefore(e, d)
    BY DiscsOrdered
  <2> HIDE DEF first, n
  <2>2. Cardinality(first(d)) # Cardinality(first(e)) /\ Cardinality(first(d)) \in Int /\ Cardinality(first(e)) \in Int
    BY <1>3, <1>5, <2>1
  <2> QED BY <1>2, <2>2
<1>7. m \in Injection(ds, 1 .. n)
  BY <1>4, <1>6 DEF Injection, IsInjective
<1>8. IsFiniteSet(1 .. n) /\ Cardinality(1 .. n) = n
  <2> HIDE DEF n
  <2> QED BY <1>1, FS_Interval
<1>9. m \in Surjection(ds, 1 .. n)
  BY <1>7, <1>8, FS_Injection
<1> QED BY <1>1, <1>4, <1>6, <1>9 DEF Surjection

\* A playlist's lines are the paths of its discs, by their place.
LEMMA LinesOnce ==
  ASSUME FilesRight, NEW fs \in SUBSET files, NEW f \in files
  PROVE  LET ds == L!DiscFiles(fs)
             on == {k \in 1 .. Cardinality(ds) : L!Discs(fs)[k].path = f.path}
         IN  Cardinality(on) = IF f \in ds THEN 1 ELSE 0
<1> DEFINE ds == L!DiscFiles(fs)
           on == {k \in 1 .. Cardinality(ds) : L!Discs(fs)[k].path = f.path}
<1>1. ds \in SUBSET files
  BY DEF L!DiscFiles
<1>2. ASSUME NEW k \in 1 .. Cardinality(ds)
      PROVE  L!Discs(fs)[k] \in ds /\ L!Place(L!Discs(fs)[k], ds) = k
  <2>1. L!Discs(fs)[k] = CHOOSE d \in ds : L!Place(d, ds) = k
    BY <1>2, LayoutsCount DEF L!Discs
  <2> HIDE DEF ds
  <2> QED BY <1>1, <2>1, PlacesApart
<1> HIDE DEF ds
<1>3. \A k \in 1 .. Cardinality(ds) : L!Discs(fs)[k].path = f.path <=> L!Discs(fs)[k] = f
  BY <1>1, <1>2 DEF FilesRight
<1>4. CASE f \in ds
  <2>1. L!Place(f, ds) \in 1 .. Cardinality(ds) /\ L!Discs(fs)[L!Place(f, ds)] = f
    BY <1>1, <1>2, <1>4, PlacesApart
  <2>2. on = {L!Place(f, ds)}
    BY <1>2, <1>3, <2>1
  <2> QED BY <1>4, <2>2, FS_Singleton DEF ds
<1>5. CASE f \notin ds
  <2>1. on = {}
    BY <1>2, <1>3, <1>5
  <2> QED BY <1>5, <2>1, FS_EmptySet DEF ds
<1> QED BY <1>4, <1>5 DEF ds

\* What is planned with lines is the playlist's.
LEMMA LinesPlanned ==
  ASSUME L!PlanLayout(L!GameFiles).lines # <<>>
  PROVE  LET fs == L!PlaylistFiles(L!GameFiles)
             ds == L!DiscFiles(fs)
         IN  /\ L!PlanLayout(L!GameFiles).files = fs
             /\ L!PlanLayout(L!GameFiles).lines = [i \in 1 .. Cardinality(ds) |-> L!Discs(fs)[i].path]
<1> DEFINE fs == L!PlaylistFiles(L!GameFiles)
<1>1. L!PlanLayout(L!GameFiles) = L!PlaylistLayout(L!GameFiles)
  BY DEF L!PlanLayout, L!NoLayout
<1>2. L!PlaylistLayout(L!GameFiles) =
        [kind |-> "set", files |-> fs, lines |-> [i \in DOMAIN L!Discs(fs) |-> L!Discs(fs)[i].path]]
  BY <1>1 DEF L!PlaylistLayout, L!NoLayout
<1>3. DOMAIN L!Discs(fs) = 1 .. Cardinality(L!DiscFiles(fs))
  BY LayoutsCount DEF L!Discs
<1> QED BY <1>1, <1>2, <1>3

LEMMA SetPlaced == FilesRight => L!PlacedApart
<1> DEFINE layout == L!PlanLayout(L!GameFiles)
           spot(f) == <<GameName, f.path>>
           places == {spot(f) : f \in layout.files}
           list == <<GameName, GameName>>
           m == [f \in layout.files |-> spot(f)]
<1> SUFFICES ASSUME FilesRight, layout.kind = "set"
             PROVE  Cardinality(L!StagedSet(layout))
                      = Cardinality(layout.files) + (IF layout.lines = <<>> THEN 0 ELSE 1)
  BY LayoutsCount DEF L!PlacedApart
<1>1. layout.files \in SUBSET files
  BY LayoutFrom DEF PlannedFrom, L!GameFiles
<1>2. L!StagedSet(layout) = places \cup (IF layout.lines = <<>> THEN {} ELSE {list})
  BY DEF L!StagedSet
<1>3. layout.lines # <<>> => list \notin places
  <2> SUFFICES ASSUME layout.lines # <<>>, NEW f \in layout.files PROVE f.path # GameName
    OBVIOUS
  <2>1. f.class # "m3u"
    BY LinesPlanned DEF L!PlaylistFiles
  <2>2. f \in ServerFile
    BY <1>1 DEF FilesRight
  <2> QED BY <2>1, <2>2, FileParts
<1>4. IsFiniteSet(layout.files) /\ Cardinality(layout.files) \in Nat
  BY <1>1, FS_Subset, FS_CardinalityType DEF FilesRight
<1> HIDE DEF layout
<1>5. m \in Surjection(layout.files, places) /\ m \in Injection(layout.files, places)
  BY <1>1 DEF Surjection, Injection, IsInjective, FilesRight
<1> HIDE DEF spot, m, list
<1>6. IsFiniteSet(places) /\ Cardinality(places) = Cardinality(layout.files)
  BY <1>4, <1>5, FS_Surjection
<1> HIDE DEF places
<1>7. Cardinality(places \cup {list}) = IF list \in places THEN Cardinality(places) ELSE Cardinality(places) + 1
  BY <1>6, FS_AddElement
<1>8. CASE layout.lines = <<>>
  <2>1. L!StagedSet(layout) = places
    BY <1>2, <1>8
  <2> QED BY <1>4, <1>6, <1>8, <2>1
<1>9. CASE layout.lines # <<>>
  <2>1. L!StagedSet(layout) = places \cup {list}
    BY <1>2, <1>9
  <2> QED BY <1>3, <1>6, <1>7, <1>9, <2>1
<1> QED BY <1>8, <1>9

LEMMA SetListed == FilesRight => L!DiscsListed
<1> DEFINE layout == L!PlanLayout(L!GameFiles)
           fs == L!PlaylistFiles(L!GameFiles)
           ds == L!DiscFiles(fs)
<1> SUFFICES ASSUME FilesRight, NEW f \in L!GameFiles, layout.lines # <<>>
             PROVE  Cardinality({i \in 1 .. Len(layout.lines) : layout.lines[i] = f.path})
                      = IF f.class = "m3u" \/ (f.class = "track" /\ \E s \in L!GameFiles : s.class = "sheet")
                        THEN 0 ELSE 1
  BY LayoutsCount DEF L!DiscsListed
<1>1. fs \in SUBSET files /\ ds \in SUBSET files /\ f \in files
  BY DEF L!PlaylistFiles, L!GameFiles, L!DiscFiles
<1>2. layout.lines = [i \in 1 .. Cardinality(ds) |-> L!Discs(fs)[i].path]
  BY LinesPlanned
<1>3. Cardinality(ds) \in Nat
  BY <1>1, PlacesApart
<1>4. f \in ds <=> ~(f.class = "m3u" \/ (f.class = "track" /\ \E s \in L!GameFiles : s.class = "sheet"))
  BY DEF L!DiscFiles, L!PlaylistFiles
<1>5. Cardinality({k \in 1 .. Cardinality(ds) : L!Discs(fs)[k].path = f.path}) = IF f \in ds THEN 1 ELSE 0
  BY <1>1, LinesOnce
<1> HIDE DEF ds, fs, layout
<1>6. Len(layout.lines) = Cardinality(ds)
  BY <1>2, <1>3
<1>7. {i \in 1 .. Len(layout.lines) : layout.lines[i] = f.path}
        = {k \in 1 .. Cardinality(ds) : L!Discs(fs)[k].path = f.path}
  BY <1>2, <1>6
<1> QED BY <1>4, <1>5, <1>7

\* Of a set of whatever files: none is placed where another is, its playlist included, and the playlist lists
\* each disc once (layout.go PlanLayout, playlistLayout, Discs).
THEOREM SetWholeHolds == PartsSpec => []SetWhole
<1>1. (whose = "layouts" => LayoutInv) => SetWhole
  BY SetPlaced, SetListed DEF SetWhole, LayoutInv
<1> QED BY <1>1, LayoutInvariant, PTL

=============================================================================
