------------------------------ MODULE Coalescing ------------------------------
(***************************************************************************)
(* What asking for a sync promises (saves.go request, syncing), whatever   *)
(* goroutine asks and whatever runs the syncs: a game asked for is queued; *)
(* one sync at a time covers everything queued when it began, and what is  *)
(* asked for meanwhile is covered by one after it.                         *)
(***************************************************************************)
CONSTANT Games

VARIABLES
  queued,     \* the games asked for since the last sync began
  covered,    \* the games the running sync covers
  busy        \* somebody will see to what is queued

vars == <<queued, covered, busy>>

Init == queued = {} /\ covered = {} /\ busy = FALSE

Ask(games) ==
  /\ queued' = queued \cup games /\ busy' = TRUE
  /\ UNCHANGED covered

Begin ==
  /\ busy /\ covered = {} /\ queued # {}
  /\ covered' = queued /\ queued' = {}
  /\ UNCHANGED busy

End ==
  /\ covered # {} /\ covered' = {}
  /\ UNCHANGED <<queued, busy>>

\* Nobody stays once nothing is left.
Rest ==
  /\ busy /\ queued = {} /\ covered = {}
  /\ busy' = FALSE
  /\ UNCHANGED <<queued, covered>>

Next == (\E games \in SUBSET Games : Ask(games)) \/ Begin \/ End \/ Rest
Safety == Init /\ [][Next]_vars

\* A sync begins for every game queued, and ends.
Answers ==
  \A g \in Games : /\ (g \in queued) ~> (g \in covered)
                   /\ (g \in covered) ~> (g \notin covered)

Spec == Safety /\ Answers
===============================================================================
