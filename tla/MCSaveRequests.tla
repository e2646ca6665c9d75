--------------------------- MODULE MCSaveRequests ---------------------------
(* Small instances of SaveRequests for TLC: every game plays in one emulator. *)
EXTENDS SaveRequests, TLC

CONSTANTS e1

OneEmu == [g \in Games |-> e1]
Symmetry == Permutations(Workers) \cup Permutations(Games)

\* owed, asked and mine only record what was asked for, of a game's record only whether it waits is
\* read, and of a plan only what is left to do: runs whose properties read no more need not tell states
\* apart by them.
LeftOf(x) == [thr[x] EXCEPT !.mine = {}, !.plan = [g \in thr[x].todo |-> @[g]]]
Plain == <<request, running, waits, [x \in Threads |-> LeftOf(x)], loop, watch,
           {g \in Games : rec[g] = "waiting"}, save, world>>
=============================================================================
