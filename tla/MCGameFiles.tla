----------------------------- MODULE MCGameFiles -----------------------------
EXTENDS GameFiles, TLC

CONSTANTS g1, g2, p1, p2, p3

\* g1's update renames one of two files.
Renames == g1 :> <<{p1, p2}, {p1, p3}>>

\* Two ROMs with a target path in common.
Shared == (g1 :> <<{p1, p2}>>) @@ (g2 :> <<{p1}>>)

\* One game, one file.
Single == g1 :> <<{p1}, {p1}>>
=============================================================================
