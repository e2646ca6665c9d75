------------------------------- MODULE MCLibrary -------------------------------
(* Library, as TLC checks it. *)
EXTENDS Library

\* A game's files.
CONSTANT a
=============================================================================
