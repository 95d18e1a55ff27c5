------------------------------- MODULE MCShell -------------------------------
(***************************************************************************)
(* A ring of three lines.                                                  *)
(***************************************************************************)
EXTENDS Shell

Numbers == {-1} \cup 0 .. 7
=============================================================================
