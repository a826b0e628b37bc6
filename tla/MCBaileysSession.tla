-------------------------- MODULE MCBaileysSession --------------------------
(***************************************************************************)
(* One session with a few starts, which are all alike.                     *)
(***************************************************************************)
EXTENDS BaileysSession, TLC

Symmetry == Permutations(Start)
=============================================================================
