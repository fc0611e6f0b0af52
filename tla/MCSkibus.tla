------------------------------ MODULE MCSkibus ------------------------------
(* Instances of Skibus for TLC: the skiers are model values. *)
EXTENDS Skibus
=============================================================================
