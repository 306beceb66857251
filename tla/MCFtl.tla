------------------------------- MODULE MCFtl -------------------------------
(* Model values for Ftl.                                                   *)
EXTENDS Ftl

ThreePages == 0 .. 2
FivePages == 0 .. 4
=============================================================================
