------------------------- MODULE MCDriverLifecycle -------------------------
(* DriverLifecycle for TLC.                                                *)
EXTENDS DriverLifecycle
=============================================================================
