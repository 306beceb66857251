---------------------------- MODULE MCAdminQueue ----------------------------
(* AdminQueue needs no model values: its constants are numbers and flags.  *)
EXTENDS AdminQueue
=============================================================================
