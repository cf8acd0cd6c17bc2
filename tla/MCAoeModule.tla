---------------------------- MODULE MCAoeModule ----------------------------
(* AoeModule for TLC; it has no parameters.                                *)
EXTENDS AoeModule
=============================================================================
