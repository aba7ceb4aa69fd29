------------------------------- MODULE MCCsem -------------------------------
(* Instances of Csem for TLC.                                                *)
EXTENDS Csem
=============================================================================
