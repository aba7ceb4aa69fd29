-------------------------------- MODULE MCVm --------------------------------
(* Instances of Vm for TLC.                                                  *)
EXTENDS Vm

\* A program of one segment, and one whose segments do not end on pages and
\* do not grow.
TwoPrograms == {<<2>>, <<3, 1, 4>>}
SbrkArgs == {-3, 1, 4}
=============================================================================
