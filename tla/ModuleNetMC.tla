----------------------------- MODULE ModuleNetMC -----------------------------
(* A coordinator and two managers of the same kind on two other machines.   *)
EXTENDS ModuleNet

CONSTANTS co, a, b, adc

Machines   == {co, a, b}
Kinds      == {adc}
Managers   == {<<a, adc>>, <<b, adc>>}
=============================================================================
