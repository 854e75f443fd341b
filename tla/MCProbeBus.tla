----------------------------- MODULE MCProbeBus -----------------------------
(***************************************************************************)
(* Instances of ProbeBus: one device of each kind.                         *)
(***************************************************************************)
EXTENDS ProbeBus

CONSTANTS
  fast, fastParasite, slow, slowParasite

Kinds == {fast, fastParasite, slow, slowParasite}
Fast  == {fast, fastParasite}
Unpowered == {fastParasite, slowParasite}
=============================================================================
