------------------------------ MODULE MCHelpers ------------------------------
(***************************************************************************)
(* Instances of Helpers: one name in each of two namespaces.               *)
(***************************************************************************)
EXTENDS Helpers

MCKeys == {[ns |-> n, name |-> "a"] : n \in {"n1", "n2"}}
=============================================================================
