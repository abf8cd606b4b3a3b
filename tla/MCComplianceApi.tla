--------------------------- MODULE MCComplianceApi --------------------------
(* Finite instances of ComplianceApi for TLC.                              *)
EXTENDS ComplianceApi, TLC

(* Workers, employees and types are interchangeable: no handler treats one *)
(* of them differently from another.                                       *)
Symmetry == Permutations(Workers) \union Permutations(EmployeeId)
              \union Permutations(Type)
=============================================================================
