----------------------------- MODULE MCFrontend -----------------------------
(***************************************************************************)
(* A small instance of Frontend.  Its dashboard counts three records: two  *)
(* of one department, two of one type, one of them of an archived          *)
(* employee.                                                               *)
(***************************************************************************)
EXTENDS Frontend

Department1 == <<"eng", "eng", "ops">>
TypeOf1     == <<"visa", "training", "training">>
=============================================================================
