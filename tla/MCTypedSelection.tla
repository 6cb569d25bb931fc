------------------------- MODULE MCTypedSelection --------------------------
(***************************************************************************)
(* A small instance of TypedSelection: programs without volatile, and      *)
(* programs without const; with pointers to pointers, or with structs.     *)
(***************************************************************************)
EXTENDS TypedSelection

MCPrograms ==
  [types : {{Integer(0), Integer(1), Integer(2)}, {Integer(0), Integer(1), Struct(0), Struct(1)}},
   coins : {{Plain, [Plain EXCEPT !.c = TRUE]}, {Plain, [Plain EXCEPT !.v = TRUE]}}]
=============================================================================
