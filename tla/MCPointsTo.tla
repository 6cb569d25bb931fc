----------------------------- MODULE MCPointsTo -----------------------------
(* A small instance: an integer, two pointers to it, one of them an array,
   and a pointer to pointers; an "if" in the body.  The function is entered
   with null pointers in the globals, or with a dangling one and an array
   that may hold one. *)
EXTENDS PointsTo, TLC

CONSTANTS x, p, a, pp

MCVar   == {x, p, a, pp}
MCLevel == [v \in MCVar |-> IF v = x THEN 0 ELSE IF v = pp THEN 2 ELSE 1]
MCArray == {a}
MCMaxSize == <<3, 1>>
MCGlobals == {a, p}

Nulls == [v \in MCVar |-> IF v \in MCGlobals THEN {Null} ELSE {}]

MCEntries ==
  {[facts |-> Nulls, store |-> Nulls],
   [facts |-> [Nulls EXCEPT ![p] = {Null, Garbage}, ![a] = {Null, Garbage}],
    store |-> [Nulls EXCEPT ![p] = {Garbage}]]}
=============================================================================
