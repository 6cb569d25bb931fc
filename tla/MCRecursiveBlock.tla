-------------------------- MODULE MCRecursiveBlock --------------------------
(***************************************************************************)
(* Three pointers and one object.  A value moves from r to q and from q to *)
(* p, by one pointer for each level of recursion; p is the one used.       *)
(***************************************************************************)
EXTENDS RecursiveBlock

CONSTANTS p, q, r, x

MCPtr == {p, q, r}
MCObj == {x}

MCStatements ==
  {[kind |-> "copy", lhs |-> p, from |-> q, new |-> FALSE],
   [kind |-> "copy", lhs |-> q, from |-> r, new |-> FALSE],
   [kind |-> "set", lhs |-> r, to |-> x, new |-> FALSE],
   [kind |-> "set", lhs |-> p, to |-> Null, new |-> FALSE],
   [kind |-> "set", lhs |-> p, to |-> Null, new |-> TRUE],
   [kind |-> "use", ptr |-> p, new |-> FALSE]}

MCEntries == {[s \in MCPtr |-> IF s = r THEN {Null} ELSE {x}],
              [s \in MCPtr |-> IF s = p THEN {x} ELSE {Null, x}]}
=============================================================================
