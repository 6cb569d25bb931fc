------------------------ MODULE MCDFSRndNumGenerator ------------------------
(* All trees of binary choices of depth 3, where any choice may be filtered
   out and any node may complete a program, below a limit of 2 and of 3; and
   depth guards that ask for nothing, for too much after every choice or after
   some choices only. *)
EXTENDS DFSRndNumGenerator

Leaf == [p \in {<<>>} |-> 0]
NoNode == <<>>

Join(kids) ==
  [p \in {<<>>} \cup UNION {{<<v>> \o q : q \in DOMAIN kids[v]} : v \in DOMAIN kids}
     |-> IF p = <<>> THEN 2 ELSE kids[p[1]][Tail(p)]]

\* the trees of binary choices up to a depth
Branching(depth) ==
  LET f[n \in Nat] ==
        IF n = 0 THEN {Leaf}
        ELSE {Leaf} \cup {Join(k) : k \in [{0, 1} -> f[n - 1] \cup {NoNode}]}
  IN  f[depth]

\* a generator makes at least one choice
MCTrees == Branching(3) \ {Leaf}

Nodes == UNION {[1 .. n -> {0, 1}] : n \in 0 .. 3}

\* with two choices made of three, a depth of 2 is left; with three, of 1
MCDemands ==
  {[p \in Nodes |-> n] : n \in {0, 2}}
    \cup {[p \in Nodes |-> IF p # <<>> /\ p[Len(p)] = v THEN 3 ELSE 0] : v \in {0, 1}}
=============================================================================
