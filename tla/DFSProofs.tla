----------------------------- MODULE DFSProofs ------------------------------
(***************************************************************************)
(* The stack of decisions of the exhaustive search, for every generator    *)
(* and every depth limit: what random_choice takes for granted when it     *)
(* tells apart a decision to repeat, the one to change and a new one.      *)
(***************************************************************************)
EXTENDS DFSRndNumGenerator, FiniteSetTheorems, TLAPS

\* A nonempty set of naturals has a least element.  The library proves it by
\* an induction that takes an operator; here the numbers below all of S, if
\* none were in S, would be mapped one to one to those but zero.
LEMMA MinIsLeast ==
  ASSUME NEW S, S \subseteq Nat, S # {}
  PROVE  Min(S) \in S /\ \A y \in S : Min(S) <= y
<1>1. PICK m \in S : TRUE
  OBVIOUS
<1>2. \E x \in S : \A y \in S : x <= y
  <2> SUFFICES ASSUME \A x \in S : \E y \in S : ~(x <= y)
               PROVE  FALSE
    OBVIOUS
  <2> DEFINE Q == {n \in 0 .. m : \A y \in S : n <= y}
             f == [n \in Q |-> n + 1]
  <2>1. 0 \in Q
    BY <1>1
  <2>2. ASSUME NEW n \in Q
        PROVE  n + 1 \in Q \ {0}
    <3>1. n \notin S /\ n \in Nat /\ \A y \in S : n <= y
      BY <1>1
    <3>2. \A y \in S : n + 1 <= y
      BY <3>1
    <3> QED
      BY <1>1, <3>1, <3>2
  <2>3. IsFiniteSet(Q)
    <3>1. IsFiniteSet(0 .. m)
      BY <1>1, FS_Interval
    <3> QED
      BY <3>1, FS_Subset
  <2>4. IsFiniteSet(Q \ {0}) /\ Cardinality(Q \ {0}) < Cardinality(Q)
    <3>1. /\ IsFiniteSet(Q \ {0}) /\ Cardinality(Q \ {0}) = Cardinality(Q) - 1
      BY <2>1, <2>3, FS_RemoveElement
    <3>2. Cardinality(Q) \in Nat
      BY <2>3, FS_CardinalityType
    <3> HIDE DEF Q
    <3> QED
      BY <3>1, <3>2
  <2>5. f \in [Q -> Q \ {0}]
    BY <2>2
  <2>6. \E x, y \in Q : x # y /\ f[x] = f[y]
    <3> HIDE DEF Q, f
    <3> QED
      BY <2>3, <2>4, <2>5, FS_PigeonHole
  <2> QED
    BY <2>6
<1> QED
  BY <1>2 DEF Min

-----------------------------------------------------------------------------
\* While a run goes on, its choices are those of the stack up to its position.
Follows ==
  err = "SUCCESS" => current_pos \in -1 .. decision_depth /\ Len(seq) = current_pos + 1

SearchInv ==
  /\ Tree \in Trees
  /\ TypeOK
  /\ SearchStack
  /\ RevisitInRange
  /\ Follows

LEMMA TreeFacts ==
  ASSUME SearchInv
  PROVE  /\ max_depth \in Nat \ {0}
         /\ seq \in Seq(Nat) /\ Tree[seq] \in Nat
         /\ \A p \in DOMAIN Tree : p \in Seq(Nat)
BY DepthsOK, TreesOK DEF SearchInv, TypeOK

\* A depth guard gives up at the choices made in this run.
LEMMA TooDeepGivesUp ==
  ASSUME SearchInv, err = "SUCCESS"
  PROVE  TooDeep <=> GivenUp(seq)
<1>1. /\ seq \in Seq(Nat) /\ Len(seq) = current_pos + 1 /\ Len(seq) \in Nat
      /\ current_pos \in Int /\ max_depth \in Nat
  BY TreeFacts DEF SearchInv, Follows, TypeOK
<1> QED
  BY <1>1 DEF TooDeep, GivenUp

\* A value that the search takes leads to a node of the tree.
LEMMA NextValueAccepted ==
  ASSUME SearchInv, NEW v \in Nat, NextValue(v) < Tree[seq]
  PROVE  NextValue(v) \in Nat /\ Append(seq, NextValue(v)) \in DOMAIN Tree
<1> DEFINE S == {w \in v .. Tree[seq] - 1 : Accepted(w)} \cup {Tree[seq]}
<1>1. S \subseteq Nat /\ S # {} /\ Tree[seq] \in Nat
  BY TreeFacts
<1>2. Min(S) \in S
  BY <1>1, MinIsLeast
<1>3. NextValue(v) = Min(S)
  BY DEF NextValue
<1>4. Min(S) \in Nat /\ (Min(S) # Tree[seq] => Accepted(Min(S)))
  BY <1>1, <1>2
<1>5. Min(S) # Tree[seq]
  <2> HIDE DEF S
  <2> QED
    BY <1>1, <1>3, <1>4
<1> QED
  BY <1>3, <1>4, <1>5 DEF Accepted

LEMMA SearchInit == Init => SearchInv
<1> SUFFICES ASSUME Init
             PROVE  SearchInv
  OBVIOUS
<1>1. max_depth \in Nat \ {0} /\ <<>> \in DOMAIN Tree
  BY DepthsOK, TreesOK DEF Init
<1>2. states \in [Positions -> [init : BOOLEAN, value : Nat]]
  BY DEF Init, Fresh
<1>3. TypeOK
  <2>1. current_pos \in -1 .. max_depth /\ decision_depth \in -1 .. max_depth - 1
    BY <1>1 DEF Init
  <2>2. /\ max_depth \in MaxDepths /\ needed \in Demands
        /\ all_done = FALSE /\ err = "SUCCESS" /\ seq = <<>>
    BY DEF Init
  <2> QED
    BY <1>1, <1>2, <2>1, <2>2 DEF TypeOK
<1>4. SearchStack
  <2>1. \A i \in Positions : ~states[i].init /\ ~(i <= -1)
    BY <1>1 DEF Init, Fresh, Positions
  <2> QED
    BY <2>1 DEF Init, SearchStack
<1> QED
  BY <1>1, <1>3, <1>4 DEF Init, SearchInv, RevisitInRange, Follows

\* Giving up the decisions from position i on.
LEMMA UninitInv ==
  ASSUME SearchInv, NEW i \in Positions, i <= decision_depth + 1,
         states' = Uninit(i), decision_depth' = i - 1,
         UNCHANGED <<program, seq>>
  PROVE  /\ states' \in [Positions' -> [init : BOOLEAN, value : Nat]]
         /\ decision_depth' \in -1 .. max_depth' - 1
         /\ SearchStack' /\ RevisitInRange'
<1> USE DEF SearchInv
<1>0. /\ Positions' = Positions /\ Tree' = Tree /\ max_depth' = max_depth
      /\ max_depth \in Nat \ {0} /\ decision_depth \in Int /\ i \in Nat
  BY TreeFacts DEF program, Positions, TypeOK
<1>1. \A j \in Positions : /\ states'[j].value = states[j].value
                           /\ states'[j].init <=> (j < i /\ states[j].init)
  BY <1>0 DEF Uninit, TypeOK, Positions
<1>2. states' \in [Positions -> [init : BOOLEAN, value : Nat]]
  BY DEF Uninit, TypeOK
<1>3. decision_depth' \in -1 .. max_depth - 1
  BY <1>0 DEF Positions
<1>4. SearchStack'
  <2>1. \A j \in Positions : states'[j].init <=> j <= i - 1
    BY <1>0, <1>1 DEF SearchStack, Positions
  <2>2. ASSUME NEW j \in 1 .. Len(seq), j - 1 <= i - 1
        PROVE  seq[j] = states'[j - 1].value
    <3>1. j - 1 \in Positions /\ j - 1 <= decision_depth
      BY <1>0, <2>2, TreeFacts DEF Positions
    <3> QED
      BY <1>1, <3>1 DEF SearchStack
  <2> QED
    BY <1>0, <2>1, <2>2 DEF SearchStack
<1>5. RevisitInRange'
  <2> SUFFICES ASSUME NEW d \in 1 .. i
               PROVE  [j \in 1 .. d |-> states'[j - 1].value] \in DOMAIN Tree
    BY <1>0 DEF RevisitInRange
  <2>1. d \in 1 .. decision_depth + 1
    BY <1>0
  <2>2. \A j \in 1 .. d : j - 1 \in Positions
    BY <1>0 DEF Positions
  <2>3. [j \in 1 .. d |-> states'[j - 1].value] = [j \in 1 .. d |-> states[j - 1].value]
    BY <1>1, <2>2
  <2> QED
    BY <2>1, <2>3 DEF RevisitInRange
<1> QED
  BY <1>0, <1>2, <1>3, <1>4, <1>5

\* A depth guard gives up what is behind the position it is at.
LEMMA EagerInv ==
  ASSUME SearchInv, EagerBacktracking
  PROVE  SearchInv'
<1> USE DEF SearchInv
<1>1. /\ err = "SUCCESS" /\ err' = "BACKTRACKING_ERROR"
      /\ UNCHANGED <<program, current_pos, all_done, seq>>
      /\ current_pos \in 0 .. decision_depth
  BY DEF EagerBacktracking, Running, TooDeep, Follows, TypeOK
<1>2. decision_depth' = current_pos /\ states' = Uninit(current_pos + 1)
  BY <1>1 DEF EagerBacktracking, TypeOK
<1>3. CASE current_pos + 1 \in Positions
  <2>1. current_pos + 1 <= decision_depth + 1 /\ decision_depth' = (current_pos + 1) - 1
    BY <1>1, <1>2 DEF TypeOK
  <2>2. /\ states' \in [Positions' -> [init : BOOLEAN, value : Nat]]
        /\ decision_depth' \in -1 .. max_depth' - 1
        /\ SearchStack' /\ RevisitInRange'
    BY <1>1, <1>2, <1>3, <2>1, UninitInv
  <2> QED
    BY <1>1, <2>2 DEF TypeOK, Follows, program
<1>4. CASE current_pos + 1 \notin Positions
  <2>1. current_pos = decision_depth
    BY <1>1, <1>4, TreeFacts DEF Positions, TypeOK
  <2>2. states' = states
    BY <1>1, <1>2, <1>4, TreeFacts DEF Uninit, Positions, TypeOK
  <2> QED
    BY <1>1, <1>2, <2>1, <2>2
       DEF TypeOK, Follows, program, Positions, SearchStack, RevisitInRange
<1> QED
  BY <1>3, <1>4
\* A decision that was made before is repeated, and its value is a choice the
\* generator offers.
LEMMA RevisitInv ==
  ASSUME SearchInv, RevisitNode
  PROVE  SearchInv'
<1> USE DEF SearchInv
<1>1. /\ err = "SUCCESS" /\ pos < max_depth /\ pos < decision_depth
      /\ current_pos' = pos /\ seq' = Append(seq, states[pos].value)
      /\ UNCHANGED <<program, states, decision_depth, all_done, err>>
  BY DEF RevisitNode, Choosing, Running
<1>2. /\ Len(seq) = pos /\ pos \in Nat /\ decision_depth \in Int
      /\ pos \in Positions /\ states[pos].value \in Nat /\ max_depth \in Nat
  BY <1>1, TreeFacts DEF Follows, pos, TypeOK, Positions
<1>3. /\ seq' \in Seq(Nat) /\ Len(seq') = pos + 1
      /\ \A i \in 1 .. pos : seq'[i] = seq[i]
      /\ seq'[pos + 1] = states[pos].value
  BY <1>1, <1>2, TreeFacts
<1>4. \A i \in 1 .. pos + 1 : seq'[i] = states[i - 1].value
  <2>1. \A i \in 1 .. pos : i - 1 <= decision_depth
    BY <1>1, <1>2
  <2>2. \A i \in 1 .. pos : seq[i] = states[i - 1].value
    BY <1>2, <2>1 DEF SearchStack
  <2> QED
    BY <1>2, <1>3, <2>2
<1>5. seq' \in DOMAIN Tree
  <2>1. seq' = [i \in 1 .. pos + 1 |-> states[i - 1].value]
    <3>1. seq' = [i \in 1 .. pos + 1 |-> seq'[i]]
      BY <1>3
    <3> QED
      BY <1>4, <3>1
  <2>2. pos + 1 \in 1 .. decision_depth + 1
    BY <1>1, <1>2
  <2> QED
    BY <2>1, <2>2 DEF RevisitInRange
<1>6. TypeOK'
  BY <1>1, <1>2, <1>5 DEF TypeOK, program, Positions
<1>7. SearchStack'
  BY <1>1, <1>3, <1>4 DEF SearchStack, program, Positions
<1>8. RevisitInRange'
  BY <1>1 DEF RevisitInRange, program
<1>9. Follows'
  BY <1>1, <1>2, <1>3 DEF Follows
<1> QED
  BY <1>1, <1>6, <1>7, <1>8, <1>9 DEF program

\* The search takes a value at the end of the stack.
LEMMA TakeInv ==
  ASSUME SearchInv, NEW v \in Nat, Append(seq, v) \in DOMAIN Tree,
         err = "SUCCESS", pos \in Positions,
         \A i \in Positions : i < pos => states[i].init,
         pos >= decision_depth,
         Take(v), current_pos' = pos, UNCHANGED program
  PROVE  SearchInv'
<1> USE DEF SearchInv
<1>1. /\ states' = [states EXCEPT ![pos] = [init |-> TRUE, value |-> v]]
      /\ decision_depth' = pos /\ seq' = Append(seq, v)
      /\ Tree' = Tree /\ max_depth' = max_depth /\ Positions' = Positions
      /\ UNCHANGED <<needed, all_done, err>>
  BY DEF Take, program, Positions
<1>2. /\ Len(seq) = pos /\ pos \in Nat /\ decision_depth \in Int
      /\ max_depth \in Nat /\ pos < max_depth
  BY TreeFacts DEF Follows, pos, TypeOK, Positions
<1>3. /\ seq' \in Seq(Nat) /\ Len(seq') = pos + 1
      /\ \A i \in 1 .. pos : seq'[i] = seq[i]
      /\ seq'[pos + 1] = v
  BY <1>1, <1>2, TreeFacts
<1>4. /\ states'[pos] = [init |-> TRUE, value |-> v]
      /\ \A i \in Positions : i # pos => states'[i] = states[i]
      /\ states' \in [Positions -> [init : BOOLEAN, value : Nat]]
  BY <1>1 DEF TypeOK
<1>5. \A i \in 1 .. pos + 1 : seq'[i] = states'[i - 1].value
  <2>1. \A i \in 1 .. pos : i - 1 \in Positions /\ i - 1 # pos /\ i - 1 <= decision_depth
    <3>1. pos <= decision_depth + 1
      BY <1>2 DEF Follows, pos
    <3> QED
      BY <1>2, <3>1 DEF Positions
  <2>2. \A i \in 1 .. pos : seq[i] = states'[i - 1].value
    BY <1>2, <1>4, <2>1 DEF SearchStack
  <2> QED
    BY <1>2, <1>3, <1>4, <2>2
<1>6. TypeOK'
  BY <1>1, <1>2, <1>4 DEF TypeOK
<1>7. SearchStack'
  <2>1. \A i \in Positions : states'[i].init <=> i <= pos
    <3>1. \A i \in Positions : i > pos => ~states[i].init
      BY <1>2 DEF SearchStack, Positions
    <3> QED
      BY <1>2, <1>4, <3>1 DEF Positions, TypeOK
  <2> QED
    BY <1>1, <1>3, <1>5, <2>1 DEF SearchStack
<1>8. RevisitInRange'
  <2> SUFFICES ASSUME NEW d \in 1 .. pos + 1
               PROVE  [i \in 1 .. d |-> states'[i - 1].value] \in DOMAIN Tree
    BY <1>1 DEF RevisitInRange
  <2>1. CASE d = pos + 1
    <3>1. seq' = [i \in 1 .. pos + 1 |-> seq'[i]]
      BY <1>3
    <3>2. seq' = [i \in 1 .. d |-> states'[i - 1].value]
      BY <1>5, <2>1, <3>1
    <3> QED
      BY <1>1, <3>2
  <2>2. CASE d # pos + 1
    <3>1. d \in 1 .. decision_depth + 1 /\ d <= pos
      <4>1. pos <= decision_depth + 1
        BY <1>2 DEF Follows, pos
      <4> QED
        BY <1>2, <2>2, <4>1
    <3>2. \A i \in 1 .. d : i - 1 \in Positions /\ i - 1 # pos
      BY <1>2, <3>1 DEF Positions
    <3>3. [i \in 1 .. d |-> states'[i - 1].value] = [i \in 1 .. d |-> states[i - 1].value]
      BY <1>4, <3>2
    <3> QED
      BY <3>1, <3>3 DEF RevisitInRange
  <2> QED
    BY <2>1, <2>2
<1>9. Follows'
  BY <1>1, <1>2, <1>3 DEF Follows
<1> QED
  BY <1>1, <1>6, <1>7, <1>8, <1>9

\* No value is left: the position is given up.
LEMMA BacktrackInv ==
  ASSUME SearchInv, err = "SUCCESS", pos \in Positions, pos <= decision_depth + 1,
         Backtrack, current_pos' = pos, UNCHANGED program
  PROVE  SearchInv'
<1>1. /\ states' \in [Positions' -> [init : BOOLEAN, value : Nat]]
      /\ decision_depth' \in -1 .. max_depth' - 1
      /\ SearchStack' /\ RevisitInRange'
  BY UninitInv DEF Backtrack
<1>2. /\ pos \in -1 .. max_depth /\ all_done' \in BOOLEAN
  BY TreeFacts DEF Positions, Backtrack
<1> QED
  BY <1>1, <1>2 DEF SearchInv, TypeOK, Follows, Backtrack, program

\* The decision at the end of the stack takes its next value or is given up.
LEMMA SwitchInv ==
  ASSUME SearchInv, SwitchBranch
  PROVE  SearchInv'
<1> USE DEF SearchInv
<1>1. /\ err = "SUCCESS" /\ pos < max_depth /\ states[pos].init /\ pos >= decision_depth
      /\ current_pos' = pos /\ UNCHANGED program
  BY DEF SwitchBranch, Choosing, Running
<1>2. pos \in Positions /\ pos \in Nat /\ decision_depth \in Int
  BY <1>1, TreeFacts DEF pos, Follows, TypeOK, Positions
<1>3. pos = decision_depth
  BY <1>1, <1>2 DEF SearchStack
<1>4. states[pos].value \in Nat
  BY <1>2 DEF TypeOK
<1>5. \A i \in Positions : i < pos => states[i].init
  BY <1>2, <1>3 DEF SearchStack, Positions
<1> DEFINE v == ValueAfter(states[pos].value)
<1>6. CASE v < Tree[seq]
  <2>1. v \in Nat /\ Append(seq, v) \in DOMAIN Tree
    BY <1>4, <1>6, NextValueAccepted DEF ValueAfter
  <2>2. Take(v)
    BY <1>6 DEF SwitchBranch
  <2> HIDE DEF v
  <2> QED
    BY <1>1, <1>2, <1>5, <2>1, <2>2, TakeInv
<1>7. CASE ~(v < Tree[seq])
  <2>1. Backtrack
    BY <1>7 DEF SwitchBranch
  <2> QED
    BY <1>1, <1>2, <1>3, <2>1, BacktrackInv
<1> QED
  BY <1>6, <1>7

\* A position is decided for the first time: the one behind the stack.
LEMMA FirstVisitInv ==
  ASSUME SearchInv, FirstVisit
  PROVE  SearchInv'
<1> USE DEF SearchInv
<1>1. /\ err = "SUCCESS" /\ pos < max_depth /\ ~states[pos].init
      /\ current_pos' = pos /\ UNCHANGED program
  BY DEF FirstVisit, Choosing, Running
<1>2. pos \in Positions /\ pos \in Nat /\ decision_depth \in Int
  BY <1>1, TreeFacts DEF pos, Follows, TypeOK, Positions
<1>3. pos = decision_depth + 1
  BY <1>1, <1>2 DEF SearchStack, pos, Follows
<1>4. \A i \in Positions : i < pos => states[i].init
  BY <1>2, <1>3 DEF SearchStack, Positions
<1>5. CASE NextValue(0) < Tree[seq]
  <2>1. NextValue(0) \in Nat /\ Append(seq, NextValue(0)) \in DOMAIN Tree
    BY <1>5, NextValueAccepted
  <2>2. Take(NextValue(0))
    BY <1>5 DEF FirstVisit
  <2>3. pos >= decision_depth
    BY <1>2, <1>3
  <2> QED
    BY <1>1, <1>2, <1>4, <2>1, <2>2, <2>3, TakeInv
<1>6. CASE ~(NextValue(0) < Tree[seq])
  <2>1. Backtrack
    BY <1>6 DEF FirstVisit
  <2>2. pos <= decision_depth + 1
    BY <1>2, <1>3
  <2> QED
    BY <1>1, <1>2, <2>1, <2>2, BacktrackInv
<1> QED
  BY <1>5, <1>6

LEMMA ExceedInv ==
  ASSUME SearchInv, ExceedMaxDepth
  PROVE  SearchInv'
<1> USE DEF SearchInv
<1>1. pos \in -1 .. max_depth
  BY TreeFacts DEF pos, ExceedMaxDepth, Choosing, Running, Follows, TypeOK
<1> QED
  BY <1>1 DEF ExceedMaxDepth, TypeOK, SearchStack, RevisitInRange, Follows, Positions, program

\* The next run starts at the root, the stack stays.
LEMMA EndRunInv ==
  ASSUME SearchInv, EndRun
  PROVE  SearchInv'
<1> USE DEF SearchInv
<1>1. /\ current_pos' = -1 /\ seq' = <<>> /\ err' = "SUCCESS"
      /\ UNCHANGED <<program, states, decision_depth, all_done>>
  BY DEF EndRun, SeqCleared
<1>2. /\ -1 \in -1 .. max_depth /\ -1 \in -1 .. decision_depth /\ <<>> \in DOMAIN Tree
  BY TreeFacts, TreesOK DEF TypeOK
<1>3. TypeOK'
  BY <1>1, <1>2 DEF TypeOK, program, Positions
<1>4. Follows'
  BY <1>1, <1>2 DEF Follows
<1> QED
  BY <1>1, <1>3, <1>4 DEF SearchStack, RevisitInRange, Positions, program

-----------------------------------------------------------------------------
LEMMA SearchStep ==
  ASSUME SearchInv, [Next]_vars
  PROVE  SearchInv'
<1>1. CASE UNCHANGED vars
  BY <1>1 DEF vars, program, SearchInv, TypeOK, SearchStack, RevisitInRange, Follows, Positions
<1> QED
  BY <1>1, EagerInv, ExceedInv, RevisitInv, SwitchInv, FirstVisitInv, EndRunInv DEF Next

LEMMA SearchAlways == Spec => []SearchInv
BY SearchInit, SearchStep, PTL DEF Spec

\* The types of the search's state, for every generator and depth limit
\* (DFSRndNumGenerator).
THEOREM SearchTypes == Spec => []TypeOK
<1>1. SearchInv => TypeOK
  BY DEF SearchInv
<1> QED
  BY <1>1, SearchAlways, PTL

\* The initialised positions are those of the stack, whatever is given up at
\* depth guards, by filters or at the limit, and each run follows the stack
\* (DFSRndNumGenerator::random_choice).
THEOREM StackDisciplined == Spec => []SearchStack
<1>1. SearchInv => SearchStack
  BY DEF SearchInv
<1> QED
  BY <1>1, SearchAlways, PTL

\* A decision that is repeated is always a choice the generator offers at that
\* point (the assertion of DFSRndNumGenerator::revisit_node).
THEOREM RevisitsAreValid == Spec => []RevisitInRange
<1>1. SearchInv => RevisitInRange
  BY DEF SearchInv
<1> QED
  BY <1>1, SearchAlways, PTL
-----------------------------------------------------------------------------
(* The order of programs, choice by choice *)

LEMMA SubSeqEqual ==
  ASSUME NEW p \in Seq(Nat), NEW q \in Seq(Nat), NEW n \in Nat, n <= Len(p), n <= Len(q)
  PROVE  SubSeq(p, 1, n) = SubSeq(q, 1, n) <=> \A j \in 1 .. n : p[j] = q[j]
<1>1. /\ SubSeq(p, 1, n) = [j \in 1 .. n |-> p[j]]
      /\ SubSeq(q, 1, n) = [j \in 1 .. n |-> q[j]]
  OBVIOUS
<1> QED
  BY <1>1

LEMMA BeforeByChoice ==
  ASSUME NEW p \in Seq(Nat), NEW q \in Seq(Nat)
  PROVE  Enumeration!Before(p, q) <=>
           \E i \in 1 .. Len(p) :
             i <= Len(q) /\ p[i] < q[i] /\ \A j \in 1 .. i - 1 : p[j] = q[j]
<1>1. \A i \in 1 .. Len(p) :
        i <= Len(q) => (SubSeq(p, 1, i - 1) = SubSeq(q, 1, i - 1)
                        <=> \A j \in 1 .. i - 1 : p[j] = q[j])
  <2> SUFFICES ASSUME NEW i \in 1 .. Len(p), i <= Len(q)
               PROVE  SubSeq(p, 1, i - 1) = SubSeq(q, 1, i - 1)
                      <=> \A j \in 1 .. i - 1 : p[j] = q[j]
    OBVIOUS
  <2>1. i - 1 \in Nat /\ i - 1 <= Len(p) /\ i - 1 <= Len(q)
    OBVIOUS
  <2> QED
    BY <2>1, SubSeqEqual
<1> QED
  BY <1>1 DEF Enumeration!Before

LEMMA PrefixByChoice ==
  ASSUME NEW p \in Seq(Nat), NEW q \in Seq(Nat)
  PROVE  IsPrefix(p, q) <=> Len(p) <= Len(q) /\ \A j \in 1 .. Len(p) : p[j] = q[j]
BY SubSeqEqual DEF IsPrefix

\* The programs after s and a choice u: those after s, and those that go on
\* from s with a greater choice.
LEMMA BeforeAppend ==
  ASSUME NEW s \in Seq(Nat), NEW u \in Nat, NEW q \in Seq(Nat)
  PROVE  /\ Enumeration!Before(Append(s, u), q) <=>
              \/ Enumeration!Before(s, q)
              \/ IsPrefix(s, q) /\ Len(s) < Len(q) /\ u < q[Len(s) + 1]
         /\ IsPrefix(Append(s, u), q) <=>
              IsPrefix(s, q) /\ Len(s) < Len(q) /\ q[Len(s) + 1] = u
<1> DEFINE n == Len(s)
           t == Append(s, u)
<1>1. /\ t \in Seq(Nat) /\ Len(t) = n + 1 /\ n \in Nat /\ Len(q) \in Nat
      /\ \A j \in 1 .. n : t[j] = s[j]
      /\ t[n + 1] = u
  OBVIOUS
<1>2. ASSUME Enumeration!Before(t, q)
      PROVE  \/ Enumeration!Before(s, q)
             \/ IsPrefix(s, q) /\ n < Len(q) /\ u < q[n + 1]
  <2>1. PICK i \in 1 .. n + 1 :
          i <= Len(q) /\ t[i] < q[i] /\ \A j \in 1 .. i - 1 : t[j] = q[j]
    BY <1>1, <1>2, BeforeByChoice
  <2>2. \A j \in 1 .. i - 1 : s[j] = q[j]
    BY <1>1, <2>1
  <2>3. CASE i <= n
    <3>1. i \in 1 .. n /\ s[i] < q[i]
      BY <1>1, <2>1, <2>3
    <3> QED
      BY <2>1, <2>2, <3>1, BeforeByChoice
  <2>4. CASE i = n + 1
    <3>1. IsPrefix(s, q)
      BY <1>1, <2>1, <2>2, <2>4, PrefixByChoice
    <3> QED
      BY <1>1, <2>1, <2>4, <3>1
  <2> QED
    BY <1>1, <2>3, <2>4
<1>3. ASSUME Enumeration!Before(s, q)
      PROVE  Enumeration!Before(t, q)
  <2>1. PICK i \in 1 .. n : i <= Len(q) /\ s[i] < q[i] /\ \A j \in 1 .. i - 1 : s[j] = q[j]
    BY <1>3, BeforeByChoice
  <2>2. i \in 1 .. n + 1 /\ t[i] < q[i] /\ \A j \in 1 .. i - 1 : t[j] = q[j]
    BY <1>1, <2>1
  <2> QED
    BY <1>1, <2>1, <2>2, BeforeByChoice
<1>4. ASSUME IsPrefix(s, q), n < Len(q), u < q[n + 1]
      PROVE  Enumeration!Before(t, q)
  <2>1. \A j \in 1 .. n : t[j] = q[j]
    BY <1>1, <1>4, PrefixByChoice
  <2>2. /\ n + 1 \in 1 .. Len(t) /\ n + 1 <= Len(q) /\ t[n + 1] < q[n + 1]
        /\ (n + 1) - 1 = n
    BY <1>1, <1>4
  <2> HIDE DEF t, n
  <2> QED
    BY <1>1, <2>1, <2>2, BeforeByChoice
<1>5. IsPrefix(t, q) <=> IsPrefix(s, q) /\ n < Len(q) /\ q[n + 1] = u
  <2>1. IsPrefix(t, q) <=> n + 1 <= Len(q) /\ \A j \in 1 .. n + 1 : t[j] = q[j]
    BY <1>1, PrefixByChoice
  <2>2. IsPrefix(s, q) <=> n <= Len(q) /\ \A j \in 1 .. n : s[j] = q[j]
    BY PrefixByChoice
  <2> HIDE DEF n, t
  <2> QED
    BY <1>1, <2>1, <2>2
<1> QED
  BY <1>2, <1>3, <1>4, <1>5

\* A program that does not extend s is ordered by s as by any extension of s.
LEMMA BeforePrefix ==
  ASSUME NEW s \in Seq(Nat), NEW p \in Seq(Nat), NEW q \in Seq(Nat),
         IsPrefix(s, p), ~IsPrefix(s, q)
  PROVE  /\ Enumeration!Before(p, q) <=> Enumeration!Before(s, q)
         /\ ~IsPrefix(p, q)
<1>1. Len(s) <= Len(p) /\ \A j \in 1 .. Len(s) : s[j] = p[j]
  BY PrefixByChoice
<1>2. ~(Len(s) <= Len(q) /\ \A j \in 1 .. Len(s) : s[j] = q[j])
  BY PrefixByChoice
<1>3. /\ Len(s) \in Nat /\ Len(p) \in Nat /\ Len(q) \in Nat
  OBVIOUS
<1>4. ASSUME Enumeration!Before(p, q)
      PROVE  Enumeration!Before(s, q)
  <2>1. PICK i \in 1 .. Len(p) : i <= Len(q) /\ p[i] < q[i] /\ \A j \in 1 .. i - 1 : p[j] = q[j]
    BY <1>4, BeforeByChoice
  <2>2. i <= Len(s)
    <3> SUFFICES ASSUME Len(s) < i
                 PROVE  FALSE
      BY <1>3
    <3>1. \A j \in 1 .. Len(s) : s[j] = q[j]
      BY <1>1, <1>3, <2>1
    <3> QED
      BY <1>2, <1>3, <2>1, <3>1
  <2>3. i \in 1 .. Len(s) /\ s[i] < q[i] /\ \A j \in 1 .. i - 1 : s[j] = q[j]
    BY <1>1, <1>3, <2>1, <2>2
  <2> QED
    BY <2>1, <2>3, BeforeByChoice
<1>5. ASSUME Enumeration!Before(s, q)
      PROVE  Enumeration!Before(p, q)
  <2>1. PICK i \in 1 .. Len(s) : i <= Len(q) /\ s[i] < q[i] /\ \A j \in 1 .. i - 1 : s[j] = q[j]
    BY <1>5, BeforeByChoice
  <2>2. i \in 1 .. Len(p) /\ p[i] < q[i] /\ \A j \in 1 .. i - 1 : p[j] = q[j]
    BY <1>1, <1>3, <2>1
  <2> QED
    BY <2>1, <2>2, BeforeByChoice
<1>6. ASSUME IsPrefix(p, q)
      PROVE  FALSE
  <2>1. Len(p) <= Len(q) /\ \A j \in 1 .. Len(p) : p[j] = q[j]
    BY <1>6, PrefixByChoice
  <2> QED
    BY <1>1, <1>2, <1>3, <2>1
<1> QED
  BY <1>4, <1>5, <1>6

-----------------------------------------------------------------------------
(* What is left to output is what the stack is before.  While a run stands *)
(* at the end of the stack, all that can follow is left as well.           *)

Stack == [i \in 1 .. decision_depth + 1 |-> states[i - 1].value]

AtEnd == err = "SUCCESS" /\ current_pos = decision_depth

Pending ==
  {q \in Programs : Enumeration!Before(Stack, q) \/ (AtEnd /\ IsPrefix(Stack, q))}

\* The programs output are those that are not left; the root is only given up
\* when the search is over.
PendingInv ==
  /\ emitted \in Seq(Programs)
  /\ ToSet(emitted) = Programs \ Pending
  /\ all_done => err # "SUCCESS" /\ decision_depth = -1
  /\ err # "SUCCESS" /\ decision_depth = -1 => all_done

\* No depth guard gave up on the way to where the run stands.
Passed == err = "SUCCESS" => \A i \in 1 .. Len(seq) - 1 : ~GivenUp(SubSeq(seq, 1, i))

\* A choice is only made where no depth guard gives up.
LEMMA PassedAppend ==
  ASSUME SearchInv, Passed, err = "SUCCESS", ~TooDeep, NEW v \in Nat,
         seq' = Append(seq, v), UNCHANGED program
  PROVE  Passed'
<1> DEFINE t == Append(seq, v)
<1>1. /\ seq \in Seq(Nat) /\ t \in Seq(Nat) /\ Len(t) = Len(seq) + 1 /\ Len(seq) \in Nat
      /\ \A j \in 1 .. Len(seq) : t[j] = seq[j]
  BY TreeFacts
<1>2. ~GivenUp(seq)
  BY TooDeepGivesUp
<1>3. seq' = t
  OBVIOUS
<1> HIDE DEF t
<1>4. ASSUME NEW i \in 1 .. Len(seq)
      PROVE  ~GivenUp(SubSeq(t, 1, i))
  <2>1. i \in Nat /\ i <= Len(seq) /\ i <= Len(t) /\ \A j \in 1 .. i : t[j] = seq[j]
    BY <1>1
  <2>2. SubSeq(t, 1, i) = SubSeq(seq, 1, i)
    BY <1>1, <2>1, SubSeqEqual
  <2>3. CASE i = Len(seq)
    <3>1. SubSeq(seq, 1, i) = seq
      BY <1>1, <2>3
    <3> QED
      BY <1>2, <2>2, <3>1
  <2>4. CASE i # Len(seq)
    <3>1. i \in 1 .. Len(seq) - 1
      BY <1>1, <2>4
    <3> QED
      BY <2>2, <3>1 DEF Passed
  <2> QED
    BY <2>3, <2>4
<1>5. Len(t) - 1 = Len(seq)
  BY <1>1
<1>6. \A p : GivenUp(p)' <=> GivenUp(p)
  BY DEF GivenUp, program
<1> QED
  BY <1>3, <1>4, <1>5, <1>6 DEF Passed

LEMMA PassedStep ==
  ASSUME SearchInv, Passed, [Next]_vars
  PROVE  Passed'
<1>1. CASE UNCHANGED vars
  BY <1>1 DEF vars, program, Passed, GivenUp
<1>2. CASE EagerBacktracking \/ ExceedMaxDepth
  BY <1>2 DEF EagerBacktracking, ExceedMaxDepth, Passed
<1>3. CASE RevisitNode
  <2>1. /\ err = "SUCCESS" /\ ~TooDeep /\ UNCHANGED program
        /\ seq' = Append(seq, states[pos].value)
    BY <1>3 DEF RevisitNode, Choosing, Running
  <2>2. states[pos].value \in Nat
    <3>1. pos \in Positions
      BY <1>3, <2>1, TreeFacts
         DEF RevisitNode, SearchInv, Follows, TypeOK, pos, Positions
    <3> QED
      BY <3>1 DEF SearchInv, TypeOK
  <2> QED
    BY <2>1, <2>2, PassedAppend
<1>4. CASE SwitchBranch \/ FirstVisit
  <2>1. err = "SUCCESS" /\ ~TooDeep /\ UNCHANGED program
    BY <1>4 DEF SwitchBranch, FirstVisit, Choosing, Running
  <2>2. CASE Backtrack
    BY <2>2 DEF Backtrack, Passed
  <2>3. ASSUME NEW w \in Nat, NextValue(w) < Tree[seq], Take(NextValue(w))
        PROVE  Passed'
    <3>1. NextValue(w) \in Nat
      BY <2>3, NextValueAccepted
    <3>2. seq' = Append(seq, NextValue(w))
      BY <2>3 DEF Take
    <3> QED
      BY <2>1, <3>1, <3>2, PassedAppend
  <2>4. CASE FirstVisit
    BY <2>2, <2>3, <2>4 DEF FirstVisit
  <2>5. CASE SwitchBranch
    <3> DEFINE u == states[pos].value + 1
    <3>1. u \in Nat
      <4>1. pos \in Positions
        BY <2>1, <2>5, TreeFacts
           DEF SwitchBranch, SearchInv, Follows, TypeOK, pos, Positions
      <4> QED
        BY <4>1 DEF SearchInv, TypeOK
    <3>2. Backtrack \/ (NextValue(u) < Tree[seq] /\ Take(NextValue(u)))
      BY <2>5 DEF SwitchBranch, ValueAfter
    <3> HIDE DEF u
    <3> QED
      BY <2>2, <2>3, <3>1, <3>2
  <2> QED
    BY <1>4, <2>4, <2>5
<1>5. CASE EndRun
  <2>1. seq' = <<>> /\ Len(<<>>) - 1 = -1
    BY <1>5 DEF EndRun, SeqCleared
  <2>2. 1 .. Len(seq') - 1 = {}
    BY <2>1
  <2> QED
    BY <2>2 DEF Passed
<1> QED
  BY <1>1, <1>2, <1>3, <1>4, <1>5 DEF Next

LEMMA ProgramFacts ==
  ASSUME SearchInv, NEW q \in Programs
  PROVE  q \in Seq(Nat) /\ q \in DOMAIN Tree /\ Tree[q] = 0 /\ Len(q) <= max_depth
BY TreeFacts DEF Programs, Complete

LEMMA StackFacts ==
  ASSUME SearchInv
  PROVE  /\ decision_depth + 1 \in Nat
         /\ Stack \in Seq(Nat) /\ Len(Stack) = decision_depth + 1
         /\ \A i \in 1 .. decision_depth + 1 : Stack[i] = states[i - 1].value
         /\ Stack \in DOMAIN Tree
<1> USE DEF SearchInv
<1>1. decision_depth + 1 \in Nat
  BY TreeFacts DEF TypeOK
<1>2. \A i \in 1 .. decision_depth + 1 : i - 1 \in Positions /\ states[i - 1].value \in Nat
  <2>1. decision_depth \in -1 .. max_depth - 1 /\ max_depth \in Nat
    BY TreeFacts DEF TypeOK
  <2>2. \A i \in 1 .. decision_depth + 1 : i - 1 \in Positions
    BY <2>1 DEF Positions
  <2> QED
    BY <2>2 DEF TypeOK
<1>3. Stack \in [1 .. decision_depth + 1 -> Nat]
  BY <1>2 DEF Stack
<1>4. Stack \in Seq(Nat) /\ Len(Stack) = decision_depth + 1
  BY <1>1, <1>3
<1>5. CASE decision_depth + 1 = 0
  <2>1. Stack = <<>>
    BY <1>4, <1>5
  <2> QED
    BY <1>1, <1>4, <1>5, <2>1, TreesOK
<1>6. CASE decision_depth + 1 # 0
  <2>1. decision_depth + 1 \in 1 .. decision_depth + 1
    BY <1>1, <1>6
  <2> QED
    BY <1>1, <1>4, <2>1 DEF RevisitInRange, Stack
<1> QED
  BY <1>5, <1>6

\* A run follows the stack, and has all of it when it comes to its end.
LEMMA SeqFacts ==
  ASSUME SearchInv, err = "SUCCESS"
  PROVE  /\ seq \in Seq(Nat) /\ Len(seq) = current_pos + 1 /\ current_pos + 1 \in Nat
         /\ current_pos <= decision_depth
         /\ IsPrefix(seq, Stack)
         /\ current_pos = decision_depth => seq = Stack
<1> USE DEF SearchInv
<1>1. seq \in Seq(Nat) /\ current_pos \in -1 .. decision_depth /\ Len(seq) = current_pos + 1
  BY TreeFacts DEF Follows
<1>2. current_pos + 1 \in Nat /\ decision_depth \in Int
  BY <1>1, StackFacts DEF TypeOK
<1>3. \A j \in 1 .. Len(seq) : seq[j] = Stack[j]
  <2>1. \A j \in 1 .. Len(seq) : j - 1 <= decision_depth /\ j \in 1 .. decision_depth + 1
    BY <1>1, <1>2
  <2> QED
    BY <2>1, StackFacts DEF SearchStack
<1>4. IsPrefix(seq, Stack)
  <2>1. Stack \in Seq(Nat) /\ Len(seq) <= Len(Stack)
    BY <1>1, <1>2, StackFacts
  <2> QED
    BY <1>1, <1>3, <2>1, PrefixByChoice
<1>5. ASSUME current_pos = decision_depth
      PROVE  seq = Stack
  BY <1>1, <1>2, <1>3, <1>5, StackFacts
<1> QED
  BY <1>1, <1>2, <1>4, <1>5

\* The choice with which a program goes on from s is one that is offered there.
LEMMA ChoiceOffered ==
  ASSUME SearchInv, NEW q \in DOMAIN Tree, NEW s \in Seq(Nat), IsPrefix(s, q), Len(s) < Len(q)
  PROVE  /\ s \in DOMAIN Tree
         /\ q[Len(s) + 1] \in Nat /\ q[Len(s) + 1] < Tree[s]
         /\ Append(s, q[Len(s) + 1]) \in DOMAIN Tree
<1> USE DEF SearchInv
<1> DEFINE n == Len(s)
<1>1. q \in Seq(Nat) /\ n \in Nat /\ n + 1 \in 1 .. Len(q) /\ Len(q) \in Nat
  BY TreeFacts
<1>2. \A j \in 1 .. n : s[j] = q[j]
  BY <1>1, PrefixByChoice
<1>3. SubSeq(q, 1, n) = s
  <2>1. SubSeq(q, 1, n) = [j \in 1 .. n |-> q[j]] /\ s = [j \in 1 .. n |-> s[j]]
    BY <1>1
  <2> QED
    BY <1>2, <2>1
<1>4. s \in DOMAIN Tree /\ q[n + 1] < Tree[s]
  <2>1. (n + 1) - 1 = n
    BY <1>1
  <2> QED
    BY <1>1, <1>3, <2>1, TreesClosed
<1>5. SubSeq(q, 1, n + 1) = Append(s, q[n + 1])
  <2>1. /\ Append(s, q[n + 1]) \in Seq(Nat) /\ Len(Append(s, q[n + 1])) = n + 1
        /\ \A j \in 1 .. n + 1 : Append(s, q[n + 1])[j] = q[j]
    BY <1>1, <1>2
  <2>2. SubSeq(q, 1, n + 1) = [j \in 1 .. n + 1 |-> q[j]]
    BY <1>1
  <2>3. Append(s, q[n + 1]) = [j \in 1 .. n + 1 |-> Append(s, q[n + 1])[j]]
    BY <1>1, <2>1
  <2> QED
    BY <2>1, <2>2, <2>3
<1>6. Append(s, q[n + 1]) \in DOMAIN Tree
  <2>1. CASE n + 1 = Len(q)
    <3>1. SubSeq(q, 1, n + 1) = q
      BY <1>1, <2>1
    <3> QED
      BY <1>5, <3>1
  <2>2. CASE n + 1 # Len(q)
    <3>1. n + 2 \in 1 .. Len(q) /\ (n + 2) - 1 = n + 1
      BY <1>1, <2>2
    <3> QED
      BY <1>5, <3>1, TreesClosed
  <2> QED
    BY <2>1, <2>2
<1> QED
  BY <1>1, <1>4, <1>6

\* NextValue passes over no value that the filters accept.
LEMMA NextValueLeast ==
  ASSUME SearchInv, NEW v \in Nat, NEW w \in Nat, v <= w, w < Tree[seq], Accepted(w)
  PROVE  NextValue(v) <= w /\ NextValue(v) \in Nat /\ NextValue(v) < Tree[seq]
<1> DEFINE S == {x \in v .. Tree[seq] - 1 : Accepted(x)} \cup {Tree[seq]}
<1>1. S \subseteq Nat /\ S # {} /\ Tree[seq] \in Nat
  BY TreeFacts
<1>2. Min(S) \in S /\ \A y \in S : Min(S) <= y
  BY <1>1, MinIsLeast
<1>3. w \in S
  BY <1>1
<1>4. NextValue(v) = Min(S)
  BY DEF NextValue
<1>5. Min(S) \in Nat /\ Min(S) <= w
  BY <1>1, <1>2, <1>3
<1> HIDE DEF S
<1> QED
  BY <1>1, <1>4, <1>5

-----------------------------------------------------------------------------
(* No step but the end of a run changes what is left *)

\* What was at the end of the stack is given up, and nothing is lost by it.
LEMMA GiveUpPending ==
  ASSUME SearchInv, err = "SUCCESS", err' # "SUCCESS", UNCHANGED program, Stack' = seq,
         \A q \in Programs : ~IsPrefix(seq, q)
  PROVE  Pending' = Pending
<1>1. Programs' = Programs
  BY DEF program, Programs, Complete, GivenUp
<1>2. ASSUME NEW q \in Programs
      PROVE  /\ Enumeration!Before(Stack, q) <=> Enumeration!Before(seq, q)
             /\ ~IsPrefix(Stack, q)
  <2>1. q \in Seq(Nat) /\ ~IsPrefix(seq, q)
    BY ProgramFacts
  <2> QED
    BY <2>1, SeqFacts, StackFacts, BeforePrefix
<1>3. Pending' = {q \in Programs : Enumeration!Before(seq, q)}
  BY <1>1 DEF Pending, AtEnd
<1> QED
  BY <1>2, <1>3 DEF Pending

LEMMA UninitStack ==
  ASSUME SearchInv, err = "SUCCESS", NEW i \in Int, states' = Uninit(i),
         decision_depth' = current_pos
  PROVE  Stack' = seq
<1>1. seq \in Seq(Nat) /\ Len(seq) = current_pos + 1 /\ current_pos + 1 \in Nat
      /\ current_pos <= decision_depth /\ decision_depth \in Int /\ max_depth \in Nat
      /\ decision_depth <= max_depth - 1 /\ current_pos \in Int
  BY SeqFacts, TreeFacts DEF SearchInv, TypeOK
<1>2. \A j \in Positions : states'[j].value = states[j].value
  BY DEF Uninit, SearchInv, TypeOK
<1>3. ASSUME NEW j \in 1 .. current_pos + 1
      PROVE  states'[j - 1].value = seq[j]
  <2>1. j - 1 \in Positions /\ j \in 1 .. Len(seq) /\ j - 1 <= decision_depth
    BY <1>1 DEF Positions
  <2> QED
    BY <1>2, <2>1 DEF SearchInv, SearchStack
<1>4. Stack' = [j \in 1 .. current_pos + 1 |-> states'[j - 1].value]
  BY DEF Stack
<1>5. Stack' = [j \in 1 .. current_pos + 1 |-> seq[j]]
  BY <1>3, <1>4
<1> QED
  BY <1>1, <1>5

\* What a depth guard gives up is no program to output.
LEMMA EagerPending ==
  ASSUME SearchInv, EagerBacktracking
  PROVE  Pending' = Pending
<1>1. err = "SUCCESS" /\ err' # "SUCCESS" /\ UNCHANGED program /\ TooDeep
  BY DEF EagerBacktracking, Running
<1>2. /\ current_pos <= decision_depth /\ current_pos \in Int /\ decision_depth \in Int
      /\ max_depth \in Nat
      /\ seq \in Seq(Nat) /\ Len(seq) = current_pos + 1
  BY <1>1, SeqFacts, TreeFacts DEF SearchInv, TypeOK
<1>3. Stack' = seq
  <2>1. decision_depth' = current_pos /\ states' = Uninit(current_pos + 1)
    BY <1>2 DEF EagerBacktracking
  <2> QED
    BY <1>1, <1>2, <2>1, UninitStack
<1>4. ASSUME NEW q \in Programs, IsPrefix(seq, q)
      PROVE  FALSE
  <2>1. q \in Seq(Nat) /\ \A i \in 1 .. Len(q) : ~GivenUp(SubSeq(q, 1, i))
    BY ProgramFacts DEF Programs
  <2>2. Len(seq) <= Len(q) /\ seq = SubSeq(q, 1, Len(seq))
    <3>1. Len(seq) <= Len(q) /\ \A j \in 1 .. Len(seq) : seq[j] = q[j]
      BY <1>2, <1>4, <2>1, PrefixByChoice
    <3>2. SubSeq(q, 1, Len(seq)) = SubSeq(seq, 1, Len(seq))
      BY <1>2, <2>1, <3>1, SubSeqEqual
    <3>3. SubSeq(seq, 1, Len(seq)) = seq
      BY <1>2
    <3> QED
      BY <3>1, <3>2, <3>3
  <2>3. Len(seq) \in 1 .. Len(q)
    BY <1>1, <1>2, <2>1, <2>2 DEF TooDeep
  <2>4. ~GivenUp(seq)
    BY <2>1, <2>2, <2>3
  <2> QED
    BY <1>1, <2>4, TooDeepGivesUp
<1> QED
  BY <1>1, <1>3, <1>4, GiveUpPending

\* At the limit the run stands at a program that is not complete.
LEMMA ExceedPending ==
  ASSUME SearchInv, ExceedMaxDepth
  PROVE  Pending' = Pending
<1>1. /\ err = "SUCCESS" /\ err' # "SUCCESS" /\ UNCHANGED program
      /\ Tree[seq] > 0 /\ current_pos + 1 >= max_depth
      /\ states' = states /\ decision_depth' = decision_depth
  BY DEF ExceedMaxDepth, Choosing, Running, pos
<1>2. /\ current_pos <= decision_depth /\ decision_depth \in -1 .. max_depth - 1
      /\ max_depth \in Nat /\ current_pos \in Int
      /\ seq \in Seq(Nat) /\ Len(seq) = current_pos + 1 /\ Tree[seq] \in Nat
  BY <1>1, SeqFacts, TreeFacts DEF SearchInv, TypeOK
<1>3. current_pos = decision_depth /\ Len(seq) = max_depth
  BY <1>1, <1>2
<1>4. Stack' = seq
  <2>1. seq = Stack
    BY <1>1, <1>3, SeqFacts
  <2> QED
    BY <1>1, <2>1 DEF Stack
<1>5. ASSUME NEW q \in Programs, IsPrefix(seq, q)
      PROVE  FALSE
  <2>1. q \in Seq(Nat) /\ Tree[q] = 0 /\ Len(q) <= max_depth
    BY ProgramFacts
  <2>2. Len(seq) <= Len(q) /\ \A j \in 1 .. Len(seq) : seq[j] = q[j]
    BY <1>2, <1>5, <2>1, PrefixByChoice
  <2>3. q = seq
    BY <1>2, <1>3, <2>1, <2>2
  <2> QED
    BY <1>1, <2>1, <2>3
<1> QED
  BY <1>1, <1>4, <1>5, GiveUpPending

LEMMA RevisitPending ==
  ASSUME SearchInv, RevisitNode
  PROVE  Pending' = Pending
<1>1. /\ UNCHANGED <<program, states, decision_depth, err>>
      /\ err = "SUCCESS" /\ current_pos' = current_pos + 1 /\ current_pos + 1 < decision_depth
  BY DEF RevisitNode, Choosing, Running, pos
<1>2. current_pos \in Int /\ decision_depth \in Int
  BY DEF SearchInv, TypeOK
<1>3. ~AtEnd /\ ~AtEnd'
  BY <1>1, <1>2 DEF AtEnd
<1> QED
  BY <1>1, <1>3 DEF Pending, Stack, Programs, Complete, GivenUp, program

\* A choice is made at the end of the stack.
LEMMA TakeStack ==
  ASSUME SearchInv, err = "SUCCESS", pos \in Positions, NEW v \in Nat, Take(v),
         current_pos' = pos
  PROVE  Stack' = Append(seq, v) /\ AtEnd'
<1>1. /\ seq \in Seq(Nat) /\ Len(seq) = pos /\ pos \in Nat /\ pos - 1 <= decision_depth
      /\ decision_depth \in Int /\ max_depth \in Nat /\ pos < max_depth
  BY SeqFacts, TreeFacts DEF SearchInv, TypeOK, pos, Positions
<1>2. /\ states' = [states EXCEPT ![pos] = [init |-> TRUE, value |-> v]]
      /\ decision_depth' = pos /\ err' = err
  BY DEF Take
<1>3. /\ states'[pos].value = v
      /\ \A j \in Positions : j # pos => states'[j] = states[j]
  BY <1>2 DEF SearchInv, TypeOK
<1>4. /\ Append(seq, v) \in Seq(Nat) /\ Len(Append(seq, v)) = pos + 1
      /\ \A j \in 1 .. pos : Append(seq, v)[j] = seq[j]
      /\ Append(seq, v)[pos + 1] = v
  BY <1>1
<1>5. ASSUME NEW j \in 1 .. pos + 1
      PROVE  states'[j - 1].value = Append(seq, v)[j]
  <2>1. CASE j = pos + 1
    BY <1>1, <1>3, <1>4, <2>1
  <2>2. CASE j # pos + 1
    <3>1. j \in 1 .. Len(seq) /\ j \in 1 .. pos /\ j - 1 # pos /\ j - 1 \in Positions
          /\ j - 1 <= decision_depth
      BY <1>1, <2>2 DEF Positions
    <3>2. seq[j] = states[j - 1].value
      BY <3>1 DEF SearchInv, SearchStack
    <3> QED
      BY <1>3, <1>4, <3>1, <3>2
  <2> QED
    BY <2>1, <2>2
<1>6. Stack' = [j \in 1 .. pos + 1 |-> Append(seq, v)[j]]
  <2>1. Stack' = [j \in 1 .. pos + 1 |-> states'[j - 1].value]
    BY <1>2 DEF Stack
  <2> QED
    BY <1>5, <2>1
<1>7. Stack' = Append(seq, v)
  <2> DEFINE t == Append(seq, v)
  <2>1. t \in Seq(Nat) /\ Len(t) = pos + 1
    BY <1>4
  <2>2. Stack' = [j \in 1 .. pos + 1 |-> t[j]]
    BY <1>6
  <2> HIDE DEF t
  <2>3. t = [j \in 1 .. pos + 1 |-> t[j]]
    BY <2>1
  <2>4. Stack' = t
    BY <2>2, <2>3
  <2> QED
    BY <2>4 DEF t
<1> QED
  BY <1>2, <1>7 DEF AtEnd

\* The next value offered from v on is chosen: what is left are the programs
\* after seq, and those that go on from it with v or more.
LEMMA TakePending ==
  ASSUME SearchInv, err = "SUCCESS", pos \in Positions, NEW v \in Nat,
         NextValue(v) < Tree[seq], Take(NextValue(v)), current_pos' = pos, UNCHANGED program
  PROVE  Pending' = {q \in Programs :
                       \/ Enumeration!Before(seq, q)
                       \/ IsPrefix(seq, q) /\ Len(seq) < Len(q) /\ v <= q[Len(seq) + 1]}
<1> DEFINE w == NextValue(v)
<1>1. w \in Nat /\ v <= w
  <2> DEFINE S == {x \in v .. Tree[seq] - 1 : Accepted(x)} \cup {Tree[seq]}
  <2>1. S \subseteq Nat /\ S # {} /\ Tree[seq] \in Nat
    BY TreeFacts
  <2>2. Min(S) \in S
    BY <2>1, MinIsLeast
  <2>3. w = Min(S)
    BY DEF NextValue
  <2>4. w # Tree[seq]
    BY <2>1, NextValueAccepted
  <2> QED
    BY <2>1, <2>2, <2>3, <2>4
<1>2. Stack' = Append(seq, w) /\ AtEnd'
  BY <1>1, TakeStack
<1>3. Programs' = Programs
  BY DEF program, Programs, Complete, GivenUp
<1>4. ASSUME NEW q \in Programs
      PROVE  Enumeration!Before(Append(seq, w), q) \/ IsPrefix(Append(seq, w), q)
             <=> \/ Enumeration!Before(seq, q)
                 \/ IsPrefix(seq, q) /\ Len(seq) < Len(q) /\ v <= q[Len(seq) + 1]
  <2>1. q \in Seq(Nat) /\ q \in DOMAIN Tree /\ seq \in Seq(Nat)
    BY ProgramFacts, SeqFacts
  <2>2. ASSUME IsPrefix(seq, q), Len(seq) < Len(q)
        PROVE  /\ q[Len(seq) + 1] \in Nat
               /\ v <= q[Len(seq) + 1] <=> w <= q[Len(seq) + 1]
    <3> DEFINE c == q[Len(seq) + 1]
    <3>1. c \in Nat /\ c < Tree[seq] /\ Accepted(c)
      BY <2>1, <2>2, ChoiceOffered DEF Accepted
    <3>2. v <= c => w <= c
      BY <3>1, NextValueLeast
    <3> HIDE DEF w, c
    <3>3. w <= c => v <= c
      BY <1>1, <3>1
    <3> QED
      BY <3>1, <3>2, <3>3 DEF c
  <2>3. /\ Enumeration!Before(Append(seq, w), q) <=>
             \/ Enumeration!Before(seq, q)
             \/ IsPrefix(seq, q) /\ Len(seq) < Len(q) /\ w < q[Len(seq) + 1]
        /\ IsPrefix(Append(seq, w), q) <=>
             IsPrefix(seq, q) /\ Len(seq) < Len(q) /\ q[Len(seq) + 1] = w
    BY <1>1, <2>1, BeforeAppend
  <2> HIDE DEF w
  <2> QED
    BY <1>1, <2>2, <2>3
<1>5. Pending' = {q \in Programs :
                    Enumeration!Before(Append(seq, w), q) \/ IsPrefix(Append(seq, w), q)}
  <2> HIDE DEF w
  <2> QED
    BY <1>2, <1>3 DEF Pending
<1> HIDE DEF w
<1> QED
  BY <1>4, <1>5

\* No value is offered from v on: no program goes on from seq with v or more.
LEMMA NoneOffered ==
  ASSUME SearchInv, err = "SUCCESS", NEW v \in Nat, ~(NextValue(v) < Tree[seq]),
         NEW q \in Programs, IsPrefix(seq, q), Len(seq) < Len(q)
  PROVE  q[Len(seq) + 1] \in Nat /\ q[Len(seq) + 1] < v
<1> DEFINE c == q[Len(seq) + 1]
<1>1. c \in Nat /\ c < Tree[seq] /\ Accepted(c)
  BY ProgramFacts, SeqFacts, ChoiceOffered DEF Accepted
<1>2. ~(v <= c)
  BY <1>1, NextValueLeast
<1> HIDE DEF c
<1>3. c < v
  BY <1>1, <1>2
<1> QED
  BY <1>1, <1>3 DEF c

\* A program that extends seq goes on from it: seq is not complete.
LEMMA ProgramGoesOn ==
  ASSUME SearchInv, Choosing, NEW q \in Programs, IsPrefix(seq, q)
  PROVE  Len(seq) < Len(q)
<1>1. /\ q \in Seq(Nat) /\ Tree[q] = 0 /\ seq \in Seq(Nat) /\ Tree[seq] > 0
  BY ProgramFacts, TreeFacts DEF Choosing
<1>2. Len(seq) <= Len(q) /\ \A j \in 1 .. Len(seq) : seq[j] = q[j]
  BY <1>1, PrefixByChoice
<1>3. q # seq /\ Len(seq) \in Nat /\ Len(q) \in Nat
  BY <1>1
<1>4. Len(q) # Len(seq)
  BY <1>1, <1>2, <1>3
<1> QED
  BY <1>2, <1>3, <1>4

LEMMA FirstVisitPending ==
  ASSUME SearchInv, FirstVisit
  PROVE  Pending' = Pending
<1>1. /\ err = "SUCCESS" /\ Choosing /\ pos < max_depth /\ ~states[pos].init
      /\ current_pos' = pos /\ UNCHANGED program
  BY DEF FirstVisit, Choosing, Running
<1>2. pos \in Positions /\ pos \in Nat /\ decision_depth \in Int /\ current_pos \in Int
  BY <1>1, TreeFacts DEF SearchInv, pos, Follows, TypeOK, Positions
<1>3. current_pos = decision_depth
  BY <1>1, <1>2 DEF SearchInv, SearchStack, pos, Follows
<1>4. seq = Stack /\ AtEnd
  BY <1>1, <1>3, SeqFacts DEF AtEnd
<1>5. CASE NextValue(0) < Tree[seq]
  <2>1. Take(NextValue(0))
    BY <1>5 DEF FirstVisit
  <2>2. Pending' = {q \in Programs :
                       \/ Enumeration!Before(seq, q)
                       \/ IsPrefix(seq, q) /\ Len(seq) < Len(q) /\ 0 <= q[Len(seq) + 1]}
    BY <1>1, <1>2, <1>5, <2>1, TakePending
  <2>3. ASSUME NEW q \in Programs, IsPrefix(seq, q)
        PROVE  Len(seq) < Len(q) /\ 0 <= q[Len(seq) + 1]
    <3>1. Len(seq) < Len(q)
      BY <1>1, <2>3, ProgramGoesOn
    <3>2. q[Len(seq) + 1] \in Nat
      BY <1>1, <2>3, <3>1, ProgramFacts, SeqFacts, ChoiceOffered
    <3> QED
      BY <3>1, <3>2
  <2> QED
    BY <1>4, <2>2, <2>3 DEF Pending
<1>6. CASE ~(NextValue(0) < Tree[seq])
  <2>1. Backtrack
    BY <1>6 DEF FirstVisit
  <2>2. Stack' = seq /\ err' # "SUCCESS"
    <3>1. states' = Uninit(pos) /\ decision_depth' = current_pos /\ err' # "SUCCESS"
      BY <1>2, <2>1 DEF Backtrack, pos
    <3> QED
      BY <1>1, <1>2, <3>1, UninitStack
  <2>3. ASSUME NEW q \in Programs, IsPrefix(seq, q)
        PROVE  FALSE
    <3>1. Len(seq) < Len(q)
      BY <1>1, <2>3, ProgramGoesOn
    <3>2. q[Len(seq) + 1] \in Nat /\ q[Len(seq) + 1] < 0
      BY <1>1, <1>6, <2>3, <3>1, NoneOffered
    <3> QED
      BY <3>2
  <2> QED
    BY <1>1, <2>2, <2>3, GiveUpPending
<1> QED
  BY <1>5, <1>6

LEMMA SwitchPending ==
  ASSUME SearchInv, SwitchBranch
  PROVE  Pending' = Pending
<1>1. /\ err = "SUCCESS" /\ Choosing /\ pos < max_depth /\ states[pos].init
      /\ pos >= decision_depth /\ current_pos' = pos /\ UNCHANGED program
  BY DEF SwitchBranch, Choosing, Running
<1>2. pos \in Positions /\ pos \in Nat /\ decision_depth \in Int /\ current_pos \in Int
  BY <1>1, TreeFacts DEF SearchInv, pos, Follows, TypeOK, Positions
<1>3. pos = decision_depth /\ ~AtEnd
  BY <1>1, <1>2 DEF SearchInv, SearchStack, AtEnd, pos
<1> DEFINE u == states[pos].value
<1>4. u \in Nat
  BY <1>2 DEF SearchInv, TypeOK
<1>5. seq \in Seq(Nat) /\ Len(seq) = pos
  BY <1>1, <1>2, SeqFacts DEF pos
<1>6. Stack = Append(seq, u)
  <2>1. Stack \in Seq(Nat) /\ Len(Stack) = pos + 1 /\ Stack[pos + 1] = u
    <3>1. (pos + 1) - 1 = pos /\ pos + 1 \in 1 .. pos + 1
      BY <1>2
    <3> QED
      BY <1>3, <3>1, StackFacts
  <2>2. \A j \in 1 .. pos : Stack[j] = seq[j]
    <3>1. IsPrefix(seq, Stack)
      BY <1>1, SeqFacts
    <3> QED
      BY <1>5, <2>1, <3>1, PrefixByChoice
  <2>3. /\ Append(seq, u) \in Seq(Nat) /\ Len(Append(seq, u)) = pos + 1
        /\ Append(seq, u)[pos + 1] = u /\ \A j \in 1 .. pos : Append(seq, u)[j] = seq[j]
    BY <1>4, <1>5
  <2> HIDE DEF u
  <2>4. \A j \in 1 .. pos + 1 : Stack[j] = Append(seq, u)[j]
    BY <1>2, <2>1, <2>2, <2>3
  <2> QED
    BY <1>2, <2>1, <2>3, <2>4
<1>7. Pending = {q \in Programs :
                   \/ Enumeration!Before(seq, q)
                   \/ IsPrefix(seq, q) /\ Len(seq) < Len(q) /\ u < q[Len(seq) + 1]}
  <2>1. \A q \in Programs :
          Enumeration!Before(Stack, q) <=>
             \/ Enumeration!Before(seq, q)
             \/ IsPrefix(seq, q) /\ Len(seq) < Len(q) /\ u < q[Len(seq) + 1]
    BY <1>4, <1>5, <1>6, ProgramFacts, BeforeAppend
  <2> QED
    BY <1>3, <2>1 DEF Pending
<1>8. ASSUME NEW q \in Programs, IsPrefix(seq, q), Len(seq) < Len(q)
      PROVE  u < q[Len(seq) + 1] <=> u + 1 <= q[Len(seq) + 1]
  <2>1. q[Len(seq) + 1] \in Nat
    BY <1>5, <1>8, ProgramFacts, ChoiceOffered
  <2> QED
    BY <1>4, <2>1
<1>9. CASE ValueAfter(u) < Tree[seq]
  <2>1. Take(NextValue(u + 1)) /\ NextValue(u + 1) < Tree[seq] /\ u + 1 \in Nat
    BY <1>4, <1>9 DEF SwitchBranch, ValueAfter
  <2>2. Pending' = {q \in Programs :
                       \/ Enumeration!Before(seq, q)
                       \/ IsPrefix(seq, q) /\ Len(seq) < Len(q) /\ u + 1 <= q[Len(seq) + 1]}
    <3> HIDE DEF u
    <3> QED
      BY <1>1, <1>2, <2>1, TakePending
  <2> HIDE DEF u
  <2> QED
    BY <1>7, <1>8, <2>2
<1>10. CASE ~(ValueAfter(u) < Tree[seq])
  <2>1. Backtrack
    BY <1>10 DEF SwitchBranch
  <2>2. Stack' = seq /\ err' # "SUCCESS"
    <3>1. states' = Uninit(pos) /\ decision_depth' = current_pos /\ err' # "SUCCESS"
      BY <1>2, <2>1 DEF Backtrack, pos
    <3> QED
      BY <1>1, <1>2, <3>1, UninitStack
  <2>3. Pending' = {q \in Programs : Enumeration!Before(seq, q)}
    BY <1>1, <2>2 DEF Pending, AtEnd, Programs, Complete, GivenUp, program
  <2>4. ASSUME NEW q \in Programs, IsPrefix(seq, q), Len(seq) < Len(q)
        PROVE  ~(u < q[Len(seq) + 1])
    <3>1. u + 1 \in Nat /\ ~(NextValue(u + 1) < Tree[seq])
      BY <1>4, <1>10 DEF ValueAfter
    <3>2. q[Len(seq) + 1] \in Nat /\ q[Len(seq) + 1] < u + 1
      BY <1>1, <2>4, <3>1, NoneOffered
    <3> HIDE DEF u
    <3> QED
      BY <1>4, <3>2
  <2> HIDE DEF u
  <2> QED
    BY <1>7, <2>3, <2>4
<1> QED
  BY <1>9, <1>10

-----------------------------------------------------------------------------
(* The search implements the enumeration *)

LEMMA PendingInit == Init => SearchInv /\ Passed /\ PendingInv
<1> SUFFICES ASSUME Init
             PROVE  Passed /\ PendingInv
  BY SearchInit
<1>1. SearchInv /\ emitted = <<>> /\ err = "SUCCESS" /\ ~all_done
      /\ current_pos = -1 /\ decision_depth = -1
  BY SearchInit DEF Init
<1>2. AtEnd /\ Stack = <<>>
  BY <1>1, StackFacts DEF AtEnd
<1>3. \A q \in Programs : IsPrefix(Stack, q)
  <2> SUFFICES ASSUME NEW q \in Programs
               PROVE  IsPrefix(Stack, q)
    OBVIOUS
  <2>1. q \in Seq(Nat) /\ Stack \in Seq(Nat) /\ Len(Stack) = 0
    BY <1>1, ProgramFacts, StackFacts
  <2>2. Len(Stack) <= Len(q) /\ \A j \in 1 .. Len(Stack) : Stack[j] = q[j]
    BY <2>1
  <2> QED
    BY <2>1, <2>2, PrefixByChoice
<1>4. Programs \ Pending = {}
  BY <1>2, <1>3 DEF Pending
<1>5. ToSet(emitted) = {}
  BY <1>1 DEF ToSet
<1>6. Passed
  <2>1. seq = <<>> /\ Len(<<>>) - 1 = -1
    BY DEF Init
  <2>2. 1 .. Len(seq) - 1 = {}
    BY <2>1
  <2> QED
    BY <2>2 DEF Passed
<1> QED
  BY <1>1, <1>4, <1>5, <1>6 DEF PendingInv

\* A run without an error ends at the end of the stack with the least of the
\* programs that are left, which it outputs.
LEMMA OutputLeast ==
  ASSUME SearchInv, Passed, PendingInv, EndRun, err = "SUCCESS"
  PROVE  /\ seq \in Pending
         /\ \A q \in Pending \ {seq} : Enumeration!Before(seq, q)
         /\ Pending' = Pending \ {seq}
         /\ Programs' = Programs
         /\ decision_depth >= 0
<1>1. /\ Tree[seq] = 0 /\ ~TooDeep /\ current_pos' = -1 /\ err' = "SUCCESS"
      /\ UNCHANGED <<program, states, decision_depth>>
  BY DEF EndRun
<1>2. /\ seq \in Seq(Nat) /\ Len(seq) = current_pos + 1 /\ current_pos + 1 \in Nat
      /\ current_pos <= decision_depth /\ decision_depth + 1 \in Nat /\ IsPrefix(seq, Stack)
      /\ Stack \in Seq(Nat) /\ Len(Stack) = decision_depth + 1 /\ Stack \in DOMAIN Tree
      /\ current_pos = decision_depth => seq = Stack
  BY SeqFacts, StackFacts
<1>3. current_pos \in Int /\ decision_depth \in -1 .. max_depth - 1 /\ max_depth \in Nat
  BY TreeFacts DEF SearchInv, TypeOK
<1>4. current_pos = decision_depth
  <2> SUFFICES ASSUME Len(seq) < Len(Stack)
               PROVE  FALSE
    BY <1>2, <1>3
  <2>1. Stack[Len(seq) + 1] \in Nat /\ Stack[Len(seq) + 1] < Tree[seq]
    BY <1>2, ChoiceOffered
  <2> QED
    BY <1>1, <2>1
<1>5. seq = Stack /\ AtEnd
  BY <1>2, <1>4 DEF AtEnd
<1>6. seq \in Programs
  <2>1. ASSUME NEW i \in 1 .. Len(seq)
        PROVE  ~GivenUp(SubSeq(seq, 1, i))
    <3>1. CASE i = Len(seq)
      <4>1. SubSeq(seq, 1, i) = seq
        BY <1>2, <3>1
      <4> QED
        BY <1>1, <4>1, TooDeepGivesUp
    <3>2. CASE i # Len(seq)
      BY <1>2, <3>2 DEF Passed
    <3> QED
      BY <3>1, <3>2
  <2> QED
    BY <1>1, <1>2, <1>3, <1>4, <1>5, <2>1 DEF Programs, Complete
<1>7. decision_depth >= 0
  <2>1. Tree[<<>>] > 0
    BY TreesClosed DEF SearchInv
  <2>2. seq # <<>>
    BY <1>1, <2>1
  <2>3. Len(seq) # 0
    BY <1>2, <2>2
  <2> QED
    BY <1>2, <1>3, <1>4, <2>3
<1>8. ASSUME NEW q \in Programs, IsPrefix(seq, q)
      PROVE  q = seq
  <2>1. q \in Seq(Nat) /\ q \in DOMAIN Tree
    BY ProgramFacts
  <2>2. Len(seq) <= Len(q) /\ \A j \in 1 .. Len(seq) : seq[j] = q[j]
    BY <1>2, <1>8, <2>1, PrefixByChoice
  <2>3. ~(Len(seq) < Len(q))
    <3> SUFFICES ASSUME Len(seq) < Len(q)
                 PROVE  FALSE
      OBVIOUS
    <3>1. q[Len(seq) + 1] \in Nat /\ q[Len(seq) + 1] < Tree[seq]
      BY <1>2, <1>8, <2>1, ChoiceOffered
    <3> QED
      BY <1>1, <3>1
  <2>4. Len(q) = Len(seq)
    BY <1>2, <2>1, <2>2, <2>3
  <2> QED
    BY <1>2, <2>1, <2>2, <2>4
<1>9. IsPrefix(seq, seq) /\ ~Enumeration!Before(seq, seq)
  BY <1>2, PrefixByChoice, BeforeByChoice
<1>10. Pending' = {q \in Programs : Enumeration!Before(seq, q)} /\ Programs' = Programs
  <2>1. Programs' = Programs /\ Stack' = Stack
    BY <1>1 DEF Programs, Complete, GivenUp, program, Stack
  <2>2. ~AtEnd'
    BY <1>1, <1>7 DEF AtEnd
  <2> QED
    BY <1>5, <2>1, <2>2 DEF Pending
<1>11. Pending = {q \in Programs : Enumeration!Before(seq, q) \/ IsPrefix(seq, q)}
  BY <1>5 DEF Pending
<1>12. Pending = {q \in Programs : Enumeration!Before(seq, q)} \cup {seq}
  BY <1>6, <1>8, <1>9, <1>11
<1> QED
  BY <1>6, <1>7, <1>9, <1>10, <1>12

\* A run with an error outputs nothing; what is left is left to the next run.
LEMMA AbandonedRun ==
  ASSUME SearchInv, PendingInv, EndRun, err # "SUCCESS"
  PROVE  /\ Pending' = Pending /\ Programs' = Programs /\ emitted' = emitted
         /\ decision_depth >= 0
<1>1. /\ current_pos' = -1 /\ ~all_done /\ emitted' = emitted
      /\ UNCHANGED <<program, states, decision_depth>>
  BY DEF EndRun, Output
<1>2. decision_depth >= 0
  BY <1>1 DEF PendingInv, SearchInv, TypeOK
<1>3. ~AtEnd /\ ~AtEnd'
  BY <1>1, <1>2 DEF AtEnd
<1> QED
  BY <1>1, <1>2, <1>3 DEF Pending, Programs, Complete, GivenUp, program, Stack

\* A step that neither outputs a program nor gives up the root.
LEMMA SilentStep ==
  ASSUME SearchInv, PendingInv, Next, ~EndRun
  PROVE  /\ Pending' = Pending /\ Programs' = Programs /\ emitted' = emitted
         /\ err = "SUCCESS"
         /\ \/ all_done' = all_done /\ (err' # "SUCCESS" => decision_depth' # -1)
            \/ all_done' /\ err' # "SUCCESS" /\ decision_depth' = -1
<1>1. Pending' = Pending
  BY EagerPending, ExceedPending, RevisitPending, SwitchPending, FirstVisitPending DEF Next
<1>2. Programs' = Programs /\ emitted' = emitted /\ err = "SUCCESS"
  BY DEF Next, EagerBacktracking, ExceedMaxDepth, RevisitNode, SwitchBranch, FirstVisit,
         Choosing, Running, program, Programs, Complete, GivenUp
<1>3. /\ current_pos + 1 \in Nat /\ decision_depth \in Int /\ current_pos \in Int
      /\ current_pos <= decision_depth /\ max_depth \in Nat \ {0}
  BY <1>2, SeqFacts, TreeFacts DEF SearchInv, TypeOK
<1>4. ASSUME Backtrack
      PROVE  /\ err' # "SUCCESS"
             /\ \/ all_done' = FALSE /\ decision_depth' # -1
                \/ all_done' /\ decision_depth' = -1
  <2>1. /\ err' = "BACKTRACKING_ERROR" /\ decision_depth' = current_pos
        /\ all_done' = (current_pos < 0)
    BY <1>3, <1>4 DEF Backtrack, pos
  <2>2. CASE current_pos < 0
    <3>1. current_pos = -1
      BY <1>3, <2>2
    <3>2. all_done'
      BY <2>1, <2>2, Zenon
    <3> QED
      BY <2>1, <3>1, <3>2
  <2>3. CASE ~(current_pos < 0)
    <3>1. current_pos # -1
      BY <1>3, <2>3
    <3>2. all_done' = FALSE
      <4>1. (current_pos < 0) = FALSE
        BY <2>3
      <4> QED
        BY <2>1, <4>1, Zenon
    <3> QED
      BY <2>1, <3>1, <3>2
  <2> QED
    BY <2>2, <2>3
<1>5. ASSUME Running
      PROVE  all_done = FALSE
  BY <1>5 DEF Running, SearchInv, TypeOK
<1>6. CASE EagerBacktracking
  BY <1>1, <1>2, <1>3, <1>6 DEF EagerBacktracking, TooDeep
<1>7. CASE ExceedMaxDepth
  BY <1>1, <1>2, <1>3, <1>7 DEF ExceedMaxDepth, pos
<1>8. CASE RevisitNode
  BY <1>1, <1>2, <1>8 DEF RevisitNode
<1>9. CASE SwitchBranch \/ FirstVisit
  <2>1. all_done = FALSE
    BY <1>5, <1>9 DEF SwitchBranch, FirstVisit, Choosing
  <2>2. Backtrack \/ (UNCHANGED <<all_done, err>>)
    BY <1>9 DEF SwitchBranch, FirstVisit, Take
  <2> QED
    BY <1>1, <1>2, <1>4, <2>1, <2>2
<1> QED
  BY <1>6, <1>7, <1>8, <1>9 DEF Next

\* Each step outputs the least program that is left, ends the search when none
\* is left, or shows nothing.
LEMMA EnumerationStep ==
  ASSUME SearchInv, Passed, PendingInv, [Next]_vars
  PROVE  PendingInv' /\ [Enumeration!Next]_(Enumeration!vars)
<1>1. CASE UNCHANGED vars
  BY <1>1 DEF vars, program, PendingInv, Pending, Programs, Complete, GivenUp, Stack, AtEnd,
              Enumeration!vars
<1>2. CASE EndRun /\ err = "SUCCESS"
  <2>1. /\ seq \in Pending /\ \A q \in Pending \ {seq} : Enumeration!Before(seq, q)
        /\ Pending' = Pending \ {seq} /\ Programs' = Programs /\ decision_depth >= 0
    BY <1>2, OutputLeast
  <2>2. /\ emitted' = Append(emitted, seq) /\ ~all_done /\ all_done' = all_done
        /\ err' = "SUCCESS" /\ decision_depth' = decision_depth
    BY <1>2 DEF EndRun, Output
  <2>3. seq \in Programs /\ Pending \subseteq Programs
    BY <2>1 DEF Pending
  <2>4. emitted \in Seq(Programs) /\ ToSet(emitted) = Programs \ Pending
    BY DEF PendingInv
  <2>5. emitted' \in Seq(Programs) /\ ToSet(emitted') = ToSet(emitted) \cup {seq}
    <3>1. /\ emitted' \in Seq(Programs) /\ Len(emitted') = Len(emitted) + 1
          /\ Len(emitted) \in Nat
          /\ \A j \in 1 .. Len(emitted) : emitted'[j] = emitted[j]
          /\ emitted'[Len(emitted) + 1] = seq
      BY <2>2, <2>3, <2>4
    <3>2. /\ DOMAIN emitted' = DOMAIN emitted \cup {Len(emitted) + 1}
          /\ DOMAIN emitted = 1 .. Len(emitted)
      BY <2>4, <3>1
    <3> QED
      BY <3>1, <3>2 DEF ToSet
  <2>6. PendingInv'
    BY <2>1, <2>2, <2>3, <2>4, <2>5 DEF PendingInv
  <2>7. Enumeration!Remaining = Pending
    BY <2>3, <2>4 DEF Enumeration!Remaining, Enumeration!ToSet, ToSet
  <2>8. Enumeration!Emit
    BY <2>1, <2>2, <2>7 DEF Enumeration!Emit
  <2> QED
    BY <2>6, <2>8 DEF Enumeration!Next
<1>3. CASE EndRun /\ err # "SUCCESS"
  <2>1. /\ Pending' = Pending /\ Programs' = Programs /\ emitted' = emitted
        /\ decision_depth >= 0
    BY <1>3, AbandonedRun
  <2>2. ~all_done /\ all_done' = all_done /\ err' = "SUCCESS"
    BY <1>3 DEF EndRun
  <2>3. PendingInv'
    BY <2>1, <2>2 DEF PendingInv
  <2> QED
    BY <2>1, <2>2, <2>3 DEF Enumeration!vars
<1>4. CASE Next /\ ~EndRun
  <2>1. /\ Pending' = Pending /\ Programs' = Programs /\ emitted' = emitted
        /\ err = "SUCCESS"
        /\ \/ all_done' = all_done /\ (err' # "SUCCESS" => decision_depth' # -1)
           \/ all_done' /\ err' # "SUCCESS" /\ decision_depth' = -1
    BY <1>4, SilentStep
  <2>2. ~all_done /\ all_done = FALSE
    BY <2>1 DEF PendingInv, SearchInv, TypeOK
  <2>3. PendingInv'
    BY <2>1, <2>2 DEF PendingInv
  <2>4. CASE all_done' = all_done
    BY <2>1, <2>3, <2>4 DEF Enumeration!vars
  <2>5. CASE all_done' # all_done
    <3>1. all_done' /\ err' # "SUCCESS" /\ decision_depth' = -1
      BY <2>1, <2>5
    <3>2. Pending' = {}
      <4>1. Stack' = <<>>
        <5>1. Stack' = [i \in 1 .. 0 |-> states'[i - 1].value]
          BY <3>1 DEF Stack
        <5> QED
          BY <5>1
      <4>2. \A q \in Programs : ~Enumeration!Before(<<>>, q)
        <5>1. Len(<<>>) = 0
          OBVIOUS
        <5> QED
          BY <5>1 DEF Enumeration!Before
      <4> QED
        BY <2>1, <3>1, <4>1, <4>2 DEF Pending, AtEnd
    <3>3. Enumeration!Remaining = {}
      BY <2>1, <3>2 DEF Enumeration!Remaining, Enumeration!ToSet, ToSet, PendingInv
    <3>4. all_done' = TRUE
      <4>1. TypeOK'
        BY SearchStep, <1>4 DEF SearchInv
      <4> QED
        BY <3>1, <4>1 DEF TypeOK
    <3>5. Enumeration!Finish
      BY <2>1, <2>2, <3>3, <3>4 DEF Enumeration!Finish
    <3> QED
      BY <2>3, <3>5 DEF Enumeration!Next
  <2> QED
    BY <2>4, <2>5
<1> QED
  BY <1>1, <1>2, <1>3, <1>4

\* The exhaustive mode implements its abstract specification, but for the
\* liveness: whatever the generator, its filters, the limit and the depths that
\* its guards ask for, no program is output but one of the tree within the limit
\* that no guard gives up, none twice, each only after all of these that come
\* before it in the order of the choices, and the search is never declared done
\* while one of them is left (DFSProgramGenerator::goGenerator with
\* DFSRndNumGenerator::random_choice and eager_backtracking).
THEOREM EnumeratesInOrder == Spec => Enumeration!Safety
<1>1. Init => SearchInv /\ Passed /\ PendingInv /\ Enumeration!Init
  BY PendingInit DEF Init, Enumeration!Init
<1>2. SearchInv /\ Passed /\ PendingInv /\ [Next]_vars
        => SearchInv' /\ Passed' /\ PendingInv' /\ [Enumeration!Next]_(Enumeration!vars)
  BY SearchStep, PassedStep, EnumerationStep
<1> QED
  BY <1>1, <1>2, PTL DEF Spec, Enumeration!Safety

\* In the order of their choices, none twice, and before all that remain.
InOrder ==
  /\ \A i, j \in DOMAIN emitted : i < j => Enumeration!Before(emitted[i], emitted[j])
  /\ \A i, j \in DOMAIN emitted : emitted[i] = emitted[j] => i = j
  /\ \A i \in DOMAIN emitted : \A q \in Enumeration!Remaining :
       Enumeration!Before(emitted[i], q)

LEMMA InOrderStep ==
  ASSUME InOrder, emitted \in Seq(Programs), [Enumeration!Next]_(Enumeration!vars)
  PROVE  InOrder'
<1>1. CASE UNCHANGED <<Programs, emitted>>
  <2>1. Enumeration!Remaining' = Enumeration!Remaining
    BY <1>1 DEF Enumeration!Remaining, Enumeration!ToSet
  <2>2. \A u, v : Enumeration!Before(u, v)' <=> Enumeration!Before(u, v)
    BY DEF Enumeration!Before
  <2> QED
    BY <1>1, <2>1, <2>2 DEF InOrder
<1>2. CASE Enumeration!Emit
  <2>1. PICK p \in Enumeration!Remaining :
          /\ \A q \in Enumeration!Remaining \ {p} : Enumeration!Before(p, q)
          /\ emitted' = Append(emitted, p)
    BY <1>2 DEF Enumeration!Emit
  <2>2. Programs' = Programs
    BY <1>2 DEF Enumeration!Emit
  <2>3. p \in Programs /\ \A i \in DOMAIN emitted : emitted[i] # p
    BY <2>1 DEF Enumeration!Remaining, Enumeration!ToSet
  <2>4. /\ Len(emitted) \in Nat /\ DOMAIN emitted = 1 .. Len(emitted)
        /\ DOMAIN emitted' = 1 .. Len(emitted) + 1
        /\ \A i \in DOMAIN emitted : emitted'[i] = emitted[i]
        /\ emitted'[Len(emitted) + 1] = p
    BY <2>1, <2>3
  <2>5. Enumeration!Remaining' = Enumeration!Remaining \ {p}
    BY <2>2, <2>4 DEF Enumeration!Remaining, Enumeration!ToSet
  <2>6. ASSUME NEW i \in DOMAIN emitted', NEW j \in DOMAIN emitted', i < j
        PROVE  Enumeration!Before(emitted'[i], emitted'[j])
    <3>1. i \in DOMAIN emitted
      BY <2>4, <2>6
    <3>2. CASE j \in DOMAIN emitted
      BY <2>4, <2>6, <3>1, <3>2 DEF InOrder
    <3>3. CASE j = Len(emitted) + 1
      BY <2>4, <3>1, <3>3 DEF InOrder
    <3> QED
      BY <2>4, <3>2, <3>3
  <2>7. ASSUME NEW i \in DOMAIN emitted', NEW j \in DOMAIN emitted',
               emitted'[i] = emitted'[j]
        PROVE  i = j
    BY <2>3, <2>4, <2>7 DEF InOrder
  <2>8. ASSUME NEW i \in DOMAIN emitted', NEW q \in Enumeration!Remaining'
        PROVE  Enumeration!Before(emitted'[i], q)
    <3>1. q \in Enumeration!Remaining \ {p}
      BY <2>5
    <3>2. CASE i \in DOMAIN emitted
      BY <2>4, <3>1, <3>2 DEF InOrder
    <3>3. CASE i = Len(emitted) + 1
      BY <2>1, <2>4, <3>1, <3>3
    <3> QED
      BY <2>4, <3>2, <3>3
  <2>9. \A u, v : Enumeration!Before(u, v)' <=> Enumeration!Before(u, v)
    BY DEF Enumeration!Before
  <2> QED
    BY <2>6, <2>7, <2>8 DEF InOrder
<1>3. CASE Enumeration!Finish
  BY <1>1, <1>3 DEF Enumeration!Finish
<1> QED
  BY <1>1, <1>2, <1>3 DEF Enumeration!Next, Enumeration!vars

\* The programs output so far are programs of the tree, none twice, and in the
\* order of their choices; when the search is declared done they are all those
\* within the limit that no depth guard gives up (DFSProgramGenerator::goGenerator,
\* DFSRndNumGenerator::eager_backtracking).
THEOREM OutputsProgramsOnce ==
  Spec => []( /\ emitted \in Seq(Programs) /\ InOrder
              /\ all_done => ToSet(emitted) = Programs )
<1>1. SearchInv /\ PendingInv => /\ emitted \in Seq(Programs)
                                 /\ all_done => ToSet(emitted) = Programs
  <2> SUFFICES ASSUME SearchInv, PendingInv, all_done
               PROVE  Pending = {}
    BY DEF PendingInv
  <2>1. err # "SUCCESS" /\ decision_depth = -1
    BY DEF PendingInv
  <2>2. Stack = <<>> /\ Len(<<>>) = 0
    BY <2>1, StackFacts
  <2> QED
    BY <2>1, <2>2 DEF Pending, AtEnd, Enumeration!Before
<1>2. Init => SearchInv /\ Passed /\ PendingInv /\ InOrder
  <2>1. emitted = <<>> => InOrder
    BY DEF InOrder
  <2> QED
    BY <2>1, PendingInit DEF Init
<1>3. SearchInv /\ Passed /\ PendingInv /\ InOrder /\ [Next]_vars
        => SearchInv' /\ Passed' /\ PendingInv' /\ InOrder'
  BY <1>1, SearchStep, PassedStep, EnumerationStep, InOrderStep
<1> QED
  BY <1>1, <1>2, <1>3, PTL DEF Spec
=============================================================================
