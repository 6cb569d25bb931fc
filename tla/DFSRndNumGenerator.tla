------------------------- MODULE DFSRndNumGenerator -------------------------
(***************************************************************************)
(* The exhaustive mode: DFSProgramGenerator::goGenerator generates program *)
(* after program, and DFSRndNumGenerator answers the choices each makes so *)
(* that together they walk the tree of all choices depth first.            *)
(*                                                                         *)
(* The generator is a tree: Tree[p] is the bound of the choice it makes    *)
(* after the choices p, 0 when p makes a complete program; a choice v that *)
(* a filter rejects after p has no node Append(p, v).  Filters make no     *)
(* choices themselves.                                                     *)
(*                                                                         *)
(* The depths that the generator's DEPTH_GUARDs ask for are constants      *)
(* written by hand (DepthSpec.cpp), some too large (one guard of           *)
(* VariableSelector passes the number of an enumerator), so they are an    *)
(* input too: needed[p] is the largest depth asked for after the choices p *)
(* and before the next, 0 where there is no guard.                         *)
(***************************************************************************)
EXTENDS Integers, Sequences, SequencesExt, FiniteSetsExt

CONSTANTS
  Trees,      \* the trees of choices the generator may be
  Demands,    \* what its depth guards may ask for
  MaxDepths   \* values of CGOptions::max_exhaustive_depth

ASSUME DepthsOK == MaxDepths \subseteq Nat \ {0}

\* a choice has a bound, an unsigned number, and earlier choices
ASSUME TreesOK ==
  \A t \in Trees :
    /\ <<>> \in DOMAIN t
    /\ \A p \in DOMAIN t : p \in Seq(Nat) /\ t[p] \in Nat

\* depth_needed, for every node of a tree
ASSUME DemandsOK ==
  \A n \in Demands : \A t \in Trees :
    DOMAIN t \subseteq DOMAIN n /\ \A p \in DOMAIN t : n[p] \in Nat

\* each choice is below the bound it was made with, and the generator makes
\* at least one choice
ASSUME TreesClosed ==
  \A t \in Trees :
    /\ t[<<>>] > 0
    /\ \A p \in DOMAIN t : \A i \in 1 .. Len(p) :
         SubSeq(p, 1, i - 1) \in DOMAIN t /\ p[i] < t[SubSeq(p, 1, i - 1)]

VARIABLES
  Tree,            \* the tree of this search
  max_depth,       \* CGOptions::max_exhaustive_depth()
  needed,          \* what the depth guards ask for
  states,          \* states_: for each position whether it is initialised, and its value
  current_pos,     \* current_pos_: position of the last choice made
  decision_depth,  \* decision_depth_: the deepest position with a value
  all_done,        \* all_done_
  err,             \* Error::r_error_
  seq,             \* seq_: the choices made in this run
  emitted          \* the programs output

program == <<Tree, max_depth, needed>>
vars == <<program, states, current_pos, decision_depth, all_done, err, seq, emitted>>

Positions == 0 .. max_depth - 1
Fresh == [init |-> FALSE, value |-> 0]

----------------------------------------------------------------------------
Complete == {p \in DOMAIN Tree : Tree[p] = 0}

\* depth guards never give up before the second choice
GivenUp(p) == Len(p) > 1 /\ max_depth - (Len(p) - 1) < needed[p]

\* the programs within the depth limit that no depth guard gives up
Programs ==
  {p \in Complete : Len(p) <= max_depth /\ \A i \in 1 .. Len(p) : ~GivenUp(SubSeq(p, 1, i))}

Init ==
  /\ Tree \in Trees
  /\ max_depth \in MaxDepths
  /\ needed \in Demands
  /\ states = [i \in Positions |-> Fresh]
  /\ current_pos = -1
  /\ decision_depth = -1
  /\ all_done = FALSE
  /\ err = "SUCCESS"
  /\ seq = <<>>
  /\ emitted = <<>>

\* mutant: one position too many is given up
UninitBefore(i) == [j \in Positions |-> IF j >= i - 1 THEN Fresh ELSE states[j]]

\* set_init(false) for every position from i on
Uninit(i) == [j \in Positions |-> IF j >= i THEN [states[j] EXCEPT !.init = FALSE]
                                  ELSE states[j]]

Running == ~all_done /\ err = "SUCCESS"

Choosing == Running /\ Tree[seq] > 0

\* DepthSpec::backtracking: a DEPTH_GUARD that finds too little depth left
TooDeep == current_pos > 0 /\ max_depth - current_pos < needed[seq]

\* DFSRndNumGenerator::eager_backtracking
EagerBacktracking ==
  /\ Running /\ TooDeep
  /\ err' = "BACKTRACKING_ERROR"
  /\ IF current_pos > decision_depth
     THEN UNCHANGED <<states, decision_depth>>
     ELSE decision_depth' = current_pos /\ states' = Uninit(current_pos + 1)
  /\ UNCHANGED <<program, current_pos, all_done, seq, emitted>>

----------------------------------------------------------------------------
(* DFSRndNumGenerator::random_choice, at the position after current_pos *)

pos == current_pos + 1

\* the filters accept v
Accepted(v) == Append(seq, v) \in DOMAIN Tree

\* mutant: the filters are not asked
NextValueUnfiltered(v) == v

\* the first value from v on that the filters accept, or the bound
NextValue(v) == Min({w \in v .. Tree[seq] - 1 : Accepted(w)} \cup {Tree[seq]})

ExceedMaxDepth ==
  /\ Choosing /\ ~TooDeep
  /\ pos >= max_depth
  /\ current_pos' = pos
  /\ err' = "EXCEED_MAX_DEPTH_ERROR"
  /\ UNCHANGED <<program, states, decision_depth, all_done, seq, emitted>>

\* revisit_node: an earlier decision is repeated
RevisitNode ==
  /\ Choosing /\ ~TooDeep
  /\ pos < max_depth /\ states[pos].init /\ pos < decision_depth
  /\ current_pos' = pos
  /\ seq' = Append(seq, states[pos].value)
  /\ UNCHANGED <<program, states, decision_depth, all_done, err, emitted>>

\* no value is left at this position: give it up, decide the one before again
Backtrack ==
  /\ states' = Uninit(pos)
  /\ decision_depth' = pos - 1
  /\ all_done' = (pos - 1 < 0)
  /\ err' = "BACKTRACKING_ERROR"
  /\ UNCHANGED seq

Take(v) ==
  /\ states' = [states EXCEPT ![pos] = [init |-> TRUE, value |-> v]]
  /\ decision_depth' = pos
  /\ seq' = Append(seq, v)
  /\ UNCHANGED <<all_done, err>>

\* mutant: the search goes on with the value that was just tried
SameValue(v) == IF v < Tree[seq] THEN v ELSE Tree[seq]

\* the value after v: the filters are asked from there on
ValueAfter(v) == NextValue(v + 1)

\* the deepest decision takes its next value
SwitchBranch ==
  /\ Choosing /\ ~TooDeep
  /\ pos < max_depth /\ states[pos].init /\ pos >= decision_depth
  /\ current_pos' = pos
  /\ LET v == ValueAfter(states[pos].value)
     IN  IF v < Tree[seq] THEN Take(v) ELSE Backtrack
  /\ UNCHANGED <<program, emitted>>

\* a position is reached for the first time since it was given up
FirstVisit ==
  /\ Choosing /\ ~TooDeep
  /\ pos < max_depth /\ ~states[pos].init
  /\ current_pos' = pos
  /\ IF NextValue(0) < Tree[seq] THEN Take(NextValue(0)) ELSE Backtrack
  /\ UNCHANGED <<program, emitted>>

----------------------------------------------------------------------------
\* mutant: programs abandoned for their depth are output too
OutputAlways == Append(emitted, seq)

\* only a run without an error outputs its program
Output == IF err = "SUCCESS" THEN Append(emitted, seq) ELSE emitted

\* mutant: the sequence of the last run is kept
SeqKept == SubSeq(seq, 1, current_pos)

\* reset_state clears the sequence
SeqCleared == <<>>

\* DFSProgramGenerator::goGenerator: a run ends, with reset_state, and the
\* next one starts unless all is done
EndRun ==
  /\ ~all_done
  /\ err # "SUCCESS" \/ (Tree[seq] = 0 /\ ~TooDeep)
  /\ emitted' = Output
  /\ current_pos' = -1
  /\ seq' = SeqCleared
  /\ err' = "SUCCESS"
  /\ UNCHANGED <<program, states, decision_depth, all_done>>

Next ==
  \/ EagerBacktracking
  \/ ExceedMaxDepth
  \/ RevisitNode
  \/ SwitchBranch
  \/ FirstVisit
  \/ EndRun

\* the generator is one thread: it goes on until the search is done
Spec == Init /\ [][Next]_vars /\ WF_vars(Next)

----------------------------------------------------------------------------
TypeOK ==
  /\ max_depth \in MaxDepths /\ needed \in Demands
  /\ states \in [Positions -> [init : BOOLEAN, value : Nat]]
  /\ current_pos \in -1 .. max_depth
  /\ decision_depth \in -1 .. max_depth - 1
  /\ all_done \in BOOLEAN
  /\ err \in {"SUCCESS", "BACKTRACKING_ERROR", "EXCEED_MAX_DEPTH_ERROR"}
  /\ seq \in DOMAIN Tree

\* states_ is a stack: the initialised positions are those up to the decision
\* depth, which is what random_choice relies on to tell a node to revisit from
\* one that was never visited; and the choices of this run follow it.
SearchStack ==
  /\ \A i \in Positions : states[i].init <=> i <= decision_depth
  /\ \A i \in 1 .. Len(seq) : i - 1 <= decision_depth => seq[i] = states[i - 1].value

\* revisit_node asserts that the value it repeats is below the bound: the
\* earlier decisions of the stack are a path of the tree.
RevisitInRange ==
  \A d \in 1 .. decision_depth + 1 : [i \in 1 .. d |-> states[i - 1].value] \in DOMAIN Tree

\* Every program within the depth limit that no depth guard gives up is output
\* exactly once, in the order of its choices, and the search is done when none
\* is left: neither eager backtracking nor the limit loses or repeats another.
Enumeration == INSTANCE ExhaustiveEnumeration WITH done <- all_done
EnumeratesPrograms == Enumeration!Spec

\* the search ends
SearchEnds == <>all_done
=============================================================================
