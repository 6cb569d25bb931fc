--------------------------- MODULE RecursiveBlock ---------------------------
(***************************************************************************)
(* The analysis of an immediately recursive function                       *)
(*                                                                         *)
(*   f { before; if (c) return; else f(); after }                          *)
(*                                                                         *)
(* which csmith generates in this order: "before", the call, a first fixed *)
(* point over ever deeper calls, "after", a second fixed point over ever   *)
(* more returns.  RecursiveFactMgr keeps one fact manager for each depth   *)
(* of recursion, up to a limit.  Statements that fail in a fixed point are *)
(* deleted.  When all is generated the function runs: the witness.         *)
(*                                                                         *)
(* Data: statements use global pointers, so a frame has no state of its    *)
(* own: parameters, the facts about them and effects are not modelled.  A  *)
(* fact is the set of what a pointer may point to.  No fact and an empty   *)
(* one are both the empty set: neither lets a pointer be used.  The local  *)
(* pointers of the body are only counted.  Where the code fails an         *)
(* assertion the model stops.                                              *)
(***************************************************************************)
EXTENDS Integers, Sequences, FiniteSetsExt

CONSTANTS
  Ptr,         \* global pointers
  Obj,         \* what they can point to
  Null,        \* FactPointTo::null_ptr
  Statements,  \* the statements that may be generated
  Entries,     \* the facts the function may be generated with
  MaxMgrs,     \* CGOptions::max_fact_sets_in_inclusive_fact_set
  MaxBefore,   \* bound on the statements before the call
  MaxAfter,    \* bound on those after it
  MaxLevel     \* bound on the depth of the recursion that runs

Target  == Obj \cup {Null}
Facts   == [Ptr -> SUBSET Target]
NoFacts == [p \in Ptr |-> {}]

\* "new": the statement comes with a new local pointer
AllStatements ==
  [kind : {"set"}, lhs : Ptr, to : Target, new : BOOLEAN]
  \cup [kind : {"copy"}, lhs : Ptr, from : Ptr, new : BOOLEAN]
  \cup [kind : {"use"}, ptr : Ptr, new : BOOLEAN]      \* an access to *ptr

\* CGOptions::has_recursion_conflict insists on two fact sets
ASSUME RecursionConstantsOK ==
  /\ Null \notin Obj
  /\ Statements \subseteq AllStatements
  /\ Entries \subseteq [Ptr -> (SUBSET Target) \ {{}}]
  /\ MaxMgrs \in Nat \ {0, 1} /\ MaxBefore \in Nat /\ MaxAfter \in Nat /\ MaxLevel \in Nat

VARIABLES
  phase,     \* what is going on
  before,    \* the statements before the recursive call
  after,     \* the statements after it
  locals,    \* local_vars.size()
  entry,     \* facts_copy: the facts f is entered with
  mgrs,      \* the fact managers, by depth of recursion
  live,      \* the depths of those in map_fact_mgrs
  deleted,   \* the depths of those in map_deleted_fact_mgrs
  ret,       \* global_ret_facts
  outputs,   \* the facts at the point of generation, then at the recursive call
  inputs,    \* the inputs of the last round of the first fixed point
  cnt,       \* rounds counted against the limit of a fixed point
  once,      \* visit_once
  rounds,    \* min_num_iterations
  level,     \* witness: depth of the recursion
  unwound,   \* witness: the calls that have run "after"
  store,     \* witness: the pointers
  bad        \* witness: it dereferenced null

body     == <<before, after, locals>>
managers == <<mgrs, live, deleted, ret>>
analysis == <<entry, outputs, inputs, cnt, once, rounds>>
witness  == <<level, unwound, store, bad>>
vars == <<phase, body, managers, analysis, witness>>

----------------------------------------------------------------------------
(* Statements and facts *)

Merge(f, g) == [p \in Ptr |-> f[p] \cup g[p]]

MergeAll(F) == [p \in Ptr |-> UNION {f[p] : f \in F}]

\* renew_facts
Renew(f, g) == [p \in Ptr |-> IF g[p] = {} THEN f[p] ELSE g[p]]

Safe(f, p) == f[p] # {} /\ Null \notin f[p]

\* visit_facts: does s pass the analysis from f, and with which output
Valid(s, f) == s.kind = "use" => Safe(f, s.ptr)

Out(s, f) ==
  CASE s.kind = "set"  -> [f EXCEPT ![s.lhs] = {s.to}]
    [] s.kind = "copy" -> [f EXCEPT ![s.lhs] = f[s.from]]
    [] OTHER           -> f

LocalsWith(s) == IF s.new THEN locals + 1 ELSE locals

\* the facts before each statement, and after them all
FactsAlong(stms, f) ==
  LET g[i \in 1 .. Len(stms) + 1] == IF i = 1 THEN f ELSE Out(stms[i - 1], g[i - 1])
  IN  g
FactsOut(stms, f) == FactsAlong(stms, f)[Len(stms) + 1]

\* the statements that fail the analysis from f
Fails(stms, f) == {i \in 1 .. Len(stms) : ~Valid(stms[i], FactsAlong(stms, f)[i])}

\* the witness runs a block
Exec(s, st) ==
  CASE s.kind = "set"  -> [st EXCEPT ![s.lhs] = s.to]
    [] s.kind = "copy" -> [st EXCEPT ![s.lhs] = st[s.from]]
    [] OTHER           -> st

StoresAlong(stms, st) ==
  LET g[i \in 1 .. Len(stms) + 1] == IF i = 1 THEN st ELSE Exec(stms[i - 1], g[i - 1])
  IN  g

Run(stms) ==
  LET g == StoresAlong(stms, store)
  IN  /\ store' = g[Len(stms) + 1]
      /\ bad' = (bad \/ \E i \in 1 .. Len(stms) :
                          stms[i].kind = "use" /\ g[i][stms[i].ptr] = Null)

Describes(f, st) == \A p \in Ptr : st[p] \in f[p]

----------------------------------------------------------------------------
(* Generation up to the recursive call *)

\* in, visited: of the body; call: the facts at the recursive call, which the
\* base case returns; ins, outs: of the statements that follow the call;
\* out: of the body; facts: global_facts
Manager(f) ==
  [in |-> f, visited |-> FALSE, call |-> NoFacts, facts |-> NoFacts, out |-> NoFacts,
   ins |-> <<[facts |-> NoFacts, locals |-> 0]>>, outs |-> <<NoFacts>>]

Init ==
  /\ phase = "before"
  /\ before = <<>> /\ after = <<>> /\ locals = 0
  /\ entry \in Entries
  /\ mgrs = [d \in {1} |-> Manager(entry)] /\ live = {1} /\ deleted = {}
  /\ ret = NoFacts
  /\ outputs = entry /\ inputs = NoFacts
  /\ cnt = 0 /\ once = FALSE /\ rounds = 0
  /\ level = 0 /\ unwound = 0 /\ bad = FALSE
  /\ store \in {st \in [Ptr -> Target] : Describes(entry, st)}

\* RecursiveBlock::make_random, the sub-block before the call
GenBefore(s) ==
  /\ phase = "before" /\ Len(before) < MaxBefore
  /\ Valid(s, outputs)
  /\ before' = Append(before, s)
  /\ locals' = LocalsWith(s)
  /\ outputs' = Out(s, outputs)
  /\ UNCHANGED <<phase, after, managers, entry, inputs, cnt, once, rounds, witness>>

Deepest == Max(DOMAIN mgrs)

\* the n managers, and a copy of the last to be visited
WithCopy(m, n) ==
  [d \in 1 .. n + 1 |-> IF d <= n THEN m[d] ELSE [m[n] EXCEPT !.visited = FALSE]]

\* mutant: one manager beyond the limit
WithOneMore(m) ==
  LET n == Cardinality(DOMAIN m)
  IN  IF n <= MaxMgrs THEN WithCopy(m, n) ELSE m

\* prepare_for_next_iteration: the next depth starts from a copy of the last
\* manager, unless the limit is reached
WithNext(m) ==
  LET n == Cardinality(DOMAIN m)
  IN  IF n < MaxMgrs THEN WithCopy(m, n) ELSE m

\* the recursive call is generated, and the first fixed point starts
GenCall ==
  /\ phase = "before"
  /\ phase' = "calls"
  /\ mgrs' = WithNext([mgrs EXCEPT ![1].call = outputs, ![1].visited = TRUE])
  /\ live' = DOMAIN mgrs'
  /\ UNCHANGED <<body, deleted, ret, analysis, witness>>

----------------------------------------------------------------------------
(* immediate_rec_call_find_fixed_point *)

Limit == 7    \* rounds a fixed point may take

\* once the limit of managers is reached, the inputs of the last round are
\* included in this one's, and the rounds are counted
RoundInputs == IF mgrs[Deepest].visited THEN Merge(inputs, outputs) ELSE outputs
RoundCnt    == IF mgrs[Deepest].visited THEN cnt + 1 ELSE cnt

\* or else assert(0), "takes too many iterations to reach a fixed point"
CallRound == phase = "calls" /\ RoundCnt <= Limit + 1

\* mutant: compares which pointers there are facts about, not the facts
CallsFixedBySize ==
  ~once /\ \A p \in Ptr : (RoundInputs[p] = {}) = (mgrs[Deepest].in[p] = {})

\* shortcut_analysis: this depth has the inputs recorded for the last
CallsFixed == ~once /\ RoundInputs = mgrs[Deepest].in

VisitBefore ==
  /\ CallRound /\ ~CallsFixed
  /\ Fails(before, RoundInputs) = {}
  /\ outputs' = FactsOut(before, RoundInputs)
  /\ mgrs' = WithNext([mgrs EXCEPT ![Deepest].in = RoundInputs, ![Deepest].call = outputs',
                                   ![Deepest].visited = TRUE])
  /\ live' = DOMAIN mgrs'
  /\ inputs' = RoundInputs
  /\ cnt' = RoundCnt
  /\ once' = FALSE
  /\ UNCHANGED <<phase, body, deleted, ret, entry, rounds, witness>>

\* immediate_rec_call_post_creation_analysis: what fails is deleted with all
\* that follows; the analysis starts again from the first manager, whose
\* records are cleared
RemoveBefore ==
  /\ CallRound /\ ~CallsFixed
  /\ Fails(before, RoundInputs) # {}
  /\ before' = SubSeq(before, 1, Min(Fails(before, RoundInputs)) - 1)
  /\ mgrs' = [d \in {1} |-> [Manager(NoFacts) EXCEPT !.visited = TRUE]]
  /\ live' = {1}
  /\ outputs' = entry
  /\ inputs' = NoFacts
  /\ cnt' = 0
  /\ once' = TRUE
  /\ UNCHANGED <<phase, after, locals, deleted, ret, entry, rounds, witness>>

\* mutant: each depth goes on with its own facts
AfterOwn(d) == mgrs[d].call

\* the facts after the call at depth d, when the next depth is the base case;
\* the last manager stands for all that are deeper
AfterCall(d) == mgrs[IF d = Deepest THEN d ELSE d + 1].call

Penultimate == Max(live \ {Max(live)})

\* update_map_fact_mgrs: the last manager but one is dropped
EndCalls ==
  /\ CallRound /\ CallsFixed
  /\ phase' = "after"
  /\ mgrs' = [d \in DOMAIN mgrs |-> [mgrs[d] EXCEPT !.facts = AfterCall(d)]]
  /\ live' = live \ {Penultimate}
  /\ ret' = mgrs[1].call
  /\ UNCHANGED <<body, deleted, analysis, witness>>

----------------------------------------------------------------------------
(* Generation of the rest *)

\* mutant: only the last manager counts
MergedLast == mgrs[Max(live)].facts

\* merged_fact_mgr, with which "after" is generated
Merged == MergeAll({mgrs[d].facts : d \in live})

\* each manager visits the new statement (Statement::update_maps) and accepts it
GenAfter(s) ==
  LET n == Len(after)
      updated(m) == [m EXCEPT !.facts = Out(s, m.facts),
                              !.ins = SubSeq(m.ins, 1, n)
                                      \o <<[facts |-> m.facts, locals |-> LocalsWith(s)]>>,
                              !.outs = SubSeq(m.outs, 1, n) \o <<Out(s, m.facts)>>]
  IN  /\ phase = "after" /\ n < MaxAfter
      /\ Valid(s, Merged)
      /\ \A d \in live : Valid(s, mgrs[d].facts)
      /\ after' = Append(after, s)
      /\ locals' = LocalsWith(s)
      /\ mgrs' = [d \in DOMAIN mgrs |-> IF d \in live THEN updated(mgrs[d]) ELSE mgrs[d]]
      /\ UNCHANGED <<phase, before, live, deleted, ret, analysis, witness>>

\* A manager refuses it: assert(0).  The visit also checks facts about parameters,
\* the branches of a statement, and effects in the context of the manager's depth:
\* for these a manager may refuse what the merged one accepts.
AbortAfter(s) ==
  /\ phase = "after" /\ Len(after) < MaxAfter
  /\ Valid(s, Merged)
  /\ phase' = "aborted"
  /\ UNCHANGED <<body, managers, analysis, witness>>

\* update_maps_for_curr_blk, and the second fixed point starts
EndAfter ==
  /\ phase = "after"
  /\ phase' = "returns"
  /\ mgrs' = [d \in DOMAIN mgrs |-> IF d \in live THEN [mgrs[d] EXCEPT !.out = mgrs[d].facts] ELSE mgrs[d]]
  /\ cnt' = 0 /\ once' = FALSE
  /\ rounds' = Cardinality(live)
  /\ UNCHANGED <<body, live, deleted, ret, entry, outputs, inputs, witness>>

----------------------------------------------------------------------------
(* immediate_rec_func_find_fixed_point *)

\* RecursiveFactMgr::prepare_for_curr_iteration: the facts recorded for the
\* first statement, by reference, are renewed with those the next depth
\* returned; the last manager but one is set aside
Returner(d) == Min({e \in live : e > d} \cup {Max(live)})
Renewed(d)  == Renew(mgrs[d].ins[1].facts, mgrs[Returner(d)].out)

\* mutant: keeps the last two managers
SetAsideLate == IF Cardinality(live) <= 2 THEN {} ELSE {Penultimate}

SetAside == IF Cardinality(live) = 1 THEN {} ELSE {Penultimate}

PrepareReturns ==
  /\ live' = live \ SetAside
  /\ deleted' = deleted \cup SetAside
  /\ LET d == Min(live)
     IN  ret' = IF d \in SetAside THEN ret ELSE Merge(ret, mgrs[Returner(d)].out)

\* Statement::shortcut_analysis: the facts are those recorded, local pointers
\* included.  The facts of the first statement are the record.
Recorded(d, i) == IF i = 1 THEN Renewed(d) ELSE mgrs[d].ins[i].facts
Shortcut(d, i, f) == f = Recorded(d, i) /\ mgrs[d].ins[i].locals = locals

\* the facts with which the manager of depth d comes to each statement
VisitFacts(d) ==
  LET g[i \in 1 .. Len(after) + 1] ==
        IF i = 1 THEN Renewed(d)
        ELSE IF Shortcut(d, i - 1, g[i - 1]) THEN mgrs[d].outs[i - 1]
        ELSE Out(after[i - 1], g[i - 1])
  IN  g

FailsAfter ==
  {i \in 1 .. Len(after) : \E d \in live \ SetAside :
     /\ ~Shortcut(d, i, VisitFacts(d)[i])
     /\ ~Valid(after[i], VisitFacts(d)[i])}

\* shortcut_post_analysis: after so many rounds the facts of the last manager
\* are compared with the record for the first statement, of which the round has
\* just made them a copy
ReturnsFixed == ~once /\ cnt + 1 >= rounds

\* or else assert(0), as above
ReturnRound == phase = "returns" /\ cnt <= Limit + rounds

VisitAfter ==
  LET slots == 1 .. Max({1, Len(after)})
      visited(d) ==
        LET f    == VisitFacts(d)
            last == Len(after) + 1
        IN  [mgrs[d] EXCEPT !.facts = f[last], !.out = f[last],
                            !.ins  = [i \in slots |-> [facts |-> f[i], locals |-> locals]],
                            !.outs = [i \in slots |-> f[Min({i + 1, last})]]]
  IN  /\ ReturnRound /\ ~ReturnsFixed
      /\ FailsAfter = {}
      /\ PrepareReturns
      /\ mgrs' = [d \in DOMAIN mgrs |-> IF d \in live' THEN visited(d) ELSE mgrs[d]]
      /\ cnt' = cnt + 1
      /\ once' = FALSE
      /\ UNCHANGED <<phase, body, entry, outputs, inputs, rounds, witness>>

\* the facts recorded for what stands past the end of an empty "after"
\* (RecursiveFactMgr.cpp:203): a pointer never seen, or that of the last statement
\* deleted, whose record is not cleared
PastEnd(d) ==
  IF Min(FailsAfter) > 1 THEN {NoFacts}
  ELSE {NoFacts, mgrs[d].ins[Len(after)].facts}
       \cup (IF d \in live \ SetAside THEN {VisitFacts(d)[Len(after)]} ELSE {})

\* immediate_rec_func_post_creation_analysis: what fails is deleted with all
\* that follows; rec_func_reset_map_fact_mgrs puts the managers set aside back
\* and clears the records of every one
RemoveAfter ==
  LET n == Min(FailsAfter) - 1
      cleared(m, f, g) ==
        [m EXCEPT !.facts = f, !.out = NoFacts,
                  !.ins = IF n = 0 THEN <<[facts |-> g, locals |-> 0]>>
                          ELSE [i \in 1 .. n |-> [facts |-> NoFacts, locals |-> 0]],
                  !.outs = IF n = 0 THEN <<NoFacts>> ELSE [i \in 1 .. n |-> NoFacts]]
      all == live \cup deleted
  IN  /\ ReturnRound /\ ~ReturnsFixed
      /\ FailsAfter # {}
      /\ after' = SubSeq(after, 1, n)
      /\ \E g \in [all -> UNION {PastEnd(d) : d \in all}] :
           /\ \A d \in all : g[d] \in PastEnd(d)
           /\ mgrs' = [d \in DOMAIN mgrs |->
                         IF d \in all THEN cleared(mgrs[d], AfterCall(d), g[d]) ELSE mgrs[d]]
      /\ live' = all
      /\ deleted' = deleted \cup SetAside
      /\ ret' = IF Min(live) \in SetAside THEN ret
                ELSE Merge(ret, mgrs[Returner(Min(live))].out)
      /\ rounds' = Cardinality(all)
      /\ cnt' = 0
      /\ once' = TRUE
      /\ UNCHANGED <<phase, before, locals, entry, outputs, inputs, witness>>

EndReturns ==
  /\ ReturnRound /\ ReturnsFixed
  /\ PrepareReturns
  /\ Cardinality(live') = 1    \* asserted
  /\ phase' = "run"
  /\ mgrs' = [d \in DOMAIN mgrs |->
                IF d \in live' THEN [mgrs[d] EXCEPT !.ins[1].facts = Renewed(d),
                                                  !.facts = mgrs[d].out]
                               ELSE mgrs[d]]
  /\ UNCHANGED <<body, analysis, witness>>

----------------------------------------------------------------------------
(* The generated function runs *)

\* f is called and comes to its "if"
Call ==
  /\ phase = "run" /\ level < MaxLevel
  /\ Run(before)
  /\ level' = level + 1
  /\ UNCHANGED <<phase, body, managers, analysis, unwound>>

\* the base case
Base ==
  /\ phase = "run" /\ level > 0
  /\ phase' = "unwind"
  /\ level' = level - 1
  /\ UNCHANGED <<body, managers, analysis, unwound, store, bad>>

\* the call in the frame of depth level has returned
Unwind ==
  /\ phase = "unwind" /\ level > 0
  /\ Run(after)
  /\ level' = level - 1
  /\ unwound' = unwound + 1
  /\ UNCHANGED <<phase, body, managers, analysis>>

Next ==
  \/ \E s \in Statements : GenBefore(s) \/ GenAfter(s) \/ AbortAfter(s)
  \/ GenCall \/ VisitBefore \/ RemoveBefore \/ EndCalls
  \/ EndAfter \/ VisitAfter \/ RemoveAfter \/ EndReturns
  \/ Call \/ Base \/ Unwind

\* generator and program are one thread each
Spec == Init /\ [][Next]_vars /\ WF_vars(Next)

----------------------------------------------------------------------------
\* Types; the managers never exceed the limit (prepare_for_next_iteration).
TypeOK ==
  /\ phase \in {"before", "calls", "after", "aborted", "returns", "run", "unwind"}
  /\ before \in Seq(Statements) /\ after \in Seq(Statements)
  /\ DOMAIN mgrs \in {1 .. n : n \in 1 .. MaxMgrs}
  /\ live \subseteq DOMAIN mgrs /\ live # {} /\ deleted \subseteq DOMAIN mgrs
  /\ \A d \in DOMAIN mgrs :
       /\ {mgrs[d].in, mgrs[d].call, mgrs[d].facts, mgrs[d].out} \subseteq Facts
       /\ Len(mgrs[d].ins) = Len(mgrs[d].outs)
  /\ {entry, ret, outputs, inputs} \subseteq Facts
  /\ {cnt, rounds, unwound, locals} \subseteq Nat /\ level \in 0 .. MaxLevel
  /\ {once, bad} \subseteq BOOLEAN

\* However deep the recursion goes, at the recursive call the pointers are
\* described by the manager of that depth, or by the last one.
DescentSound ==
  phase = "run" /\ level > 0 => Describes(mgrs[Min({level, Deepest})].call, store)

\* What precedes the call, and what follows it the first time a call returns,
\* dereferences no null pointer.  A manager was dropped in between, so this is
\* where the facts of the others have to stand for its depth.
FirstReturnSafe == bad => unwound > 1

\* As far as facts about globals and statements without branches go, every manager
\* accepts what was generated with the facts merged over all of them: merging does
\* not hide that one has no fact, or a null.  This is a part of what update_maps
\* asserts; the rest, which may fail, is AbortAfter.
RegenerationValid ==
  phase = "after" =>
    \A s \in Statements : Valid(s, Merged) => \A d \in live : Valid(s, mgrs[d].facts)

\* No statement of the function that is generated dereferences null: one that
\* causes "a null/dead pointer dereference" when the body is analysed again
\* is deleted (immediate_rec_func_post_creation_analysis).
NoBadDereference == ~bad

\* What generate_random hands over to the function that made the first call.
CallerFacts == Merge(mgrs[Max(live)].out, ret)

\* By "the fact set to be returned to the non-recursive function", a pointer
\* that its caller may go on to dereference is not null.
CallerSafe ==
  phase = "unwind" /\ level = 0 => \A p \in Ptr : Safe(CallerFacts, p) => store[p] # Null

\* The generator gets the function done, unless it is aborted for what is not
\* modelled: both fixed points are reached within their limits, whatever had to
\* be deleted on the way.
GenerationCompletes == <>(phase \in {"run", "aborted"})
=============================================================================
