------------------------------ MODULE PointsTo ------------------------------
(***************************************************************************)
(* The points-to analysis that csmith runs while it generates a function.  *)
(*                                                                         *)
(* Statements are generated one at a time and the facts of the fact        *)
(* manager (FactMgr::global_facts) are updated after each.  Beside the     *)
(* facts, the module runs one execution of the function under generation,  *)
(* the witness: the value of every pointer in the generated C program.     *)
(* The witness takes one branch of every "if", so while the other branch   *)
(* is generated it waits.  Variables are created lazily, also in blocks    *)
(* that enclose the current one, and their facts are then patched into     *)
(* the environments saved earlier.                                         *)
(*                                                                         *)
(* Data: a fact is the set of variables a pointer may point to; a variable *)
(* without a fact has the empty set (the code never keeps a fact with an   *)
(* empty point-to set).  Integers only matter as pointees.                 *)
(***************************************************************************)
EXTENDS Naturals

CONSTANTS
  Var,        \* the variables the generator may create
  Level,      \* Level[v]: levels of indirection of v's type, 0 for integers
  Globals,    \* the globals that exist when the function is generated
  Array,      \* the variables that are arrays, each a collective variable
  Null,       \* FactPointTo::null_ptr
  Garbage,    \* FactPointTo::garbage_ptr: uninitialised or dangling
  Entries,    \* the facts handed over to the function, with the globals' values
  MaxDepth,   \* bound on block nesting (CGOptions::max_blk_depth)
  MaxSize     \* MaxSize[d]: bound on statements in a block at depth d

\* bound on CGOptions::max_indirect_level(): pointers to pointers at most
MaxIndirect == 2

Special == {Null, Garbage}
Target  == Var \cup Special
Unborn  == MaxDepth + 1     \* home of a variable that is not declared yet
Dead    == MaxDepth + 2     \* home of a variable that went out of scope

ASSUME ConstantsOK ==
  /\ MaxDepth \in Nat \ {0} /\ MaxSize \in [1 .. MaxDepth -> Nat]
  /\ Level \in [Var -> 0 .. MaxIndirect]
  /\ Array \subseteq Var /\ Globals \subseteq Var
  /\ Null \notin Var /\ Garbage \notin Var /\ Null # Garbage

VARIABLES
  home,     \* home[v]: nesting depth of the block that declares v, 0 if global
  depth,    \* nesting depth of the block being generated, 1 is the body
  size,     \* size[d]: statements generated in the open block at depth d
  side,     \* side[d]: which branch of its "if" the block at depth d is
  pre,      \* pre[d]: FactMgr::map_facts_in of the true branch
  out,      \* out[d]: FactMgr::map_facts_out of the finished true branch
  thenRet,  \* thenRet[d]: the finished true branch must return
  closed,   \* the block being generated must return: no statement follows
  facts,    \* FactMgr::global_facts
  anyRet,   \* a return statement has been generated
  retFacts, \* the facts at the function's return statements, merged
  store,    \* witness: store[v] is the set of values of v (one, if no array)
  at,       \* witness: the depth of the block it is in, 0 once it returned
  bad       \* witness: it dereferenced a null or dangling pointer

genVars == <<home, depth, size, side, pre, out, thenRet, closed, facts, anyRet, retFacts>>
vars == <<genVars, store, at, bad>>

Depths   == 1 .. MaxDepth
Facts    == [Var -> SUBSET Target]
NoFacts  == [v \in Var |-> {}]
Live     == {v \in Var : home[v] <= depth}
Locals(d) == {v \in Var : home[v] = d}

\* where the program under generation currently executes the new statement
Running  == at = depth

----------------------------------------------------------------------------
(* Operators on facts *)

\* FactPointTo::merge_pointees_of_pointers
PointeesOf(S, f) == UNION {f[p] : p \in S \cap Var}

\* FactPointTo::merge_pointees_of_pointer
MergePointees(v, n, f) ==
  CASE n = 0 -> {v}
    [] n = 1 -> f[v]
    [] OTHER -> PointeesOf(f[v], f)

\* merge_facts: join, variable by variable
MergeFacts(f, g) == [v \in Var |-> f[v] \cup g[v]]

\* FactPointTo::mark_dead_var for every variable of S
MarkDead(T, S) == IF T \cap S = {} THEN T ELSE (T \ S) \cup {Garbage}

\* mutant: the facts of the variables themselves are kept
UpdateForOosVarsKeeps(f, S) == [v \in Var |-> MarkDead(f[v], S)]

\* FactMgr::update_facts_for_oos_vars; remove_function_local_facts is the
\* same operation on all variables on the function's stack
UpdateForOosVars(f, S) ==
  [v \in Var |-> IF v \in S THEN {} ELSE MarkDead(f[v], S)]

\* CGContext::check_read_var: the value of v is not a dangling pointer
CheckReadVar(v, f) == Garbage \notin f[v]

\* mutant: null pointers pass the check
PointedValidAllowsNull(v, n, f) ==
  \A i \in 1 .. n : LET T == MergePointees(v, i, f)
                    IN  T # {} /\ Garbage \notin T

\* CGContext::write_pointed: at each level every pointee is a variable
PointedValid(v, n, f) ==
  \A i \in 1 .. n : LET T == MergePointees(v, i, f)
                    IN  T # {} /\ T \cap Special = {}

\* Lhs::visit_facts, the part that concerns pointers
CanWrite(v, n, f) ==
  n > 0 => CheckReadVar(v, f) /\ PointedValid(v, n, f)

\* ExpressionVariable::visit_facts and CGContext::read_pointed
CanRead(v, n, f) ==
  /\ CheckReadVar(v, f)
  /\ PointedValid(v, n, f)
  /\ \A i \in 1 .. n : \A p \in MergePointees(v, i, f) \ Special : CheckReadVar(p, f)

\* A right-hand side of pointer type: the null constant, the address of a
\* variable, or the value of a variable after ind dereferences
Rhs == [kind : {"null"}] \cup [kind : {"addr"}, var : Var]
       \cup [kind : {"value"}, var : Var, ind : 0 .. MaxIndirect - 1]

\* FactPointTo::rhs_to_lhs_transfer: what the right-hand side may point to
RhsPointees(r, f) ==
  CASE r.kind = "null"  -> {Null}
    [] r.kind = "addr"  -> {r.var}
    [] OTHER            -> MergePointees(r.var, r.ind + 1, f)

\* mutant: an array is renewed like a scalar
UpdateForAssignStrong(lvars, new, f) ==
  IF \E w \in Var : lvars = {w}
  THEN [v \in Var |-> IF v \in lvars THEN new ELSE f[v]]
  ELSE [v \in Var |-> IF v \in lvars THEN f[v] \cup new ELSE f[v]]

\* FactMgr::update_fact_for_assign: renew the fact of a single scalar, merge
\* into the facts of an array or of several candidates
UpdateForAssign(lvars, new, f) ==
  IF \E w \in Var : lvars = {w} /\ w \notin Array
  THEN [v \in Var |-> IF v \in lvars THEN new ELSE f[v]]
  ELSE [v \in Var |-> IF v \in lvars THEN f[v] \cup new ELSE f[v]]

----------------------------------------------------------------------------
(* The witness: semantics of the generated C program *)

\* the values w may hold after t is written to it, to one element if w is an
\* array
ValuesAfter(s, w, t) ==
  IF w \in Array
  THEN {s[w] \cup {t}} \cup {(s[w] \ {y}) \cup {t} : y \in s[w]}
  ELSE {{t}}

\* the variables of S cease to exist, pointers to them dangle
Expire(s, S) ==
  [v \in Var |-> IF v \in S THEN {}
                 ELSE {IF t \in S THEN Garbage ELSE t : t \in s[v]}]

\* dereferencing v up to n times stays clear of null and dangling pointers
SafeDeref(s, v, n) ==
  \A i \in 1 .. n : MergePointees(v, i, s) \cap Special = {}

SafeRhs(s, r) == r.kind = "value" => SafeDeref(s, r.var, r.ind)

----------------------------------------------------------------------------
\* the values of the globals are described by the facts that
\* FactMgr::caller_to_callee_handover hands over
ASSUME EntriesOK ==
  \A e \in Entries :
    /\ e.facts \in Facts /\ e.store \in Facts
    /\ \A v \in Var : e.store[v] \subseteq e.facts[v]

\* the pointers among them have facts, and only they, about each other
ASSUME EntriesScoped ==
  \A e \in Entries : \A v \in Var :
    /\ v \in Globals /\ Level[v] > 0 => e.facts[v] # {}
    /\ v \notin Globals => e.facts[v] = {}
    /\ \A y \in e.facts[v] \ Special : y \in Globals /\ Level[y] + 1 = Level[v]

Init ==
  /\ home = [v \in Var |-> IF v \in Globals THEN 0 ELSE Unborn]
  /\ depth = 1
  /\ size = [d \in Depths |-> 0]
  /\ side = [d \in Depths |-> "true"]
  /\ pre = [d \in Depths |-> NoFacts]
  /\ out = [d \in Depths |-> NoFacts]
  /\ thenRet = [d \in Depths |-> FALSE]
  /\ closed = FALSE
  /\ \E e \in Entries : facts = e.facts /\ store = e.store
  /\ anyRet = FALSE
  /\ retFacts = NoFacts
  /\ at = 1
  /\ bad = FALSE

\* VariableSelector::make_init_value: null or the address of a variable that
\* is visible in block d; an array may have several initial values
InitValues(v, d) ==
  LET values == {Null} \cup {y \in Var : home[y] <= d /\ Level[y] + 1 = Level[v]}
  IN  IF Level[v] = 0 THEN {{}}
      ELSE IF v \in Array THEN (SUBSET values) \ {{}}
      ELSE {{t} : t \in values}

\* mutant: only the current facts get the new variable
PatchSavedSkips(maps, v, d, init) == maps

\* FactMgr::add_new_var_fact_and_update_inout_maps: the fact goes into every
\* environment saved inside block d
PatchSaved(maps, v, d, init) ==
  [i \in Depths |-> IF d < i /\ i <= depth
                    THEN [maps[i] EXCEPT ![v] = init] ELSE maps[i]]

\* VariableSelector::GenerateNewGlobal (d = 0) and GenerateNewParentLocal
NewVar(v, d) ==
  /\ ~closed
  /\ home[v] = Unborn
  /\ d <= depth
  /\ home' = [home EXCEPT ![v] = d]
  /\ \E init \in InitValues(v, d) :
       /\ facts' = [facts EXCEPT ![v] = init]
       /\ pre' = PatchSaved(pre, v, d, init)
       /\ out' = PatchSaved(out, v, d, init)
       /\ retFacts' = IF d = 0 /\ anyRet THEN [retFacts EXCEPT ![v] = init] ELSE retFacts
       /\ store' = IF d <= at THEN [store EXCEPT ![v] = init] ELSE store
  /\ UNCHANGED <<depth, size, side, thenRet, closed, anyRet, at, bad>>

\* mutant: the size of the block is not looked at
AddStatementUnbounded ==
  /\ ~closed
  /\ size' = [size EXCEPT ![depth] = @ + 1]

\* Block::make_random: a block takes statements until one must return or
\* its size is reached
AddStatement ==
  /\ ~closed
  /\ size[depth] < MaxSize[depth]
  /\ size' = [size EXCEPT ![depth] = @ + 1]

\* the type of the left-hand side after n dereferences, a pointer type
LhsOK(l, n) == l \in Live /\ n < Level[l]

RhsOK(r, lev) ==
  CASE r.kind = "null" -> TRUE
    [] r.kind = "addr" -> r.var \in Live /\ Level[r.var] + 1 = lev
    [] OTHER -> /\ r.var \in Live
                /\ Level[r.var] = lev + r.ind
                /\ CanRead(r.var, r.ind, facts)

\* StatementAssign::make_random and Statement::post_creation_analysis
Assign(l, n, r) ==
  /\ AddStatement
  /\ LhsOK(l, n) /\ CanWrite(l, n, facts)
  /\ RhsOK(r, Level[l] - n)
  /\ facts' = UpdateForAssign(MergePointees(l, n, facts) \ Special,
                              RhsPointees(r, facts), facts)
  /\ IF ~Running
     THEN UNCHANGED <<store, bad>>
     ELSE IF SafeDeref(store, l, n) /\ SafeRhs(store, r)
     THEN /\ \E w \in MergePointees(l, n, store), t \in RhsPointees(r, store) :
               \E new \in ValuesAfter(store, w, t) :
                 store' = [store EXCEPT ![w] = new]
          /\ UNCHANGED bad
     ELSE /\ bad' = TRUE
          /\ UNCHANGED store
  /\ UNCHANGED <<home, depth, side, pre, out, thenRet, closed, anyRet, retFacts, at>>

\* an expression that reads an integer through pointer v
ReadThrough(v) ==
  /\ ~closed
  /\ v \in Live /\ Level[v] > 0
  /\ CanRead(v, Level[v], facts)
  /\ bad' = (bad \/ (Running /\ ~SafeDeref(store, v, Level[v])))
  /\ UNCHANGED <<genVars, store, at>>

\* StatementIf::make_random up to the true branch: Block::make_random saves
\* the facts; the witness enters the branch or waits for the false branch
OpenIf ==
  /\ AddStatement
  /\ depth < MaxDepth
  /\ depth' = depth + 1
  /\ side' = [side EXCEPT ![depth + 1] = "true"]
  /\ pre' = [pre EXCEPT ![depth + 1] = facts]
  /\ at' \in IF Running THEN {depth, depth + 1} ELSE {at}
  /\ UNCHANGED <<home, out, thenRet, closed, facts, anyRet, retFacts, store, bad>>

\* leaving the current block: its variables go out of scope
LeaveBlock ==
  /\ home' = [v \in Var |-> IF home[v] = depth THEN Dead ELSE home[v]]
  /\ store' = IF Running THEN Expire(store, Locals(depth)) ELSE store

BlockOut == UpdateForOosVars(facts, Locals(depth))

\* Block::post_creation_analysis of the true branch, then the false branch
\* starts "with the same env as true branch"
ElseBranch ==
  /\ depth > 1 /\ side[depth] = "true"
  /\ LeaveBlock
  /\ out' = [out EXCEPT ![depth] = BlockOut]
  /\ thenRet' = [thenRet EXCEPT ![depth] = closed]
  /\ facts' = pre[depth]
  /\ side' = [side EXCEPT ![depth] = "false"]
  /\ closed' = FALSE
  /\ size' = [size EXCEPT ![depth] = 0]
  /\ at' = CASE at = depth     -> depth - 1
             [] at = depth - 1 -> depth
             [] OTHER          -> at
  /\ UNCHANGED <<depth, pre, anyRet, retFacts, bad>>

\* StatementIf::combine_branch_facts
CombineBranchFacts ==
  CASE thenRet[depth] /\ closed   -> pre[depth]
    [] thenRet[depth] /\ ~closed  -> BlockOut
    [] ~thenRet[depth] /\ closed  -> out[depth]
    [] OTHER                      -> MergeFacts(out[depth], BlockOut)

\* mutant: one branch that must return is enough
IfMustReturnAny == thenRet[depth] \/ closed

\* StatementIf::must_return
IfMustReturn == thenRet[depth] /\ closed

\* Block::post_creation_analysis of the false branch, then
\* Statement::post_creation_analysis of the "if"
EndIf ==
  /\ depth > 1 /\ side[depth] = "false"
  /\ LeaveBlock
  /\ facts' = CombineBranchFacts
  /\ closed' = IfMustReturn
  /\ depth' = depth - 1
  /\ at' = IF Running THEN depth - 1 ELSE at
  \* nothing reads the environments of a finished "if" again
  /\ size' = [size EXCEPT ![depth] = 0]
  /\ side' = [side EXCEPT ![depth] = "true"]
  /\ pre' = [pre EXCEPT ![depth] = NoFacts]
  /\ out' = [out EXCEPT ![depth] = NoFacts]
  /\ thenRet' = [thenRet EXCEPT ![depth] = FALSE]
  /\ UNCHANGED <<anyRet, retFacts, bad>>

\* mutant: the facts of the last return statement replace the earlier ones
AddBackReturnFactsLast(locals) == UpdateForOosVars(facts, locals)

\* FactMgr::set_fact_out drops the function's variables, and
\* Statement::add_back_return_facts merges the facts of all return statements
AddBackReturnFacts(locals) ==
  MergeFacts(retFacts, UpdateForOosVars(facts, locals))

\* StatementReturn::make_random, with its post_creation_analysis
Return ==
  /\ AddStatement
  /\ closed' = TRUE
  /\ anyRet' = TRUE
  /\ LET locals == {v \in Var : home[v] \in 1 .. depth}
     IN  /\ retFacts' = AddBackReturnFacts(locals)
         /\ store' = IF Running THEN Expire(store, locals) ELSE store
  /\ at' = IF Running THEN 0 ELSE at
  /\ UNCHANGED <<home, depth, side, pre, out, thenRet, facts, bad>>

Next ==
  \/ \E v \in Var, d \in 0 .. MaxDepth : NewVar(v, d)
  \/ \E l \in Var, n \in 0 .. MaxIndirect - 1, r \in Rhs : Assign(l, n, r)
  \/ \E v \in Var : ReadThrough(v)
  \/ OpenIf
  \/ ElseBranch
  \/ EndIf
  \/ Return

Spec == Init /\ [][Next]_vars

----------------------------------------------------------------------------
SizeOK == size \in [Depths -> Nat] /\ \A d \in Depths : size[d] <= MaxSize[d]

\* Types of the variables; a block never outgrows the size drawn for it
\* (Block::make_random).
TypeOK ==
  /\ home \in [Var -> 0 .. Dead]
  /\ depth \in Depths
  /\ SizeOK
  /\ side \in [Depths -> {"true", "false"}]
  /\ pre \in [Depths -> Facts]
  /\ out \in [Depths -> Facts]
  /\ thenRet \in [Depths -> BOOLEAN]
  /\ closed \in BOOLEAN
  /\ facts \in Facts
  /\ anyRet \in BOOLEAN
  /\ retFacts \in Facts
  /\ store \in Facts
  /\ at \in 0 .. MaxDepth
  /\ bad \in BOOLEAN

\* store s is described by facts f
Describes(f, s) == \A v \in Var : s[v] \subseteq f[v]

\* The analysis is sound where the generator is: whenever the execution
\* reaches the point under generation, the value of every pointer is in its
\* point-to set (FactMgr::global_facts after every handler).
FactsSound == Running => Describes(facts, store)

\* The generator only emits dereferences the facts allow, and none of them
\* meets a null or dangling pointer (ExpressionVariable and Lhs visit_facts).
NoBadDereference == ~bad

\* Once the execution has returned, the facts merged over the return
\* statements describe the globals (FactMgr::update_fact_for_return).
ReturnFactsSound == at = 0 => Describes(retFacts, store)

\* Every pointer in scope has a fact, which merge_pointees_of_pointers
\* asserts, and no fact in force mentions a variable that is out of scope.
FactsWellScoped ==
  ~closed => \A v \in Var :
    /\ v \in Live /\ Level[v] > 0 => facts[v] # {}
    /\ v \notin Live => facts[v] = {}
    /\ facts[v] \subseteq Live \cup Special

\* facts f are those of the variables declared within h at depth d or further
\* out, and each pointee is one of them, with one level of indirection less
Scoped(h, f, d) ==
  \A v \in Var :
    /\ h[v] <= d /\ Level[v] > 0 => f[v] # {}
    /\ h[v] > d => f[v] = {}
    /\ \A y \in f[v] \ Special : h[y] <= d /\ Level[y] + 1 = Level[v]

\* the inductive invariant behind FactsWellScoped: the environments saved for
\* the branches are those of the block around the "if"
ScopeInv ==
  /\ \A v \in Var : home[v] <= depth \/ home[v] > MaxDepth
  /\ Scoped(home, facts, depth)
  /\ \A d \in 2 .. depth :
       /\ Scoped(home, pre[d], d - 1)
       /\ side[d] = "false" => Scoped(home, out[d], d - 1)

\* While the execution waits for the "if" at depth at + 1, the environment
\* that the analysis will resume with describes it: the one saved before the
\* branches if it takes the false branch, else the output of the true one.
WaitingSound ==
  at \in 1 .. depth - 1 =>
    IF side[at + 1] = "true"
    THEN Describes(pre[at + 1], store)
    ELSE Describes(out[at + 1], store) /\ ~thenRet[at + 1]

\* The execution never stands where the generator found that it must return,
\* and it has returned only through a return statement.
Reachable == at <= depth /\ (closed => ~Running) /\ (at = 0 => anyRet)

\* the inductive invariant behind the three soundness properties
IInv ==
  /\ TypeOK
  /\ Reachable
  /\ FactsSound
  /\ WaitingSound
  /\ ReturnFactsSound
  /\ NoBadDereference
=============================================================================
