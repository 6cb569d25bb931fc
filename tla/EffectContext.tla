--------------------------- MODULE EffectContext ----------------------------
(***************************************************************************)
(* Statements with nested expressions, generated and analysed in effect    *)
(* contexts.  C does not say in which order the operands of an operator or *)
(* the arguments of a call are evaluated, nor when an assignment inside an *)
(* expression takes effect; a program whose meaning depends on it is of no *)
(* use.  Csmith generates an operand in a context: the effects of all that *)
(* may be evaluated before, after or together with it.                     *)
(*                                                                         *)
(* An expression under construction is a stack of frames, one for each     *)
(* operator whose operands are not all there.  A statement that is done    *)
(* is analysed again (visit_facts) as often as its function is called,     *)
(* with other facts and in another context; it is kept as the sequence of  *)
(* steps that built it.  Where the code shares one CGContext between an    *)
(* expression and its operand, the model merges the operand's effects at   *)
(* its end.  Pointers are of one level and point to scalars.               *)
(***************************************************************************)
EXTENDS Effects, SequencesExt

CONSTANTS
  Ptr,          \* the variables that are pointers
  Null,         \* FactPointTo::null_ptr
  Pointees,     \* what they may point to
  Index,        \* the variable that indexes an array, for the collectives of arrays
  NoWrite,      \* iv_bounds: induction variables of the loops around
  Leaves,       \* the variables, arrays and pointers that expressions use
  Targets,      \* the left-hand sides they use
  Func,         \* functions built before
  Body,         \* what a function does: reads, writes, dereferences, pointers set
  Stack,        \* locals of the blocks on the call chain
  CurrLocals,   \* locals of the current block
  Entries,      \* facts and effect contexts a statement may be analysed with
  MaxSteps,     \* bound on the steps that build a statement
  MaxStatements \* bound on the statements

Operators == {"binary", "and", "comma", "assign", "compound"}

Types == {"int", "ptr"}

\* a variable, an element of an array, what a pointer points to
Terms == [k : {"var"}, v : Var] \cup [k : {"elem"}, v : DOMAIN Index] \cup [k : {"star"}, v : Ptr]

Leaf == Terms \cup [k : {"addr"}, v : Pointees] \cup [k : {"const"}]

Facts == [Ptr -> SUBSET (Pointees \cup {Null})]

\* what is still there when a function returns
Visible == Global \cup Stack \cup CurrLocals

ASSUME ContextConstantsOK ==
  /\ Ptr \subseteq Var /\ Null \notin Var /\ Pointees \subseteq (Var \ Ptr) \cap Visible
  /\ Index \in [DOMAIN Index -> Var] /\ DOMAIN Index \subseteq Var \ Ptr /\ NoWrite \subseteq Var
  /\ Stack \subseteq Var \ Global /\ CurrLocals \subseteq Var \ Global
  /\ Leaves \subseteq Leaf /\ Targets \subseteq Terms
  /\ Entries \subseteq [facts : Facts, ctx : Effect]
  /\ Func \cap (Operators \cup {"stmt"}) = {}
  /\ MaxSteps \in Nat \ {0} /\ MaxStatements \in Nat

\* Pointers are variables of their own, or fields of structs: FactUnion, which
\* keeps them apart in unions, is not modelled
ASSUME PointersPlain ==
  \A p \in Ptr : FieldsOf(p) = {} /\ Enclosing[p] \cap Unions = {}

\* A function built before the statement's own uses globals, and the locals of
\* its callers through pointers; its own locals are in none of its effects
\* (Effect::add_external_effect)
ASSUME BodiesOK ==
  \A f \in Func :
    /\ Body[f].r \subseteq Global /\ Body[f].w \subseteq Global
    /\ Body[f].deref \subseteq Ptr \cap Global /\ Body[f].store \subseteq Ptr \cap Global
    /\ Body[f].set \in [DOMAIN Body[f].set -> SUBSET (Pointees \cup {Null})]
    /\ DOMAIN Body[f].set \subseteq Ptr \cap Global

VARIABLES
  mode,       \* what is going on
  stack,      \* frames of expressions that are not complete, the statement's first
  must,       \* a call failed: a variable must take its place
  facts,      \* what each pointer may point to
  born,       \* facts and context the statement was generated with
  entry,      \* those it is analysed with
  code,       \* the steps that built the statement
  pc,         \* the one that comes next
  feffect,    \* Function::feffect
  ctxeffect,  \* Function::accum_eff_context
  stmts       \* number of statements

analysis == <<born, entry, code, pc>>
functions == <<feffect, ctxeffect>>
vars == <<mode, stack, must, facts, analysis, functions, stmts>>

----------------------------------------------------------------------------
(* Witness: what C says an expression touches.  pend: stores that need not *)
(* have happened when its value is known.  val: what its value points to.  *)

Touch(r, w) ==
  [r |-> r, w |-> w, pend |-> w, val |-> {}, vol |-> (r \cup w) \cap Volatile # {}]

Nothing == Touch({}, {})

Both(s, t) ==
  [r |-> s.r \cup t.r, w |-> s.w \cup t.w, pend |-> s.pend \cup t.pend, val |-> {},
   vol |-> s.vol \/ t.vol]

Clashing(s, t) ==
  Clash(s.w, t.r \cup t.w) \/ Clash(s.r, t.w) \/ (s.vol /\ t.vol)

----------------------------------------------------------------------------
(* CGContext: what may be read and written *)

CanRead(ctx, v) ==
  /\ ~IsWrittenPartially(ctx, v)
  /\ v \in Volatile => ctx.sef

IsNonwritable(v) == \E iv \in NoWrite : LooseMatch(v, iv)

CanWrite(ctx, v) ==
  /\ ~IsNonwritable(v)
  /\ ~IsWrittenPartially(ctx, v)
  /\ ~IsReadPartially(ctx, v)
  /\ v \in Volatile => ctx.sef

InConflict(ctx, eff) ==
  \/ \E v \in eff.r : ~CanRead(ctx, v)
  \/ \E v \in eff.w : ~CanWrite(ctx, v)

\* FactPointTo::is_valid_ptr, and the check before each dereference
Dereferenceable(fs, p) == fs[p] # {} /\ Null \notin fs[p]

\* reading a leaf: the indices first, then what is read, a pointer before its pointee
LeafReads(fs, leaf) ==
  CASE leaf.k = "var"  -> {leaf.v}
    [] leaf.k = "elem" -> {Index[leaf.v], leaf.v}
    [] leaf.k = "star" -> {leaf.v} \cup fs[leaf.v]

LeafOK(ctx, fs, leaf) ==
  /\ leaf.k = "star" => Dereferenceable(fs, leaf.v)
  /\ \A v \in LeafReads(fs, leaf) : CanRead(ctx, v)

----------------------------------------------------------------------------
(* Functions *)

IsDynamicIfItSets(f) == DOMAIN Body[f].set # {}

\* whether a call analyses the body again: the callee changes or uses pointers
IsDynamic(f) == Body[f].deref # {} \/ Body[f].store # {} \/ DOMAIN Body[f].set # {}

BodyReads(fs, f) ==
  Body[f].r \cup Body[f].store \cup UNION {{p} \cup fs[p] : p \in Body[f].deref}

BodyWrites(fs, f) ==
  Body[f].w \cup (DOMAIN Body[f].set) \cup UNION {fs[p] : p \in Body[f].store}

BodyOK(ctx, fs, f) ==
  /\ \A p \in Body[f].deref \cup Body[f].store : Dereferenceable(fs, p)
  /\ \A v \in BodyReads(fs, f) : CanRead(ctx, v)
  /\ \A v \in BodyWrites(fs, f) : CanWrite(ctx, v)

BodyEffect(fs, f) == WriteVarSet(ReadVarSet(EmptyEffect, BodyReads(fs, f)), BodyWrites(fs, f))

BodyFacts(fs, f) == [p \in Ptr |-> IF p \in DOMAIN Body[f].set THEN Body[f].set[p] ELSE fs[p]]

----------------------------------------------------------------------------
(* Frames *)

\* "stmt": the CGContext of the statement itself
Arity(op) == IF op = "stmt" THEN 1 ELSE 2

\* rest: operands that the frames below want after this one
\* fs: the facts before it, at: the number of steps before it
NewFrame(op, ctx, type, rest, fs, at) ==
  [op |-> op, type |-> type, ctx |-> ctx, acc |-> EmptyEffect, args |-> <<>>,
   saved |-> fs, at |-> at, rest |-> rest]

Top == Last(stack)

\* operands that are still missing, the one being built counted once
MissingFrom(fr) == fr.rest + Arity(fr.op) - Len(fr.args)

Missing == MissingFrom(Top)

IsAssign(op) == op \in {"assign", "compound"}

OperandContextAlone(fr) == fr.ctx

\* the context of the next operand.  Those of && and of a comma run in order.
OperandContext(fr) ==
  IF fr.op \in {"and", "comma", "assign", "compound"} \/ fr.args = <<>>
  THEN fr.ctx
  ELSE AddEffect(fr.ctx, fr.acc, TRUE)

\* a user call begins when its arguments are done, with their assignments
PassesLhsWrites(op) == op \notin Func

WantsOneMoreOperand(fr) == Len(fr.args) <= Arity(fr.op)

WantsOperand(fr) == Len(fr.args) < IF IsAssign(fr.op) THEN 1 ELSE Arity(fr.op)

OperandType(fr) ==
  IF IsAssign(fr.op) \/ (fr.op = "comma" /\ fr.args # <<>>) THEN fr.type ELSE "int"

\* an operand is complete: merge_param_context
Deliver(frames, eff, sem) ==
  LET i == Len(frames)
  IN  [frames EXCEPT ![i].acc = AddEffect(@, eff, PassesLhsWrites(frames[i].op)),
                     ![i].args = Append(@, sem)]

\* what is known once an operator has its operands
SemOf(fr) ==
  LET s == fr.args[1]
      t == fr.args[2]
  IN  CASE fr.op = "binary" -> Both(s, t)
        [] fr.op \in {"and", "comma"} ->
             [Both(s, t) EXCEPT !.pend = t.pend, !.val = t.val]
        [] IsAssign(fr.op) -> [Both(s, t) EXCEPT !.val = s.val]

----------------------------------------------------------------------------
(* Steps that build an expression.  A step is replayed by the analysis, so *)
(* it is written with the frames and facts it works on, fr the last frame. *)

\* ExpressionVariable::visit_facts, after OK; taking an address has no effect
LeafDone(frames, fs, leaf) ==
  LET reads == IF leaf.k \in {"const", "addr"} THEN {} ELSE LeafReads(fs, leaf)
      val   == CASE leaf.k = "addr" -> {leaf.v}
                 [] leaf.k = "var" /\ leaf.v \in Ptr -> fs[leaf.v]
                 [] OTHER -> {}
  IN  Deliver(frames, ReadVarSet(EmptyEffect, reads), [Touch(reads, {}) EXCEPT !.val = val])

LeafStep(leaf) == stack' = LeafDone(stack, facts, leaf) /\ UNCHANGED facts

LeafAccepted(fr, fs, leaf) ==
  leaf.k \in {"var", "elem", "star"} => LeafOK(OperandContext(fr), fs, leaf)

Opened(frames, fs, at, op, type) ==
  LET fr == Last(frames)
  IN  Append(frames, NewFrame(op, OperandContext(fr), type, MissingFrom(fr) - 1, fs, at))

OpenStep(op, type) == stack' = Opened(stack, facts, pc - 1, op, type) /\ UNCHANGED facts

\* the context of a left-hand side
LhsContext(fr) ==
  LET ctx == IF fr.op = "compound" THEN AddEffect(fr.ctx, fr.acc, FALSE) ELSE fr.ctx
  IN  WriteVarSet(ctx, fr.acc.lw)

StoredTo(fs, t) == IF t.k = "star" THEN fs[t.v] ELSE {t.v}

AddressReads(t) ==
  CASE t.k = "var"  -> {}
    [] t.k = "elem" -> {Index[t.v]}
    [] t.k = "star" -> {t.v}

LhsReads(fr, fs, t) ==
  AddressReads(t) \cup IF fr.op = "compound" THEN StoredTo(fs, t) ELSE {}

\* Lhs::visit_facts.  The indices are also checked against what the right-hand
\* side does, and so is a pointer that the left-hand side goes through.
LhsAccepted(fr, fs, t) ==
  LET ctx == LhsContext(fr)
  IN  /\ t.k = "star" => Dereferenceable(fs, t.v) /\ ~IsWritten(fr.acc, t.v)
      /\ t.k = "elem" => CanRead(AddEffect(ctx, fr.acc, FALSE), Index[t.v])
      /\ \A v \in LhsReads(fr, fs, t) : CanRead(ctx, v)
      /\ \A v \in StoredTo(fs, t) : CanWrite(ctx, v)

LhsEffect(fr, fs, t) ==
  LET e == WriteVarSet(ReadVarSet(EmptyEffect, LhsReads(fr, fs, t)), StoredTo(fs, t))
  IN  [e EXCEPT !.lw = e.w]

LhsDone(frames, fs, t) ==
  LET fr == Last(frames)
  IN  Deliver(frames, LhsEffect(fr, fs, t), Touch(LhsReads(fr, fs, t), StoredTo(fs, t)))

FactsStored(fr, fs, t) ==
  IF t.k = "var" /\ t.v \in Ptr THEN [fs EXCEPT ![t.v] = fr.args[1].val] ELSE fs

LhsStep(t) == stack' = LhsDone(stack, facts, t) /\ facts' = FactsStored(Top, facts, t)

----------------------------------------------------------------------------
(* Ends of expressions *)

Complete(fr) == Len(fr.args) = Arity(fr.op)

\* after && the second operand may not have run; the first one has
FactsAfter(fr, fs) ==
  IF fr.op = "and" THEN [p \in Ptr |-> fs[p] \cup fr.saved[p]] ELSE fs

SetAside(frames, fs) ==      \* && keeps the facts after its first operand
  LET i == Len(frames)
  IN  IF frames[i].op = "and" /\ Len(frames[i].args) = 1
      THEN [frames EXCEPT ![i].saved = fs] ELSE frames

OperatorDone(frames, fs) ==
  LET fr == Last(frames)
  IN  SetAside(Deliver(Front(frames), fr.acc, SemOf(fr)), FactsAfter(fr, fs))

CloseOperator ==
  /\ stack # <<>> /\ Complete(Top) /\ Top.op \in Operators
  /\ facts' = FactsAfter(Top, facts)
  /\ stack' = OperatorDone(stack, facts)
  /\ UNCHANGED <<mode, must, analysis, functions, stmts>>

GlobalEffect(fs, f) == AddExternalEffect(EmptyEffect, BodyEffect(fs, f), {})

\* the effects of a call that its caller sees
VisibleEffect(fs, f) == AddExternalEffect(EmptyEffect, BodyEffect(fs, f), Stack \cup CurrLocals)

CallSem(fr, fs, f) ==
  [Both(fr.args[1], fr.args[2]) EXCEPT
     !.r = @ \cup BodyReads(fs, f), !.w = @ \cup BodyWrites(fs, f), !.pend = {},
     !.vol = @ \/ (BodyReads(fs, f) \cup BodyWrites(fs, f)) \cap Volatile # {}]

\* the arguments are done and the analysis of the body, if any, accepts the call
CallDone(frames, fs, f, eff) ==
  LET fr == Last(frames)
  IN  SetAside(Deliver(Front(frames), AddEffect(fr.acc, eff, FALSE), CallSem(fr, fs, f)),
               BodyFacts(fs, f))

CallStep(f, eff) == facts' = BodyFacts(facts, f) /\ stack' = CallDone(stack, facts, f, eff)

\* the callee remembers its effects, and the contexts it was called in
Remember(f, ctx) ==
  /\ feffect' = [feffect EXCEPT ![f] = AddExternalEffect(@, BodyEffect(facts, f), Stack)]
  /\ ctxeffect' = [ctxeffect EXCEPT ![f] = AddExternalEffect(@, ctx, {})]

----------------------------------------------------------------------------
(* Generation *)

Init ==
  /\ mode = "idle" /\ stack = <<>> /\ must = FALSE /\ code = <<>> /\ pc = 1 /\ stmts = 0
  /\ born \in Entries /\ entry = born /\ facts = born.facts
  /\ \E made \in Entries :   \* for the call that the functions were built
       /\ \A f \in Func : BodyOK(made.ctx, made.facts, f)
       /\ feffect = [f \in Func |-> AddExternalEffect(EmptyEffect, BodyEffect(made.facts, f), Stack)]
       /\ ctxeffect = [f \in Func |-> AddExternalEffect(EmptyEffect, made.ctx, {})]

\* the statements of a block are generated in one context
StartStatement ==
  /\ mode = "idle" /\ stmts < MaxStatements
  /\ mode' = "generate" /\ stmts' = stmts + 1
  /\ born' = [born EXCEPT !.facts = facts] /\ entry' = born'
  /\ stack' = <<NewFrame("stmt", born.ctx, "int", 0, facts, 0)>>
  /\ code' = <<>> /\ pc' = 1
  /\ UNCHANGED <<must, facts, functions>>

\* one more step of the statement
Write(step) == code' = Append(code, step) /\ pc' = pc + 1

Generating == mode = "generate" /\ WantsOperand(Top)

TypeOf(leaf) == IF leaf.k = "addr" \/ (leaf.k = "var" /\ leaf.v \in Ptr) THEN "ptr" ELSE "int"

MakeLeaf(leaf) ==
  /\ Generating /\ Top.op # "stmt" /\ TypeOf(leaf) = OperandType(Top)
  /\ LeafAccepted(Top, facts, leaf)
  /\ LeafStep(leaf)
  /\ Write(leaf)
  /\ must' = FALSE
  /\ UNCHANGED <<mode, born, entry, functions, stmts>>

Open(op, type) ==
  /\ Generating /\ ~must
  /\ Len(code) + Missing + 2 <= MaxSteps
  /\ Top.op # "stmt" => type = OperandType(Top)
  /\ OpenStep(op, type)
  /\ Write([k |-> "open", op |-> op, type |-> type])
  /\ UNCHANGED <<mode, must, born, entry, functions, stmts>>

InExpression == Generating /\ Top.op # "stmt"

MakeOperator(op) == InExpression /\ Open(op, "int")
MakeComma        == InExpression /\ Open("comma", OperandType(Top))
MakeAssign       == \E type \in {"int", "ptr"} : Open("assign", type)
MakeCompound     == Open("compound", "int")

\* Function::choose_func
MakeCall(f) == Generating /\ ~InConflict(OperandContext(Top), feffect[f]) /\ Open(f, "int")

MakeLhs(t) ==
  /\ mode = "generate" /\ IsAssign(Top.op) /\ Len(Top.args) = 1
  /\ TypeOf(t) = Top.type
  /\ t.k # "elem" => ~IsWritten(Top.acc, t.v)
  /\ LhsAccepted(Top, facts, t)
  /\ LhsStep(t)
  /\ Write(t)
  /\ UNCHANGED <<mode, must, born, entry, functions, stmts>>

\* the contexts of earlier calls still hold when the body is analysed for this one
CallContext(f) == AddEffect(Top.ctx, ctxeffect[f], FALSE)

CloseCall(f) ==
  /\ mode = "generate" /\ Top.op = f /\ Complete(Top)
  /\ IF IsDynamic(f)
     THEN BodyOK(CallContext(f), facts, f) /\ CallStep(f, VisibleEffect(facts, f))
          /\ Remember(f, CallContext(f))
     ELSE CallStep(f, AddExternalEffect(EmptyEffect, feffect[f], {})) /\ UNCHANGED functions
  /\ UNCHANGED <<mode, must, analysis, stmts>>

\* ExpressionFuncall::make_random: all is put back and a variable takes the place;
\* StatementExpr::make_random: there is no such statement
FailCall(f) ==
  /\ mode = "generate" /\ Top.op = f /\ Complete(Top)
  /\ IsDynamic(f) /\ ~BodyOK(CallContext(f), facts, f)
  /\ stack' = Front(stack)
  /\ facts' = Top.saved
  /\ code' = SubSeq(code, 1, Top.at) /\ pc' = Top.at + 1
  /\ must' = (Len(stack) > 2)
  /\ UNCHANGED <<mode, born, entry, functions, stmts>>

EndStatement ==
  /\ mode \in {"generate", "visit"} /\ Len(stack) = 1 /\ Complete(Top)
  /\ mode' = "idle" /\ stack' = <<>>
  /\ UNCHANGED <<must, facts, analysis, functions, stmts>>

----------------------------------------------------------------------------
(* Analysis of the statement, for another call of its function *)

Analyse(en) ==
  /\ mode = "idle" /\ code # <<>>
  /\ mode' = "visit" /\ pc' = 1
  /\ entry' = en /\ facts' = en.facts
  /\ stack' = <<NewFrame("stmt", en.ctx, "int", 0, en.facts, 0)>>
  /\ UNCHANGED <<must, born, code, functions, stmts>>

Proceed ==
  /\ pc' = pc + 1
  /\ UNCHANGED <<mode, must, born, entry, code, functions, stmts>>

VisitOperand ==
  /\ mode = "visit" /\ pc <= Len(code) /\ ~Complete(Top)
  /\ LET step == code[pc]
     IN  \/ step.k = "open" /\ WantsOperand(Top) /\ OpenStep(step.op, step.type)
         \/ step \in Leaves /\ WantsOperand(Top) /\ LeafAccepted(Top, facts, step) /\ LeafStep(step)
         \/ step \in Targets /\ ~WantsOperand(Top) /\ LhsAccepted(Top, facts, step) /\ LhsStep(step)
  /\ Proceed

VisitCall(f) ==
  /\ mode = "visit" /\ Top.op = f /\ Complete(Top)
  /\ BodyOK(Top.ctx, facts, f)
  /\ CallStep(f, VisibleEffect(facts, f))
  /\ Remember(f, Top.ctx)
  /\ UNCHANGED <<mode, must, analysis, stmts>>

\* the facts are as they were before
Reject ==
  /\ mode = "visit"
  /\ IF Complete(Top)
     THEN Top.op \in Func /\ ~BodyOK(Top.ctx, facts, Top.op)
     ELSE LET step == code[pc]
          IN  /\ step.k # "open"
              /\ IF WantsOperand(Top) THEN ~LeafAccepted(Top, facts, step) ELSE ~LhsAccepted(Top, facts, step)
  /\ mode' = "rejected" /\ stack' = <<>> /\ facts' = entry.facts
  /\ UNCHANGED <<must, analysis, functions, stmts>>

Forget ==
  /\ mode = "rejected"
  /\ mode' = "idle" /\ code' = <<>>
  /\ UNCHANGED <<stack, must, facts, born, entry, pc, functions, stmts>>

Next ==
  \/ StartStatement
  \/ \E en \in Entries \cup {born} : Analyse(en)
  \/ \E leaf \in Leaves : MakeLeaf(leaf)
  \/ \E op \in {"binary", "and"} : MakeOperator(op)
  \/ MakeComma \/ MakeAssign \/ MakeCompound
  \/ \E f \in Func : MakeCall(f) \/ CloseCall(f) \/ FailCall(f) \/ VisitCall(f)
  \/ \E t \in Targets : MakeLhs(t)
  \/ CloseOperator \/ EndStatement \/ VisitOperand \/ Reject \/ Forget

Spec == Init /\ [][Next]_vars

----------------------------------------------------------------------------
(* Properties *)

TypeOK ==
  /\ mode \in {"idle", "generate", "visit", "rejected"}
  /\ must \in BOOLEAN
  /\ facts \in Facts
  /\ \A i \in DOMAIN stack :
       /\ stack[i].op \in Operators \cup Func \cup {"stmt"}
       /\ stack[i].ctx \in Effect /\ stack[i].acc \in Effect
       /\ Len(stack[i].args) <= Arity(stack[i].op)
  /\ feffect \in [Func -> Effect] /\ ctxeffect \in [Func -> Effect]
  /\ Len(code) <= MaxSteps /\ pc \in 1..MaxSteps + 1
  /\ stmts \in 0..MaxStatements

\* The meaning of a statement does not depend on the order of evaluation: of
\* the operands of an operator, or of the arguments of a call, none writes
\* what another one uses; the address of a left-hand side does not depend on
\* what the right-hand side writes, and no assignment in the right-hand side
\* is still to happen to what the statement writes.
Unsequenced(fr) ==
  CASE fr.op \in {"binary"} \cup Func -> Clashing(fr.args[1], fr.args[2])
    [] IsAssign(fr.op) -> \/ Clash(fr.args[1].w, fr.args[2].r)
                          \/ Clash(fr.args[1].pend, fr.args[2].w)
    [] OTHER -> FALSE

OrderDoesNotMatter == \A i \in DOMAIN stack : Len(stack[i].args) = 2 => ~Unsequenced(stack[i])

\* The effects collected for an expression cover all it touches, in the
\* functions it calls too, and say so when it touches a volatile: with less,
\* the operands after it are generated in too wide a context.
Covers(e, s) ==
  /\ \A v \in s.r : IsRead(e, v)
  /\ \A v \in s.w : IsWritten(e, v)
  /\ s.vol => ~e.sef

AccumulatedCovers ==
  \A i \in DOMAIN stack : \A j \in DOMAIN stack[i].args :
    Covers(stack[i].acc, stack[i].args[j])

\* What was generated passes the analysis with the facts and in the context it
\* was generated with: Statement::post_creation_analysis and the fixed points
\* of loops assert it.
GeneratedPassesAnalysis == mode = "rejected" => entry # born
=============================================================================
