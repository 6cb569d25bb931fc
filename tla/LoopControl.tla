---------------------------- MODULE LoopControl ----------------------------
(***************************************************************************)
(* The counting loops csmith generates: first a nest of "for" loops is     *)
(* generated, then it is executed with the arithmetic of the generated C   *)
(* program.  Their bodies are abstracted to all the array accesses and     *)
(* writes that the generator lets a statement in them make.                *)
(*                                                                         *)
(* A loop is one of three kinds.  An array loop is generated for the       *)
(* arrays it must use and its induction variable stays within a bound, so  *)
(* it can index them; a general loop has random parameters; and a loop     *)
(* that fills one dimension of an array (StatementArrayOp) visits all its  *)
(* elements and has no body but the assignment, or the next dimension.     *)
(***************************************************************************)
EXTENDS Integers, FiniteSetsExt

CONSTANTS
  Var,          \* the integer variables a loop can take as induction variable
  Signed,       \* those of a signed type
  Bits,         \* Bits[v]: width of the type of v
  IntBits,      \* width of int, to which narrower operands are promoted
  WrapperBits,  \* the widths of the safe-math wrappers
  Span,         \* general parameters are drawn from Span numbers, 60 in the code
  MaxIncr,      \* the largest step of a general loop, 9 in the code
  Lengths,      \* the lengths of array dimensions
  MaxNest,      \* bound on the nesting of array loops
  MixedNest     \* bound on the nesting of loops that are not all array loops

ASSUME LoopConstantsOK ==
  /\ Signed \subseteq Var
  /\ Bits \in [Var -> Nat \ {0}]
  /\ Span \in Nat /\ MaxIncr \in Nat \ {0} /\ Lengths \subseteq Nat \ {0}
  /\ MaxNest \in Nat /\ MixedNest \in 0 .. MaxNest
  /\ \A w \in WrapperBits : 2^w \in Nat \ {0}

\* the types hold the indices of an array and a step more
ASSUME LengthsFit ==
  \A v \in Var :
    LET half == 2^(Bits[v] - 1)
    IN  /\ half \in Nat \ {0} /\ 2^Bits[v] = 2 * half
        /\ \A len \in Lengths : len < half /\ len + len \div 4 <= half

\* the signed types hold the numbers general parameters are drawn from, and a
\* step of one more
ASSUME SpanFits == \A v \in Signed : Span \div 2 < 2^(Bits[v] - 1)

VARIABLES
  nest,      \* number of loops generated
  loop,      \* loop[d]: the control of the loop at depth d
  phase,     \* "generate", then "run", then "end"
  val,       \* val[v]: value of v in the running program
  at,        \* the depth of the loop that runs
  pc,        \* the part of it that runs next
  wrapped    \* wrapped[d]: the induction variable of loop d has wrapped around

genVars == <<nest, loop>>
runVars == <<val, at, pc, wrapped>>
vars == <<genVars, phase, runVars>>

Depths == 1 .. MaxNest
Tests  == {"<", "<=", ">", ">=", "==", "!="}
Invalid == -1      \* INVALID_BOUND

----------------------------------------------------------------------------
(* Arithmetic of C *)

\* n converted to a type of w bits
Wrap(n, w, sgn) ==
  LET m == n % 2^w IN IF sgn /\ m >= 2^(w - 1) THEN m - 2^w ELSE m

ConvertTo(v, n) == Wrap(n, Bits[v], v \in Signed)

Values(v) == {ConvertTo(v, n) : n \in 0 .. 2^Bits[v] - 1}

Holds(test, a, b) ==
  CASE test = "<"  -> a < b
    [] test = "<=" -> a <= b
    [] test = ">"  -> a > b
    [] test = ">=" -> a >= b
    [] test = "==" -> a = b
    [] test = "!=" -> a # b

\* safe_add and safe_sub: the first operand where a signed operation of int
\* width or more would overflow
SafeStep(wr, v, step) ==
  LET a == Wrap(v, wr.bits, wr.signed)
      r == Wrap(a + step, wr.bits, wr.signed)
  IN  IF wr.signed /\ wr.bits >= IntBits /\ r # a + step THEN a ELSE r

----------------------------------------------------------------------------
(* Loop parameters *)

\* pure_rnd_upto(n), which is 0 for n = 0
UpTo(n) == 0 .. Max({n - 1, 0})

\* what the update does: raw, or through a wrapper of its own type
Raw == [bits |-> 0, signed |-> TRUE]
Wrappers == [bits : WrapperBits, signed : BOOLEAN]

\* mutant: the case that "limit == init" with ">=" is not singled out
UnaryDownNoCase(init, limit, test) == limit < init

\* make_random_loop_control: "--" rather than "++"
UnaryDown(init, limit, test) ==
  limit < init \/ (limit = init /\ test = ">=")

\* make_random_loop_control, and the safe-math flags that
\* make_possible_compound_assign draws for "+=" and "-="
GeneralControls(v) ==
  LET Half   == Span \div 2
      Inits  == {0} \cup (-Half .. Half - 1)
      Limits == IF v \in Signed THEN -Half .. Half - 1 ELSE 1 .. Span
      Compound == {[iv |-> v, init |-> i, limit |-> l, test |-> t, op |-> "compound",
                    step |-> IF l >= i THEN n ELSE -n, wrapper |-> w, bound |-> Invalid]
                   : i \in Inits, l \in Limits, t \in Tests, n \in 1 .. MaxIncr, w \in Wrappers}
      Unary    == {[iv |-> v, init |-> i, limit |-> l, test |-> t, op |-> "unary",
                    step |-> IF UnaryDown(i, l, t) THEN -1 ELSE 1, wrapper |-> Raw,
                    bound |-> Invalid]
                   : i \in Inits, l \in Limits, t \in Tests}
  IN  Compound \cup Unary

Steps(bound) == (UpTo(bound \div 4) \cup {1}) \ {0}

\* mutant: the bound is where the loop starts, also when it counts upwards
LastIndexInit(bound, init, incr) == init

\* the last value below or at bound that the loop takes
LastIndex(bound, init, incr) == ((bound - init) \div incr) * incr + init

\* make_random_array_control: a loop over 0 .. bound
ArrayControls(v, bound) ==
  LET Upward   == {[iv |-> v, init |-> i, limit |-> bound, test |-> "<=", op |-> "array",
                    step |-> n, wrapper |-> Raw, bound |-> LastIndex(bound, i, n)]
                   : i \in UpTo(bound \div 2), n \in Steps(bound)}
      Downward == {[iv |-> v, init |-> bound - j, limit |-> l, test |-> ">=", op |-> "array",
                    step |-> -n, wrapper |-> Raw, bound |-> bound - j]
                   : j \in UpTo(bound \div 2), l \in UpTo(bound \div 2), n \in Steps(bound)}
  IN  IF v \in Signed THEN Upward \cup Downward ELSE Upward

\* StatementArrayOp::output_header: the loop over a dimension of len elements.  Its
\* bound for itemize_array is the length, though the variable stops below it.
FillControl(v, len) ==
  [iv |-> v, init |-> 0, limit |-> len, test |-> "<", op |-> "fill",
   step |-> 1, wrapper |-> Raw, bound |-> len]

NoLoop == [op |-> "none"]

IVs(d) == {loop[e].iv : e \in 1 .. d}

\* mutant: induction variables are written like any others
NothingNonwritable(d) == {}

\* CGContext::is_nonwritable
Nonwritable(d) == IVs(d)

\* VariableSelector::SelectLoopCtrlVar: a variable to be written in the innermost body
CtrlVars == Var \ Nonwritable(nest)

Init ==
  /\ nest = 0
  /\ loop = [d \in Depths |-> NoLoop]
  /\ phase = "generate"
  /\ val = [v \in Var |-> 0]
  /\ at = 0
  /\ pc = "init"
  /\ wrapped = [d \in Depths |-> FALSE]

Generating == phase = "generate" /\ UNCHANGED <<phase, runVars>>

\* the new loop is the body of the one before
Nested(l) ==
  /\ nest' = nest + 1
  /\ loop' = [loop EXCEPT ![nest + 1] = l]

AllArrays == \A d \in 1 .. nest : loop[d].op \in {"array", "fill"}

\* the innermost loop assigns an array and has no block
Filling == nest > 0 /\ loop[nest].op = "fill"

\* mutant: the length itself is taken for the last index
LastOfLength(m) == m

\* "--bound" in make_iteration
LastOf(m) == m - 1

\* StatementFor::make_iteration with the directive to use arrays: m is the
\* least length of their dimensions
ArrayLoop(v, m) ==
  /\ Generating /\ ~Filling
  /\ nest < IF AllArrays THEN MaxNest ELSE MixedNest
  /\ v \in CtrlVars
  /\ \E l \in ArrayControls(v, LastOf(m)) : Nested(l)

\* StatementFor::make_iteration without it
GeneralLoop(v) ==
  /\ Generating /\ ~Filling /\ nest < MixedNest
  /\ v \in CtrlVars
  /\ \E l \in GeneralControls(v) : Nested(l)

\* StatementArrayOp::make_random_array_init, one dimension of the array: a dimension
\* is a loop of its own, in the one before
FillLoop(v, len) ==
  /\ Generating
  /\ nest < IF AllArrays THEN MaxNest ELSE MixedNest
  /\ v \in CtrlVars
  /\ Nested(FillControl(v, len))

\* mutant: the variable of any array loop can index any array
IndexFitsAny(b, len) == b # Invalid

\* VariableSelector::itemize_array: the induction variables that can index a
\* dimension of len elements
IndexFits(b, len) == b # Invalid /\ b < len

\* the accesses it can make in the body of loop d
Itemized(d) ==
  UNION {UNION {{[iv |-> loop[e].iv, offset |-> o, len |-> len] : o \in UpTo(len - loop[e].bound)}
                : len \in {n \in Lengths : IndexFits(loop[e].bound, n)}}
         : e \in 1 .. d}

\* and the elements that are filled (StatementArrayOp::Output)
Filled(d) ==
  {[iv |-> loop[e].iv, offset |-> 0, len |-> loop[e].limit]
   : e \in {n \in 1 .. d : loop[n].op = "fill"}}

Accesses(d) == Itemized(d) \cup Filled(d)

Finish ==
  /\ phase = "generate" /\ nest > 0
  /\ phase' = "run"
  /\ at' = 1
  /\ UNCHANGED <<genVars, val, pc, wrapped>>

----------------------------------------------------------------------------
(* Execution of the nest *)

Running(part) == phase = "run" /\ pc = part /\ UNCHANGED genVars

iv == loop[at].iv

InitIV ==
  /\ Running("init")
  /\ val' = [val EXCEPT ![iv] = ConvertTo(iv, loop[at].init)]
  /\ wrapped' = [wrapped EXCEPT ![at] = FALSE]
  /\ pc' = "test"
  /\ UNCHANGED <<phase, at>>

TestHolds == Holds(loop[at].test, val[iv], loop[at].limit)

EnterBody ==
  /\ Running("test") /\ TestHolds
  /\ pc' = "body"
  /\ UNCHANGED <<phase, val, at, wrapped>>

\* the loop around it goes on with its update
LeaveLoop ==
  /\ Running("test") /\ ~TestHolds
  /\ IF at = 1 THEN phase' = "end" /\ UNCHANGED <<at, pc>>
               ELSE at' = at - 1 /\ pc' = "update" /\ UNCHANGED phase
  /\ UNCHANGED <<val, wrapped>>

\* what an assignment may have written in the body of loop d: the variables
\* that CGContext::check_write_var lets it choose, directly or as a pointee
Writable(d) == Var \ Nonwritable(d)

\* the values they write, bounded to two
Written(v) == {0, Max(Values(v))}

\* the assignments of the body, then the loop nested in it
RunBody ==
  /\ Running("body")
  /\ \/ UNCHANGED val
     \/ /\ loop[at].op # "fill"
        /\ \E v \in Writable(at) : \E n \in Written(v) : val' = [val EXCEPT ![v] = n]
  /\ IF at < nest THEN at' = at + 1 /\ pc' = "init"
                  ELSE pc' = "update" /\ UNCHANGED at
  /\ UNCHANGED <<phase, wrapped>>

\* the values of the induction variable after the update; the overflow of an
\* int is undefined
Updated(v, n, l) ==
  LET exact == n + l.step
  IN  IF l.op = "compound" THEN {ConvertTo(v, SafeStep(l.wrapper, n, l.step))}
      ELSE IF v \in Signed /\ Bits[v] >= IntBits /\ exact \notin Values(v) THEN Values(v)
      ELSE {ConvertTo(v, exact)}

Update ==
  /\ Running("update")
  /\ \E n \in Updated(iv, val[iv], loop[at]) :
       /\ val' = [val EXCEPT ![iv] = n]
       /\ wrapped' = [wrapped EXCEPT ![at] = @ \/ n # val[iv] + loop[at].step]
  /\ pc' = "test"
  /\ UNCHANGED <<phase, at>>

Next ==
  \/ \E v \in Var, m \in Lengths : ArrayLoop(v, m)
  \/ \E v \in Var : GeneralLoop(v)
  \/ \E v \in Var, len \in Lengths : FillLoop(v, len)
  \/ Finish
  \/ InitIV \/ EnterBody \/ LeaveLoop \/ RunBody \/ Update

\* the generator and the program it generates are each one thread
Spec == Init /\ [][Next]_vars /\ WF_vars(Next)

----------------------------------------------------------------------------
\* Types of the variables; the bound of an array loop is an index of the array
\* (make_random_array_control), that of a loop that fills one its length.
TypeOK ==
  /\ nest \in 0 .. MaxNest
  /\ \A d \in 1 .. nest :
       /\ loop[d].iv \in Var
       /\ loop[d].bound \in IF loop[d].op = "fill" THEN Lengths
                            ELSE {Invalid} \cup UNION {0 .. len - 1 : len \in Lengths}
  /\ phase \in {"generate", "run", "end"}
  /\ \A v \in Var : val[v] \in Values(v)
  /\ at \in 0 .. nest
  /\ pc \in {"init", "test", "body", "update"}
  /\ wrapped \in [Depths -> BOOLEAN]

\* Every array element that the body of a loop accesses exists: the offset
\* that itemize_array draws and the bound that make_random_array_control
\* returns keep the index within the dimension, whatever the loops around it.
IndexInBounds ==
  phase = "run" /\ pc = "body" =>
    \A a \in Accesses(at) : val[a.iv] + a.offset \in 0 .. a.len - 1

\* the loops meant to end: over arrays, and by steps of one on a signed variable
Plain(l) == l.op \in {"array", "fill"} \/ (l.op = "unary" /\ l.iv \in Signed)

\* Loops over arrays and signed loops by "++" or "--" reach their limit
\* without wrap-around, as make_random_loop_control intends.
PlainLoopsDoNotWrap == \A d \in 1 .. nest : Plain(loop[d]) => ~wrapped[d]

\* A nest of such loops ends: no body writes the induction variable of a loop
\* around it (is_nonwritable, "to avoid infinite loops").
PlainNestsEnd ==
  [](phase = "run" /\ (\A d \in 1 .. nest : Plain(loop[d])) => <>(phase = "end"))

\* "make sure the limit can be reached without wrap-around"
LimitReachedWithoutWrap == \A d \in 1 .. nest : ~wrapped[d]
=============================================================================
