# TLA+ models of extended-csmith

csmith generates random C programs that have no undefined behaviour, so that a
disagreement between two compilers on one of them is a compiler bug. That
promise rests on analyses the generator runs on the program while it is still
writing it. extended-csmith adds generated recursive functions. This directory
holds TLA+ modules of those analyses and of the algorithms around them, the
TLC configurations that check them on small instances, and TLAPS proofs for
every value of the constants.

Paths below are relative to the repository; a bare file name is in `src/`.

## The system

csmith is sequential: one thread generates one program (or, in exhaustive mode,
one program after another). What makes it hard is not concurrency between
processes but the *order* in which the generator creates, analyses, revises and
deletes parts of a program while the facts it relies on are shared, saved,
merged and restored; and that the generated program, whose execution is the
other actor, takes paths in an order unlike the generator's.

| Part | State | Operations | Interacts with | Correct when |
|---|---|---|---|---|
| **Points-to analysis** (`FactPointTo`, `Fact`, `FactMgr`, `FactUnion`) | `global_facts`; per statement `map_facts_in`, `map_facts_out`, `map_visited`; `cfg_edges` | add, renew and merge facts; drop variables that go out of scope; save and restore environments; hand over at calls and returns | called after every statement by `Statement::post_creation_analysis`; read by every choice of a variable | at each program point the facts include the value of each pointer in each execution that reaches it |
| **Statements and blocks** (`Block`, `Statement*`) | statement lists, local variables, break and continue lists | generate a statement; finish a block; find the fixed point of a loop; remove statements that fail the analysis | facts, context, variable selection | the fixed point exists and covers every path; statements are removed together with what refers to them |
| **Expressions, left-hand sides** (`Expression*`, `Lhs`) | none of their own | choose a variable to read or write, validate it against the facts | facts, effects | no emitted dereference meets a null or dangling pointer |
| **Variable selection** (`VariableSelector`, `Variable`, `ArrayVariable`) | `AllVars`, `GlobalList`, each block's `local_vars` | select a visible variable, or create one *lazily* in an enclosing scope | patches the saved environments of `FactMgr` | a variable created late has its fact wherever an earlier environment will be used |
| **Loops** (`StatementFor`, `StatementArrayOp`) | `CGContext::iv_bounds`, `focus_var` | draw a loop's control, choose induction variables and array indices | context (`is_nonwritable`), safe arithmetic | indices stay in bounds; plain loops end |
| **Jumps** (`StatementGoto`, `CFGEdge`) | `cfg_edges`, labels | forward and backward gotos; facts along edges | fixed points | facts at a label cover every jump to it |
| **Effects and context** (`CGContext`, `Effect`) | effect of the context, accumulated, of the statement | check and record reads and writes; save and restore on rejection | expressions, calls | unsequenced operands do not conflict |
| **Functions and calls** (`Function`, `FunctionInvocation*`) | function list, build state, visit count, a fact manager for each | build a callee on demand; analyse it again for a new call | fact hand-over | the facts of a callee cover all its calls |
| **Recursive functions** (`RecursiveBlock`, `RecursiveFactMgr`, `RecursiveCGContext`, `*Recursive*`) | a fact manager and context for each recursion depth, keyed by call chain | generate the part before the call, the recursive call and the part after it; two fixed points around it | all of the above | the managers kept cover every depth; the fixed points end |
| **Exhaustive mode** (`DFSRndNumGenerator`, `DFSProgramGenerator`, `DepthSpec`) | stack of decisions, decision depth, current position, error | answer a choice; backtrack, eagerly at depth guards; start again | `random.cpp`, every `ERROR_GUARD` and `DEPTH_GUARD` of the generator | every program that is within the depth limit and that no depth guard gives up comes out once |
| **Safe arithmetic** (`SafeOpFlags`, `runtime/safe_math.m4`) | wrapper flags | choose a wrapper; compute without undefined behaviour | all arithmetic of the program | no overflow, and no division by zero or bad shift |
| **Types and qualifiers** (`Type`, `CVQualifiers`) | qualifiers of each level of indirection; the struct types | draw, compare, match, loosen and tighten qualifiers; request them from an expression | variable selection, calls, left-hand sides | no const object is written and no conversion loses a qualifier, by any chain of pointers |
| **Probabilities, filters** | tables | random choices | everywhere | construction only |
| **Delta sequences, reducer, partial expansion** | recorded sequences | replay, parse, mask | random numbers | not part of plain generation |
| **Drivers, output, extensions, runtime, scripts** | options, streams | print, count, run compilers | none of the analyses | input and output |

### What is hard here

* **Stale state.** Environments saved before a branch, a loop or a call are used
  after the generator has created variables in enclosing scopes or analysed the
  same code again for another call.
* **Order.** Generation order is not execution order: the false branch is
  generated after the true branch but runs instead of it; a loop's body runs
  again with facts its own end produces; operands run in any order.
* **Partial failure.** A choice may be rejected half-way, a statement removed
  after others were analysed behind it; effects, facts, edges and jumps have to
  go with it.
* **Ending.** The generated loops must end, the fixed points must be reached,
  the exhaustive search must exhaust.
* **Unspecified order.** C leaves open in which order the operands of an
  operator are evaluated; the effects of one restrict what the others may do.
* **Long ways round.** A qualifier lost in one conversion shows only after other
  conversions and a store.
* **Boundaries.** Loop bounds, array indices, depth limits, the width of
  integers, the operands at which an operator overflows.

The full list, each item at the line where it bites with the properties that
cover it, is under `hazards` in `PROJECT.json`. Crashes and message loss do not
occur: nothing is persisted and nothing is sent.

## The modules

### PointsTo: generation and execution side by side

`PointsTo.tla` models the generation of one function body: statements, nested
blocks, `if`, `return`, lazily created variables, and after each the update of
`FactMgr::global_facts`. Beside it runs a **witness**: one execution of the
generated program, the value of every pointer in it. Since the witness is
nondeterministic (each `if` may go either way, an array element written may be
any), TLC and the proof cover all executions. While the generator is in the
branch the witness does not take, the witness waits in an enclosing block.

| Model | Code |
|---|---|
| `facts` | `FactMgr::global_facts`; a fact maps a pointer to its set of pointees |
| `pre[d]`, `out[d]` | `map_facts_in` and `map_facts_out` of the true branch of the `if` open at depth `d` |
| `thenRet`, `closed` | `Statement::must_return` of that branch and of the statement just made |
| `retFacts` | what `Statement::add_back_return_facts` gives the caller |
| `home`, `depth`, `size`, `side` | scope of each variable, the stack of open blocks |
| `store`, `at`, `bad` | witness: pointer values, the block it is in, whether it made an invalid dereference |
| `NewVar` | `GenerateNewGlobal`, `GenerateNewParentLocal` with `add_new_var_fact_and_update_inout_maps` |
| `Assign`, `ReadThrough` | `StatementAssign::make_random`, `ExpressionVariable::make_random` with `visit_facts` |
| `OpenIf`, `ElseBranch`, `EndIf` | `StatementIf::make_random`, both `Block::post_creation_analysis` calls, `combine_branch_facts` |
| `Return` | `StatementReturn::make_random` with its analysis |

An array is one *collective* variable whose fact is merged, never renewed, as
in the code; the witness holds the set of values of its elements. Integers
matter only as pointees. Dereference probabilities for null and dead pointers
are at their defaults of 0, so no such dereference is allowed.

Properties: `FactsSound` (where the execution is where the generator is, each
value is among the facts), `WaitingSound` (and where it waits, the environment
it will resume with describes it), `ReturnFactsSound` (after return, the merged
return facts do), `NoBadDereference`, `FactsWellScoped` (each pointer in scope
has a fact and no fact in force mentions a dead variable), `Reachable` (the
execution never stands behind a statement that must return), `TypeOK`.

### DFSRndNumGenerator and ExhaustiveEnumeration

`DFSRndNumGenerator.tla` models the exhaustive mode: the answers to the choices
of the generator, with revisit of earlier decisions, the step to a decision's next value,
filters, the depth limit, eager backtracking at depth guards, and the loop
that runs the generator again. The generator is an arbitrary tree of choices,
picked at `Init`, and so are the depths its guards ask for (`needed`): in the code
these are constants written by hand (`DepthSpec.cpp:60`), which need not be the least
number of choices ahead, and the guard at `VariableSelector.cpp:1091` passes
the number of an enumerator, `dtGenerateNewParentLocal`, where a depth is meant. So programs
that are well within the limit may be given up, which `GivenUp` makes precise. `ExhaustiveEnumeration.tla` states
what the search itself has to do: every other program within the limit (`Programs`), once, in
the order of its choices, then stop. What is shown is therefore not that the guards are
right, but that neither they nor the limit make the search lose or repeat
anything else. Errors that the generator sets by itself are not modelled.
`EnumeratesPrograms` is the refinement of the second by the first (`done` is
`all_done`; the search's own moves are stutters), its liveness included.
`SearchStack` and `RevisitInRange` are what `random_choice` and its assertion
in `revisit_node` rely on; `SearchEnds` is termination.

### LoopControl

`LoopControl.tla` draws a nest of counting loops as `make_iteration` does, by
`make_random_loop_control` (a *general* loop) or `make_random_array_control`
(an *array* loop, for the arrays it must index), or as `make_random_array_init`
does (a loop that *fills* a dimension of an array, which has no block of its
own, `FillLoop`), then executes it with C arithmetic: conversion to the width of the variable, promotion to `int`, the
safe-math wrapper of a compound update. The body of each loop stands for all
accesses `itemize_array` lets it make and for any write that `check_write_var`
permits.

`IndexInBounds`: every array access any body may make is in bounds.
`PlainLoopsDoNotWrap` and `PlainNestsEnd`: array loops, and signed loops that
step by one, reach their limit without wrap-around, and nests of them end.
`LimitReachedWithoutWrap` is the comment at `StatementFor.cpp:84` taken
literally; see the finding below.

### RecursiveBlock: one fact manager for each depth of recursion

`RecursiveBlock.tla` models the analysis of an immediately recursive function
`f { before; if (c) return; else f(); after }`, generated in this order:
`before` and the call (`GenBefore`, `GenCall`), the first fixed point over ever
deeper calls (`VisitBefore`, `RemoveBefore`, `EndCalls`), `after` (`GenAfter`,
`EndAfter`), and the second fixed point over ever more returns (`VisitAfter`,
`RemoveAfter`, `EndReturns`). Then the function runs as the witness: it calls
itself to some depth, meets the base case and unwinds (`Call`, `Base`,
`Unwind`).

| Model | Code |
|---|---|
| `mgrs[d]` | the fact manager of depth `d`; the order of call chains in `map_fact_mgrs` is that of depths |
| `.in`, `.call`, `.out` | facts recorded for the body, for the recursive call, and as output of the body |
| `.ins`, `.outs` | `map_facts_in`, `map_facts_out` of the statements after the call |
| `live`, `deleted` | the managers in `map_fact_mgrs`, in `map_deleted_fact_mgrs` |
| `ret`, `CallerFacts` | `global_ret_facts`, and all that the caller gets |
| `once`, `cnt`, `rounds` | `visit_once`, `cnt`, `min_num_iterations` |
| `Shortcut`, `Recorded` | `shortcut_analysis`, and the record it compares with, which for the first statement is the facts themselves |

Statements use three global pointers, so frames need no state: parameters, and effects
in the context of each depth, are not modelled. Local pointers
are counted, since a new one makes a statement's facts differ from its record.
A statement may copy a pointer, set it, or access what it points to. Where the
fixed points fail an assertion, the model stops, and `GenerationCompletes` fails.
`Statement::update_maps` visits each statement of `after` with the manager and in the context of each
depth and asserts that it passes (`Statement.cpp:1054`). The model has a part of this
visit, facts about globals; for the rest the assertion may fail at any statement
(`AbortAfter`, which ends generation). It does fail, see the findings. An empty
`after` makes the code read past the end of a vector for a key of a map; the
model takes a key never used or that of the last statement deleted.

Properties: `DescentSound` (at the call, however deep, the manager of that depth
or the last one describes the pointers, also when the limit on managers is
reached), `FirstReturnSafe` (nothing before the call, and nothing after it the
first time a call returns, dereferences null, though one manager has been
dropped), `RegenerationValid` (merging the facts about globals hides nothing from the visit of
`Statement::update_maps`: a part of what it asserts, not all of it),
`GenerationCompletes` (unless `AbortAfter` ends generation, both fixed points end
within their limits, whatever they delete). `NoBadDereference` and `CallerSafe` are what the comments promise of
further returns, and do not hold; see the findings.

### BlockFixpoint: jumps and loops

`BlockFixpoint.tla` models a function with a body, at most one loop, gotos in
both directions, `break`, `continue` and `return`: how jumps become edges of
the control flow (`MakeGotoBack`, `MakeGotoForward`, `MakeBreak`,
`MakeContinue`), the search for a fixed point (`FixedPoint`), and the
deletion of statements that fail it (`Settle`, `RemoveFrom`, `ResetMaps`). The
finished function is called, with its first facts or analysed again with
others, and executed statement by statement; conditions may go either way.

A search is a record that `Start`, `Enter` and `Again` make and change: the maps, the
facts before the block, the count of rounds. A round (`TopRound`, `BodyRound`)
walks over the statements of the block (`WalkTop`, `WalkBody`): each takes the facts
that come in over its edges (`StatementIn`), is visited (`VisitSimple`, or for the loop
the search in its body and `LeaveLoop`), and recorded (`Analysed`), unless a short cut
is taken (`Shortcut`, `MarkGotos`). The code is recursive: a block visits its statements, the
loop among them, and that its body. Since nests are one loop deep, the
model has each level twice, as recursive functions over rounds and statements, which the
prover can reason about. When a search gives up the assertion of
`Block::find_fixed_point` fails, and the model stops (`mode` is `"aborted"`).

| Model | Code |
|---|---|
| `seq`, `breaks`, `need`, `locals` | `Block::stms`, `break_stms`, `need_revisit`, `local_vars` |
| `edges` | `FactMgr::cfg_edges` |
| `maps.in`, `maps.out`, `maps.vis` | `map_facts_in`, `map_facts_out`, `map_visited` |
| `CloseFor`, `CloseFunction` | `Block::post_creation_analysis` of the loop body and of the function's body |
| `Call` | `Function::build_context_and_facts` and the revisit for a second call |

Properties: `FactsCoverExecution` (the input facts recorded for a statement
describe the pointers whenever it is executed, in any round of the loop and by
any jump), `NoBadDereference`, `GraphWellFormed` (after a deletion no edge, break
or jump is left dangling), `FixedPointFound` (facts move on by one copy or jump in a
round, so the search stays below the eight rounds of `Block.cpp:661` unless one
body holds that many), `TypeOK`. `BlockFixpointInvariant.tla` adds `IInv`, the inductive
invariant of the proofs: the program well formed, the state of its types, and the facts a fixed point
wherever the generator takes them for one. Run `fixpoint` checks it too.

The comment at `Block.cpp:815` says that "all subsequent statements" of one that
fails are removed; the loop starts at the failed statement itself, which the
model follows. A goto's destination is in the function's body only: inside a
loop body the code draws none. Facts about no pointer at all (`NoFacts`) stand for an
entry that the maps do not have, so there is a global pointer
(`FixpointConstantsOK`).

### Effects and EffectContext: unsequenced operands

`Effects.tla` has `Effect` with its reads, writes, volatile accesses, their
union, and the conflicts between variables, fields and unions.
`EffectContext.tla` generates one statement as a stack of unfinished operators:
each operand is made in the context of what may be evaluated before, after or
together with it (`MakeLeaf`, `MakeOperator`, `MakeCall`, `MakeLhs`, `CloseCall`),
a choice that fails is replaced (`FailCall`), and the statement is analysed again with other facts in another
context (`Analyse`, `VisitOperand`, `VisitCall`, `Reject`), which may reject it
in the middle. What a step does to the stack and the facts (`LeafDone`, `Opened`, `LhsDone`,
`OperatorDone`, `CallDone`) is a function of them, the same in both.

Properties: `OrderDoesNotMatter` (no two operands of an operator, arguments or
sides of an assignment conflict, whatever functions they call),
`AccumulatedCovers` (the effect a context has accumulated covers all that its
operands do), `GeneratedPassesAnalysis` (what was generated passes the analysis
with the same facts in the same context), `TypeOK`.

Four assumptions say how variables and functions are made: no variable is inside
itself (`FieldsNest`); a union is nobody's field, since `GenerateAllTypes`
(`Type.cpp:1177`) makes the structs before the unions and
`make_one_union_field` takes no union (`UnionsOutermost`); what has a volatile
field is volatile (`Type::is_volatile_struct_union`, `VolatileFields`); and a
function's effect on variables of its own is not in its external effect
(`Effect::add_external_effect`, `BodiesOK`). `PointersPlain` keeps pointers out of
unions, whose facts (`FactUnion`) are not modelled.

Where the code shares one context object between an expression and an operand,
the model merges the operand's effects at its end. Left out: the check for
overlapping fields in `Lhs::visit_facts`, and purity of effects.

### SafeMath

`SafeMath.tla` is every integer wrapper of `safe_math.m4` (functions) and
`safe_math_macros.m4` (macros), for every operator, sign, size and pair of
signs of a shift's operands: the guard (`Falls`), each arithmetic step the guard
computes (`Steps`, `MaskSteps`), and the operation, with C's promotions and conversions. The
limits of the types are constants. `NoUndefinedOperation`: neither guard nor
operation computes anything undefined, with the exception that it names:
the macros for subtraction make the sign bit of their type by
`(($1)1) << (sizeof($1)*CHAR_BIT-1)` (`safe_math_macros.m4:57`), in every call. For types
narrower than `int` this is a number of type `int`; for `int32_t` and `int64_t` it does not
fit, and C99 6.5.7p4 leaves it undefined. The functions have `~INT32_MAX` in its place. `ResultAsInC`: the result is that of the
operation, or the first operand exactly where that does not fit.

The macros `safe_sub_func_int8_t` and `int16_t` reject all operands of different
sign, also those that do not overflow; `ResultAsInC` leaves these two out.
`maxshift` is 32 for 64-bit operands too: m4 calls the macro without its
argument. Where the mask of a macro is undefined, `ResultAsInC` takes it to be the sign bit, as
compilers do. Floating point and the
macros' variant without temporaries are not modelled.

### CVQualifiers and TypedSelection

`CVQualifiers.tla` has qualifiers, one pair for each level of indirection:
`StricterThan`, `Match`, and every way the code draws them. `TypedSelection.tla`
generates assignments, a function, its calls and its returned value with types
and requests for qualifiers: selecting a variable and a number of dereferences,
taking an address, making a new variable with its initial value. `todo` is
the work left, deepest first. The program is executed as it is generated: `to`
says what each pointer leads to.

`NoHole`: by no sequence of assignments, calls and initialisations does a pointer
lead to an object whose qualifiers its type does not show. `ConstNeverWritten`:
no write reaches a const object or a struct with a const field.
`ConversionsLegal`: C accepts each conversion. `AssertionsHold`: what is selected
passes the assertions about it.

There is one integer type and one struct with one integer field; arrays,
bit-fields, unions, nested structs, comma expressions, must-use variables and
the options `strict-volatile-rule` and `ccomp` are left out. Locals of all
blocks of a function are visible in it; the function has one parameter and
returns an expression. Whether the context has no side effects yet (`free`) is
fixed for the body of a function; compound assignments may lose it. Generating
400 programs and compiling them with gcc gave no warning about a discarded
qualifier, which agrees.

## The runs

| Run | Question | States (distinct) |
|---|---|---|
| `pointsto` | Do the facts of every environment describe the execution, and are all dereferences valid? | 1,695,930 |
| `dfs` | Does the search enumerate exactly the programs that are within the limit and not given up, in order, and end? | 280,592 |
| `loops` | Are indices in bounds and do the plain loops end? | 503,905 |
| `loops_wrap` | Can every loop reach its limit without wrap-around? It cannot: TLC shows a loop that wraps. | - |
| `recursion` | Do the fact managers describe every depth, and do both fixed points end? | 439,866 |
| `fixpoint` | Do the facts of blocks with jumps cover every execution, with a clean graph after deletions, and does the search end? | 1,230,068 |
| `fixpoint_around` | Does this hold for a goto from a loop's body to the loop itself? It does not. | - |
| `effects` | Is the meaning of a statement independent of the order of evaluation? | 1,706,264 |
| `safemath` | Do the wrappers compute what they should, and nothing undefined but the mask of two macros? | 621,072 |
| `qualifiers` | Is no qualifier lost, in conversions or around them? | 2,830,009 |
| `recursion_returns` | Is a statement that dereferences null at a later return deleted? It is not. | - |
| `recursion_caller` | Are pointers the caller is told are safe not null? One is. | - |

Bounds, and why they are enough:

* `pointsto`: an integer `x`, a pointer `p`, an array `a` of pointers, and `pp`,
  a pointer to pointers, each of which may be created at any time in any open
  scope; an `if` in the body (`MaxDepth` 2); three statements in the body, one
  in a branch. This has a direct and an indirect write, one with one and one
  with two candidates, a pointer outliving its target, a return in one branch
  or both, and lazy creation in an enclosing scope while branches are saved.
  Functions are entered with null globals, or with facts that admit a dangling
  pointer. `MaxIndirect` is 2 where the option's default allows more. Deeper
  nests and longer bodies are covered by the proof.
* `dfs`: all trees of binary choices of depth at most 3, in which any choice may be
  filtered and any node may complete a program, with a limit of 2 (cutting through the
  trees) or 3 (not). The guards ask for nothing anywhere, for 2 everywhere (which is left
  after the second choice of three, not after the third), or
  for 3 after those choices only that took their first, or their second, value. So programs are
  given up that the limit would admit, at their end and on the way there, next to others that are not.
* `loops`: a signed and an unsigned variable of 5 bits below an `int` of 6,
  wrappers of 5 and 6 bits. General parameters come from 4 numbers instead of
  60 and steps from 1..2 instead of 1..9, so the ranges fit the type as the real ones fit a
  `char`. Array lengths are 2 (the shortest) and 13 (the shortest for which
  a step of two can be drawn: the step is below a quarter of the bound). Array
  loops nest to depth 2; a general loop is alone (`MixedNest` 1), since its
  execution depends on the loops around it only through its induction
  variable. A body writes 0 or the greatest value. `break`, `continue`, `goto`
  and `return` out of a loop are left out: they only end it sooner.
* `recursion`: pointers `p`, `q`, `r` with copies from `r` to `q` and `q` to `p`, so that
  a value needs two levels of recursion to get from `r` to `p`, where it is
  used: at most three statements before the call, two after, recursion to depth
  4. `MaxMgrs` is 3, so that the limit is met by the longest chains and not
  by shorter ones; the statement that comes with a new local pointer is the one
  that sets `p` to null, which lets the second fixed point delete.

* `fixpoint`: pointers `p`, `q` and `l`, local to the loop's body; `p` copies `q`, which
  is set to null or to the address of the body's own variable; at most four
  statements beside the loop, with all kinds of jumps. This has a value
  that needs two rounds to arrive, a pointer that dangles outside the
  loop, deletions inside the loop and outside, jumps across one another. The
  second set of facts at calls admits null. `fixpoint_around` has five
  statements, of fewer kinds.
* `effects`: one statement of at most seven steps, so up to three nested operators,
  calls and assignments; a global that also indexes an array, a union with a
  volatile field, a pointer, a local of a caller, and three functions: one
  stores through the pointer, one sets it, one reads the union. Two sets of facts and contexts
  for the second analysis.
* `safemath`: all operands of types of 2, 3, 6 and 7 bits: like 8, 16, 32 and 64, two
  are narrower than `int`, which holds their products, and one is wider. `MaxShift`
  is the width of an `int`, as in the code.
* `qualifiers`: up to three variables, three assignments or calls, two levels of
  indirection; programs with const or with volatile, which the rules treat
  alike but for contexts; with pointers to pointers, or with a struct. The known
  hole, `const int **` from `int **`, needs three variables and two stores.
  The theorems of `TypedSelectionProofs` need none of these bounds.

Deadlock checking is off where generation or execution simply ends: a full body
with every variable declared, the end of the search, the end of the program.

**Fairness.** `DFSRndNumGenerator`, `LoopControl` and `RecursiveBlock` assume `WF_vars(Next)`
only: the generator and the generated program are each one thread with nothing
to wait for, so some step is always taken. No choice is assumed fair.
The other modules state no liveness property; the fixed points of `BlockFixpoint`
are found within one step, and `FixedPointFound` bounds their rounds.

**Mutants.** Beside each definition a property depends on stands a mutated form
(`UpdateForAssignStrong` renews an array's fact, `PatchSavedSkips` forgets the
saved environments, `UninitBefore` gives up one position too many, ...). They
are alternative bodies used to see that the property is violated by a
plausible bug, and are in no specification.

## Findings

**Loops that wrap around.**

`make_random_loop_control` says "make sure the limit can be reached without
wrap-around" (`StatementFor.cpp:84`). The code draws a direction from
`limit >= init`, then any of six comparisons, and for compound updates a step
of 1..9 and a safe-math wrapper of random width and sign. Run `loops_wrap` finds a loop that
wraps. Reading the traces, these are the ways: `!=` with a step that jumps over
the limit; `>=` with `limit == init` under `+=` (singled out for `++`/`--`
only); an unsigned variable started at a negative value; a wrapper whose type
cannot represent the limit, such as an unsigned one counting down to a negative
number, which may never end. None is undefined behaviour, since unsigned
arithmetic and the wrappers are defined; such a program may just run very
long. `PlainLoopsDoNotWrap` and `PlainNestsEnd` say for which loops the
comment does hold.

**Statements after a recursive call are not analysed again.** The comment of
`immediate_rec_func_post_creation_analysis` (`RecursiveBlock.cpp:644`) has the
statements deleted that fail "during the 2nd iteration of the function body".
`RecursiveFactMgr::prepare_for_curr_iteration` renews the facts recorded for the
first of them through a reference (`RecursiveFactMgr.cpp:204`) and makes a copy
the current facts. `Statement::shortcut_analysis` compares the two, finds them the
same, and passes on the output of the earlier visit, which is the recorded
input of the next statement, and so on. Only a statement whose record lacks a
local pointer created later is really visited, in the first round. Run
`recursion_returns` shows `f { if (c) return; else f(); *p; p = 0; }`, entered
with a valid `p`: it dereferences null at the second return. Instrumenting the
generator over 300 seeds with `--immediate-recursion` agrees: all but a
third of the visits in the first round, and all in the second, took the
shortcut.

**The caller of a recursive function gets too few facts.** The same comparison
decides when the second fixed point ends (`shortcut_post_analysis`), so it ends
after as many rounds as there are managers, and what one more return would do
to the pointers is not in the "fact set to be returned to the non-recursive
function" (`RecursiveFactMgr.h:77`). Run `recursion_caller` shows
`f { if (c) return; else f(); p = q; q = r; }` with `r` null: the caller is told
that `p` is safe, and after two returns it is null.

**A goto from a loop's body to the loop itself.** `StatementGoto.cpp:149` wants to "make sure the
jump doesn't cause trouble to the existing DFA analyzer". When the destination
of a forward goto is the loop that contains it, the loop is visited once with the
facts of the jump, the facts at the jump are computed again from that visit
(`StatementGoto.cpp:169`), but what is new in them does not come back to the
loop. Run `fixpoint_around` shows a loop with `p = q; q = 0; if (c) goto loop;
return;` in its body and `*p` behind it: after two jumps `p` is null.

**No run: the assertion of `Statement::update_maps`.** With `--immediate-recursion` the assertion at
`Statement.cpp:1055` failed for 13 of 2000 seeds. In each of them the refusal came from
`CGContext::read_pointed` or `write_pointed`, so from facts and not from effects. In 12
the manager of the deepest call had an empty fact about a pointer parameter of the function, while the merged
facts had pointees for it; in one the visit of an `if` found a null in a global pointer. Parameters, and statements with branches, are not in `RecursiveBlock`, so no run shows
this; `RegenerationValid` says only that facts about globals do not make a statement without
branches fail.

**No run: the mask of the subtraction macros.** As said above, the shift at `safe_math_macros.m4:57` is
undefined for `int32_t` and `int64_t`, while the wrappers are there "to avoid undefined behaviors"
(`RandomProgramGenerator.cpp:322`). `NoUndefinedOperation` states the exception.

**No run: programs that the exhaustive mode gives up.** `VariableSelector.cpp:1091` uses
`DEPTH_GUARD_BY_DEPTH_RETURN` with `dtGenerateNewParentLocal`, the number of an enumerator, so the
guard asks for a depth that has nothing to do with the choices ahead. What the guards ask for is an
input of the model.

## The proofs

`PointsToProofs.tla` proves, for every finite or infinite set of variables,
any assignment of levels up to `MaxIndirect`, any arrays and globals, any entry facts, nesting and
block sizes:

* `TypeCorrect`: `Spec => []TypeOK`.
* `AnalysisSound`, `WaitingEnvironmentsSound`, `ReturnedFactsSound`,
  `DereferencesSafe`, `ReturnsReachable`: `Spec => []` of `FactsSound`, `WaitingSound`,
  `ReturnFactsSound`, `NoBadDereference` and `Reachable`.

They assume `ConstantsOK` and `EntriesOK`. The latter is the contract at the
call: what `caller_to_callee_handover` passes describes the values the globals
have. The invariant is `IInv` in `PointsTo.tla`. No part of it is inductive
alone: `FactsSound` after an `if` needs the saved environments to describe a
waiting execution (`WaitingSound`); `WaitingSound` when the true branch ends
needs `FactsSound` inside it; dropping the facts of a branch that returns is
right only because nothing runs behind it (`Reachable`); and `NoBadDereference`
follows from `FactsSound` at the moment a dereference is emitted, since a set
of pointees without null and garbage has no such value in it. The lemmas give one fact for each
operator: `MergePointees` is monotone in the facts, an assignment's update
describes the store after it, scoping and expiry agree, and merging only adds.
Then there is one step per action and, under it, one per conjunct.

Its second part proves `WellScoped`: `Spec => []FactsWellScoped`, under the
further assumption `EntriesScoped` on the facts handed over. Two things are
missing from `FactsWellScoped` to be inductive, and are in `ScopeInv`: the saved environments of
the branches must be in order too, each for the block around its `if`, since
they become current again; and a pointee has one level of indirection less than
the pointer, since the pointees of pointees are looked up and must have facts.

`DFSProofs.tla` proves `SearchTypes`, `StackDisciplined` and `RevisitsAreValid`: `TypeOK`,
`SearchStack` and `RevisitInRange` for every tree of choices, filter, limit and
whatever depths the guards ask for, from `DepthsOK`, `TreesOK` and `DemandsOK`. The
invariant adds `Follows`: while no error is set, the position is on the stack and
the choices made are one for each position. Without it a first visit might
leave a gap. The lemma `MinIsLeast`, needed for the next value that filters accept, is
proved with the pigeonhole principle, because induction is out of the prover's reach.

It also proves the safety half of the refinement `EnumeratesPrograms`.
`EnumeratesInOrder`: under the refinement mapping, the search starts where
`ExhaustiveEnumeration` does and each of its steps is a step of it or a stutter;
`OutputsProgramsOnce`: what is output are programs within the limit that no guard gives
up, none twice, in order, and all of these once the search is done. They need `TreesClosed`: a choice is below the
bound it was made with, and each choice follows another. While no error is set no
guard gave up on the way (`Passed`), so what is output is not given up; and where a guard gives up
there is no program below. That the search goes on
(the fairness of `ExhaustiveEnumeration`) and ends stays with TLC.

`LoopProofs.tla` proves `LoopTypes` (`TypeOK`), `IndicesInBounds`
(`IndexInBounds`) and `PlainLoopsReachTheirLimit` (`PlainLoopsDoNotWrap`) for nests of any
depth, from `LoopConstantsOK`, `LengthsFit` and `SpanFits`. `LengthsFit` says that every
type of an induction variable holds the indices of an array and a step beyond;
it is true of the code's default lengths (at most 10) and its narrowest type of
8 bits, and without it an update could wrap around and index anything. `SpanFits`
says the same of the starts and limits of other loops in the signed types; the
run `loops_wrap` shows what happens to an unsigned one that counts down. That `2^w` is a
natural number for the widths is among the assumptions, since the prover has no definition of `^`.
The invariant has two parts. `NestOK`: the loops of the nest have different
induction variables, those with a bound have the form
`make_random_array_control` or `make_random_array_init` gives them, and the others
one of the forms of `make_random_loop_control`. `ValuesOK`: a variable of a loop being executed
has a value which that loop's own steps reach, so neither bodies nor inner loops
change it. For upward loops the values are multiples of the step from the start,
and `MultiplesBelow` shows that the bound the code computes by division is the
last of them. A plain loop that counts stays between its start and one
step past its limit, and one whose test fails at the start stays where it is.

`SafeMathProofs.tla` proves `Safe` (`NoUndefinedOperation`), `WrapperTypes` (`TypeOK`) and
`ResultsExact` (`ResultAsInC`), each with the exception it names, for any sizes and limits that satisfy `SafeMathConstantsOK`,
`NarrowFits` (an `int`, also without its sign, holds the product of two narrower
operands) and `ShiftsFit` (no shift reaches the width of its operand). Each operator
has its lemma, from the bounds of its guard: a test rejects exactly the operands whose result
does not fit, so what a wrapper returns is either the exact result or its first
operand. The wrapper `ResultAsInC` leaves out, subtraction of narrow operands
by the macro, is left out here too.

`TypedSelectionProofs.tla` proves `TypeCorrect`, `NoWayAround`, `NothingConstIsWritten`,
`EveryConversionIsLegal` and `AssertionsNeverFail`: `Spec => []` of `TypeOK`, `NoHole`,
`ConstNeverWritten`, `ConversionsLegal` and `AssertionsHold`, for any `MaxLevel`, `MaxVars` and `MaxWork`
and any set of programs that satisfies `SelectionConstantsOK`: with a pointer type a program
has the types it leads to, since `Type.cpp` makes them from there, and it has an
integer type and may draw no qualifier at all. Behind them
are lemmas for any qualifiers: a match is a legal conversion (`MatchConverts`), and what is
drawn as looser compares as looser (`LooserIsLooser`). The invariant is `IInv`:

* `VarsOK`: what a variable points to, it could be initialised with. `NoHole` follows from
  this alone, along a chain of any length (`HolesClosed`). Below two stars a match has to be
  exact; were it not, what is stored through a pointer would not fit what it leads to.
* `FuncOK`: the returned variable is a legal conversion to the function's return type, and neither that
  nor the parameter is volatile, so that a call made again asks for nothing volatile.
* `TodoOK`: each piece of work left is possible, and serves the one after it: an expression
  that answers its own request answers what the call, the return or the
  assignment behind it will need, through whatever is embedded in between. Without this nothing is
  known of the value that is stored.
* `ResOK`: the expression made last is an answer of that kind.

A new variable comes with a chain of new pointees, made from the innermost
on; `MadeKeeps` is proved for all levels at once from a least level at which it fails. What is
assigned through a pointer is `StoreKeeps`, the one place where a variable changes after it
has been made, but for the parameter (`RepointKeeps` has what both need).

`EffectProofs.tla` proves, for any variables nested in structs and unions, any
functions, facts and bounds, `TypesCorrect`, `EffectsCover` (`AccumulatedCovers`),
`OrderIrrelevant` (`OrderDoesNotMatter`), `GeneratedIsAccepted`
(`GeneratedPassesAnalysis`), and `QueriesExact`: the queries of `Effect`
find exactly the variables that share memory with one in the effect. `QueriesExact` fails without `UnionsOutermost`, for a union inside another. For
`OrderDoesNotMatter` to be inductive each frame of the stack must say what its
future operands will find: its operands fit the context it was given, the
effect it has accumulated covers them, and the context of an operand contains the
effects of those beside it, through all the frames below. While a statement is
generated there is room for the operands still missing, and a function whose body is
not analysed for the call was found to be in no conflict when the call was begun
(`Generates`); its effects are those of its body (`EffectKnown`). An accumulated effect leaves out what it already covers, so the
conflict of an operand with the rest is found through a variable that overlaps
and not the variable itself; that `Clash` is preserved by this is most of the work.

`GeneratedIsAccepted` needs one more invariant, `Repeats`. The steps of a statement determine its
analysis: in each state it accepts the next step (`Accepts`) or not, and goes to one
`Successor`. While a statement is generated, the state is always one that the
analysis of the steps so far, with the same facts and context, reaches (`Reaches`); for
every call under construction, so is the state that its failure would restore
(`CallsBegun`). Once the statement is done, its analysis has a run to the end, and an analysis
with those facts and in that context stays on it (`Analysed`). What makes
this inductive: a context that includes those of earlier calls is wider than the
call's own (`BodyOKNarrower`), and a function that is not analysed again contributes the
effect that its analysis would find (`PlainEffect`). `Repeats` quantifies over runs of any
length, which TLC cannot enumerate, so the run checks only what follows from it.

`RecursiveBlockProofs.tla` proves `RecursionTypes`, `DescentDescribed`,
`FirstReturnChecked` and `ManagersAccept`: `TypeOK`, `DescentSound`, `FirstReturnSafe`
and `RegenerationValid` for any pointers, any statements, any facts at the entry
that give every pointer a value, and any limits on managers, statements and levels,
from `RecursionConstantsOK` alone. The invariant is `IInv`:

* `FixedInv`: once the first fixed point has ended, each manager's facts at the call are the output of
  a visit that passes from its inputs, the inputs of each depth cover the call of the depth
  before, and the last manager is closed under one more call. This is why one
  manager can stand for all depths beyond the limit. What follows the call passes
  from the facts at the call of every depth but the first, the dropped one included.
* `GenerationInv` and `CallsInv`: what the generation before the call and the first
  fixed point have reached so far.
* `AfterInv`: while the rest is generated, one manager but the last is dropped, whose facts
  at the call are those of the last, and the facts of the others are the outputs from
  their calls.
* `WitnessInv`: the executed program is where the facts of its depth say.

A visit of a list of statements is a recursive function, and that it keeps describing
the store is a statement about lists of any length. Since the library's
induction theorems cannot be used, the lemmas `UpTo` and `Iterated` argue from
a least position at which it fails.

`BlockFixpointProofs.tla` proves, for any pointers, statements, facts at the entry and
kinds of jumps, any number of statements and any limit on rounds, from `FixpointConstantsOK`
alone, `WellFormedTheorem` (`GraphWellFormed`) and `TypeTheorem` (`TypeOK`); and, with `"around"`
not among the kinds of jumps, `FactsCoverTheorem` (`FactsCoverExecution`) and
`NoBadDereferenceTheorem` (`NoBadDereference`). All are consequences of one invariant. Without that hypothesis the last two are false:
run `fixpoint_around` shows it, and the findings say why. It excludes one thing, a
forward goto from a loop's body to the loop itself, and no other jump out of a loop.

The invariant, `IInv` of `BlockFixpointInvariant.tla`, is proved by theorem `Invariant` and has
three parts, each inductive given those before it; the third is there without gotos around a loop.

* `Structure`: the program is well formed (`WellFormed`), in the middle of generation as well:
  each statement stands once, each edge has its two ends and is the edge of a jump that is there,
  each jump has its edge. A body that is complete follows itself
  (`Follows`); without that the search would not be over what is executed. Deletion is the
  difficult step. `RemoveStmt` takes a set closed under the gotos that lead into it, the
  loop with all its statements (`DoomedFacts`, `RemoveAllOK`), and it is repeated for each
  statement that a search has not passed, with a new search after each such
  deletion. `Left` says what stays, `Beside` that deletion inside the loop leaves the rest of the
  function alone, so the loop is whole when it is added to the function.
* `Types`: what the maps know of a statement is about the pointers in scope there, for a jump about those
  in scope at its destination; the same holds for the execution's pointers. That a walk and a search keep this
  is by induction over statements and rounds, with `UpTo` in place of the library's theorem; that the
  recursive functions are what their equations say is proved before (`WalkBodyDef`,
  `SearchTopDef` and the like). `Tame` says what an analysis may do to the
  rest of the maps: nothing, but that a goto that brings less than before resets
  the facts at its destination (`StatementGoto::visit_facts`), which is not visited then.
* `Sound`: after generation, and after each call that is analysed again, the maps are a fixed point (`Stable`); the
  environment of the execution is in what they know of the next statement (`ExecInv`).

`Stable` has parts of different kinds, as the code comes to them in different ways. `Recorded`: a
statement's output is what its transfer makes of its input, and its input makes it valid.
`Chain`: what is before a block, and behind each statement, is part of what is before the next.
`BodyStable`: the back edges bring the loop's body no more than it starts with. `LoopKept`: the loop's output
covers its input and its breaks. `Covered`: a goto brings its destination no more than is known there. That an
analysis ends in such maps is not seen from its last round alone, since a short cut
replaces a visit by its record. The proof carries what the records say through the rounds:

* An analysis keeps what is recorded (`RecordedStays`, `KeptStays`), so that a short cut finds it. It keeps
  the order of what is known, except at destinations that a goto has just reset (`Weak`). These are `Pending`: the
  goto has been visited, with an output, and before the search ends its destination must be
  visited again, since `UnfixedGoto` refuses the short cut (`FixedIsStable`).
* No goto has its destination inside the loop, so that the chain there is never weak (`NoneInBody`,
  `BodyChainAfter`).
* While the function is generated, each new statement is put at the end, except the goto
  of `MakeGotoForward`, which goes behind an earlier one. `Placing` and
  `ChainInsert` show that the facts around it stay in order: a condition may be false, so what is
  behind a goto is what was before it. Then the destination, the last statement, is analysed again with what
  the jump brings (`SimpleForward`, `LoopForward`). If it is the loop, its body is searched
  again, and here a goto from that body would need what the search finds,
  which is what goes wrong for `"around"`.
* Gotos back are not covered while the function is generated. They mark it for a visit (`need`), and `CloseFunction` then
  analyses every statement at least once (`SettleTop`). Without any, the maps of the
  generation are a fixed point already (`EndingStable`).

Each step of an execution, also over a back edge, a break out of the loop or into its next round,
is then an inclusion between the records of two statements (`GotoSound`, `RunLoopSound`,
`RunJumpSound`).

Model-checked only:

* `FixedPointFound`. That a search ends within some number of rounds follows from the facts'
  growing, but the bound by the copies and jumps needs an argument over paths, by induction over
  their length, for which facts would have to be related to the chains of copies that moved them.
  The other theorems hold for any limit on the rounds: where a search gives up, the assertion stops the generator.
* All liveness, with the liveness part of
  `EnumeratesPrograms`: `SearchEnds`, `PlainNestsEnd`, `GenerationCompletes`.

## Not modelled

`PROJECT.json` lists every component with its status. Most of the source by
lines is outside the models:

* Drivers, options, printers, extensions, scripts and the runtime's checksums: input and
  output without a protocol. So are the reducer and its parser and printer, which
  read a file of instructions.
* Probabilities, their tables and filters: a random choice is a nondeterministic
  one in every module, so they can only remove behaviours.
* `Type.cpp` and `Variable.cpp` for the most part: random construction of struct
  and union types, and naming and printing of variables.
* Mutual recursion: its analysis after creation is a TODO in the code.
* `FactUnion`: a second family of facts under the same manager.
* Replay of delta sequences and partial expansion.

Of the modelled components: struct fields and must-use variables in `PointsTo`,
and the `Bookkeeper`; in the exhaustive mode, replay of a
recorded sequence, filters that themselves make choices, errors the generator sets and the constants of the guards; in
`RecursiveBlock`, parameters, effects, contexts for each depth, the pointers a call returns, statements
after the call that return; in `BlockFixpoint`, nested loops and effects; what the
other sections name. Facts, effects and qualifiers are in
modules of their own, with one execution each, so an error that needs all
three at once would not be seen.

## Plan

1. Parameters of the frames in `RecursiveBlock`, handed over between depths, so that the failure of the
   assertion at `Statement.cpp:1055` becomes a run; then contexts and effects for each depth.
2. `FactUnion`, in the form of `PointsTo`, with fields of structs.
3. Hand-over at calls: pointers to locals of callers, composed with `PointsTo`
   through its entry and return facts.
4. The rounds of a search as paths of copies and jumps, so that `FixedPointFound` can be proved.
