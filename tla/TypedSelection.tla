--------------------------- MODULE TypedSelection ----------------------------
(***************************************************************************)
(* How csmith picks and makes the variables of assignments, calls and      *)
(* returned values so that their types and qualifiers fit: nothing that is *)
(* const is written, on no way, and nothing that is volatile is reached    *)
(* through a type that does not say so.  What an expression must be is     *)
(* handed down as a type and a request (CVQualifiers *qfer).               *)
(*                                                                         *)
(* todo is the work left, what comes first at its head.  The program has   *)
(* one integer type and one struct type, with one integer field, and is    *)
(* executed as it is generated: to is what a pointer points to.            *)
(***************************************************************************)
EXTENDS CVQualifiers, FiniteSets

CONSTANTS
  MaxLevel,      \* max_indirect_level, for pointers to integers
  Programs,      \* types that a program may have, and qualifiers its options leave
  MaxVars,       \* bound on the variables, struct fields included
  MaxWork        \* bound on the assignments and repeated calls

Integer(n) == [base |-> "int", level |-> n]
Struct(n) == [base |-> "S", level |-> n]
Types == {Integer(n) : n \in 0..MaxLevel} \cup {Struct(0), Struct(1)}

Pointer(t) == [t EXCEPT !.level = @ + 1]
Pointee(t) == [t EXCEPT !.level = @ - 1]

ASSUME SelectionConstantsOK ==
  /\ \A p \in Programs : /\ p.types \subseteq Types /\ Integer(0) \in p.types
                         /\ \A t \in p.types : \A k \in 0..t.level : [t EXCEPT !.level = k] \in p.types
                         /\ p.coins \subseteq Qualifier /\ Plain \in p.coins
  /\ MaxLevel \in Nat \ {0} /\ MaxVars \in Nat \ {0} /\ MaxWork \in Nat

VARIABLES
  program, \* the types, and the qualifiers that may be drawn
  field,   \* those of the struct's field
  vs,      \* the variables
  func,    \* the function that is called, once there is one
  todo,    \* the work left
  res,     \* the expression made last
  work,    \* number of assignments and repeated calls
  last     \* conversions, object written and assertions of the last step

vars == <<program, field, vs, func, todo, res, work, last>>

NoFunc == [rv |-> <<>>]
Constant == [var |-> 0, deref |-> 0, q |-> <<>>, to |-> 0]
Quiet == [converts |-> {}, wrote |-> 0, fits |-> TRUE]

-----------------------------------------------------------------------------
\* Variables.

\* is_const_struct_union, is_volatile_struct_union
InStruct(t) == IF t = Struct(0) THEN field ELSE Plain

\* is_const_after_deref, is_volatile_after_deref; the address is neither.
After(v, n) ==
  IF n < 0 THEN Plain
  ELSE LET own == v.q[Len(v.q) - n]
           inner == InStruct([v.t EXCEPT !.level = @ - n])
       IN [c |-> own.c \/ inner.c, v |-> own.v \/ inner.v]

\* mutant: const is looked for before the dereferences
EligibleTop(v, n, access, free) ==
  /\ (After(v, n).v \/ After(v, 0).v) => free
  /\ ~(access = "write" /\ After(v, 0).c)

\* is_eligible_var
Eligible(v, n, access, free) ==
  /\ (After(v, n).v \/ After(v, 0).v) => free
  /\ ~(access = "write" /\ After(v, n).c)

\* CreateVariable; create_field_vars gives the field of a struct both its
\* own qualifiers and the struct's.
Add(list, t, q, scope, fn, to) ==
  LET new == Append(list, [t |-> t, q |-> q, scope |-> scope,
                            fn |-> IF scope = "global" THEN 0 ELSE fn, within |-> 0, to |-> to])
      own == <<[c |-> q[1].c \/ field.c, v |-> q[1].v \/ field.v]>>
  IN IF t # Struct(0) THEN new
     ELSE Append(new, [new[Len(new)] EXCEPT !.t = Integer(0), !.q = own, !.within = Len(new)])

\* mutant: the last one, which may be a field
NewestLast(list) == Len(list)

\* The variable that Add made.
Newest(list) == IF list[Len(list)].within = 0 THEN Len(list) ELSE Len(list) - 1

\* expand_struct_union_vars: fields take part when a non-pointer is asked for.
Expanded(list, pool, t) == {i \in pool : list[i].within # 0 => t.level = 0}

Globals(list) == {i \in 1..Len(list) : list[i].scope = "global"}
Locals(list, fn) == {i \in 1..Len(list) : list[i].scope = "local" /\ list[i].fn = fn}
Params(fn) == {i \in 1..Len(vs) : vs[i].scope = "param" /\ vs[i].fn = fn}
Visible(fn) == Globals(vs) \cup Locals(vs, fn) \cup Params(fn)

\* The object n dereferences away from variable i: 0 where a pointer is null.
Object(list, i, n) ==
  LET at[k \in 0..n] == IF k = 0 THEN i ELSE IF at[k - 1] = 0 THEN 0 ELSE list[at[k - 1]].to
  IN at[n]

\* Variable i as an expression of n dereferences, or its address.
Value(list, i, n) ==
  [var |-> i, deref |-> n, q |-> Indirect(list[i].q, n),
   to |-> IF n < 0 THEN i ELSE list[Object(list, i, n)].to]

\* opportunistic_validate
Valid(list, i, n) == n > 0 => Object(list, i, n) # 0

-----------------------------------------------------------------------------
\* New variables: the lists that vs may become.

\* make_init_value: the variables whose address may initialise a pointer.
\* Globals are initialised with globals.
Addressable(list, t, q, access, scope, fn, ctx) ==
  LET pool == Globals(list) \cup (IF scope = "local" THEN Locals(list, fn) ELSE {})
  IN {i \in Expanded(list, pool, Pointee(t)) :
        /\ list[i].t = Pointee(t)
        /\ MatchIndirect(Asks(q, FALSE), list[i].q, ctx.exact)
        /\ Eligible(list[i], 0, access, ctx.free)}

\* What is asked of a new variable with k levels of indirection.
Wanted(k) == [q : Qualifiers(k + 1), access : {"read", "write"}, place : {"global", "local"}]

\* GenerateNewGlobal, GenerateNewParentLocal and make_init_value: a pointer
\* starts as null or with an address, of a new variable if none will do.
\* pointees is the same for what it points to.
WithPointees(list, t, x, pointees, fn, ctx) ==
  LET scope == IF InStruct(t).v THEN "global" ELSE x.place
      q == IF scope = "local" THEN Restrict(x.q, x.access, ctx.free) ELSE x.q
      to == Addressable(list, t, q, x.access, scope, fn, ctx)
      Home(d) == IF scope = "local" /\ t.level > 1 /\ ~Top(d).v THEN "local" ELSE "global"
      first == UNION {LET d == Indirect(p, 1)
                      IN pointees[[q |-> d, access |-> "read", place |-> Home(d)]] :
                        p \in RandomLoose(q, x.access, ctx.free, ctx.exact)}
      made == {Add(list, t, q, scope, fn, 0)}
              \cup (IF t.level = 0 THEN {}
                    ELSE IF to # {} THEN {Add(list, t, q, scope, fn, i) : i \in to}
                    ELSE {Add(l, t, q, scope, fn, Newest(l)) : l \in first})
  IN {l \in made : Len(l) <= MaxVars}

Made(list, t, asked, access, place, fn, ctx) ==
  LET made[k \in 0..t.level] ==
        [x \in Wanted(k) |->
           WithPointees(list, [t EXCEPT !.level = k], x, made[k - 1], fn, ctx)]
  IN made[t.level][[q |-> asked, access |-> access, place |-> place]]

\* With the qualifiers that were asked for, or random ones.
NewVars(t, r, access, place, fn, ctx) ==
  LET local == place = "local" /\ ~InStruct(t).v
      qs == IF r.wild THEN Random(t.level + 1, access, ctx.free, local, program.coins) ELSE {r.q}
  IN UNION {Made(vs, t, q, access, place, fn, ctx) : q \in qs}

\* The conversions that initialise the variables beyond the first n.
Initialised(list) ==
  {<<list[i].q, Append(list[list[i].to].q, Plain)>> :
     i \in {j \in Len(vs) + 1..Len(list) : list[j].to # 0}}

-----------------------------------------------------------------------------
\* The work left.

Body(free) == [do |-> "body", free |-> free]
Expr(t, r, as, fn, free) ==
  [do |-> "expr", t |-> t, r |-> r, as |-> as, fn |-> fn, free |-> free]
Lhs(t, r, given, op, fn, free) ==
  [do |-> "lhs", t |-> t, r |-> r, given |-> given, op |-> op, fn |-> fn, free |-> free]
Call(t, r, new, fn, free) ==
  [do |-> "call", t |-> t, r |-> r, new |-> new, fn |-> fn, free |-> free]
Return == [do |-> "return"]

Now == todo[1]
Later == Tail(todo)
Doing(what) == todo # <<>> /\ Now.do = what

\* The expression that comes first is done.
Done(value, list, effect) ==
  /\ res' = value /\ vs' = list /\ last' = effect /\ todo' = Later

\* A function's body begins; other functions may have left a global behind.
\* The context matters to volatile only.
Init ==
  /\ program \in Programs
  /\ field \in IF Struct(0) \in program.types THEN program.coins ELSE {Plain}
  /\ vs \in {<<>>} \cup {Add(<<>>, Integer(0), <<b>>, "global", 0, 0) : b \in program.coins}
  /\ func = NoFunc
  /\ \E free \in BOOLEAN : /\ free \/ \E b \in program.coins : b.v
                         /\ todo = <<Body(free)>>
  /\ res = Constant /\ work = 0 /\ last = Quiet

\* AssignOpsProbability
AssignOps(t) == IF t = Integer(0) THEN {"simple", "compound", "incr"} ELSE {"simple"}

\* SelectLType: no struct with a const field, and none with a volatile one
\* in a context with side effects.
LTypes(free) ==
  {t \in program.types : ~InStruct(t).c /\ (InStruct(t).v => free)}

\* StatementAssign::make_random: ++ and -- have no right-hand side.
Assignment(t, r, given, op, fn, free) ==
  (IF op = "incr" THEN <<>> ELSE <<Expr(t, r, "value", fn, free)>>)
  \o <<Lhs(t, r, given, op, fn, free)>>

\* A statement: nothing is asked of the right-hand side.
Assign ==
  /\ Doing("body") /\ work < MaxWork
  /\ \E t \in LTypes(Now.free) : \E op \in AssignOps(t) :
       todo' = Assignment(t, Anything, FALSE, op, 0, Now.free) \o todo
  /\ res' = Constant /\ work' = work + 1 /\ last' = Quiet
  /\ UNCHANGED <<program, field, vs, func>>

-----------------------------------------------------------------------------
\* Expressions.

\* Expression::make_random, make_random_param: struct constants, and
\* constant arguments, are not made.
MakeConstant ==
  /\ Doing("expr") /\ Now.as = "value" /\ Now.t # Struct(0)
  /\ Done(Constant, vs, Quiet)
  /\ UNCHANGED <<program, field, func, work>>

\* is_pointing_to_locals, seen from the function that is called.
Escapes(list, to) ==
  \E k \in 0..MaxLevel : to # 0 /\ LET o == Object(list, to, k) IN o # 0 /\ list[o].fn = 1

\* Nothing volatile is selected in a context with side effects
\* (the assertion at the end of VariableSelector::select).
SelectedFits(v, free) == After(v, 0).v => free

\* What ExpressionVariable::make_random turns down.
Acceptable(list, i, n) ==
  /\ Valid(list, i, n)
  /\ Now.as = "param" => ~(n < 0 /\ list[i].scope = "param")
  /\ Now.as = "return" => ~Escapes(list, Value(list, i, n).to)

\* Variable i, with n dereferences, has the type t (Type::match, eFlexible).
Derives(v, n, t) == v.t.base = t.base /\ v.t.level - n = t.level

ReadVariable ==
  /\ Doing("expr")
  /\ \E i \in Expanded(vs, Visible(Now.fn), Now.t) : \E n \in -1..MaxLevel :
       /\ Derives(vs[i], n, Now.t)
       /\ MatchIndirect(Now.r, vs[i].q, FALSE)
       /\ Eligible(vs[i], n, "read", Now.free)
       /\ Acceptable(vs, i, n)
       /\ Done(Value(vs, i, n), vs, [Quiet EXCEPT !.fits = SelectedFits(vs[i], Now.free)])
  /\ UNCHANGED <<program, field, func, work>>

\* A new variable; should it be turned down, it stays all the same.
ReadNewVariable ==
  /\ Doing("expr") /\ Len(vs) < MaxVars
  /\ \E place \in {"global", "local"} :
     \E l \in NewVars(Now.t, Now.r, "read", place, Now.fn, [free |-> Now.free, exact |-> FALSE]) :
       LET i == Newest(l)
           effect == [Quiet EXCEPT !.converts = Initialised(l), !.fits = SelectedFits(l[i], Now.free)]
       IN IF Acceptable(l, i, 0) THEN Done(Value(l, i, 0), l, effect)
          ELSE vs' = l /\ last' = effect /\ UNCHANGED <<res, todo>>
  /\ UNCHANGED <<program, field, func, work>>

\* ExpressionAssign::make_random: the assignment has to have the very
\* qualifiers that were asked for.
EmbedAssignment ==
  /\ Doing("expr") /\ Now.as \in {"value", "param"} /\ work < MaxWork
  /\ InStruct(Now.t) = Plain \/ (Now.as = "param" /\ ~InStruct(Now.t).c)
  /\ \E q \in IF Now.r.wild THEN Random(Now.t.level + 1, "write", Now.free, TRUE, program.coins)
              ELSE {Now.r.q} :
     \E op \in AssignOps(Now.t) :
       todo' = Assignment(Now.t, Asks(q, FALSE), TRUE, op, Now.fn, Now.free) \o Later
  /\ res' = Constant /\ work' = work + 1 /\ last' = Quiet
  /\ UNCHANGED <<program, field, vs, func>>

-----------------------------------------------------------------------------
\* Calls of functions with one parameter.

\* choose_random_pointer_type, choose_random_nonvoid_nonvolatile
ParamTypes == {t \in program.types : ~InStruct(t).v}

\* make_random_signature: the qualifiers of the returned value.
RvQualifiers(t, r, free) ==
  IF r.wild THEN Random(t.level + 1, "read", free, TRUE, program.coins) ELSE RandomReturned(r.q)

MayCall == Doing("expr") /\ Now.as \in {"value", "param"}

\* First the argument is made, then the function's body.
CallNew ==
  /\ MayCall /\ func = NoFunc
  /\ \E t \in ParamTypes : \E q \in Random(t.level + 1, "read", TRUE, TRUE, program.coins) :
     \E rv \in RvQualifiers(Now.t, Now.r, Now.free) :
       LET l == Add(vs, t, q, "param", 1, 0)
       IN /\ Len(l) <= MaxVars
          /\ vs' = l
          /\ func' = [t |-> Now.t, rv |-> rv, param |-> Newest(l), var |-> 0, deref |-> 0]
          /\ todo' = <<Expr(t, Asks(q, FALSE), "param", Now.fn, Now.free),
                       Call(Now.t, Now.r, TRUE, Now.fn, Now.free)>> \o Later
  /\ res' = Constant /\ last' = Quiet
  /\ UNCHANGED <<program, field, work>>

\* choose_func: not a function that is still being built.
CallAgain ==
  /\ MayCall /\ func # NoFunc /\ func.var # 0 /\ work < MaxWork
  /\ func.t = Now.t /\ Match(Now.r, func.rv, FALSE)
  /\ LET p == vs[func.param]
     IN todo' = <<Expr(p.t, Asks(p.q, FALSE), "param", Now.fn, Now.free),
                  Call(Now.t, Now.r, FALSE, Now.fn, Now.free)>> \o Later
  /\ res' = Constant /\ work' = work + 1 /\ last' = Quiet
  /\ UNCHANGED <<program, field, vs, func>>

Converted(to) == IF res.q = <<>> THEN {} ELSE {<<to, res.q>>}
Bound == [vs EXCEPT ![func.param].to = res.to]
Argument == [Quiet EXCEPT !.converts = Converted(vs[func.param].q)]
Returned(list) == Value(list, func.var, func.deref)

\* build_invocation_and_function: the body is a return statement.
EnterNew ==
  /\ Doing("call") /\ Now.new
  /\ todo' = <<Expr(func.t, Asks(func.rv, FALSE), "return", 1, Now.free), Return>> \o Later
  /\ vs' = Bound /\ res' = Constant /\ last' = Argument
  /\ UNCHANGED <<program, field, func, work>>

\* build_invocation and revisit: the body is analysed with other facts; if
\* it fails, the facts are restored and a variable takes the call's place.
EnterAgain ==
  /\ Doing("call") /\ ~Now.new
  /\ IF Valid(Bound, func.var, func.deref) /\ ~Escapes(Bound, Returned(Bound).to)
     THEN Done([Constant EXCEPT !.q = func.rv, !.to = Returned(Bound).to], Bound, Argument)
     ELSE /\ todo' = <<Expr(Now.t, Now.r, "variable", Now.fn, Now.free)>> \o Later
          /\ res' = Constant /\ last' = Quiet
          /\ UNCHANGED vs
  /\ UNCHANGED <<program, field, func, work>>

\* StatementReturn::make_random
ReturnValue ==
  /\ Doing("return")
  /\ func' = [func EXCEPT !.var = res.var, !.deref = res.deref]
  /\ Done([Constant EXCEPT !.q = func.rv, !.to = res.to], vs,
          [Quiet EXCEPT !.converts = Converted(func.rv)])
  /\ UNCHANGED <<program, field, work>>

-----------------------------------------------------------------------------
\* Left-hand sides.

\* StatementAssign::make_random: a statement asks for what its right-hand
\* side is, or stricter; a compound assignment for something not volatile,
\* perhaps in a context that its right-hand side has side effects in.
Asked ==
  LET r == IF Now.given THEN Now.r
           ELSE IF res.q = <<>> THEN Anything
           ELSE Asks(res.q, TRUE)
  IN IF Now.op = "compound" /\ ~r.wild THEN [r EXCEPT !.q[Len(r.q)].v = FALSE] ELSE r
Contexts == IF Now.op = "compound" THEN {Now.free, FALSE} ELSE {Now.free}

\* Lhs::make_random: variable i of the list, dereferenced n times, is
\* assigned to.
Store(list, i, n, made, selected) ==
  LET q == Indirect(list[i].q, n)
      o == Object(list, i, n)
      after == IF Now.t.level > 0 THEN [list EXCEPT ![o].to = res.to] ELSE list
      rhs == IF Now.op = "simple" THEN Converted(q) ELSE {}
  IN Done([Constant EXCEPT !.q = q, !.to = after[o].to], after,
          [converts |-> made \cup rhs, wrote |-> o, fits |-> selected /\ ~Top(q).c])

\* Type::match, eDereference and eDerefExact
MayWrite(i, n, r, free) ==
  /\ Derives(vs[i], n, Now.t)
  /\ MatchIndirect(r, vs[i].q, Now.given)
  /\ Eligible(vs[i], n, "write", free)
  /\ Valid(vs, i, n)

\* select_deref_pointer finds a pointer ...
WriteThrough ==
  /\ Doing("lhs")
  /\ \E free \in Contexts : \E i \in Visible(Now.fn) : \E n \in 1..MaxLevel :
       /\ ~(vs[i].scope = "global" /\ Top(vs[i].q).v)
       /\ MayWrite(i, n, Asked, free)
       /\ Store(vs, i, n, {}, TRUE)
  /\ UNCHANGED <<program, field, func, work>>

\* ... or makes one, when all that there are have been turned down.  If it
\* is null, it stays, but another one is looked for.
WriteThroughNew ==
  /\ Doing("lhs") /\ Len(vs) < MaxVars /\ Pointer(Now.t) \in program.types
  /\ \E free \in Contexts :
     LET t == Pointer(Now.t)
         qs == IF Asked.wild THEN Random(t.level + 1, "write", free, TRUE, program.coins)
               ELSE RandomAdd(Asked.q, ~free, Now.given, program.coins)
     IN \E p \in qs :
        LET q == ForWriting(p)
            place == IF Top(q).v THEN "global" ELSE "local"
        IN \E l \in Made(vs, t, q, "write", place, Now.fn, [free |-> free, exact |-> Now.given]) :
             IF Valid(l, Newest(l), 1) THEN Store(l, Newest(l), 1, Initialised(l), TRUE)
             ELSE /\ vs' = l /\ last' = [Quiet EXCEPT !.converts = Initialised(l)]
                  /\ UNCHANGED <<res, todo>>
  /\ UNCHANGED <<program, field, func, work>>

\* select, with a request that is restricted to what may be written
Writable(free) ==
  IF Asked.wild THEN Asked ELSE [Asked EXCEPT !.q = Restrict(Asked.q, "write", free)]

WriteVariable ==
  /\ Doing("lhs")
  /\ \E free \in Contexts : \E i \in Expanded(vs, Visible(Now.fn), Now.t) : \E n \in 0..MaxLevel :
       /\ MayWrite(i, n, Writable(free), free)
       /\ Store(vs, i, n, {}, SelectedFits(vs[i], free))
  /\ UNCHANGED <<program, field, func, work>>

WriteNewVariable ==
  /\ Doing("lhs") /\ Len(vs) < MaxVars
  /\ \E free \in Contexts : \E place \in {"global", "local"} :
     \E l \in NewVars(Now.t, Writable(free), "write", place, Now.fn,
                      [free |-> free, exact |-> Now.given]) :
       Store(l, Newest(l), 0, Initialised(l), SelectedFits(l[Newest(l)], free))
  /\ UNCHANGED <<program, field, func, work>>

Next ==
  \/ Assign
  \/ MakeConstant \/ ReadVariable \/ ReadNewVariable \/ EmbedAssignment
  \/ CallNew \/ CallAgain \/ EnterNew \/ EnterAgain \/ ReturnValue
  \/ WriteThrough \/ WriteThroughNew \/ WriteVariable \/ WriteNewVariable

Spec == Init /\ [][Next]_vars

-----------------------------------------------------------------------------
\* Values are variables, numbers of dereferences, qualifiers and pointees, and
\* every variable has a qualifier for each level of its type.
TypeOK ==
  /\ program \in Programs /\ field \in program.coins /\ Len(vs) <= MaxVars /\ work \in 0..MaxWork
  /\ \A i \in 1..Len(vs) :
       /\ vs[i].t \in program.types /\ vs[i].q \in Qualifiers(vs[i].t.level + 1)
       /\ vs[i].to # 0 => vs[i].to \in 1..Len(vs) /\ vs[vs[i].to].t = Pointee(vs[i].t)
  /\ res.to \in 0..Len(vs)

\* What a pointer leads to, over any number of levels, is never less const
\* or volatile by the pointer's type than it is: no sequence of assignments,
\* calls and initialisations opens a way around a qualifier
\* (CVQualifiers::stricter_than).
NoHole ==
  \A i \in 1..Len(vs) : \A n \in 1..vs[i].t.level :
    LET o == Object(vs, i, n)
        seen == Top(Indirect(vs[i].q, n))
    IN o # 0 => /\ Top(vs[o].q).c => seen.c
                /\ Top(vs[o].q).v => seen.v

\* No assignment writes an object that is const, or a struct with a const
\* field (VariableSelector::is_eligible_var, Type::is_const_struct_union).
ConstNeverWritten ==
  last.wrote # 0 => ~Top(vs[last.wrote].q).c /\ ~InStruct(vs[last.wrote].t).c

\* Every initialisation, assignment, argument and returned value is one
\* that C lets through (CVQualifiers::match).
ConversionsLegal == \A c \in last.converts : Converts(c[1], c[2])

\* No variable that is made or selected fails the assertions about it: a
\* left-hand side is not const, and nothing volatile is selected in a
\* context with side effects (Lhs::make_random, VariableSelector::select).
AssertionsHold == last.fits
===============================================================================
