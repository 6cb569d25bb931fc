------------------------- MODULE TypedSelectionProofs --------------------------
(***************************************************************************)
(* Why no sequence of assignments, calls and initialisations opens a way   *)
(* around a qualifier, for any number of levels, types and variables.      *)
(* First the comparison of qualifiers; then the chains of pointers and the *)
(* variables that are made; then the steps of TypedSelection.              *)
(***************************************************************************)
EXTENDS TypedSelection, TLAPS, WellFoundedInduction

-----------------------------------------------------------------------------
(* The invariant *)

\* A variable of the list l: it has a qualifier for each level, and what it
\* points to may be pointed to by its type.
Variable ==
  [t : program.types, q : Seq(Qualifier), scope : {"global", "local", "param"}, fn : {0, 1},
   within : Nat, to : Nat]
PointsAt(q, t, to, l) ==
  to # 0 => /\ to \in 1..Len(l) /\ l[to].t = Pointee(t)
            /\ Converts(q, Append(l[to].q, Plain))
VarsOK(l) ==
  /\ l \in Seq(Variable)
  /\ \A i \in 1..Len(l) : Len(l[i].q) = l[i].t.level + 1 /\ PointsAt(l[i].q, l[i].t, l[i].to, l)

\* Expression e answers the request r for a type t.
Expression == [var : Nat, deref : Int, q : Seq(Qualifier), to : Nat]
Names(e, t, l) ==
  /\ e.var \in 1..Len(l) /\ e.deref \in -1..MaxLevel
  /\ Derives(l[e.var], e.deref, t) /\ e.q = Indirect(l[e.var].q, e.deref)
Answers(e, t, r, l) ==
  /\ e \in Expression
  /\ IF e.q = <<>> THEN e.var = 0 /\ e.to = 0
     ELSE /\ Len(e.q) = t.level + 1
          /\ r.wild \/ Converts(r.q, e.q)
          /\ PointsAt(e.q, t, e.to, l)
          /\ e.var # 0 => Names(e, t, l)

\* Nothing volatile is asked of an expression.
NoneVolatile(q) == \A i \in 1..Len(q) : ~q[i].v
Request(r, t) ==
  r = Anything \/ (~r.wild /\ ~r.strict /\ Len(r.q) = t.level + 1 /\ NoneVolatile(r.q))

Function ==
  [t : program.types, rv : Seq(Qualifier), param : Nat, var : Nat, deref : Int]
FuncOK ==
  func # NoFunc =>
    /\ func \in Function
    /\ Len(func.rv) = func.t.level + 1 /\ NoneVolatile(func.rv)
    /\ func.param \in 1..Len(vs)
    /\ ~InStruct(vs[func.param].t).v /\ NoneVolatile(vs[func.param].q)
    /\ func.var # 0 =>
         LET e == [var |-> func.var, deref |-> func.deref,
                   q |-> Indirect(vs[func.var].q, func.deref), to |-> 0]
         IN Names(e, func.t, vs) /\ Converts(func.rv, e.q)

Requests == [wild : BOOLEAN, strict : BOOLEAN, q : Seq(Qualifier)]
Item ==
  [do : {"body"}, free : BOOLEAN]
  \cup [do : {"expr"}, t : program.types, r : Requests, fn : {0, 1}, free : BOOLEAN,
        as : {"value", "param", "return", "variable"}]
  \cup [do : {"lhs"}, t : program.types, r : Requests, fn : {0, 1}, free : BOOLEAN,
        given : BOOLEAN, op : {"simple", "compound", "incr"}]
  \cup [do : {"call"}, t : program.types, r : Requests, fn : {0, 1}, free : BOOLEAN,
        new : BOOLEAN]
  \cup [do : {"return"}]
ItemOK(x) ==
  /\ x.do \in {"expr", "lhs", "call"} => Request(x.r, x.t) /\ (InStruct(x.t).v => x.free)
  /\ x.do = "lhs" => x.given = ~x.r.wild /\ ~InStruct(x.t).c /\ x.op \in AssignOps(x.t)
  /\ x.do = "call" => /\ func # NoFunc /\ x.t = func.t
                      /\ x.r.wild \/ Converts(x.r.q, func.rv)
                      /\ x.new \/ func.var # 0
  /\ x.do = "return" => func # NoFunc

\* What the expression made for the work x has to be ...
Uses(x) == x.do \in {"lhs", "call", "return"}
UsedType(x) ==
  CASE x.do = "call" -> vs[func.param].t [] x.do = "return" -> func.t [] OTHER -> x.t
UsedRequest(x) ==
  CASE x.do = "call" -> Asks(vs[func.param].q, FALSE)
    [] x.do = "return" -> Asks(func.rv, FALSE)
    [] OTHER -> x.r

\* ... and what the expression that x leaves is.
LeftType(x) == IF x.do = "return" THEN func.t ELSE x.t
LeftRequest(x) == IF x.do = "return" THEN Asks(func.rv, FALSE) ELSE x.r

\* What answers p answers r.
Implies(p, r) == r.wild \/ (~p.wild /\ Converts(r.q, p.q))
Serves(x, y) ==
  Uses(y) => /\ x.do # "body" /\ LeftType(x) = UsedType(y)
             /\ Implies(LeftRequest(x), UsedRequest(y))
             /\ y.do = "return" => x.do = "expr" /\ x.as = "return"

\* What may be left to do, and what may follow what.
Good == {x \in Item : ItemOK(x)}
Served == {p \in Good \X Good : Serves(p[1], p[2])}
Linked(s, G, E) == s \in Seq(G) /\ \A j \in 1..Len(s) - 1 : <<s[j], s[j + 1]>> \in E
TodoOK == Linked(todo, Good, Served)

ResOK ==
  /\ res \in Expression /\ res.to \in 0..Len(vs)
  /\ todo # <<>> /\ Uses(Now) =>
       /\ Answers(res, UsedType(Now), UsedRequest(Now), vs)
       /\ Now.do = "return" => res.var # 0

CountsOK ==
  /\ program \in Programs /\ field \in program.coins /\ Len(vs) <= MaxVars /\ work \in 0..MaxWork
IInv == CountsOK /\ VarsOK(vs) /\ FuncOK /\ TodoOK /\ ResOK

-----------------------------------------------------------------------------
(* Qualifiers *)

\* What the sequence operators do to one level.
LEMMA AppendLevel ==
  ASSUME NEW b \in Seq(Qualifier)
  PROVE  /\ Append(b, Plain) \in Seq(Qualifier)
         /\ Len(Append(b, Plain)) = Len(b) + 1
         /\ \A i \in 1..Len(b) : Append(b, Plain)[i] = b[i]
BY DEF Plain, Qualifier

LEMMA DropLevel ==
  ASSUME NEW a \in Seq(Qualifier), Len(a) > 0
  PROVE  /\ Indirect(a, 1) \in Seq(Qualifier)
         /\ Len(Indirect(a, 1)) = Len(a) - 1
         /\ \A i \in 1..Len(a) - 1 : Indirect(a, 1)[i] = a[i]
<1>1. Indirect(a, 1) = SubSeq(a, 1, Len(a) - 1)
  BY DEF Indirect
<1>2. QED
  BY <1>1

\* A matched request is a legal conversion: of the matched variable into what
\* asked for it, or the other way round when stricter variables are accepted
\* (CVQualifiers::match and stricter_than).
THEOREM MatchConverts ==
  ASSUME NEW q \in Seq(Qualifier), NEW a \in Seq(Qualifier), Len(q) = Len(a), NEW s \in BOOLEAN,
         Match(Asks(a, s), q, FALSE)
  PROVE  IF s THEN Converts(q, a) ELSE Converts(a, q)
<1>1. CASE Len(q) = 1
  BY <1>1 DEF Converts
<1>2. CASE Len(q) # 1
  <2>1. IF s THEN StricterThan(q, a) ELSE StricterThan(a, q)
    BY <1>2 DEF Match, Asks
  <2>2. ASSUME NEW x \in Seq(Qualifier), NEW y \in Seq(Qualifier), Len(x) = Len(y), StricterThan(x, y)
        PROVE  Converts(x, y)
    BY <2>2 DEF StricterThan, Converts
  <2>3. QED
    BY <2>1, <2>2
<1>3. QED
  BY <1>1, <1>2

\* What random_looser_consts and random_looser_volatiles draw is looser in the
\* sense of stricter_than: the two are written apart, and agree.
THEOREM LooserIsLooser ==
  ASSUME NEW q \in Seq(Qualifier), NEW exact \in BOOLEAN, NEW p \in Looser(q, exact)
  PROVE  StricterThan(q, p)
<1>1. p \in [1..Len(q) -> Qualifier] /\ Len(q) \in Nat
  BY DEF Looser, Qualifiers
<1>2. Len(p) = Len(q)
  BY <1>1
<1>3. ASSUME NEW i \in 1..Len(q)
      PROVE  /\ p[i].c => q[i].c
             /\ p[i].v => q[i].v
             /\ Len(q) - i >= 2 => q[i] = p[i]
  <2>1. /\ ~q[i].c \/ Len(q) - i >= 2 \/ exact => p[i].c = q[i].c
        /\ ~q[i].v \/ Len(q) - i >= 2 \/ exact => p[i].v = q[i].v
    BY DEF Looser
  <2>2. p[i] \in Qualifier /\ q[i] \in Qualifier
    BY <1>1
  <2>3. QED
    BY <2>1, <2>2 DEF Qualifier
<1>4. Len(q) > 1 => q[1].v = p[1].v
  BY <1>1 DEF Looser
<1>5. QED
  BY <1>2, <1>3, <1>4 DEF StricterThan

LEMMA Updated ==
  ASSUME NEW S, NEW q \in Seq(S), NEW n \in 1..Len(q), NEW f \in S
  PROVE  /\ [q EXCEPT ![n] = f] \in Seq(S)
         /\ Len([q EXCEPT ![n] = f]) = Len(q)
         /\ \A i \in 1..Len(q) : [q EXCEPT ![n] = f][i] = IF i = n THEN f ELSE q[i]
<1>1. [q EXCEPT ![n] = f] \in [1..Len(q) -> S]
  OBVIOUS
<1>2. \A i \in 1..Len(q) : [q EXCEPT ![n] = f][i] = IF i = n THEN f ELSE q[i]
  OBVIOUS
<1> QED
  BY <1>1, <1>2

LEMMA ConvertsReflexive ==
  ASSUME NEW a
  PROVE  Converts(a, a)
BY DEF Converts

LEMMA ConvertsTransitive ==
  ASSUME NEW a, NEW b, NEW c, Converts(a, b), Converts(b, c)
  PROVE  Converts(a, c)
<1>1. Len(a) = Len(b) /\ Len(b) = Len(c)
  BY DEF Converts
<1>2. ASSUME NEW i \in 1..Len(a) - 1
      PROVE  /\ c[i].c => a[i].c
             /\ c[i].v => a[i].v
             /\ i < Len(a) - 1 => a[i] = c[i]
  <2>1. i \in 1..Len(b) - 1
    BY <1>1
  <2>2. (b[i].c => a[i].c) /\ (b[i].v => a[i].v) /\ (i < Len(a) - 1 => a[i] = b[i])
    BY DEF Converts
  <2>3. (c[i].c => b[i].c) /\ (c[i].v => b[i].v) /\ (i < Len(b) - 1 => b[i] = c[i])
    BY <2>1 DEF Converts
  <2> QED
    BY <1>1, <2>2, <2>3
<1> QED
  BY <1>1, <1>2 DEF Converts

\* The same but for the variable itself.
SameBelow(a, b) == Len(a) = Len(b) /\ \A i \in 1..Len(a) - 1 : a[i] = b[i]

LEMMA TopIsFree ==
  ASSUME NEW a, NEW b, SameBelow(a, b)
  PROVE  /\ SameBelow(b, a)
         /\ \A f : Converts(a, f) => Converts(b, f)
         /\ \A f : Converts(f, a) => Converts(f, b)
<1>1. SameBelow(b, a)
  BY DEF SameBelow
<1>2. ASSUME NEW f, Converts(a, f)
      PROVE  Converts(b, f)
  BY <1>2 DEF SameBelow, Converts
<1>3. ASSUME NEW f, Converts(f, a)
      PROVE  Converts(f, b)
  <2>1. Len(a) = Len(b) /\ Len(f) = Len(a)
    BY <1>3 DEF SameBelow, Converts
  <2> QED
    BY <1>3, <2>1 DEF SameBelow, Converts
<1> QED
  BY <1>1, <1>2, <1>3

LEMMA SameBelowConverts ==
  ASSUME NEW a, NEW b, SameBelow(a, b)
  PROVE  Converts(a, b)
BY DEF SameBelow, Converts

LEMMA TopFacts ==
  ASSUME NEW q \in Seq(Qualifier), Len(q) > 0
  PROVE  Top(q) \in Qualifier /\ Top(q).c \in BOOLEAN /\ Top(q).v \in BOOLEAN
<1>1. Len(q) \in 1..Len(q)
  OBVIOUS
<1>2. q[Len(q)] \in Qualifier
  BY <1>1
<1> QED
  BY <1>2 DEF Top, Qualifier

LEMMA RestrictFacts ==
  ASSUME NEW q \in Seq(Qualifier), Len(q) > 0, NEW access, NEW free \in BOOLEAN
  PROVE  /\ Restrict(q, access, free) \in Seq(Qualifier)
         /\ Len(Restrict(q, access, free)) = Len(q)
         /\ SameBelow(Restrict(q, access, free), q)
         /\ Top(Restrict(q, access, free)).c => access # "write" /\ Top(q).c
         /\ Top(Restrict(q, access, free)).v => free /\ Top(q).v
<1>1. PICK n \in Nat : n = Len(q) /\ n > 0 /\ q \in [1..n -> Qualifier]
  OBVIOUS
<1>2. PICK f : f = Fitted(q[n], access, free)
  OBVIOUS
<1>3. q[n] \in Qualifier
  BY <1>1
<1>4. f \in Qualifier /\ (f.c => access # "write" /\ q[n].c) /\ (f.v => free /\ q[n].v)
  BY <1>2, <1>3 DEF Fitted, Qualifier
<1>5. PICK r : r = Restrict(q, access, free)
  OBVIOUS
<1>6. r = [q EXCEPT ![n] = f]
  BY <1>1, <1>2, <1>5 DEF Restrict
<1>7. /\ r \in Seq(Qualifier) /\ Len(r) = n
      /\ r[n] = f /\ \A i \in 1..n : i # n => r[i] = q[i]
  <2>1. n \in 1..Len(q)
    BY <1>1
  <2>2. /\ [q EXCEPT ![n] = f] \in Seq(Qualifier) /\ Len([q EXCEPT ![n] = f]) = Len(q)
        /\ \A i \in 1..Len(q) : [q EXCEPT ![n] = f][i] = IF i = n THEN f ELSE q[i]
    BY <1>4, <2>1, Updated
  <2> QED
    BY <1>1, <1>6, <2>1, <2>2
<1>8. SameBelow(r, q)
  <2>1. \A i \in 1..n - 1 : r[i] = q[i]
    <3>1. \A i \in 1..n - 1 : i \in 1..n /\ i # n
      OBVIOUS
    <3> QED
      BY <1>7, <3>1, Zenon
  <2>2. Len(r) = Len(q) /\ 1..n - 1 = 1..Len(r) - 1
    BY <1>1, <1>7
  <2>3. \A i \in 1..Len(r) - 1 : r[i] = q[i]
    BY <2>1, <2>2, Zenon
  <2> QED
    BY <2>2, <2>3, Zenon DEF SameBelow
<1> QED
  BY <1>1, <1>4, <1>5, <1>7, <1>8 DEF Top

LEMMA RandomFacts ==
  ASSUME NEW n \in Nat \ {0}, NEW access, NEW free \in BOOLEAN, NEW noVolatile \in BOOLEAN,
         NEW coins \in SUBSET Qualifier, NEW q \in Random(n, access, free, noVolatile, coins)
  PROVE  /\ q \in Seq(Qualifier) /\ Len(q) = n
         /\ Top(q).c => access # "write"
         /\ Top(q).v => free
         /\ noVolatile => NoneVolatile(q)
<1>1. PICK p \in [1..n -> {b \in coins : noVolatile => ~b.v}] : q = Restrict(p, access, free)
  BY DEF Random
<1>2. p \in Seq(Qualifier) /\ Len(p) = n
  <2>1. p \in [1..n -> Qualifier]
    OBVIOUS
  <2> QED
    BY <2>1
<1>3. /\ q \in Seq(Qualifier) /\ Len(q) = n /\ SameBelow(q, p)
      /\ Top(q).c => access # "write"
      /\ Top(q).v => free /\ Top(p).v
  BY <1>1, <1>2, RestrictFacts
<1>4. ASSUME noVolatile, NEW i \in 1..n
      PROVE  ~q[i].v
  <2>1. ~p[i].v
    BY <1>4
  <2>2. CASE i = n
    BY <1>2, <1>3, <2>1, <2>2 DEF Top
  <2>3. CASE i # n
    <3>1. i \in 1..Len(q) - 1
      BY <1>3, <2>3
    <3> QED
      BY <1>3, <2>1, <3>1 DEF SameBelow
  <2> QED
    BY <2>2, <2>3
<1> QED
  BY <1>3, <1>4 DEF NoneVolatile

LEMMA LooserConverts ==
  ASSUME NEW q \in Seq(Qualifier), NEW exact \in BOOLEAN, NEW p \in Looser(q, exact)
  PROVE  p \in Seq(Qualifier) /\ Len(p) = Len(q) /\ Converts(q, p)
<1>1. p \in [1..Len(q) -> Qualifier] /\ Len(q) \in Nat
  BY DEF Looser, Qualifiers
<1>2. StricterThan(q, p)
  BY LooserIsLooser
<1> QED
  BY <1>1, <1>2 DEF StricterThan, Converts

LEMMA LooseFacts ==
  ASSUME NEW q \in Seq(Qualifier), Len(q) > 0, NEW access, NEW free \in BOOLEAN,
         NEW exact \in BOOLEAN, NEW p \in RandomLoose(q, access, free, exact)
  PROVE  p \in Seq(Qualifier) /\ Len(p) = Len(q) /\ Converts(q, p)
<1>1. PICK r \in Looser(q, exact) : p = Restrict(r, access, free)
  BY DEF RandomLoose
<1>2. r \in Seq(Qualifier) /\ Len(r) = Len(q) /\ Converts(q, r)
  BY LooserConverts
<1>3. p \in Seq(Qualifier) /\ Len(p) = Len(q) /\ SameBelow(p, r)
  BY <1>1, <1>2, RestrictFacts
<1>4. SameBelow(r, p)
  BY <1>3, TopIsFree
<1> QED
  BY <1>2, <1>3, <1>4, TopIsFree

\* The qualifiers of a returned value are looser than what is asked of the
\* call: since nothing volatile is asked for, none is taken away.
LEMMA ReturnedFacts ==
  ASSUME NEW q \in Seq(Qualifier), NoneVolatile(q), NEW r \in RandomReturned(q)
  PROVE  r \in Seq(Qualifier) /\ Len(r) = Len(q) /\ Converts(q, r) /\ NoneVolatile(r)
<1>1. PICK p \in Looser(q, FALSE) : r = [i \in 1..Len(q) |-> [p[i] EXCEPT !.v = FALSE]]
  BY DEF RandomReturned
<1>2. p \in [1..Len(q) -> Qualifier] /\ Len(q) \in Nat
  BY DEF Looser, Qualifiers
<1>3. p \in Seq(Qualifier) /\ Len(p) = Len(q) /\ Converts(q, p)
  BY LooserConverts
<1>4. ASSUME NEW i \in 1..Len(q)
      PROVE  r[i] = p[i] /\ ~p[i].v
  <2>1. p[i] \in Qualifier /\ ~q[i].v
    BY <1>2 DEF NoneVolatile
  <2>2. p[i].v => q[i].v
    BY LooserIsLooser DEF StricterThan
  <2>3. r[i] = [p[i] EXCEPT !.v = FALSE]
    BY <1>1
  <2> QED
    BY <2>1, <2>2, <2>3 DEF Qualifier
<1>5. r = p
  <2>1. r \in [1..Len(q) -> Qualifier]
    <3>1. \A i \in 1..Len(q) : r[i] \in Qualifier
      BY <1>2, <1>4
    <3>2. r = [i \in 1..Len(q) |-> r[i]]
      BY <1>1
    <3> QED
      BY <3>1, <3>2
  <2> QED
    BY <1>2, <1>4, <2>1
<1> QED
  BY <1>3, <1>4, <1>5 DEF NoneVolatile

LEMMA AddFacts ==
  ASSUME NEW q \in Seq(Qualifier), NEW noVolatile \in BOOLEAN, NEW exact \in BOOLEAN,
         NEW coins \in SUBSET Qualifier, NEW p \in RandomAdd(q, noVolatile, exact, coins)
  PROVE  /\ p \in Seq(Qualifier) /\ Len(p) = Len(q) + 1
         /\ \A i \in 1..Len(q) : p[i] = q[i]
<1>1. PICK b \in Qualifier : p = Append(q, b)
  BY DEF RandomAdd
<1> QED
  BY <1>1

LEMMA ForWritingFacts ==
  ASSUME NEW q \in Seq(Qualifier), Len(q) > 1
  PROVE  /\ ForWriting(q) \in Seq(Qualifier) /\ Len(ForWriting(q)) = Len(q)
         /\ ~ForWriting(q)[Len(q) - 1].c
         /\ \A i \in 1..Len(q) : i # Len(q) - 1 => ForWriting(q)[i] = q[i]
<1>1. PICK n \in Nat : n = Len(q) /\ n > 1 /\ n - 1 \in 1..n /\ q \in [1..n -> Qualifier]
  OBVIOUS
<1>2. PICK f : f = [q[n - 1] EXCEPT !.c = FALSE]
  OBVIOUS
<1>3. f \in Qualifier /\ ~f.c
  <2>1. q[n - 1] \in Qualifier
    BY <1>1
  <2> QED
    BY <1>2, <2>1 DEF Qualifier
<1>4. PICK r : r = ForWriting(q)
  OBVIOUS
<1>5. r = [q EXCEPT ![n - 1] = f]
  BY <1>1, <1>2, <1>4 DEF ForWriting
<1>6. /\ r \in Seq(Qualifier) /\ Len(r) = n
      /\ r[n - 1] = f /\ \A i \in 1..n : i # n - 1 => r[i] = q[i]
  <2>1. n - 1 \in 1..Len(q)
    BY <1>1
  <2>2. /\ [q EXCEPT ![n - 1] = f] \in Seq(Qualifier) /\ Len([q EXCEPT ![n - 1] = f]) = Len(q)
        /\ \A i \in 1..Len(q) : [q EXCEPT ![n - 1] = f][i] = IF i = n - 1 THEN f ELSE q[i]
    BY <1>3, <2>1, Updated
  <2> QED
    BY <1>1, <1>5, <2>1, <2>2
<1> QED
  BY <1>1, <1>3, <1>4, <1>6

LEMMA IndirectFacts ==
  ASSUME NEW a \in Seq(Qualifier), NEW n \in Int, n >= -1, n < Len(a)
  PROVE  /\ Indirect(a, n) \in Seq(Qualifier)
         /\ Len(Indirect(a, n)) = Len(a) - n
         /\ \A i \in 1..Len(a) : i <= Len(a) - n => Indirect(a, n)[i] = a[i]
         /\ n = -1 => Indirect(a, n) = Append(a, Plain)
<1>1. CASE n = -1
  <2>1. Indirect(a, n) = Append(a, Plain)
    BY <1>1 DEF Indirect
  <2> QED
    BY <1>1, <2>1, AppendLevel
<1>2. CASE n # -1
  <2>1. n \in Nat /\ Indirect(a, n) = SubSeq(a, 1, Len(a) - n)
    BY <1>2 DEF Indirect
  <2> QED
    BY <1>2, <2>1
<1> QED
  BY <1>1, <1>2

LEMMA NoDereference ==
  ASSUME NEW a \in Seq(Qualifier), Len(a) > 0
  PROVE  Indirect(a, 0) = a
BY DEF Indirect

\* What a variable that matches a request has to do with it.
LEMMA MatchedConverts ==
  ASSUME NEW r \in Requests, ~r.wild, Len(r.q) > 0,
         NEW a \in Seq(Qualifier), NEW exact \in BOOLEAN,
         NEW n \in Int, n = Len(a) - Len(r.q), MatchIndirect(r, a, exact)
  PROVE  /\ n >= -1 /\ n < Len(a)
         /\ ~r.strict \/ exact => Converts(r.q, Indirect(a, n))
         /\ r.strict \/ exact => Converts(Indirect(a, n), r.q)
<1>1. r.q \in Seq(Qualifier) /\ r.strict \in BOOLEAN /\ r.wild = FALSE
  BY DEF Requests
<1>2. n >= -1 /\ n < Len(a) /\ Match(r, Indirect(a, n), exact)
  BY <1>1 DEF MatchIndirect
<1>3. PICK b \in Seq(Qualifier) : b = Indirect(a, n) /\ Len(b) = Len(r.q)
  BY <1>1, <1>2, IndirectFacts
<1>4. CASE exact
  <2>1. r.q = b
    BY <1>1, <1>2, <1>3, <1>4 DEF Match
  <2> QED
    BY <1>2, <1>3, <2>1, ConvertsReflexive
<1>5. CASE ~exact
  <2>1. r = Asks(r.q, r.strict)
    BY <1>1 DEF Asks, Requests
  <2>2. Match(Asks(r.q, r.strict), b, FALSE)
    BY <1>2, <1>3, <1>5, <2>1
  <2>3. IF r.strict THEN Converts(b, r.q) ELSE Converts(r.q, b)
    BY <1>1, <1>3, <2>2, MatchConverts, Zenon
  <2> QED
    BY <1>2, <1>3, <1>5, <2>3
<1> QED
  BY <1>4, <1>5

\* Expression a stands for the object o: it has its qualifiers, or more for
\* the object itself.
Below(a, o) ==
  SameBelow(a, o) /\ (Top(o).c => Top(a).c) /\ (Top(o).v => Top(a).v)

\* One more dereference.
LEMMA OneDereference ==
  ASSUME NEW a \in Seq(Qualifier), NEW b \in Seq(Qualifier), NEW o \in Seq(Qualifier), Len(o) > 0,
         Below(a, b), Converts(b, Append(o, Plain))
  PROVE  Below(Indirect(a, 1), o)
<1>1. Len(b) = Len(o) + 1 /\ Len(a) = Len(b) /\ Len(o) \in Nat
  BY AppendLevel DEF Converts, Below, SameBelow
<1>2. ASSUME NEW i \in 1..Len(o)
      PROVE  /\ a[i] = b[i] /\ (o[i].c => b[i].c) /\ (o[i].v => b[i].v)
             /\ i < Len(o) => b[i] = o[i]
  <2>1. i \in 1..Len(a) - 1 /\ i \in 1..Len(b) - 1 /\ Append(o, Plain)[i] = o[i]
    BY <1>1, AppendLevel
  <2>2. a[i] = b[i]
    BY <2>1 DEF Below, SameBelow
  <2>3. (o[i].c => b[i].c) /\ (o[i].v => b[i].v) /\ (i < Len(b) - 1 => b[i] = o[i])
    BY <2>1 DEF Converts
  <2> QED
    BY <1>1, <2>2, <2>3
<1>3. PICK d \in Seq(Qualifier) :
        d = Indirect(a, 1) /\ Len(d) = Len(o) /\ \A i \in 1..Len(o) : d[i] = a[i]
  BY <1>1, DropLevel
<1>4. SameBelow(d, o)
  BY <1>1, <1>2, <1>3 DEF SameBelow
<1>5. Top(d) = b[Len(o)] /\ Top(o) = o[Len(o)] /\ Len(o) \in 1..Len(o)
  BY <1>1, <1>2, <1>3 DEF Top
<1> QED
  BY <1>2, <1>3, <1>4, <1>5 DEF Below

-----------------------------------------------------------------------------
(* Chains of pointers *)

\* Induction over the first numbers, of a property given by a set: the
\* library's theorems about induction take an operator.
LEMMA UpTo ==
  ASSUME NEW n \in Nat, NEW A, 0 \in A,
         \A i \in 0..n - 1 : i \in A => i + 1 \in A
  PROVE  0..n \subseteq A
<1>1. PICK R : R = OpToRel(<, Nat)
  OBVIOUS
<1>2. \A x, y \in Nat : x < y => <<x, y>> \in R
  BY <1>1 DEF OpToRel
<1>3. IsWellFoundedOn(R, Nat)
  BY <1>1, NatLessThanWellFounded
<1>4. PICK T : T = (0..n) \ A
  OBVIOUS
<1> SUFFICES ASSUME T # {}
             PROVE  FALSE
  BY <1>4
<1>5. PICK x \in T : \A y \in T : ~(<<y, x>> \in R)
  <2>1. T \subseteq Nat
    BY <1>4
  <2> QED
    BY <1>3, <2>1, WFMin
<1>6. x \in 0..n /\ x \notin A /\ x # 0
  BY <1>4, <1>5
<1>7. x - 1 \in 0..n - 1 /\ x - 1 \in 0..n /\ x - 1 + 1 = x /\ x - 1 < x
  BY <1>6
<1>8. <<x - 1, x>> \in R
  BY <1>2, <1>6, <1>7
<1> QED
  BY <1>4, <1>5, <1>6, <1>7, <1>8

LEMMA TypeFacts ==
  ASSUME CountsOK, NEW t \in program.types
  PROVE  /\ t = [base |-> t.base, level |-> t.level]
         /\ t.level \in Nat /\ t.level <= MaxLevel
         /\ \A k \in 0..t.level : [t EXCEPT !.level = k] \in program.types
         /\ t.level > 0 => Pointee(t) \in program.types
<1>1. /\ t \in Types /\ MaxLevel \in Nat \ {0}
      /\ \A k \in 0..t.level : [t EXCEPT !.level = k] \in program.types
  BY SelectionConstantsOK DEF CountsOK
<1>2. t = [base |-> t.base, level |-> t.level] /\ t.level \in Nat /\ t.level <= MaxLevel
  BY <1>1 DEF Types, Integer, Struct
<1>3. ASSUME t.level > 0
      PROVE  Pointee(t) \in program.types
  <2>1. t.level - 1 \in 0..t.level
    BY <1>2, <1>3
  <2>2. Pointee(t) = [t EXCEPT !.level = t.level - 1]
    BY <1>2 DEF Pointee
  <2> QED
    BY <1>1, <2>1, <2>2
<1> QED
  BY <1>1, <1>2, <1>3

LEMMA VariableFacts ==
  ASSUME CountsOK, NEW l, VarsOK(l), NEW i \in 1..Len(l)
  PROVE  /\ l[i] \in Variable /\ l[i].t \in program.types
         /\ l[i].t.level \in Nat /\ l[i].t.level <= MaxLevel
         /\ l[i].q \in Seq(Qualifier) /\ Len(l[i].q) = l[i].t.level + 1
         /\ l[i].to \in 0..Len(l)
         /\ l[i].to # 0 => /\ l[i].t.level > 0
                           /\ l[l[i].to].t = Pointee(l[i].t)
                           /\ Converts(l[i].q, Append(l[l[i].to].q, Plain))
<1>1. l[i] \in Variable
  BY DEF VarsOK
<1>2. l[i].t \in program.types /\ l[i].q \in Seq(Qualifier)
  BY <1>1 DEF Variable
<1>3. l[i].t.level \in Nat /\ l[i].t.level <= MaxLevel
  BY <1>2, TypeFacts
<1>4. Len(l[i].q) = l[i].t.level + 1 /\ PointsAt(l[i].q, l[i].t, l[i].to, l)
  BY DEF VarsOK
<1>5. ASSUME l[i].to # 0
      PROVE  /\ l[i].to \in 1..Len(l) /\ l[l[i].to].t = Pointee(l[i].t)
             /\ Converts(l[i].q, Append(l[l[i].to].q, Plain))
  BY <1>4, <1>5 DEF PointsAt
<1>6. ASSUME l[i].to # 0
      PROVE  l[i].t.level > 0
  <2>1. PICK j \in 1..Len(l) : j = l[i].to /\ l[j].t = Pointee(l[i].t)
    BY <1>5, <1>6
  <2>2. l[j] \in Variable
    BY DEF VarsOK
  <2>3. l[j].t \in program.types
    BY <2>2 DEF Variable
  <2>4. l[j].t.level \in Nat
    BY <2>3, TypeFacts
  <2>5. l[i].t = [base |-> l[i].t.base, level |-> l[i].t.level]
    BY <1>2, TypeFacts
  <2>6. Pointee(l[i].t).level = l[i].t.level - 1
    BY <2>5 DEF Pointee
  <2> QED
    BY <1>3, <2>1, <2>4, <2>6
<1>7. Len(l) \in Nat
  BY DEF VarsOK
<1> QED
  BY <1>1, <1>2, <1>3, <1>4, <1>5, <1>6, <1>7

\* The objects that Object passes.
Chain(at, l, i, n) ==
  /\ at \in [0..n -> 0..Len(l)]
  /\ at[0] = i
  /\ \A k \in 1..n : at[k] = IF at[k - 1] = 0 THEN 0 ELSE l[at[k - 1]].to

LEMMA ObjectChain ==
  ASSUME CountsOK, NEW l, VarsOK(l), NEW i \in 1..Len(l), NEW n \in Nat
  PROVE  \E at : Chain(at, l, i, n) /\ Object(l, i, n) = at[n]
<1> DEFINE Along(j) == IF j = 0 THEN 0 ELSE l[j].to
<1>1. \A j \in 0..Len(l) : Along(j) \in 0..Len(l)
  <2>1. Len(l) \in Nat
    BY DEF VarsOK
  <2>2. ASSUME NEW j \in 0..Len(l), j # 0
        PROVE  l[j].to \in 0..Len(l)
    <3>1. j \in 1..Len(l)
      BY <2>1, <2>2
    <3> QED
      BY <3>1, VariableFacts
  <2> QED
    BY <2>1, <2>2
<1>2. PICK S : S = 0..Len(l) /\ i \in S
  <2>1. Len(l) \in Nat
    BY DEF VarsOK
  <2> QED
    BY <2>1
<1>3. PICK F \in [S -> S] : \A j \in S : F[j] = Along(j)
  <2>1. [j \in S |-> Along(j)] \in [S -> S]
    BY <1>1, <1>2
  <2> QED
    BY <2>1
<1> HIDE DEF Along
<1>4. PICK A : A = {k \in 0..n : \E g \in [0..k -> S] :
                      g[0] = i /\ \A m \in 1..k : g[m] = F[g[m - 1]]}
  OBVIOUS
<1>5. 0 \in A
  <2>1. PICK g : g = [m \in 0..0 |-> i]
    OBVIOUS
  <2>2. g \in [0..0 -> S] /\ g[0] = i /\ \A m \in 1..0 : g[m] = F[g[m - 1]]
    BY <1>2, <2>1
  <2> QED
    BY <1>4, <2>2
<1>6. ASSUME NEW k \in 0..n - 1, k \in A
      PROVE  k + 1 \in A
  <2>1. PICK g \in [0..k -> S] : g[0] = i /\ \A m \in 1..k : g[m] = F[g[m - 1]]
    BY <1>4, <1>6
  <2>2. PICK h : h = [m \in 0..k + 1 |-> IF m = k + 1 THEN F[g[k]] ELSE g[m]]
    OBVIOUS
  <2>3. F[g[k]] \in S
    BY <2>1
  <2>4. h \in [0..k + 1 -> S] /\ h[0] = i
    BY <2>1, <2>2, <2>3
  <2>5. ASSUME NEW m \in 1..k + 1
        PROVE  h[m] = F[h[m - 1]]
    <3>1. m - 1 \in 0..k /\ m - 1 \in 0..k + 1 /\ m - 1 # k + 1 /\ m \in 0..k + 1
      OBVIOUS
    <3>2. h[m - 1] = g[m - 1]
      BY <2>2, <3>1
    <3>3. CASE m = k + 1
      BY <2>2, <3>1, <3>2, <3>3
    <3>4. CASE m # k + 1
      <4>1. m \in 1..k
        BY <3>4
      <4>2. h[m] = g[m] /\ g[m] = F[g[m - 1]]
        BY <2>1, <2>2, <3>1, <3>4, <4>1
      <4> QED
        BY <3>2, <4>2
    <3> QED
      BY <3>3, <3>4
  <2>6. k + 1 \in 0..n
    OBVIOUS
  <2> QED
    BY <1>4, <2>4, <2>5, <2>6
<1>7. n \in A
  <2>1. 0..n \subseteq A
    BY <1>5, <1>6, UpTo
  <2> QED
    BY <2>1
<1>8. PICK g \in [0..n -> S] : g[0] = i /\ \A m \in 1..n : g[m] = F[g[m - 1]]
  BY <1>4, <1>7
<1> DEFINE Steps(at) ==
      [k \in 0..n |-> IF k = 0 THEN i ELSE IF at[k - 1] = 0 THEN 0 ELSE l[at[k - 1]].to]
<1>9. g = Steps(g)
  <2>1. ASSUME NEW k \in 0..n, k # 0
        PROVE  g[k] = Along(g[k - 1])
    <3>1. k \in 1..n /\ k - 1 \in 0..n
      BY <2>1
    <3>2. g[k - 1] \in S
      BY <1>8, <3>1
    <3> QED
      BY <1>3, <1>8, <3>1, <3>2
  <2>2. \A k \in 0..n : g[k] = Steps(g)[k]
    BY <1>8, <2>1 DEF Along
  <2> QED
    BY <1>8, <2>2
<1>10. PICK at : at = Steps(at) /\ Object(l, i, n) = at[n]
  <2>1. PICK at : at = CHOOSE f : f = Steps(f)
    OBVIOUS
  <2>2. at = Steps(at)
    BY <1>9, <2>1
  <2>3. Object(l, i, n) = at[n]
    BY <2>1 DEF Object
  <2> QED
    BY <2>2, <2>3
<1>11. at[0] = i /\ \A k \in 1..n : at[k] = Along(at[k - 1])
  BY <1>10 DEF Along
<1>12. at \in [0..n -> S]
  <2>1. PICK B : B = {k \in 0..n : at[k] \in S}
    OBVIOUS
  <2>2. 0 \in B
    BY <1>2, <1>11, <2>1
  <2>3. ASSUME NEW k \in 0..n - 1, k \in B
        PROVE  k + 1 \in B
    <3>1. k + 1 \in 1..n /\ k + 1 \in 0..n /\ (k + 1) - 1 = k
      OBVIOUS
    <3>2. at[k + 1] = Along(at[k])
      BY <1>11, <3>1
    <3>3. Along(at[k]) \in S
      BY <1>1, <1>2, <2>1, <2>3
    <3> QED
      BY <2>1, <3>1, <3>2, <3>3
  <2>4. 0..n \subseteq B
    BY <2>2, <2>3, UpTo
  <2>5. at = [k \in 0..n |-> at[k]]
    BY <1>10
  <2> HIDE DEF Steps
  <2> QED
    BY <2>1, <2>4, <2>5
<1> QED
  BY <1>2, <1>10, <1>11, <1>12 DEF Chain, Along

\* What n dereferences of a variable lead to: an object of the type that is
\* left, with no qualifier that the expression does not show.
LEMMA ObjectFacts ==
  ASSUME CountsOK, NEW l, VarsOK(l), NEW i \in 1..Len(l), NEW n \in 0..l[i].t.level
  PROVE  /\ Object(l, i, n) \in 0..Len(l)
         /\ Object(l, i, n) # 0 =>
              /\ l[Object(l, i, n)].t = [l[i].t EXCEPT !.level = @ - n]
              /\ Below(Indirect(l[i].q, n), l[Object(l, i, n)].q)
<1>1. /\ l[i].t = [base |-> l[i].t.base, level |-> l[i].t.level] /\ l[i].t.level \in Nat
      /\ l[i].q \in Seq(Qualifier) /\ Len(l[i].q) = l[i].t.level + 1
  BY VariableFacts, TypeFacts
<1>2. PICK b \in {l[i].t.base}, top \in {l[i].t.level}, a \in {l[i].q} : TRUE
  OBVIOUS
<1>3. /\ l[i].t = [base |-> b, level |-> top] /\ l[i].q = a /\ a \in Seq(Qualifier)
      /\ Len(a) = top + 1 /\ n \in 0..top /\ top \in Nat /\ n \in Nat
  BY <1>1, <1>2
<1>4. PICK at : Chain(at, l, i, n) /\ Object(l, i, n) = at[n]
  BY <1>3, ObjectChain
<1>5. PICK A : A = {k \in 0..n : at[k] # 0 =>
                      /\ l[at[k]].t = [base |-> b, level |-> top - k]
                      /\ Below(Indirect(a, k), l[at[k]].q)}
  OBVIOUS
<1>6. 0 \in A
  <2>1. at[0] = i
    BY <1>4 DEF Chain
  <2>2. Indirect(a, 0) = a
    BY <1>3, NoDereference
  <2>3. Below(a, a)
    BY DEF Below, SameBelow
  <2>4. top - 0 = top /\ 0 \in 0..n
    BY <1>3
  <2> QED
    BY <1>3, <1>5, <2>1, <2>2, <2>3, <2>4
<1>7. ASSUME NEW k \in 0..n - 1, k \in A
      PROVE  k + 1 \in A
  <2>1. k + 1 \in 1..n /\ k + 1 \in 0..n /\ (k + 1) - 1 = k /\ k \in 0..n
    OBVIOUS
  <2>2. /\ at[k] \in 0..Len(l) /\ at[k + 1] \in 0..Len(l)
        /\ at[k + 1] = IF at[k] = 0 THEN 0 ELSE l[at[k]].to
    BY <1>4, <2>1 DEF Chain
  <2> SUFFICES ASSUME at[k + 1] # 0
               PROVE  /\ l[at[k + 1]].t = [base |-> b, level |-> top - (k + 1)]
                      /\ Below(Indirect(a, k + 1), l[at[k + 1]].q)
    BY <1>5, <2>1
  <2>3. PICK o \in 1..Len(l) : o = at[k] /\ l[o].to # 0 /\ l[o].to = at[k + 1]
    <3>1. at[k] # 0
      BY <2>2
    <3>2. Len(l) \in Nat
      BY DEF VarsOK
    <3>3. at[k] \in 1..Len(l)
      BY <2>2, <3>1, <3>2
    <3> QED
      BY <2>2, <3>1, <3>3
  <2>4. PICK p \in 1..Len(l) : p = l[o].to
    <3>1. Len(l) \in Nat
      BY DEF VarsOK
    <3> QED
      BY <2>2, <2>3, <3>1
  <2>5. l[o].t = [base |-> b, level |-> top - k] /\ Below(Indirect(a, k), l[o].q)
    BY <1>5, <1>7, <2>3
  <2>6. l[p].t = Pointee(l[o].t) /\ Converts(l[o].q, Append(l[p].q, Plain)) /\ l[o].q \in Seq(Qualifier)
    BY <2>3, <2>4, VariableFacts
  <2>7. l[p].t = [base |-> b, level |-> top - (k + 1)]
    <3>1. top - (k + 1) = (top - k) - 1
      BY <1>3
    <3> QED
      BY <2>5, <2>6, <3>1 DEF Pointee
  <2>8. l[p].q \in Seq(Qualifier) /\ Len(l[p].q) > 0
    <3>1. /\ l[p].q \in Seq(Qualifier) /\ Len(l[p].q) = l[p].t.level + 1
          /\ l[p].t.level \in Nat
      BY VariableFacts
    <3> QED
      BY <3>1
  <2>9. PICK d \in Seq(Qualifier) : d = Indirect(a, k)
    BY <1>3, IndirectFacts
  <2>10. Below(Indirect(d, 1), l[p].q)
    BY <2>5, <2>6, <2>8, <2>9, OneDereference
  <2>11. Indirect(d, 1) = Indirect(a, k + 1)
    <3>1. /\ Len(d) = Len(a) - k
          /\ \A j \in 1..Len(a) : j <= Len(a) - k => d[j] = a[j]
      <4>1. k \in Int /\ k >= -1 /\ k < Len(a)
        BY <1>3
      <4> QED
        BY <1>3, <2>9, <4>1, IndirectFacts
    <3>2. Len(d) > 0 /\ Len(d) < Len(a) + 1
      BY <1>3, <3>1
    <3>3. /\ Indirect(d, 1) \in Seq(Qualifier)
          /\ Len(Indirect(d, 1)) = Len(d) - 1
          /\ \A j \in 1..Len(d) - 1 : Indirect(d, 1)[j] = d[j]
      BY <3>2, DropLevel
    <3>4. k + 1 < Len(a) /\ k + 1 \in Int /\ k + 1 >= -1
      BY <1>3
    <3>5. /\ Indirect(a, k + 1) \in Seq(Qualifier)
          /\ Len(Indirect(a, k + 1)) = Len(a) - (k + 1)
          /\ \A j \in 1..Len(a) : j <= Len(a) - (k + 1) => Indirect(a, k + 1)[j] = a[j]
      BY <1>3, <3>4, IndirectFacts
    <3>6. PICK x \in Seq(Qualifier), y \in Seq(Qualifier) :
            /\ x = Indirect(d, 1) /\ y = Indirect(a, k + 1) /\ Len(x) = Len(y)
            /\ \A j \in 1..Len(x) : x[j] = y[j]
      <4>1. Len(d) - 1 = Len(a) - (k + 1)
        BY <1>3, <3>1
      <4>2. ASSUME NEW j \in 1..Len(d) - 1
            PROVE  Indirect(d, 1)[j] = Indirect(a, k + 1)[j]
        <5>1. j \in 1..Len(a) /\ j <= Len(a) - k /\ j <= Len(a) - (k + 1)
          BY <1>3, <3>1
        <5> QED
          BY <3>1, <3>3, <3>5, <5>1
      <4> QED
        BY <3>3, <3>5, <4>1, <4>2
    <3> QED
      BY <3>6
  <2> QED
    BY <2>3, <2>4, <2>7, <2>10, <2>11
<1>8. n \in A
  <2>1. 0..n \subseteq A
    BY <1>3, <1>6, <1>7, UpTo
  <2> QED
    BY <1>3, <2>1
<1>9. at[n] \in 0..Len(l)
  BY <1>3, <1>4 DEF Chain
<1>10. [l[i].t EXCEPT !.level = @ - n] = [base |-> b, level |-> top - n]
  BY <1>3
<1> QED
  BY <1>3, <1>4, <1>5, <1>8, <1>9, <1>10

\* NoHole holds of any variables that point only to what they may point to.
LEMMA HolesClosed ==
  ASSUME CountsOK, VarsOK(vs)
  PROVE  NoHole
<1> SUFFICES ASSUME NEW i \in 1..Len(vs), NEW n \in 1..vs[i].t.level, Object(vs, i, n) # 0
             PROVE  /\ Top(vs[Object(vs, i, n)].q).c => Top(Indirect(vs[i].q, n)).c
                    /\ Top(vs[Object(vs, i, n)].q).v => Top(Indirect(vs[i].q, n)).v
  BY DEF NoHole
<1>1. n \in 0..vs[i].t.level
  BY VariableFacts
<1> QED
  BY <1>1, ObjectFacts DEF Below

-----------------------------------------------------------------------------
(* Lists of variables *)

\* The list b has the variables of a, with the same types and qualifiers.
Grown(a, b) ==
  Len(a) <= Len(b) /\ \A i \in 1..Len(a) : b[i].t = a[i].t /\ b[i].q = a[i].q

LEMMA GrownTransitive ==
  ASSUME NEW S, NEW a \in Seq(S), NEW b \in Seq(S), NEW c \in Seq(S), Grown(a, b), Grown(b, c)
  PROVE  Grown(a, c)
<1>1. PICK x \in Nat, y \in Nat, z \in Nat : x = Len(a) /\ y = Len(b) /\ z = Len(c)
  OBVIOUS
<1>2. x <= y /\ y <= z
  BY <1>1 DEF Grown
<1>3. ASSUME NEW i \in 1..x
      PROVE  c[i].t = a[i].t /\ c[i].q = a[i].q
  <2>1. i \in 1..y
    BY <1>2
  <2> QED
    BY <1>1, <2>1 DEF Grown
<1>4. x <= z
  BY <1>2
<1> QED
  BY <1>1, <1>3, <1>4, Zenon DEF Grown

LEMMA PointsAtGrown ==
  ASSUME NEW a \in Seq(Variable), NEW b \in Seq(Variable), Grown(a, b),
         NEW q, NEW t, NEW to, PointsAt(q, t, to, a)
  PROVE  PointsAt(q, t, to, b)
<1> SUFFICES ASSUME to # 0
             PROVE  to \in 1..Len(b) /\ b[to].t = Pointee(t) /\ Converts(q, Append(b[to].q, Plain))
  BY DEF PointsAt
<1>1. to \in 1..Len(a) /\ a[to].t = Pointee(t) /\ Converts(q, Append(a[to].q, Plain))
  BY DEF PointsAt
<1>2. b[to].t = a[to].t /\ b[to].q = a[to].q /\ to \in 1..Len(b)
  BY <1>1 DEF Grown
<1> QED
  BY <1>1, <1>2

LEMMA AppendKeeps ==
  ASSUME NEW l, VarsOK(l), NEW v \in Variable, Len(v.q) = v.t.level + 1,
         PointsAt(v.q, v.t, v.to, l)
  PROVE  /\ VarsOK(Append(l, v)) /\ Grown(l, Append(l, v))
         /\ Len(Append(l, v)) = Len(l) + 1 /\ Append(l, v)[Len(l) + 1] = v
         /\ \A i \in 1..Len(l) : Append(l, v)[i] = l[i]
<1>1. l \in Seq(Variable) /\ Len(l) \in Nat
  BY DEF VarsOK
<1>2. PICK m \in Seq(Variable) :
        /\ m = Append(l, v) /\ Len(m) = Len(l) + 1 /\ m[Len(l) + 1] = v
        /\ \A i \in 1..Len(l) : m[i] = l[i]
  <2>1. Append(l, v) \in Seq(Variable)
    BY <1>1
  <2>2. Len(Append(l, v)) = Len(l) + 1 /\ Append(l, v)[Len(l) + 1] = v
    BY <1>1
  <2>3. \A i \in 1..Len(l) : Append(l, v)[i] = l[i]
    BY <1>1
  <2> QED
    BY <2>1, <2>2, <2>3
<1>3. Grown(l, m)
  BY <1>1, <1>2 DEF Grown
<1>4. ASSUME NEW i \in 1..Len(m)
      PROVE  Len(m[i].q) = m[i].t.level + 1 /\ PointsAt(m[i].q, m[i].t, m[i].to, m)
  <2>1. CASE i = Len(l) + 1
    <3>1. PointsAt(v.q, v.t, v.to, m)
      BY <1>1, <1>2, <1>3, PointsAtGrown
    <3> QED
      BY <1>2, <2>1, <3>1
  <2>2. CASE i # Len(l) + 1
    <3>1. i \in 1..Len(l)
      BY <1>1, <1>2, <2>2
    <3>2. Len(l[i].q) = l[i].t.level + 1 /\ PointsAt(l[i].q, l[i].t, l[i].to, l)
      BY <3>1 DEF VarsOK
    <3>3. PointsAt(l[i].q, l[i].t, l[i].to, m)
      BY <1>1, <1>2, <1>3, <3>2, PointsAtGrown
    <3> QED
      BY <1>2, <3>1, <3>2, <3>3
  <2> QED
    BY <2>1, <2>2
<1>5. VarsOK(m)
  BY <1>2, <1>4 DEF VarsOK
<1> QED
  BY <1>2, <1>3, <1>5

\* A variable is made; a struct with its field.
LEMMA AddKeeps ==
  ASSUME CountsOK, NEW l, VarsOK(l), NEW t \in program.types, NEW q \in Seq(Qualifier),
         Len(q) = t.level + 1, NEW scope \in {"global", "local", "param"}, NEW fn \in {0, 1},
         NEW to \in Nat, PointsAt(q, t, to, l),
         NEW m, m = Add(l, t, q, scope, fn, to)
  PROVE  /\ VarsOK(m) /\ Grown(l, m) /\ Len(m) > Len(l)
         /\ Newest(m) = Len(l) + 1
         /\ m[Newest(m)].t = t /\ m[Newest(m)].q = q /\ m[Newest(m)].to = to
<1>1. l \in Seq(Variable) /\ Len(l) \in Nat
  BY DEF VarsOK
<1>2. PICK v : v = [t |-> t, q |-> q, scope |-> scope,
                    fn |-> IF scope = "global" THEN 0 ELSE fn, within |-> 0, to |-> to]
  OBVIOUS
<1>3. v \in Variable /\ v.t = t /\ v.q = q /\ v.to = to /\ v.within = 0
  BY <1>2 DEF Variable
<1>4. PICK n \in Seq(Variable) :
        /\ n = Append(l, v) /\ VarsOK(n) /\ Grown(l, n)
        /\ Len(n) = Len(l) + 1 /\ n[Len(l) + 1] = v
  <2>1. PointsAt(v.q, v.t, v.to, l) /\ Len(v.q) = v.t.level + 1
    BY <1>3
  <2>2. Append(l, v) \in Seq(Variable)
    BY <1>1, <1>3
  <2> QED
    BY <1>3, <2>1, <2>2, AppendKeeps
<1>5. CASE t # Struct(0)
  <2>1. m = n
    BY <1>2, <1>4, <1>5 DEF Add
  <2>2. Newest(m) = Len(l) + 1
    BY <1>3, <1>4, <2>1 DEF Newest
  <2> QED
    BY <1>1, <1>3, <1>4, <2>1, <2>2
<1>6. CASE t = Struct(0)
  <2>1. PICK own \in Seq(Qualifier) :
          Len(own) = 1 /\ own = <<[c |-> q[1].c \/ field.c, v |-> q[1].v \/ field.v]>>
    <3>1. PICK x \in Qualifier : x = [c |-> q[1].c \/ field.c, v |-> q[1].v \/ field.v]
      <4>1. PICK a \in BOOLEAN, b \in BOOLEAN :
              a = (q[1].c \/ field.c) /\ b = (q[1].v \/ field.v)
        BY Zenon
      <4>2. [c |-> a, v |-> b] \in Qualifier
        BY DEF Qualifier
      <4> QED
        BY <4>1, <4>2, Zenon
    <3>2. <<x>> \in Seq(Qualifier) /\ Len(<<x>>) = 1
      OBVIOUS
    <3> QED
      BY <3>1, <3>2
  <2>2. PICK w : w = [v EXCEPT !.t = Integer(0), !.q = own, !.within = Len(l) + 1]
    OBVIOUS
  <2>3. w \in Variable /\ w.t = Integer(0) /\ w.q = own /\ w.within = Len(l) + 1 /\ w.to = to
    <3>1. Integer(0) \in program.types
      BY SelectionConstantsOK DEF CountsOK
    <3>2. Len(l) + 1 \in Nat
      BY <1>1
    <3> QED
      BY <1>2, <2>2, <3>1, <3>2 DEF Variable
  <2>4. to = 0
    <3> SUFFICES ASSUME to # 0
                 PROVE  FALSE
      OBVIOUS
    <3>1. PICK j \in 1..Len(l) : l[j].t = Pointee(t)
      BY DEF PointsAt
    <3>2. l[j].t.level \in Nat
      BY VariableFacts
    <3>3. Pointee(t).level = -1
      BY <1>6 DEF Pointee, Struct
    <3> QED
      BY <3>1, <3>2, <3>3
  <2>5. Len(w.q) = w.t.level + 1 /\ PointsAt(w.q, w.t, w.to, n)
    BY <2>1, <2>3, <2>4 DEF Integer, PointsAt
  <2>6. PICK k \in Seq(Variable) :
          /\ k = Append(n, w) /\ VarsOK(k) /\ Grown(n, k)
          /\ Len(k) = Len(n) + 1 /\ k[Len(n) + 1] = w
          /\ \A i \in 1..Len(n) : k[i] = n[i]
    <3>1. Append(n, w) \in Seq(Variable)
      BY <2>3
    <3> QED
      BY <1>4, <2>3, <2>5, <3>1, AppendKeeps
  <2>7. m = k
    <3>1. n[Len(n)] = v /\ Len(n) = Len(l) + 1
      BY <1>1, <1>4
    <3> QED
      BY <1>2, <1>4, <1>6, <2>1, <2>2, <2>6, <3>1 DEF Add
  <2>8. Len(m) = Len(l) + 2 /\ m[Len(m)] = w /\ Len(l) + 1 \in 1..Len(n)
    BY <1>1, <1>4, <2>6, <2>7
  <2>9. Newest(m) = Len(l) + 1
    BY <1>1, <2>3, <2>8 DEF Newest
  <2>10. m[Len(l) + 1] = v
    BY <1>4, <2>6, <2>7, <2>8
  <2>11. Grown(l, m)
    BY <1>1, <1>4, <2>6, <2>7, GrownTransitive
  <2> QED
    BY <1>1, <1>3, <2>6, <2>7, <2>8, <2>9, <2>10, <2>11
<1> QED
  BY <1>5, <1>6

-----------------------------------------------------------------------------
(* New variables *)

\* The list m is l with a new variable of type t, asked to have qualifiers q,
\* and with those that were made to initialise it.
NewIn(l, t, q, access, free, m) ==
  /\ VarsOK(m) /\ Grown(l, m) /\ Len(m) <= MaxVars
  /\ Newest(m) \in 1..Len(m) /\ Newest(m) > Len(l)
  /\ m[Newest(m)].t = t
  /\ m[Newest(m)].q \in {q, Restrict(q, access, free)}

\* What a new variable is initialised with points to a variable that was
\* made for it: the qualifiers it is asked for are looser.
LEMMA PointeeConverts ==
  ASSUME NEW q \in Seq(Qualifier), NEW p \in Seq(Qualifier), Len(p) = Len(q), Len(q) > 1,
         Converts(q, p), NEW access, NEW free \in BOOLEAN,
         NEW e, e \in {Indirect(p, 1), Restrict(Indirect(p, 1), access, free)}
  PROVE  Converts(q, Append(e, Plain))
<1>1. PICK d \in Seq(Qualifier) :
        d = Indirect(p, 1) /\ Len(d) = Len(q) - 1 /\ \A i \in 1..Len(d) : d[i] = p[i]
  BY DropLevel
<1>2. Len(d) > 0 /\ Len(d) \in Nat /\ Len(d) \in 1..Len(d) /\ Len(q) \in Nat
  BY <1>1
<1>3. /\ e \in Seq(Qualifier) /\ Len(e) = Len(d)
      /\ SameBelow(e, d) /\ (Top(e).c => Top(d).c) /\ (Top(e).v => Top(d).v)
  <2>1. CASE e = d
    BY <2>1 DEF SameBelow
  <2>2. CASE e = Restrict(d, access, free)
    BY <1>1, <1>2, <2>2, RestrictFacts
  <2> QED
    BY <1>1, <2>1, <2>2
<1>4. ASSUME NEW i \in 1..Len(d)
      PROVE  /\ e[i].c => q[i].c
             /\ e[i].v => q[i].v
             /\ i < Len(d) => q[i] = e[i]
  <2>1. i \in 1..Len(q) - 1
    BY <1>1
  <2>2. (p[i].c => q[i].c) /\ (p[i].v => q[i].v) /\ (i < Len(d) => q[i] = p[i]) /\ d[i] = p[i]
    BY <1>1, <2>1 DEF Converts
  <2>3. CASE i = Len(d)
    <3>1. Top(d) = d[i] /\ Top(e) = e[i]
      BY <1>3, <2>3 DEF Top
    <3> QED
      BY <1>3, <2>2, <2>3, <3>1
  <2>4. CASE i # Len(d)
    <3>1. i \in 1..Len(e) - 1
      BY <1>2, <1>3, <2>4
    <3>2. e[i] = d[i]
      BY <1>3, <3>1 DEF SameBelow
    <3>3. i < Len(d)
      BY <1>2, <2>4
    <3> QED
      BY <2>2, <3>2, <3>3
  <2> QED
    BY <2>3, <2>4
<1>5. PICK f \in Seq(Qualifier) :
        f = Append(e, Plain) /\ Len(f) = Len(q) /\ \A i \in 1..Len(d) : f[i] = e[i]
  <2>1. /\ Append(e, Plain) \in Seq(Qualifier) /\ Len(Append(e, Plain)) = Len(e) + 1
        /\ \A i \in 1..Len(e) : Append(e, Plain)[i] = e[i]
    BY <1>3, AppendLevel
  <2>2. Len(e) + 1 = Len(q)
    BY <1>1, <1>2, <1>3
  <2> QED
    BY <1>3, <2>1, <2>2
<1> QED
  BY <1>1, <1>2, <1>4, <1>5 DEF Converts

LEMMA AddressConverts ==
  ASSUME CountsOK, NEW l, VarsOK(l), NEW t \in program.types, t.level > 0,
         NEW q \in Seq(Qualifier), Len(q) = t.level + 1,
         NEW access, NEW scope, NEW fn, NEW ctx, ctx.exact \in BOOLEAN,
         NEW i \in Addressable(l, t, q, access, scope, fn, ctx)
  PROVE  i \in 1..Len(l) /\ PointsAt(q, t, i, l)
<1>1. i \in 1..Len(l) /\ l[i].t = Pointee(t) /\ MatchIndirect(Asks(q, FALSE), l[i].q, ctx.exact)
  BY DEF Addressable, Expanded, Globals, Locals
<1>2. PICK a \in Seq(Qualifier) : a = l[i].q /\ Len(a) = l[i].t.level + 1
  BY <1>1, VariableFacts
<1>3. t.level \in Nat /\ l[i].t.level = t.level - 1
  <2>1. t = [base |-> t.base, level |-> t.level] /\ t.level \in Nat
    BY TypeFacts
  <2> QED
    BY <1>1, <2>1 DEF Pointee
<1>4. PICK n \in Int : n = Len(a) - Len(q) /\ n = -1
  BY <1>2, <1>3
<1>5. /\ Asks(q, FALSE) \in Requests /\ ~Asks(q, FALSE).wild /\ ~Asks(q, FALSE).strict
      /\ Asks(q, FALSE).q = q
  BY DEF Asks, Requests
<1>6. Len(q) > 0
  BY <1>3
<1>7. Converts(q, Indirect(a, n))
  BY <1>1, <1>2, <1>4, <1>5, <1>6, MatchedConverts
<1>8. Indirect(a, n) = Append(a, Plain)
  BY <1>4 DEF Indirect
<1> QED
  BY <1>1, <1>2, <1>7, <1>8 DEF PointsAt

\* One level: a variable whose pointees, if they have to be made, are right.
LEMMA LevelKeeps ==
  ASSUME CountsOK, NEW l, VarsOK(l), NEW t \in program.types, NEW x \in Wanted(t.level),
         NEW fn \in {0, 1}, NEW ctx, ctx.exact \in BOOLEAN, ctx.free \in BOOLEAN, NEW pointees,
         t.level > 0 => \A y \in Wanted(t.level - 1) : \A m \in pointees[y] :
                          NewIn(l, Pointee(t), y.q, y.access, ctx.free, m),
         NEW m \in WithPointees(l, t, x, pointees, fn, ctx)
  PROVE  NewIn(l, t, x.q, x.access, ctx.free, m)
<1>1. /\ x.q \in Seq(Qualifier) /\ Len(x.q) = t.level + 1 /\ t.level \in Nat
      /\ x.place \in {"global", "local"}
  <2>1. t.level \in Nat
    BY TypeFacts
  <2>2. x.q \in [1..t.level + 1 -> Qualifier] /\ x.place \in {"global", "local"}
    BY DEF Wanted, Qualifiers
  <2> QED
    BY <2>1, <2>2
<1>2. PICK scope \in {"global", "local"} :
        scope = IF InStruct(t).v THEN "global" ELSE x.place
  BY <1>1
<1>3. PICK q \in Seq(Qualifier) :
        /\ q = IF scope = "local" THEN Restrict(x.q, x.access, ctx.free) ELSE x.q
        /\ Len(q) = t.level + 1 /\ q \in {x.q, Restrict(x.q, x.access, ctx.free)}
  <2>1. Len(x.q) > 0
    BY <1>1
  <2>2. /\ Restrict(x.q, x.access, ctx.free) \in Seq(Qualifier)
        /\ Len(Restrict(x.q, x.access, ctx.free)) = Len(x.q)
    BY <1>1, <2>1, RestrictFacts
  <2> QED
    BY <1>1, <2>2
<1> DEFINE Home(d) == IF scope = "local" /\ t.level > 1 /\ ~Top(d).v THEN "local" ELSE "global"
           Wish(p) == [q |-> Indirect(p, 1), access |-> "read", place |-> Home(Indirect(p, 1))]
           Loose == RandomLoose(q, x.access, ctx.free, ctx.exact)
           Firsts == UNION {pointees[Wish(p)] : p \in Loose}
           Addresses == Addressable(l, t, q, x.access, scope, fn, ctx)
<1>4. /\ Len(m) <= MaxVars
      /\ \/ m = Add(l, t, q, scope, fn, 0)
         \/ t.level # 0 /\ \E i \in Addresses : m = Add(l, t, q, scope, fn, i)
         \/ t.level # 0 /\ \E f \in Firsts : m = Add(f, t, q, scope, fn, Newest(f))
  <2>1. m \in {k \in {Add(l, t, q, scope, fn, 0)}
                     \cup (IF t.level = 0 THEN {}
                           ELSE IF Addresses # {} THEN {Add(l, t, q, scope, fn, i) : i \in Addresses}
                           ELSE {Add(f, t, q, scope, fn, Newest(f)) : f \in Firsts}) :
                 Len(k) <= MaxVars}
    BY <1>2, <1>3 DEF WithPointees
  <2> HIDE DEF Addresses, Firsts
  <2> QED
    BY <2>1
<1>5. CASE m = Add(l, t, q, scope, fn, 0)
  <2>1. PointsAt(q, t, 0, l) /\ 0 \in Nat /\ scope \in {"global", "local", "param"}
    BY DEF PointsAt
  <2>2. /\ VarsOK(m) /\ Grown(l, m) /\ Len(m) > Len(l) /\ Newest(m) = Len(l) + 1
        /\ m[Newest(m)].t = t /\ m[Newest(m)].q = q
    BY <1>3, <1>5, <2>1, AddKeeps
  <2>3. Len(m) \in Nat /\ Len(l) \in Nat
    BY <2>2 DEF VarsOK
  <2> QED
    BY <1>3, <1>4, <2>2, <2>3 DEF NewIn
<1>6. ASSUME t.level # 0, NEW i \in Addresses, m = Add(l, t, q, scope, fn, i)
      PROVE  NewIn(l, t, x.q, x.access, ctx.free, m)
  <2>1. i \in 1..Len(l) /\ PointsAt(q, t, i, l)
    BY <1>1, <1>3, <1>6, AddressConverts
  <2>2. i \in Nat /\ scope \in {"global", "local", "param"}
    BY <2>1
  <2>3. /\ VarsOK(m) /\ Grown(l, m) /\ Len(m) > Len(l) /\ Newest(m) = Len(l) + 1
        /\ m[Newest(m)].t = t /\ m[Newest(m)].q = q
    BY <1>3, <1>6, <2>1, <2>2, AddKeeps
  <2>4. Len(m) \in Nat /\ Len(l) \in Nat
    BY <2>3 DEF VarsOK
  <2> QED
    BY <1>3, <1>4, <2>3, <2>4 DEF NewIn
<1>7. ASSUME t.level # 0, NEW f \in Firsts, m = Add(f, t, q, scope, fn, Newest(f))
      PROVE  NewIn(l, t, x.q, x.access, ctx.free, m)
  <2>1. PICK p \in Loose : f \in pointees[Wish(p)]
    OBVIOUS
  <2>2. p \in Seq(Qualifier) /\ Len(p) = Len(q) /\ Converts(q, p) /\ Len(p) > 1
    BY <1>1, <1>3, <1>7, LooseFacts
  <2>3. Wish(p) \in Wanted(t.level - 1)
    <3>1. Indirect(p, 1) \in Seq(Qualifier) /\ Len(Indirect(p, 1)) = t.level
      BY <1>1, <1>3, <2>2, DropLevel
    <3>2. Indirect(p, 1) \in [1..t.level -> Qualifier] /\ t.level - 1 + 1 = t.level
      BY <1>1, <3>1
    <3>3. Home(Indirect(p, 1)) \in {"global", "local"}
      OBVIOUS
    <3> QED
      BY <3>2, <3>3 DEF Wanted, Qualifiers
  <2>4. NewIn(l, Pointee(t), Indirect(p, 1), "read", ctx.free, f)
    <3>1. t.level > 0
      BY <1>1, <1>7
    <3> QED
      BY <2>1, <2>3, <3>1
  <2>5. PICK n \in Nat : n = Newest(f) /\ n \in 1..Len(f) /\ n > Len(l)
    BY <2>4 DEF NewIn
  <2>6. PointsAt(q, t, n, f)
    <3>1. Converts(q, Append(f[n].q, Plain))
      <4>1. f[n].q \in {Indirect(p, 1), Restrict(Indirect(p, 1), "read", ctx.free)}
        BY <2>4, <2>5 DEF NewIn
      <4>2. Len(q) > 1
        BY <2>2
      <4> QED
        BY <2>2, <4>1, <4>2, PointeeConverts
    <3> QED
      BY <2>4, <2>5, <3>1 DEF NewIn, PointsAt
  <2>7. VarsOK(f) /\ Grown(l, f) /\ scope \in {"global", "local", "param"}
    BY <2>4 DEF NewIn
  <2>8. /\ VarsOK(m) /\ Grown(f, m) /\ Len(m) > Len(f) /\ Newest(m) = Len(f) + 1
        /\ m[Newest(m)].t = t /\ m[Newest(m)].q = q
    BY <1>3, <1>7, <2>5, <2>6, <2>7, AddKeeps
  <2>9. /\ l \in Seq(Variable) /\ f \in Seq(Variable) /\ m \in Seq(Variable)
        /\ Len(l) \in Nat /\ Len(f) \in Nat /\ Len(m) \in Nat /\ Len(l) <= Len(f)
    BY <2>7, <2>8 DEF VarsOK, Grown
  <2>10. Grown(l, m)
    BY <2>7, <2>8, <2>9, GrownTransitive
  <2> QED
    BY <1>3, <1>4, <2>8, <2>9, <2>10 DEF NewIn
<1> QED
  BY <1>4, <1>5, <1>6, <1>7

\* Made follows the levels one by one.
LEMMA MadeKeeps ==
  ASSUME CountsOK, NEW l, VarsOK(l), NEW t \in program.types,
         NEW asked \in Seq(Qualifier), Len(asked) = t.level + 1,
         NEW access \in {"read", "write"}, NEW place \in {"global", "local"},
         NEW fn \in {0, 1}, NEW ctx, ctx.exact \in BOOLEAN, ctx.free \in BOOLEAN,
         NEW m \in Made(l, t, asked, access, place, fn, ctx)
  PROVE  NewIn(l, t, asked, access, ctx.free, m)
<1> DEFINE At(k) == [t EXCEPT !.level = k]
           Level(k, pointees) ==
             [x \in Wanted(k) |-> WithPointees(l, At(k), x, pointees, fn, ctx)]
           Levels(g) == [k \in 0..t.level |-> Level(k, g[k - 1])]
<1>1. t = [base |-> t.base, level |-> t.level] /\ t.level \in Nat
  BY TypeFacts
<1>2. PICK n \in Nat : n = t.level
  BY <1>1
<1>3. \A k \in 0..n : At(k) \in program.types /\ At(k).level = k
  <2>1. \A k \in 0..n : At(k).level = k
    BY <1>1
  <2> QED
    BY <1>2, <2>1, TypeFacts
<1>4. ASSUME NEW P, NEW Q
      PROVE  Level(0, P) = Level(0, Q)
  <2>1. At(0).level = 0
    BY <1>3, <1>2
  <2>2. ASSUME NEW x
        PROVE  WithPointees(l, At(0), x, P, fn, ctx) = WithPointees(l, At(0), x, Q, fn, ctx)
    <3> HIDE DEF At
    <3> QED
      BY <2>1, Zenon DEF WithPointees
  <2> HIDE DEF At
  <2> QED
    BY <2>2
<1> HIDE DEF Level
<1>5. \E g : g = [k \in 0..n |-> Level(k, g[k - 1])]
  <2>1. PICK A : A = {k \in 0..n : \E g : g = [j \in 0..k |-> Level(j, g[j - 1])]}
    OBVIOUS
  <2>2. 0 \in A
    <3>1. PICK g : g = [j \in 0..0 |-> Level(0, {})]
      OBVIOUS
    <3>2. g = [j \in 0..0 |-> Level(j, g[j - 1])]
      BY <1>4, <3>1
    <3> QED
      BY <2>1, <3>2
  <2>3. ASSUME NEW k \in 0..n - 1, k \in A
        PROVE  k + 1 \in A
    <3>1. PICK g : g = [j \in 0..k |-> Level(j, g[j - 1])]
      BY <2>1, <2>3
    <3>2. PICK h : h = [j \in 0..k + 1 |-> IF j = k + 1 THEN Level(k + 1, g[k]) ELSE g[j]]
      OBVIOUS
    <3>3. ASSUME NEW j \in 0..k + 1
          PROVE  h[j] = Level(j, h[j - 1])
      <4>1. CASE j = k + 1
        <5>1. j - 1 = k /\ k \in 0..k + 1 /\ k # k + 1
          BY <4>1
        <5> QED
          BY <3>2, <4>1, <5>1
      <4>2. CASE j = 0
        <5>1. 0 \in 0..k /\ 0 # k + 1
          OBVIOUS
        <5>2. h[0] = g[0] /\ g[0] = Level(0, g[0 - 1])
          BY <3>1, <3>2, <4>2, <5>1
        <5> QED
          BY <1>4, <4>2, <5>2
      <4>3. CASE j # 0 /\ j # k + 1
        <5>1. j \in 0..k /\ j - 1 \in 0..k + 1 /\ j - 1 # k + 1
          BY <4>3
        <5>2. h[j] = g[j] /\ h[j - 1] = g[j - 1]
          BY <3>2, <4>3, <5>1
        <5> QED
          BY <3>1, <5>1, <5>2
      <4> QED
        BY <4>1, <4>2, <4>3
    <3>4. h = [j \in 0..k + 1 |-> Level(j, h[j - 1])]
      BY <3>2, <3>3
    <3> QED
      BY <2>1, <3>4
  <2>4. 0..n \subseteq A
    BY <2>2, <2>3, UpTo
  <2> QED
    BY <2>1, <2>4
<1>6. PICK g : /\ g = Levels(g)
               /\ Made(l, t, asked, access, place, fn, ctx)
                    = g[t.level][[q |-> asked, access |-> access, place |-> place]]
  <2>1. PICK g : g = CHOOSE f : f = Levels(f)
    OBVIOUS
  <2>2. g = Levels(g)
    BY <1>2, <1>5, <2>1
  <2>3. Made(l, t, asked, access, place, fn, ctx)
          = g[t.level][[q |-> asked, access |-> access, place |-> place]]
    BY <2>1 DEF Made, Level
  <2> QED
    BY <2>2, <2>3
<1>7. \A k \in 0..n : g[k] = Level(k, g[k - 1])
  BY <1>2, <1>6
<1> DEFINE Right(k, P) == \A x \in Wanted(k) : \A r \in P[x] :
                            NewIn(l, At(k), x.q, x.access, ctx.free, r)
<1>8. ASSUME NEW k \in 0..n, NEW P, k > 0 => Right(k - 1, P)
      PROVE  Right(k, Level(k, P))
  <2> SUFFICES ASSUME NEW x \in Wanted(k), NEW r \in WithPointees(l, At(k), x, P, fn, ctx)
               PROVE  NewIn(l, At(k), x.q, x.access, ctx.free, r)
    BY DEF Level
  <2>1. At(k) \in program.types /\ At(k).level = k
    BY <1>3
  <2>2. k > 0 => Pointee(At(k)) = At(k - 1)
    BY <1>1 DEF Pointee
  <2>3. PICK s \in program.types : s = At(k) /\ s.level = k
    BY <2>1
  <2>4. s.level > 0 => \A y \in Wanted(s.level - 1) : \A f \in P[y] :
                         NewIn(l, Pointee(s), y.q, y.access, ctx.free, f)
    BY <1>8, <2>2, <2>3
  <2>5. x \in Wanted(s.level) /\ r \in WithPointees(l, s, x, P, fn, ctx)
    BY <2>3
  <2> HIDE DEF At, Right
  <2>6. NewIn(l, s, x.q, x.access, ctx.free, r)
    BY <2>4, <2>5, LevelKeeps
  <2> QED
    BY <2>3, <2>6
<1> HIDE DEF Right
<1>9. PICK B : B = {k \in 0..n : Right(k, g[k])}
  OBVIOUS
<1>10. 0 \in B
  BY <1>7, <1>8, <1>9
<1>11. ASSUME NEW k \in 0..n - 1, k \in B
       PROVE  k + 1 \in B
  <2>1. k + 1 \in 0..n /\ (k + 1) - 1 = k
    OBVIOUS
  <2>2. Right(k + 1, Level(k + 1, g[k]))
    BY <1>8, <1>9, <1>11, <2>1
  <2> QED
    BY <1>7, <1>9, <2>1, <2>2
<1>12. Right(t.level, g[t.level])
  <2>1. 0..n \subseteq B
    BY <1>10, <1>11, UpTo
  <2> QED
    BY <1>2, <1>9, <2>1
<1>13. At(t.level) = t
  BY <1>1
<1>14. [q |-> asked, access |-> access, place |-> place] \in Wanted(t.level)
  <2>1. asked \in [1..t.level + 1 -> Qualifier]
    BY <1>1
  <2> QED
    BY <2>1 DEF Wanted, Qualifiers
<1> QED
  BY <1>6, <1>12, <1>13, <1>14 DEF Right

\* NewVars asks for what was requested, or for anything.
LEMMA NewVarsKeeps ==
  ASSUME CountsOK, VarsOK(vs), NEW t \in program.types, NEW r \in Requests,
         r.wild \/ Len(r.q) = t.level + 1,
         NEW access \in {"read", "write"}, NEW place \in {"global", "local"},
         NEW fn \in {0, 1}, NEW ctx, ctx.exact \in BOOLEAN, ctx.free \in BOOLEAN,
         NEW m \in NewVars(t, r, access, place, fn, ctx)
  PROVE  \E q \in Seq(Qualifier) :
           /\ Len(q) = t.level + 1 /\ NewIn(vs, t, q, access, ctx.free, m)
           /\ r.wild => (Top(q).c => access # "write") /\ (Top(q).v => ctx.free)
           /\ ~r.wild => q = r.q
<1>1. t.level \in Nat /\ r.q \in Seq(Qualifier) /\ r.wild \in BOOLEAN
  BY TypeFacts DEF Requests
<1>2. program.coins \in SUBSET Qualifier
  BY SelectionConstantsOK DEF CountsOK
<1>3. CASE r.wild
  <2>1. PICK local \in BOOLEAN : local = (place = "local" /\ ~InStruct(t).v)
    BY Zenon
  <2>2. PICK q \in Random(t.level + 1, access, ctx.free, local, program.coins) :
          m \in Made(vs, t, q, access, place, fn, ctx)
    BY <1>3, <2>1 DEF NewVars
  <2>3. /\ q \in Seq(Qualifier) /\ Len(q) = t.level + 1
        /\ (Top(q).c => access # "write") /\ (Top(q).v => ctx.free)
    <3>1. t.level + 1 \in Nat \ {0}
      BY <1>1
    <3> QED
      BY <1>2, <3>1, RandomFacts
  <2> QED
    BY <1>3, <2>2, <2>3, MadeKeeps
<1>4. CASE ~r.wild
  <2>1. m \in Made(vs, t, r.q, access, place, fn, ctx)
    BY <1>4 DEF NewVars
  <2>2. Len(r.q) = t.level + 1
    BY <1>4
  <2>3. NewIn(vs, t, r.q, access, ctx.free, m)
    BY <1>1, <2>1, <2>2, MadeKeeps
  <2> QED
    BY <1>1, <1>4, <2>2, <2>3
<1> QED
  BY <1>3, <1>4

\* The initialisations of new variables are legal.
LEMMA InitialisedLegal ==
  ASSUME CountsOK, NEW l, VarsOK(l), Len(vs) \in Nat, NEW c \in Initialised(l)
  PROVE  Converts(c[1], c[2])
<1>1. PICK i \in Len(vs) + 1..Len(l) :
        l[i].to # 0 /\ c = <<l[i].q, Append(l[l[i].to].q, Plain)>>
  BY DEF Initialised
<1>2. i \in 1..Len(l)
  BY DEF VarsOK
<1>3. Converts(l[i].q, Append(l[l[i].to].q, Plain))
  BY <1>1, <1>2, VariableFacts
<1> QED
  BY <1>1, <1>3

-----------------------------------------------------------------------------
(* Expressions *)

LEMMA SelfObject ==
  ASSUME CountsOK, NEW l, VarsOK(l), NEW i \in 1..Len(l)
  PROVE  Object(l, i, 0) = i
<1>1. PICK at : Chain(at, l, i, 0) /\ Object(l, i, 0) = at[0]
  BY ObjectChain
<1> QED
  BY <1>1 DEF Chain

\* The object that an expression stands for.
LEMMA DerivedObject ==
  ASSUME CountsOK, NEW l, VarsOK(l), NEW i \in 1..Len(l), NEW n \in 0..MaxLevel,
         NEW t \in program.types, Derives(l[i], n, t), Valid(l, i, n)
  PROVE  /\ n \in 0..l[i].t.level
         /\ Object(l, i, n) \in 1..Len(l)
         /\ l[Object(l, i, n)].t = t
         /\ Below(Indirect(l[i].q, n), l[Object(l, i, n)].q)
<1>1. /\ l[i].t = [base |-> l[i].t.base, level |-> l[i].t.level] /\ l[i].t.level \in Nat
      /\ t = [base |-> t.base, level |-> t.level] /\ t.level \in Nat
  BY VariableFacts, TypeFacts
<1>2. l[i].t.base = t.base /\ l[i].t.level - n = t.level
  BY DEF Derives
<1>3. n \in 0..l[i].t.level /\ n \in Nat
  <2>1. MaxLevel \in Nat
    BY SelectionConstantsOK
  <2> QED
    BY <1>1, <1>2, <2>1
<1>4. Object(l, i, n) # 0
  <2>1. CASE n = 0
    <3>1. Object(l, i, 0) = i /\ i # 0
      BY SelfObject DEF VarsOK
    <3> QED
      BY <2>1, <3>1
  <2>2. CASE n # 0
    BY <1>3, <2>2 DEF Valid
  <2> QED
    BY <2>1, <2>2
<1>5. /\ Object(l, i, n) \in 0..Len(l)
      /\ l[Object(l, i, n)].t = [l[i].t EXCEPT !.level = @ - n]
      /\ Below(Indirect(l[i].q, n), l[Object(l, i, n)].q)
  BY <1>3, <1>4, ObjectFacts
<1>6. [l[i].t EXCEPT !.level = @ - n] = t
  <2>1. [l[i].t EXCEPT !.level = @ - n] = [base |-> l[i].t.base, level |-> l[i].t.level - n]
    BY <1>1
  <2> QED
    BY <1>1, <1>2, <2>1
<1>7. Len(l) \in Nat
  BY DEF VarsOK
<1> QED
  BY <1>3, <1>4, <1>5, <1>6, <1>7

\* A variable, dereferenced or its address, points only to what an expression
\* of its type may point to.
LEMMA ValuePoints ==
  ASSUME CountsOK, NEW l, VarsOK(l), NEW i \in 1..Len(l), NEW n \in -1..MaxLevel,
         NEW t \in program.types, Derives(l[i], n, t), Valid(l, i, n)
  PROVE  /\ Value(l, i, n) \in Expression
         /\ Value(l, i, n).var = i /\ Value(l, i, n).deref = n
         /\ Value(l, i, n).q = Indirect(l[i].q, n)
         /\ Len(Indirect(l[i].q, n)) = t.level + 1
         /\ Indirect(l[i].q, n) \in Seq(Qualifier)
         /\ Value(l, i, n).to \in 0..Len(l)
         /\ PointsAt(Value(l, i, n).q, t, Value(l, i, n).to, l)
<1>1. /\ l[i].t = [base |-> l[i].t.base, level |-> l[i].t.level] /\ l[i].t.level \in Nat
      /\ t = [base |-> t.base, level |-> t.level] /\ t.level \in Nat
      /\ l[i].q \in Seq(Qualifier) /\ Len(l[i].q) = l[i].t.level + 1
  BY VariableFacts, TypeFacts
<1>2. l[i].t.base = t.base /\ l[i].t.level - n = t.level
  BY DEF Derives
<1>3. n \in Int /\ n >= -1 /\ n < Len(l[i].q) /\ Len(l[i].q) - n = t.level + 1 /\ Len(l) \in Nat
  <2>1. MaxLevel \in Nat /\ Len(l) \in Nat
    BY SelectionConstantsOK DEF VarsOK
  <2> QED
    BY <1>1, <1>2, <2>1
<1>4. /\ Indirect(l[i].q, n) \in Seq(Qualifier) /\ Len(Indirect(l[i].q, n)) = t.level + 1
      /\ n = -1 => Indirect(l[i].q, n) = Append(l[i].q, Plain)
  BY <1>1, <1>3, IndirectFacts
<1>5. PICK to : to = IF n < 0 THEN i ELSE l[Object(l, i, n)].to
  OBVIOUS
<1>6. Value(l, i, n) = [var |-> i, deref |-> n, q |-> Indirect(l[i].q, n), to |-> to]
  BY <1>5 DEF Value
<1>7. to \in 0..Len(l) /\ PointsAt(Indirect(l[i].q, n), t, to, l)
  <2>1. CASE n = -1
    <3>1. to = i /\ Pointee(t) = l[i].t
      <4>1. Pointee(t) = [base |-> t.base, level |-> t.level - 1]
        BY <1>1 DEF Pointee
      <4>2. l[i].t.level = t.level - 1 /\ n < 0
        BY <1>1, <1>2, <2>1
      <4> QED
        BY <1>1, <1>2, <1>5, <4>1, <4>2
    <3>2. to \in 1..Len(l) /\ to \in 0..Len(l)
      BY <1>3, <3>1
    <3>3. Converts(Indirect(l[i].q, n), Append(l[to].q, Plain))
      BY <1>4, <2>1, <3>1, ConvertsReflexive
    <3> QED
      BY <3>1, <3>2, <3>3 DEF PointsAt
  <2>2. CASE n # -1
    <3>1. n \in 0..MaxLevel /\ ~(n < 0)
      BY <1>3, <2>2
    <3>2. PICK o \in 1..Len(l) : /\ o = Object(l, i, n) /\ l[o].t = t
                                 /\ Below(Indirect(l[i].q, n), l[o].q)
      BY <3>1, DerivedObject
    <3>3. to = l[o].to
      BY <1>5, <3>1, <3>2
    <3>4. /\ to \in 0..Len(l)
          /\ to # 0 => /\ l[to].t = Pointee(t)
                       /\ Converts(l[o].q, Append(l[to].q, Plain))
      BY <3>2, <3>3, VariableFacts
    <3>5. SameBelow(l[o].q, Indirect(l[i].q, n))
      BY <3>2, TopIsFree DEF Below
    <3>6. to # 0 => Converts(Indirect(l[i].q, n), Append(l[to].q, Plain))
      BY <3>4, <3>5, TopIsFree
    <3> QED
      BY <1>3, <3>4, <3>6 DEF PointsAt
  <2> QED
    BY <2>1, <2>2
<1>8. i \in Nat /\ to \in Nat
  BY <1>3, <1>7
<1> QED
  BY <1>3, <1>4, <1>6, <1>7, <1>8 DEF Expression

LEMMA NotEmpty ==
  ASSUME NEW q \in Seq(Qualifier), Len(q) > 0
  PROVE  q # <<>>
OBVIOUS

\* A variable that was read answers the request it was selected for.
LEMMA ReadAnswers ==
  ASSUME CountsOK, NEW l, VarsOK(l), NEW i \in 1..Len(l), NEW n \in -1..MaxLevel,
         NEW t \in program.types, Derives(l[i], n, t), Valid(l, i, n),
         NEW r, r.wild \/ Converts(r.q, Indirect(l[i].q, n))
  PROVE  Answers(Value(l, i, n), t, r, l)
<1>1. PICK e \in Expression :
        /\ e = Value(l, i, n) /\ e.var = i /\ e.deref = n /\ e.q = Indirect(l[i].q, n)
        /\ Len(e.q) = t.level + 1 /\ e.q \in Seq(Qualifier)
        /\ PointsAt(e.q, t, e.to, l)
  BY ValuePoints
<1>2. e.q # <<>>
  BY <1>1, TypeFacts, NotEmpty
<1>3. Names(e, t, l)
  BY <1>1 DEF Names
<1> QED
  BY <1>1, <1>2, <1>3 DEF Answers

LEMMA AnswersWeaker ==
  ASSUME NEW e, NEW t, NEW l, NEW p, NEW r, Answers(e, t, p, l), Implies(p, r)
  PROVE  Answers(e, t, r, l)
<1>1. ASSUME e.q # <<>>
      PROVE  r.wild \/ Converts(r.q, e.q)
  BY <1>1, ConvertsTransitive DEF Answers, Implies
<1> QED
  BY <1>1 DEF Answers

LEMMA AnswersGrown ==
  ASSUME NEW a \in Seq(Variable), NEW b \in Seq(Variable), Grown(a, b),
         NEW e, NEW t, NEW r, Answers(e, t, r, a)
  PROVE  Answers(e, t, r, b)
<1>1. ASSUME e.q # <<>>
      PROVE  PointsAt(e.q, t, e.to, b)
  BY <1>1, PointsAtGrown DEF Answers
<1>2. ASSUME e.q # <<>>, e.var # 0
      PROVE  Names(e, t, b)
  <2>1. Names(e, t, a)
    BY <1>2 DEF Answers
  <2>2. e.var \in 1..Len(b) /\ b[e.var].t = a[e.var].t /\ b[e.var].q = a[e.var].q
    BY <2>1 DEF Names, Grown
  <2> QED
    BY <2>1, <2>2 DEF Names, Derives
<1> QED
  BY <1>1, <1>2 DEF Answers

-----------------------------------------------------------------------------
(* The work left *)

LEMMA SameSequence ==
  ASSUME NEW S, NEW a \in Seq(S), NEW b \in Seq(S), Len(a) = Len(b),
         \A i \in 1..Len(a) : a[i] = b[i]
  PROVE  a = b
<1>1. PICK n \in Nat : n = Len(a) /\ a \in [1..n -> S] /\ b \in [1..n -> S]
  OBVIOUS
<1> QED
  BY <1>1

LEMMA LinkedTail ==
  ASSUME NEW G, NEW E, NEW s, Linked(s, G, E), s # <<>>
  PROVE  /\ Linked(Tail(s), G, E) /\ s[1] \in G
         /\ Tail(s) # <<>> => Tail(s)[1] \in G /\ <<s[1], Tail(s)[1]>> \in E
<1>1. s \in Seq(G) /\ Len(s) \in Nat /\ Len(s) > 0
  BY DEF Linked
<1>2. PICK r \in Seq(G) :
        /\ r = Tail(s) /\ Len(r) = Len(s) - 1
        /\ \A j \in 1..Len(r) : r[j] = s[j + 1]
  <2>1. Tail(s) \in Seq(G) /\ Len(Tail(s)) = Len(s) - 1
    BY <1>1
  <2>2. \A j \in 1..Len(s) - 1 : Tail(s)[j] = s[j + 1]
    BY <1>1
  <2> QED
    BY <2>1, <2>2
<1>3. ASSUME NEW j \in 1..Len(r) - 1
      PROVE  <<r[j], r[j + 1]>> \in E
  <2>1. j \in 1..Len(r) /\ j + 1 \in 1..Len(r) /\ j + 1 \in 1..Len(s) - 1
    BY <1>1, <1>2
  <2>2. r[j] = s[j + 1] /\ r[j + 1] = s[(j + 1) + 1]
    BY <1>2, <2>1
  <2> QED
    BY <2>1, <2>2 DEF Linked
<1>4. ASSUME r # <<>>
      PROVE  r[1] \in G /\ <<s[1], r[1]>> \in E
  <2>1. Len(r) > 0 /\ 1 \in 1..Len(r) /\ 1 \in 1..Len(s) - 1
    BY <1>1, <1>2, <1>4
  <2>2. r[1] = s[1 + 1]
    BY <1>2, <2>1
  <2> QED
    BY <1>2, <2>1, <2>2 DEF Linked
<1>5. s[1] \in G
  BY <1>1
<1> QED
  BY <1>2, <1>3, <1>4, <1>5 DEF Linked

LEMMA LinkedOne ==
  ASSUME NEW G, NEW E, NEW s, Linked(s, G, E), NEW x \in G, s # <<>> => <<x, s[1]>> \in E
  PROVE  Linked(<<x>> \o s, G, E) /\ (<<x>> \o s)[1] = x /\ <<x>> \o s # <<>>
<1>1. s \in Seq(G) /\ Len(s) \in Nat
  BY DEF Linked
<1>2. PICK r \in Seq(G) :
        /\ r = <<x>> \o s /\ Len(r) = Len(s) + 1 /\ r[1] = x
        /\ \A j \in 1..Len(s) : r[j + 1] = s[j]
  <2>1. <<x>> \o s \in Seq(G) /\ Len(<<x>> \o s) = Len(s) + 1 /\ (<<x>> \o s)[1] = x
    BY <1>1
  <2>2. \A j \in 1..Len(s) : (<<x>> \o s)[j + 1] = s[j]
    BY <1>1
  <2> QED
    BY <2>1, <2>2
<1>3. ASSUME NEW j \in 1..Len(r) - 1
      PROVE  <<r[j], r[j + 1]>> \in E
  <2>1. j \in 1..Len(s) /\ r[j + 1] = s[j]
    BY <1>1, <1>2
  <2>2. CASE j = 1
    <3>1. s # <<>>
      BY <1>1, <2>1
    <3> QED
      BY <1>2, <2>1, <2>2, <3>1
  <2>3. CASE j # 1
    <3>1. j - 1 \in 1..Len(s) - 1 /\ (j - 1) + 1 = j /\ j - 1 \in 1..Len(s)
      BY <1>1, <2>1, <2>3
    <3>2. r[j] = s[j - 1]
      BY <1>2, <3>1
    <3>3. <<s[j - 1], s[(j - 1) + 1]>> \in E
      BY <3>1 DEF Linked
    <3> QED
      BY <2>1, <3>1, <3>2, <3>3
  <2> QED
    BY <2>2, <2>3
<1>4. r # <<>>
  BY <1>1, <1>2
<1> QED
  BY <1>2, <1>3, <1>4 DEF Linked

LEMMA LinkedTwo ==
  ASSUME NEW G, NEW E, NEW s, Linked(s, G, E), NEW x \in G, NEW y \in G, <<x, y>> \in E,
         s # <<>> => <<y, s[1]>> \in E
  PROVE  Linked(<<x, y>> \o s, G, E) /\ (<<x, y>> \o s)[1] = x /\ <<x, y>> \o s # <<>>
<1>1. s \in Seq(G) /\ Len(s) \in Nat
  BY DEF Linked
<1>2. PICK r \in Seq(G) :
        /\ r = <<x, y>> \o s /\ Len(r) = Len(s) + 2 /\ r[1] = x /\ r[2] = y
        /\ \A j \in 1..Len(s) : r[j + 2] = s[j]
  <2>1. /\ <<x, y>> \o s \in Seq(G) /\ Len(<<x, y>> \o s) = Len(s) + 2
        /\ (<<x, y>> \o s)[1] = x /\ (<<x, y>> \o s)[2] = y
    BY <1>1
  <2>2. \A j \in 1..Len(s) : (<<x, y>> \o s)[j + 2] = s[j]
    BY <1>1
  <2> QED
    BY <2>1, <2>2
<1>3. ASSUME NEW j \in 1..Len(r) - 1
      PROVE  <<r[j], r[j + 1]>> \in E
  <2>1. CASE j = 1
    BY <1>2, <2>1
  <2>2. CASE j = 2
    <3>1. s # <<>> /\ 1 \in 1..Len(s) /\ j + 1 = 1 + 2
      BY <1>1, <1>2, <2>2
    <3>2. r[j + 1] = s[1]
      BY <1>2, <3>1
    <3> QED
      BY <1>2, <2>2, <3>1, <3>2
  <2>3. CASE j # 1 /\ j # 2
    <3>1. /\ j - 2 \in 1..Len(s) - 1 /\ j - 2 \in 1..Len(s) /\ j - 1 \in 1..Len(s)
          /\ (j - 2) + 2 = j /\ (j - 1) + 2 = j + 1 /\ (j - 2) + 1 = j - 1
      BY <1>1, <1>2, <2>3
    <3>2. r[j] = s[j - 2] /\ r[j + 1] = s[j - 1]
      BY <1>2, <3>1
    <3>3. <<s[j - 2], s[(j - 2) + 1]>> \in E
      BY <3>1 DEF Linked
    <3> QED
      BY <3>1, <3>2, <3>3
  <2> QED
    BY <2>1, <2>2, <2>3
<1>4. r # <<>>
  BY <1>1, <1>2
<1> QED
  BY <1>2, <1>3, <1>4 DEF Linked

LEMMA LinkedMore ==
  ASSUME NEW G, NEW E, NEW H, NEW F, G \subseteq H, E \subseteq F, NEW s, Linked(s, G, E)
  PROVE  Linked(s, H, F)
<1>1. s \in Seq(G)
  BY DEF Linked
<1>2. s \in Seq(H)
  BY <1>1
<1> QED
  BY <1>2 DEF Linked

\* What is left to do stays right while variables are added, and when the
\* function is made or its body is done.
FuncKept ==
  func # NoFunc =>
    /\ func' # NoFunc /\ func'.t = func.t /\ func'.rv = func.rv /\ func'.param = func.param
    /\ func.var # 0 => func'.var # 0

LEMMA ContextKept ==
  ASSUME CountsOK, FuncOK, UNCHANGED <<program, field>>, Grown(vs, vs'), FuncKept
  PROVE  /\ Good \subseteq Good' /\ Served \subseteq Served'
         /\ \A x \in Good : Uses(x)' = Uses(x)
         /\ \A x \in Good : LeftType(x)' = LeftType(x) /\ LeftRequest(x)' = LeftRequest(x)
         /\ \A x \in Good : Uses(x) => /\ UsedType(x)' = UsedType(x)
                                       /\ UsedRequest(x)' = UsedRequest(x)
<1>1. Item' = Item
  BY DEF Item
<1>2. ASSUME NEW x \in Item, ItemOK(x)
      PROVE  ItemOK(x)'
  BY <1>2 DEF ItemOK, InStruct, FuncKept, Request, AssignOps, NoneVolatile
<1>3. Good \subseteq Good'
  BY <1>1, <1>2 DEF Good
<1>4. ASSUME NEW x \in Good
      PROVE  LeftType(x)' = LeftType(x) /\ LeftRequest(x)' = LeftRequest(x)
  BY <1>4 DEF Good, ItemOK, LeftType, LeftRequest, FuncKept
<1>5. ASSUME NEW x \in Good, Uses(x)
      PROVE  UsedType(x)' = UsedType(x) /\ UsedRequest(x)' = UsedRequest(x)
  <2>1. CASE x.do = "lhs"
    BY <2>1 DEF UsedType, UsedRequest
  <2>2. CASE x.do = "return"
    BY <2>2 DEF UsedType, UsedRequest, Good, ItemOK, FuncKept
  <2>3. CASE x.do = "call"
    <3>1. func # NoFunc
      BY <2>3 DEF Good, ItemOK
    <3>2. func'.param = func.param /\ func.param \in 1..Len(vs)
      BY <3>1 DEF FuncKept, FuncOK
    <3>3. vs'[func'.param].t = vs[func.param].t /\ vs'[func'.param].q = vs[func.param].q
      BY <3>2 DEF Grown
    <3> QED
      BY <2>3, <3>3 DEF UsedType, UsedRequest
  <2> QED
    BY <1>5, <2>1, <2>2, <2>3 DEF Uses
<1>6. \A x \in Good : Uses(x)' = Uses(x)
  BY DEF Uses
<1>7. ASSUME NEW p \in Served
      PROVE  p \in Served'
  <2>1. PICK x \in Good, y \in Good : p = <<x, y>> /\ Serves(x, y)
    BY DEF Served
  <2>2. Serves(x, y)'
    BY <1>4, <1>5, <1>6, <2>1 DEF Serves
  <2> QED
    BY <1>3, <2>1, <2>2 DEF Served
<1> QED
  BY <1>3, <1>4, <1>5, <1>6, <1>7

-----------------------------------------------------------------------------
(* What all steps have in common *)

LEMMA WorkFacts ==
  ASSUME CountsOK, NEW x \in Good
  PROVE  /\ x.do \in {"expr", "lhs", "call"} =>
              /\ x.t \in program.types /\ x.r \in Requests /\ Request(x.r, x.t)
              /\ x.fn \in {0, 1} /\ x.free \in BOOLEAN /\ (InStruct(x.t).v => x.free)
         /\ x.do = "body" => x.free \in BOOLEAN
         /\ x.do = "expr" => x.as \in {"value", "param", "return", "variable"}
         /\ x.do = "lhs" => /\ x.given \in BOOLEAN /\ x.given = ~x.r.wild /\ ~InStruct(x.t).c
                            /\ x.op \in AssignOps(x.t)
         /\ x.do = "call" => /\ x.new \in BOOLEAN /\ func # NoFunc /\ x.t = func.t
                             /\ x.r.wild \/ Converts(x.r.q, func.rv)
                             /\ x.new \/ func.var # 0
         /\ x.do = "return" => func # NoFunc
<1>1. x \in Item /\ ItemOK(x)
  BY DEF Good
<1>2. CASE x.do = "body"
  BY <1>1, <1>2 DEF Item
<1>3. CASE x.do = "expr"
  BY <1>1, <1>3 DEF Item, ItemOK
<1>4. CASE x.do = "lhs"
  BY <1>1, <1>4 DEF Item, ItemOK
<1>5. CASE x.do = "call"
  BY <1>1, <1>5 DEF Item, ItemOK
<1>6. CASE x.do = "return"
  BY <1>1, <1>6 DEF Item, ItemOK
<1>7. x.do \in {"body", "expr", "lhs", "call", "return"}
  BY <1>1 DEF Item
<1> QED
  BY <1>2, <1>3, <1>4, <1>5, <1>6, <1>7

LEMMA RequestLength ==
  ASSUME NEW t, NEW r, Request(r, t)
  PROVE  /\ r.wild \/ Len(r.q) = t.level + 1
         /\ ~r.wild => ~r.strict /\ NoneVolatile(r.q)
BY DEF Request, Anything

\* The work that comes first, and what comes after it.
LEMMA FirstWork ==
  ASSUME IInv, todo # <<>>
  PROVE  /\ Now \in Good /\ Linked(Later, Good, Served)
         /\ Later # <<>> => Later[1] \in Good /\ Serves(Now, Later[1])
<1>1. Linked(todo, Good, Served)
  BY DEF IInv, TodoOK
<1>2. /\ Linked(Later, Good, Served) /\ Now \in Good
      /\ Later # <<>> => Later[1] \in Good /\ <<Now, Later[1]>> \in Served
  BY <1>1, LinkedTail DEF Later, Now
<1> QED
  BY <1>2 DEF Served

\* A step that finishes the work that comes first, and leaves an expression
\* that answers it.
LEMMA DoneKeeps ==
  ASSUME IInv, todo # <<>>, UNCHANGED <<program, field>>, VarsOK(vs'), Grown(vs, vs'), FuncKept,
         todo' = Later, Now.do # "body",
         Answers(res', LeftType(Now), LeftRequest(Now), vs'), res'.to \in 0..Len(vs'),
         Now.do = "expr" /\ Now.as = "return" => res'.var # 0
  PROVE  TodoOK' /\ ResOK'
<1>1. /\ Good \subseteq Good' /\ Served \subseteq Served'
      /\ \A x \in Good : Uses(x)' = Uses(x)
      /\ \A x \in Good : Uses(x) => /\ UsedType(x)' = UsedType(x)
                                    /\ UsedRequest(x)' = UsedRequest(x)
  BY ContextKept DEF IInv
<1>2. /\ Linked(Later, Good, Served)
      /\ Later # <<>> => Later[1] \in Good /\ Serves(Now, Later[1])
  BY FirstWork
<1>3. TodoOK'
  BY <1>1, <1>2, LinkedMore DEF TodoOK
<1>4. ASSUME Later # <<>>, Uses(Later[1])
      PROVE  /\ Answers(res', UsedType(Later[1]), UsedRequest(Later[1]), vs')
             /\ Later[1].do = "return" => res'.var # 0
  <2>1. /\ LeftType(Now) = UsedType(Later[1])
        /\ Implies(LeftRequest(Now), UsedRequest(Later[1]))
        /\ Later[1].do = "return" => Now.do = "expr" /\ Now.as = "return"
    BY <1>2, <1>4 DEF Serves
  <2> QED
    BY <2>1, AnswersWeaker
<1>5. Now' = Later[1]
  BY DEF Now
<1>6. todo' # <<>> /\ Uses(Now)' =>
        /\ Answers(res', UsedType(Now)', UsedRequest(Now)', vs')
        /\ Now'.do = "return" => res'.var # 0
  <2> SUFFICES ASSUME todo' # <<>>, Uses(Now)'
               PROVE  /\ Answers(res', UsedType(Now)', UsedRequest(Now)', vs')
                      /\ Now'.do = "return" => res'.var # 0
    OBVIOUS
  <2>1. PICK y \in Good : y = Later[1] /\ y = Now'
    BY <1>2, <1>5
  <2>2. Uses(y) /\ UsedType(Now)' = UsedType(y) /\ UsedRequest(Now)' = UsedRequest(y)
    <3>1. Uses(Now)' = Uses(y)' /\ UsedType(Now)' = UsedType(y)'
          /\ UsedRequest(Now)' = UsedRequest(y)'
      BY <2>1 DEF Uses, UsedType, UsedRequest
    <3> QED
      BY <1>1, <2>1, <3>1
  <2> QED
    BY <1>4, <2>1, <2>2
<1>7. res' \in Expression
  BY DEF Answers
<1> QED
  BY <1>3, <1>6, <1>7 DEF ResOK

\* A step after which the same work is left, though variables were made.
LEMMA StayKeeps ==
  ASSUME IInv, todo # <<>>, UNCHANGED <<program, field>>, VarsOK(vs'), Grown(vs, vs'), FuncKept,
         todo' = todo, res' = res
  PROVE  TodoOK' /\ ResOK'
<1>1. /\ Good \subseteq Good' /\ Served \subseteq Served'
      /\ \A x \in Good : Uses(x)' = Uses(x)
      /\ \A x \in Good : Uses(x) => /\ UsedType(x)' = UsedType(x)
                                    /\ UsedRequest(x)' = UsedRequest(x)
  BY ContextKept DEF IInv
<1>2. TodoOK'
  <2>1. Linked(todo, Good, Served)
    BY DEF IInv, TodoOK
  <2> QED
    BY <1>1, <2>1, LinkedMore DEF TodoOK
<1>3. PICK y \in Good : y = Now /\ y = Now'
  BY FirstWork DEF Now
<1>4. Uses(Now)' = Uses(y) /\ (Uses(y) => /\ UsedType(Now)' = UsedType(y)
                                          /\ UsedRequest(Now)' = UsedRequest(y))
  <2>1. Uses(Now)' = Uses(y)' /\ UsedType(Now)' = UsedType(y)'
        /\ UsedRequest(Now)' = UsedRequest(y)'
    BY <1>3 DEF Uses, UsedType, UsedRequest
  <2> QED
    BY <1>1, <1>3, <2>1
<1>5. vs \in Seq(Variable) /\ vs' \in Seq(Variable) /\ Len(vs) \in Nat /\ Len(vs') \in Nat
      /\ Len(vs) <= Len(vs')
  BY DEF IInv, VarsOK, Grown
<1>6. /\ res \in Expression /\ res.to \in 0..Len(vs)
      /\ Uses(y) => /\ Answers(res, UsedType(y), UsedRequest(y), vs)
                    /\ y.do = "return" => res.var # 0
  BY <1>3 DEF IInv, ResOK
<1>7. Uses(y) => Answers(res', UsedType(y), UsedRequest(y), vs')
  BY <1>5, <1>6, AnswersGrown
<1>8. res'.to \in 0..Len(vs')
  BY <1>5, <1>6
<1> QED
  BY <1>2, <1>3, <1>4, <1>6, <1>7, <1>8 DEF ResOK

LEMMA ConstantAnswers ==
  ASSUME NEW t, NEW r, NEW l
  PROVE  Answers(Constant, t, r, l)
<1>1. <<>> \in Seq(Qualifier)
  OBVIOUS
<1>2. Constant \in Expression
  BY <1>1 DEF Constant, Expression
<1> QED
  BY <1>2 DEF Answers, Constant

\* A step that puts more work before the rest: first an expression, or a
\* left-hand side that has no right-hand side.
LEMMA PushKeeps ==
  ASSUME NEW s, Linked(s, Good', Served'), todo' = s, todo' # <<>>,
         Now'.do \in {"expr", "lhs", "body"}, res' = Constant, Len(vs') \in Nat
  PROVE  TodoOK' /\ ResOK'
<1>1. TodoOK'
  BY DEF TodoOK
<1>2. Answers(Constant, UsedType(Now)', UsedRequest(Now)', vs')
  BY ConstantAnswers
<1>3. res' \in Expression /\ res'.to \in 0..Len(vs')
  BY <1>2 DEF Answers, Constant
<1> QED
  BY <1>1, <1>2, <1>3 DEF ResOK

LEMMA FuncStays ==
  ASSUME FuncOK, UNCHANGED <<program, field, func>>, Grown(vs, vs'),
         Len(vs) \in Nat, Len(vs') \in Nat
  PROVE  FuncOK' /\ FuncKept
<1>1. FuncKept
  BY DEF FuncKept
<1> SUFFICES ASSUME func # NoFunc
             PROVE  FuncOK'
  BY <1>1 DEF FuncOK
<1>2. func.param \in 1..Len(vs') /\ vs'[func.param].t = vs[func.param].t
      /\ vs'[func.param].q = vs[func.param].q
  BY DEF FuncOK, Grown
<1>3. ASSUME func.var # 0
      PROVE  LET e == [var |-> func.var, deref |-> func.deref,
                       q |-> Indirect(vs'[func.var].q, func.deref), to |-> 0]
             IN Names(e, func.t, vs') /\ Converts(func.rv, e.q)
  <2>1. func.var \in 1..Len(vs)
    BY <1>3 DEF FuncOK, Names
  <2>2. func.var \in 1..Len(vs') /\ vs'[func.var].t = vs[func.var].t
        /\ vs'[func.var].q = vs[func.var].q
    BY <2>1 DEF Grown
  <2> QED
    BY <1>3, <2>2 DEF FuncOK, Names, Derives
<1>4. func \in Function' /\ Len(func.rv) = func.t.level + 1 /\ NoneVolatile(func.rv)
  BY DEF FuncOK, Function
<1>5. ~InStruct(vs[func.param].t)'.v /\ NoneVolatile(vs'[func.param].q)
  <2>1. ~InStruct(vs[func.param].t).v /\ NoneVolatile(vs[func.param].q)
    BY DEF FuncOK
  <2>2. InStruct(vs[func.param].t)' = InStruct(vs[func.param].t)
    BY <1>2 DEF InStruct
  <2> QED
    BY <1>2, <2>1, <2>2
<1> QED
  BY <1>2, <1>3, <1>4, <1>5 DEF FuncOK, InStruct

LEMMA SameGrown ==
  ASSUME IInv, vs' = vs, UNCHANGED program
  PROVE  Grown(vs, vs') /\ VarsOK(vs') /\ VarsOK(vs)' /\ Len(vs') \in Nat
<1>1. Len(vs) \in Nat
  BY DEF IInv, VarsOK
<1> QED
  BY <1>1 DEF IInv, VarsOK, Grown, Variable

-----------------------------------------------------------------------------
(* Assignments and expressions *)

\* What is checked of the last step.
LastOK == ConstNeverWritten /\ ConversionsLegal /\ AssertionsHold

LEMMA NothingWritten ==
  ASSUME last'.wrote = 0, last'.fits, \A c \in last'.converts : Converts(c[1], c[2])
  PROVE  LastOK'
BY DEF LastOK, ConstNeverWritten, ConversionsLegal, AssertionsHold

LEMMA QuietKeeps ==
  ASSUME last' = Quiet
  PROVE  LastOK'
BY NothingWritten DEF Quiet

LEMMA AssignmentLinked ==
  ASSUME CountsOK, NEW t \in program.types, NEW r \in Requests, Request(r, t),
         NEW given \in BOOLEAN, given <=> ~r.wild, NEW op \in AssignOps(t), NEW fn \in {0, 1},
         NEW free \in BOOLEAN, InStruct(t).v => free, ~InStruct(t).c,
         NEW s, Linked(s, Good, Served),
         s # <<>> => s[1] \in Good /\ Serves(Lhs(t, r, given, op, fn, free), s[1])
  PROVE  LET a == Assignment(t, r, given, op, fn, free) \o s
         IN Linked(a, Good, Served) /\ a # <<>> /\ a[1].do \in {"expr", "lhs"}
<1>1. op \in {"simple", "compound", "incr"}
  BY DEF AssignOps
<1>2. PICK x : x = Expr(t, r, "value", fn, free)
  OBVIOUS
<1>3. PICK y : y = Lhs(t, r, given, op, fn, free)
  OBVIOUS
<1>4. x \in Good
  BY <1>2 DEF Good, Item, ItemOK, Expr
<1>5. y \in Good
  BY <1>1, <1>3 DEF Good, Item, ItemOK, Lhs
<1>6. <<x, y>> \in Served
  <2>1. Implies(r, r)
    <3>1. Converts(r.q, r.q)
      BY ConvertsReflexive
    <3> QED
      BY <3>1 DEF Implies
  <2>2. Serves(x, y)
    BY <1>2, <1>3, <2>1
       DEF Serves, Uses, LeftType, LeftRequest, UsedType, UsedRequest, Expr, Lhs
  <2> QED
    BY <1>4, <1>5, <2>2 DEF Served
<1>7. s # <<>> => <<y, s[1]>> \in Served
  BY <1>3, <1>5 DEF Served
<1>8. s \in Seq(Good)
  BY DEF Linked
<1>9. CASE op = "incr"
  <2>1. Assignment(t, r, given, op, fn, free) = <<y>>
    <3>1. <<>> \o <<y>> = <<y>>
      OBVIOUS
    <3> QED
      BY <1>3, <1>9, <3>1 DEF Assignment
  <2>2. Linked(<<y>> \o s, Good, Served) /\ (<<y>> \o s)[1] = y /\ <<y>> \o s # <<>>
    BY <1>5, <1>7, LinkedOne
  <2> QED
    BY <1>3, <2>1, <2>2 DEF Lhs
<1>10. CASE op # "incr"
  <2>1. Assignment(t, r, given, op, fn, free) = <<x, y>>
    <3>1. PICK a \in Seq(Good), b \in Seq(Good) :
            /\ a = <<x>> \o <<y>> /\ b = <<x, y>> /\ Len(a) = Len(b)
            /\ \A i \in 1..Len(a) : a[i] = b[i]
      <4>1. /\ <<x>> \o <<y>> \in Seq(Good) /\ <<x, y>> \in Seq(Good)
            /\ Len(<<x>> \o <<y>>) = 2 /\ Len(<<x, y>>) = 2
        BY <1>4, <1>5
      <4>2. /\ (<<x>> \o <<y>>)[1] = x /\ (<<x>> \o <<y>>)[2] = y
            /\ <<x, y>>[1] = x /\ <<x, y>>[2] = y
        BY <1>4, <1>5
      <4>3. \A i \in 1..2 : i = 1 \/ i = 2
        OBVIOUS
      <4>4. \A i \in 1..2 : (<<x>> \o <<y>>)[i] = <<x, y>>[i]
        BY <4>2, <4>3, Zenon
      <4> QED
        BY <4>1, <4>4, Zenon
    <3>2. a = b
      BY <3>1, SameSequence, Zenon
    <3> QED
      BY <1>2, <1>3, <1>10, <3>1, <3>2 DEF Assignment
  <2>2. Linked(<<x, y>> \o s, Good, Served) /\ (<<x, y>> \o s)[1] = x /\ <<x, y>> \o s # <<>>
    BY <1>4, <1>5, <1>6, <1>7, LinkedTwo
  <2> QED
    BY <1>2, <2>1, <2>2 DEF Expr
<1> QED
  BY <1>9, <1>10

LEMMA CountKept ==
  ASSUME IInv, program' = program, field' = field, Len(vs') <= MaxVars,
         work' = work \/ (work < MaxWork /\ work' = work + 1)
  PROVE  CountsOK'
<1>1. MaxWork \in Nat
  BY SelectionConstantsOK
<1> QED
  BY <1>1 DEF IInv, CountsOK

\* Steps that only push work.
LEMMA PushedWork ==
  ASSUME IInv, UNCHANGED <<program, field, vs, func>>,
         work' = work \/ (work < MaxWork /\ work' = work + 1),
         res' = Constant, last' = Quiet,
         Linked(todo', Good, Served), todo' # <<>>, Now'.do \in {"expr", "lhs"}
  PROVE  IInv' /\ LastOK'
<1>1. Grown(vs, vs') /\ VarsOK(vs)' /\ Len(vs') \in Nat /\ Len(vs) \in Nat
  BY SameGrown
<1>2. FuncOK' /\ FuncKept
  BY <1>1, FuncStays DEF IInv
<1>3. Good \subseteq Good' /\ Served \subseteq Served'
  BY <1>1, <1>2, ContextKept DEF IInv
<1>4. Linked(todo', Good', Served')
  BY <1>3, LinkedMore
<1>5. TodoOK' /\ ResOK'
  BY <1>1, <1>4, PushKeeps
<1>6. CountsOK'
  <2>1. Len(vs') <= MaxVars
    BY DEF IInv, CountsOK
  <2> QED
    BY <2>1, CountKept
<1> QED
  BY <1>1, <1>2, <1>5, <1>6, QuietKeeps DEF IInv

\* The work that comes first, as what it is.
LEMMA ExprWork ==
  ASSUME IInv, Doing("expr")
  PROVE  /\ todo # <<>> /\ Now.do = "expr" /\ CountsOK
         /\ Now.t \in program.types /\ Now.r \in Requests /\ Request(Now.r, Now.t)
         /\ Now.fn \in {0, 1} /\ Now.free \in BOOLEAN /\ (InStruct(Now.t).v => Now.free)
         /\ LeftType(Now) = Now.t /\ LeftRequest(Now) = Now.r
         /\ Linked(Later, Good, Served)
         /\ Later # <<>> => Later[1] \in Good /\ Serves(Now, Later[1])
<1>1. todo # <<>> /\ Now.do = "expr" /\ CountsOK
  BY DEF Doing, IInv
<1>2. /\ Now \in Good /\ Linked(Later, Good, Served)
      /\ Later # <<>> => Later[1] \in Good /\ Serves(Now, Later[1])
  BY <1>1, FirstWork
<1>3. PICK x \in Good : x = Now /\ x.do = "expr"
  BY <1>1, <1>2
<1>4. /\ x.t \in program.types /\ x.r \in Requests /\ Request(x.r, x.t)
      /\ x.fn \in {0, 1} /\ x.free \in BOOLEAN /\ (InStruct(x.t).v => x.free)
  BY <1>1, <1>3, WorkFacts, Zenon
<1>5. LeftType(Now) = Now.t /\ LeftRequest(Now) = Now.r
  BY <1>1 DEF LeftType, LeftRequest
<1> QED
  BY <1>1, <1>2, <1>3, <1>4, <1>5

LEMMA AssignKeeps ==
  ASSUME IInv, Assign
  PROVE  IInv' /\ LastOK'
<1>1. todo # <<>> /\ Now.do = "body" /\ work < MaxWork /\ work' = work + 1
  BY DEF Assign, Doing
<1>12. PICK t \in LTypes(Now.free) : \E op \in AssignOps(t) :
         todo' = Assignment(t, Anything, FALSE, op, 0, Now.free) \o todo
  BY DEF Assign
<1>2. PICK op \in AssignOps(t) : todo' = Assignment(t, Anything, FALSE, op, 0, Now.free) \o todo
  BY <1>12
<1>3. Now \in Good /\ Linked(todo, Good, Served) /\ CountsOK
  BY <1>1, FirstWork DEF IInv, TodoOK
<1>4. Now.free \in BOOLEAN
  BY <1>1, <1>3, WorkFacts
<1>5. t \in program.types /\ ~InStruct(t).c /\ (InStruct(t).v => Now.free)
  BY <1>12 DEF LTypes
<1>6. Anything \in Requests /\ Request(Anything, t) /\ (FALSE <=> ~Anything.wild)
  <2>1. <<>> \in Seq(Qualifier)
    OBVIOUS
  <2> QED
    BY <2>1 DEF Anything, Requests, Request
<1>7. todo[1] \in Good /\ Serves(Lhs(t, Anything, FALSE, op, 0, Now.free), todo[1])
  BY <1>1, <1>3 DEF Serves, Uses, Now
<1>8. /\ Linked(todo', Good, Served) /\ todo' # <<>> /\ todo'[1].do \in {"expr", "lhs"}
  BY <1>2, <1>3, <1>4, <1>5, <1>6, <1>7, AssignmentLinked
<1> QED
  BY <1>1, <1>8, PushedWork DEF Assign, Now

LEMMA EmbedAssignmentKeeps ==
  ASSUME IInv, EmbedAssignment
  PROVE  IInv' /\ LastOK'
<1>1. /\ todo # <<>> /\ Now.do = "expr" /\ Now.as \in {"value", "param"}
      /\ work < MaxWork /\ work' = work + 1
  BY DEF EmbedAssignment, Doing
<1>2. /\ Linked(Later, Good, Served) /\ CountsOK
      /\ Later # <<>> => Later[1] \in Good /\ Serves(Now, Later[1])
  BY ExprWork DEF EmbedAssignment
<1>3. /\ Now.t \in program.types /\ Now.r \in Requests /\ Request(Now.r, Now.t)
      /\ Now.fn \in {0, 1} /\ Now.free \in BOOLEAN /\ (InStruct(Now.t).v => Now.free)
  BY ExprWork DEF EmbedAssignment
<1>4. ~InStruct(Now.t).c
  BY DEF EmbedAssignment, Plain
<1>5. PICK q \in IF Now.r.wild THEN Random(Now.t.level + 1, "write", Now.free, TRUE, program.coins)
                 ELSE {Now.r.q} :
      \E op \in AssignOps(Now.t) :
        todo' = Assignment(Now.t, Asks(q, FALSE), TRUE, op, Now.fn, Now.free) \o Later
  BY DEF EmbedAssignment
<1>6. PICK op \in AssignOps(Now.t) :
        todo' = Assignment(Now.t, Asks(q, FALSE), TRUE, op, Now.fn, Now.free) \o Later
  BY <1>5
<1>7. q \in Seq(Qualifier) /\ Len(q) = Now.t.level + 1 /\ NoneVolatile(q)
  <2>1. CASE Now.r.wild
    <3>1. Now.t.level + 1 \in Nat \ {0} /\ program.coins \in SUBSET Qualifier
      BY <1>2, <1>3, TypeFacts, SelectionConstantsOK DEF CountsOK
    <3>2. PICK b \in BOOLEAN : b /\ q \in Random(Now.t.level + 1, "write", Now.free, b, program.coins)
      BY <1>5, <2>1
    <3>3. Now.free \in BOOLEAN
      BY <1>3
    <3> QED
      BY <3>1, <3>2, <3>3, RandomFacts, Zenon
  <2>2. CASE ~Now.r.wild
    <3>1. q = Now.r.q
      BY <2>2
    <3> QED
      BY <1>3, <2>2, <3>1, RequestLength DEF Requests
  <2> QED
    BY <2>1, <2>2
<1>8. PICK r \in Requests : r = Asks(q, FALSE) /\ Request(r, Now.t) /\ TRUE = ~r.wild
  <2>1. Asks(q, FALSE) \in Requests
    BY <1>7 DEF Asks, Requests
  <2>2. Request(Asks(q, FALSE), Now.t) /\ TRUE = ~Asks(q, FALSE).wild
    BY <1>7 DEF Asks, Request
  <2> QED
    BY <2>1, <2>2
<1>9. ASSUME Later # <<>>
      PROVE  Serves(Lhs(Now.t, r, TRUE, op, Now.fn, Now.free), Later[1])
  <2> SUFFICES ASSUME Uses(Later[1])
               PROVE  /\ Now.t = UsedType(Later[1])
                      /\ Implies(r, UsedRequest(Later[1]))
                      /\ Later[1].do # "return"
    BY DEF Serves, Lhs, LeftType, LeftRequest
  <2>1. /\ Now.t = UsedType(Later[1]) /\ Implies(Now.r, UsedRequest(Later[1]))
        /\ Later[1].do # "return"
    BY <1>1, <1>2, <1>9 DEF Serves, LeftType, LeftRequest
  <2>2. Implies(r, UsedRequest(Later[1]))
    BY <1>5, <1>8, <2>1 DEF Implies, Asks
  <2> QED
    BY <2>1, <2>2
<1>10. /\ Linked(todo', Good, Served) /\ todo' # <<>> /\ todo'[1].do \in {"expr", "lhs"}
  <2>1. PICK t \in program.types, f \in {0, 1}, free \in BOOLEAN :
          t = Now.t /\ f = Now.fn /\ free = Now.free
    BY <1>3
  <2>2. op \in AssignOps(t) /\ Request(r, t) /\ (InStruct(t).v => free) /\ ~InStruct(t).c
    BY <1>3, <1>4, <1>8, <2>1
  <2>3. PICK given \in BOOLEAN : given /\ (given <=> ~r.wild)
    BY <1>8
  <2>4. todo' = Assignment(t, r, given, op, f, free) \o Later
    BY <1>6, <1>8, <2>1, <2>3, Zenon
  <2>5. Later # <<>> => Later[1] \in Good /\ Serves(Lhs(t, r, given, op, f, free), Later[1])
    BY <1>2, <1>9, <2>1, <2>3, Zenon
  <2>6. PICK s : s = Later /\ Linked(s, Good, Served)
    BY <1>2
  <2>7. LET a == Assignment(t, r, given, op, f, free) \o s
        IN Linked(a, Good, Served) /\ a # <<>> /\ a[1].do \in {"expr", "lhs"}
    <3>1. s # <<>> => s[1] \in Good /\ Serves(Lhs(t, r, given, op, f, free), s[1])
      BY <2>5, <2>6
    <3>2. CountsOK /\ Request(r, t) /\ given \in BOOLEAN /\ (given <=> ~r.wild) /\ op \in AssignOps(t)
      BY <1>2, <2>2, <2>3
    <3>3. f \in {0, 1} /\ free \in BOOLEAN /\ (InStruct(t).v => free) /\ ~InStruct(t).c
      BY <2>2
    <3>4. Linked(s, Good, Served)
      BY <2>6
    <3> QED
      BY <3>1, <3>2, <3>3, <3>4, AssignmentLinked
  <2> QED
    BY <2>4, <2>6, <2>7
<1> QED
  BY <1>1, <1>10, PushedWork DEF EmbedAssignment, Now

\* A list of variables, before and after a step that leaves the program.
LEMMA VarsPrimed ==
  ASSUME program' = program, VarsOK(vs')
  PROVE  VarsOK(vs)' /\ Len(vs') \in Nat /\ vs' \in Seq(Variable)
BY DEF VarsOK, Variable

LEMMA DoneAll ==
  ASSUME IInv, todo # <<>>, UNCHANGED <<program, field, func, work>>, VarsOK(vs'), Grown(vs, vs'),
         Len(vs') <= MaxVars, todo' = Later, Now.do # "body",
         Answers(res', LeftType(Now), LeftRequest(Now), vs'), res'.to \in 0..Len(vs'),
         Now.do = "expr" /\ Now.as = "return" => res'.var # 0
  PROVE  IInv'
<1>1. VarsOK(vs)' /\ Len(vs') \in Nat /\ Len(vs) \in Nat
  BY VarsPrimed DEF IInv, VarsOK
<1>2. FuncOK' /\ FuncKept
  BY <1>1, FuncStays DEF IInv
<1>3. TodoOK' /\ ResOK'
  BY <1>2, DoneKeeps
<1>4. CountsOK'
  BY CountKept
<1> QED
  BY <1>1, <1>2, <1>3, <1>4 DEF IInv

LEMMA StayAll ==
  ASSUME IInv, todo # <<>>, UNCHANGED <<program, field, func, work>>, VarsOK(vs'), Grown(vs, vs'),
         Len(vs') <= MaxVars, todo' = todo, res' = res
  PROVE  IInv'
<1>1. VarsOK(vs)' /\ Len(vs') \in Nat /\ Len(vs) \in Nat
  BY VarsPrimed DEF IInv, VarsOK
<1>2. FuncOK' /\ FuncKept
  BY <1>1, FuncStays DEF IInv
<1>3. TodoOK' /\ ResOK'
  BY <1>2, StayKeeps
<1>4. CountsOK'
  BY CountKept
<1> QED
  BY <1>1, <1>2, <1>3, <1>4 DEF IInv

LEMMA MakeConstantKeeps ==
  ASSUME IInv, MakeConstant
  PROVE  IInv' /\ LastOK'
<1>1. /\ todo # <<>> /\ Now.do = "expr" /\ Now.as = "value"
      /\ vs' = vs /\ res' = Constant /\ todo' = Later /\ last' = Quiet
  BY DEF MakeConstant, Done, Doing
<1>2. Grown(vs, vs') /\ VarsOK(vs') /\ Len(vs') \in Nat /\ Len(vs') <= MaxVars
  <2>1. UNCHANGED program
    BY DEF MakeConstant
  <2> QED
    BY <1>1, <2>1, SameGrown DEF IInv, CountsOK
<1>3. Answers(res', LeftType(Now), LeftRequest(Now), vs') /\ res'.to \in 0..Len(vs')
  <2>1. res'.to \in 0..Len(vs')
    BY <1>1, <1>2 DEF Constant
  <2> QED
    BY <1>1, <2>1, ConstantAnswers
<1>4. IInv'
  BY <1>1, <1>2, <1>3, DoneAll DEF MakeConstant
<1> QED
  BY <1>1, <1>4, QuietKeeps

\* The qualifiers that are looked at when a variable is selected.
LEMMA AfterFacts ==
  ASSUME CountsOK, NEW l, VarsOK(l), NEW i \in 1..Len(l), NEW n \in Nat,
         NEW t \in program.types, Derives(l[i], n, t)
  PROVE  /\ After(l[i], n).c <=> Top(Indirect(l[i].q, n)).c \/ InStruct(t).c
         /\ After(l[i], n).v <=> Top(Indirect(l[i].q, n)).v \/ InStruct(t).v
<1>1. /\ l[i].t = [base |-> l[i].t.base, level |-> l[i].t.level] /\ l[i].t.level \in Nat
      /\ t = [base |-> t.base, level |-> t.level] /\ t.level \in Nat
      /\ l[i].q \in Seq(Qualifier) /\ Len(l[i].q) = l[i].t.level + 1
  BY VariableFacts, TypeFacts
<1>2. l[i].t.base = t.base /\ l[i].t.level - n = t.level
  BY DEF Derives
<1>3. [l[i].t EXCEPT !.level = @ - n] = t
  BY <1>1, <1>2
<1>4. PICK own : own = l[i].q[Len(l[i].q) - n]
  OBVIOUS
<1>5. Top(Indirect(l[i].q, n)) = own
  <2>1. n \in Int /\ n >= -1 /\ n < Len(l[i].q) /\ Len(l[i].q) - n \in 1..Len(l[i].q)
    BY <1>1, <1>2
  <2>2. /\ Len(Indirect(l[i].q, n)) = Len(l[i].q) - n
        /\ \A j \in 1..Len(l[i].q) : j <= Len(l[i].q) - n => Indirect(l[i].q, n)[j] = l[i].q[j]
    BY <1>1, <2>1, IndirectFacts
  <2>3. Indirect(l[i].q, n)[Len(l[i].q) - n] = l[i].q[Len(l[i].q) - n]
    <3>1. Len(l[i].q) - n <= Len(l[i].q) - n
      BY <1>1
    <3> QED
      BY <2>1, <2>2, <3>1
  <2> QED
    BY <1>4, <2>2, <2>3 DEF Top
<1>6. After(l[i], n) = [c |-> own.c \/ InStruct(t).c, v |-> own.v \/ InStruct(t).v]
  <2>1. ~(n < 0)
    OBVIOUS
  <2> QED
    BY <1>3, <1>4, <2>1, Zenon DEF After
<1>7. /\ After(l[i], n).c = (own.c \/ InStruct(t).c)
      /\ After(l[i], n).v = (own.v \/ InStruct(t).v)
  <2>1. PICK a, b : a = (own.c \/ InStruct(t).c) /\ b = (own.v \/ InStruct(t).v)
    BY Zenon
  <2>2. After(l[i], n) = [c |-> a, v |-> b]
    BY <1>6, <2>1, Zenon
  <2>3. After(l[i], n).c = a /\ After(l[i], n).v = b
    BY <2>2
  <2> QED
    BY <2>1, <2>3, Zenon
<1> QED
  BY <1>5, <1>7, Zenon

\* A variable that was matched has the type and the qualifiers asked for.
LEMMA MatchedAnswers ==
  ASSUME CountsOK, NEW l, VarsOK(l), NEW i \in 1..Len(l), NEW n \in Int, n >= -1,
         NEW t \in program.types, Derives(l[i], n, t),
         NEW r \in Requests, r.wild \/ Len(r.q) = t.level + 1, NEW exact \in BOOLEAN,
         MatchIndirect(r, l[i].q, exact)
  PROVE  /\ r.wild \/ r.strict \/ Converts(r.q, Indirect(l[i].q, n))
         /\ r.wild \/ ~exact \/ Converts(r.q, Indirect(l[i].q, n))
         /\ r.wild \/ ~(r.strict \/ exact) \/ Converts(Indirect(l[i].q, n), r.q)
<1> SUFFICES ASSUME ~r.wild
             PROVE  /\ ~r.strict \/ exact => Converts(r.q, Indirect(l[i].q, n))
                    /\ r.strict \/ exact => Converts(Indirect(l[i].q, n), r.q)
  OBVIOUS
<1>1. /\ l[i].t.level \in Nat /\ t.level \in Nat /\ l[i].t.level - n = t.level
      /\ l[i].q \in Seq(Qualifier) /\ Len(l[i].q) = l[i].t.level + 1
  BY VariableFacts, TypeFacts DEF Derives
<1>2. n = Len(l[i].q) - Len(r.q) /\ Len(r.q) > 0
  <2>1. Len(r.q) = t.level + 1
    OBVIOUS
  <2> QED
    BY <1>1, <2>1
<1> QED
  BY <1>1, <1>2, MatchedConverts

LEMMA ReadVariableKeeps ==
  ASSUME IInv, ReadVariable
  PROVE  IInv' /\ LastOK'
<1>1. /\ todo # <<>> /\ Now.do = "expr" /\ CountsOK /\ VarsOK(vs)
      /\ Now.t \in program.types /\ Now.r \in Requests /\ Request(Now.r, Now.t)
      /\ LeftType(Now) = Now.t /\ LeftRequest(Now) = Now.r
  BY ExprWork DEF ReadVariable, IInv
<1>2. PICK i \in Expanded(vs, Visible(Now.fn), Now.t) : \E n \in -1..MaxLevel :
        /\ Derives(vs[i], n, Now.t)
        /\ MatchIndirect(Now.r, vs[i].q, FALSE)
        /\ Eligible(vs[i], n, "read", Now.free)
        /\ Acceptable(vs, i, n)
        /\ Done(Value(vs, i, n), vs, [Quiet EXCEPT !.fits = SelectedFits(vs[i], Now.free)])
  BY DEF ReadVariable
<1>3. PICK n \in -1..MaxLevel :
        /\ Derives(vs[i], n, Now.t)
        /\ MatchIndirect(Now.r, vs[i].q, FALSE)
        /\ Eligible(vs[i], n, "read", Now.free)
        /\ Acceptable(vs, i, n)
        /\ Done(Value(vs, i, n), vs, [Quiet EXCEPT !.fits = SelectedFits(vs[i], Now.free)])
  BY <1>2
<1>4. i \in 1..Len(vs)
  BY <1>2 DEF Expanded, Visible, Globals, Locals, Params
<1>5. Valid(vs, i, n)
  BY <1>3 DEF Acceptable
<1>6. n \in Int /\ n >= -1
  BY SelectionConstantsOK
<1>7. Now.r.wild \/ Converts(Now.r.q, Indirect(vs[i].q, n))
  <2>1. Now.r.wild \/ (Len(Now.r.q) = Now.t.level + 1 /\ ~Now.r.strict)
    BY <1>1, RequestLength
  <2>2. PICK b \in BOOLEAN : ~b /\ MatchIndirect(Now.r, vs[i].q, b)
    BY <1>3
  <2> QED
    BY <1>1, <1>3, <1>4, <1>6, <2>1, <2>2, MatchedAnswers
<1>8. /\ Answers(Value(vs, i, n), Now.t, Now.r, vs)
      /\ Value(vs, i, n).to \in 0..Len(vs) /\ Value(vs, i, n).var = i
  <2>1. Answers(Value(vs, i, n), Now.t, Now.r, vs)
    BY <1>1, <1>3, <1>4, <1>5, <1>7, ReadAnswers
  <2> QED
    BY <1>1, <1>3, <1>4, <1>5, <2>1, ValuePoints
<1>9. /\ vs' = vs /\ res' = Value(vs, i, n) /\ todo' = Later
      /\ last' = [Quiet EXCEPT !.fits = SelectedFits(vs[i], Now.free)]
  BY <1>3 DEF Done
<1>10. Grown(vs, vs') /\ VarsOK(vs') /\ Len(vs') <= MaxVars /\ i # 0
  <2>1. UNCHANGED program
    BY DEF ReadVariable
  <2> QED
    BY <1>4, <1>9, <2>1, SameGrown DEF IInv, CountsOK
<1>11. IInv'
  BY <1>1, <1>8, <1>9, <1>10, DoneAll DEF ReadVariable
<1>12. SelectedFits(vs[i], Now.free)
  BY <1>3 DEF Eligible, SelectedFits
<1>13. last'.wrote = 0 /\ last'.fits /\ last'.converts = {}
  BY <1>9, <1>12 DEF Quiet
<1> QED
  BY <1>11, <1>13, NothingWritten

\* The variable that was made, as an expression of no dereferences.
LEMMA NewDerives ==
  ASSUME CountsOK, NEW l, VarsOK(l), NEW i \in 1..Len(l)
  PROVE  /\ Derives(l[i], 0, l[i].t) /\ Valid(l, i, 0) /\ Indirect(l[i].q, 0) = l[i].q
         /\ l[i].t \in program.types
<1>1. /\ l[i].t.level \in Nat /\ l[i].t \in program.types
      /\ l[i].q \in Seq(Qualifier) /\ Len(l[i].q) = l[i].t.level + 1
  BY VariableFacts
<1>2. Len(l[i].q) > 0
  BY <1>1
<1>3. Indirect(l[i].q, 0) = l[i].q
  BY <1>1, <1>2, NoDereference
<1> QED
  BY <1>1, <1>3 DEF Derives, Valid

\* The assertion at the end of select, for variables that were made.
LEMMA NewFits ==
  ASSUME CountsOK, NEW l, VarsOK(l), NEW i \in 1..Len(l), NEW free \in BOOLEAN,
         Top(l[i].q).v => free, InStruct(l[i].t).v => free
  PROVE  SelectedFits(l[i], free)
<1>1. PICK t \in program.types, n \in Nat :
        t = l[i].t /\ n = 0 /\ Derives(l[i], n, t) /\ Indirect(l[i].q, n) = l[i].q
  BY NewDerives
<1>2. After(l[i], n).v <=> Top(Indirect(l[i].q, n)).v \/ InStruct(t).v
  BY <1>1, AfterFacts
<1> QED
  BY <1>1, <1>2 DEF SelectedFits

\* What is drawn or asked for, and then restricted, is below the variable the
\* same as what was asked for.
LEMMA NewQualifiers ==
  ASSUME CountsOK, NEW l, NEW t \in program.types, NEW q \in Seq(Qualifier), Len(q) = t.level + 1,
         NEW access, NEW free \in BOOLEAN, NEW m, NewIn(l, t, q, access, free, m)
  PROVE  LET a == m[Newest(m)].q
         IN /\ a \in Seq(Qualifier) /\ Len(a) = t.level + 1 /\ SameBelow(a, q)
            /\ (Top(a).c => Top(q).c) /\ (Top(a).v => Top(q).v)
<1>1. t.level \in Nat /\ Len(q) > 0
  <2>1. t.level \in Nat
    BY TypeFacts
  <2> QED
    BY <2>1
<1>2. PICK a : a = m[Newest(m)].q /\ a \in {q, Restrict(q, access, free)}
  BY DEF NewIn
<1>3. SameBelow(q, q)
  BY DEF SameBelow
<1>4. CASE a = q
  BY <1>2, <1>3, <1>4
<1>5. CASE a = Restrict(q, access, free)
  BY <1>1, <1>2, <1>5, RestrictFacts
<1> QED
  BY <1>2, <1>4, <1>5

LEMMA ReadNewVariableKeeps ==
  ASSUME IInv, ReadNewVariable
  PROVE  IInv' /\ LastOK'
<1>1. /\ todo # <<>> /\ Now.do = "expr" /\ CountsOK /\ VarsOK(vs)
      /\ Now.t \in program.types /\ Now.r \in Requests /\ Request(Now.r, Now.t)
      /\ Now.fn \in {0, 1} /\ Now.free \in BOOLEAN /\ (InStruct(Now.t).v => Now.free)
      /\ LeftType(Now) = Now.t /\ LeftRequest(Now) = Now.r
  BY ExprWork DEF ReadNewVariable, IInv
<1>2. PICK ctx : ctx = [free |-> Now.free, exact |-> FALSE]
  OBVIOUS
<1>3. PICK place \in {"global", "local"} :
        \E l \in NewVars(Now.t, Now.r, "read", place, Now.fn, ctx) :
          LET i == Newest(l)
              effect == [Quiet EXCEPT !.converts = Initialised(l),
                                      !.fits = SelectedFits(l[i], Now.free)]
          IN IF Acceptable(l, i, 0) THEN Done(Value(l, i, 0), l, effect)
             ELSE vs' = l /\ last' = effect /\ UNCHANGED <<res, todo>>
  BY <1>2 DEF ReadNewVariable
<1>4. PICK l \in NewVars(Now.t, Now.r, "read", place, Now.fn, ctx) :
        LET effect == [Quiet EXCEPT !.converts = Initialised(l),
                                    !.fits = SelectedFits(l[Newest(l)], Now.free)]
        IN IF Acceptable(l, Newest(l), 0) THEN Done(Value(l, Newest(l), 0), l, effect)
           ELSE vs' = l /\ last' = effect /\ UNCHANGED <<res, todo>>
  BY <1>3
<1>5. /\ Now.r.wild \/ Len(Now.r.q) = Now.t.level + 1
      /\ ~Now.r.wild => NoneVolatile(Now.r.q)
  BY <1>1, RequestLength
<1>6. PICK q \in Seq(Qualifier) :
        /\ Len(q) = Now.t.level + 1 /\ NewIn(vs, Now.t, q, "read", Now.free, l)
        /\ Now.r.wild => (Top(q).v => Now.free)
        /\ ~Now.r.wild => q = Now.r.q
  <2>1. ctx.exact \in BOOLEAN /\ ctx.free \in BOOLEAN /\ ctx.free = Now.free
    BY <1>1, <1>2
  <2> QED
    BY <1>1, <1>5, <2>1, NewVarsKeeps
<1>7. PICK i \in 1..Len(l) :
        /\ i = Newest(l) /\ l[i].t = Now.t /\ VarsOK(l) /\ Grown(vs, l) /\ Len(l) <= MaxVars
        /\ l[i].q \in Seq(Qualifier) /\ Len(l[i].q) = Now.t.level + 1 /\ SameBelow(l[i].q, q)
        /\ Top(l[i].q).v => Top(q).v
  <2>1. Newest(l) \in 1..Len(l) /\ l[Newest(l)].t = Now.t
        /\ VarsOK(l) /\ Grown(vs, l) /\ Len(l) <= MaxVars
    BY <1>6 DEF NewIn
  <2>2. /\ l[Newest(l)].q \in Seq(Qualifier) /\ Len(l[Newest(l)].q) = Now.t.level + 1
        /\ SameBelow(l[Newest(l)].q, q) /\ (Top(l[Newest(l)].q).v => Top(q).v)
    BY <1>1, <1>6, NewQualifiers
  <2> QED
    BY <2>1, <2>2
<1>8. Now.r.wild \/ Converts(Now.r.q, l[i].q)
  <2>1. Converts(q, l[i].q)
    BY <1>7, TopIsFree, SameBelowConverts
  <2> QED
    BY <1>6, <2>1
<1>9. SelectedFits(l[i], Now.free)
  <2>1. Top(q).v => Now.free
    <3>1. CASE Now.r.wild
      BY <1>6, <3>1
    <3>2. CASE ~Now.r.wild
      <4>1. Len(q) \in 1..Len(q)
        BY <1>1, <1>6, TypeFacts
      <4> QED
        BY <1>5, <1>6, <3>2, <4>1 DEF NoneVolatile, Top
    <3> QED
      BY <3>1, <3>2
  <2>2. Top(l[i].q).v => Now.free
    BY <1>7, <2>1
  <2> QED
    BY <1>1, <1>7, <2>2, NewFits
<1>10. vs' = l /\ last' = [Quiet EXCEPT !.converts = Initialised(l),
                                        !.fits = SelectedFits(l[i], Now.free)]
  BY <1>4, <1>7 DEF Done
<1>11. LastOK'
  <2>1. last'.wrote = 0 /\ last'.fits /\ last'.converts = Initialised(l)
    BY <1>9, <1>10 DEF Quiet
  <2>2. Len(vs) \in Nat
    BY <1>1 DEF VarsOK
  <2>3. \A c \in Initialised(l) : Converts(c[1], c[2])
    BY <1>1, <1>7, <2>2, InitialisedLegal
  <2> QED
    BY <2>1, <2>3, NothingWritten
<1>12. CASE Acceptable(l, i, 0)
  <2>1. res' = Value(l, i, 0) /\ todo' = Later
    BY <1>4, <1>7, <1>12 DEF Done
  <2>2. PICK n \in -1..MaxLevel :
          /\ n = 0 /\ Derives(l[i], n, Now.t) /\ Valid(l, i, n) /\ Indirect(l[i].q, n) = l[i].q
    <3>1. 0 \in -1..MaxLevel
      BY SelectionConstantsOK
    <3> QED
      BY <1>1, <1>7, <3>1, NewDerives
  <2>3. Answers(Value(l, i, n), Now.t, Now.r, l)
    BY <1>1, <1>7, <1>8, <2>2, ReadAnswers
  <2>4. Value(l, i, n).to \in 0..Len(l) /\ Value(l, i, n).var = i
    BY <1>1, <1>7, <2>2, ValuePoints
  <2>5. i # 0
    OBVIOUS
  <2>6. IInv'
    BY <1>1, <1>7, <1>10, <2>1, <2>2, <2>3, <2>4, <2>5, DoneAll DEF ReadNewVariable
  <2> QED
    BY <1>11, <2>6
<1>13. CASE ~Acceptable(l, i, 0)
  <2>1. res' = res /\ todo' = todo
    BY <1>4, <1>7, <1>13
  <2>2. IInv'
    BY <1>1, <1>7, <1>10, <2>1, StayAll DEF ReadNewVariable
  <2> QED
    BY <1>11, <2>2
<1> QED
  BY <1>12, <1>13

-----------------------------------------------------------------------------
(* Calls *)

\* A pointer is stored where it may be.
Repoint(l, o, to) == [l EXCEPT ![o].to = to]

LEMMA RepointKeeps ==
  ASSUME CountsOK, NEW l, VarsOK(l), NEW o \in 1..Len(l), NEW to \in Nat,
         PointsAt(l[o].q, l[o].t, to, l), NEW m, m = Repoint(l, o, to)
  PROVE  /\ VarsOK(m) /\ Grown(l, m) /\ Len(m) = Len(l)
         /\ m[o].to = to
<1>1. l \in Seq(Variable) /\ Len(l) \in Nat /\ l[o] \in Variable
  BY DEF VarsOK
<1>2. PICK v : v = [l[o] EXCEPT !.to = to]
  OBVIOUS
<1>3. v \in Variable /\ v.t = l[o].t /\ v.q = l[o].q /\ v.to = to
  BY <1>1, <1>2 DEF Variable
<1>4. /\ m \in Seq(Variable) /\ Len(m) = Len(l)
      /\ \A i \in 1..Len(l) : m[i] = IF i = o THEN v ELSE l[i]
  <2>1. m = [l EXCEPT ![o] = v]
    BY <1>2 DEF Repoint
  <2> QED
    BY <1>1, <1>3, <2>1, Updated
<1>5. \A i \in 1..Len(l) : m[i].t = l[i].t /\ m[i].q = l[i].q
  BY <1>3, <1>4
<1>6. Grown(l, m)
  BY <1>1, <1>4, <1>5 DEF Grown
<1>7. ASSUME NEW i \in 1..Len(m)
      PROVE  Len(m[i].q) = m[i].t.level + 1 /\ PointsAt(m[i].q, m[i].t, m[i].to, m)
  <2>1. i \in 1..Len(l) /\ m[i].t = l[i].t /\ m[i].q = l[i].q
    BY <1>4, <1>5
  <2>2. Len(l[i].q) = l[i].t.level + 1 /\ PointsAt(l[i].q, l[i].t, l[i].to, l)
    BY <2>1 DEF VarsOK
  <2>3. PointsAt(m[i].q, m[i].t, m[i].to, l)
    <3>1. CASE i = o
      BY <1>3, <1>4, <2>1, <3>1
    <3>2. CASE i # o
      BY <1>4, <2>1, <2>2, <3>2
    <3> QED
      BY <3>1, <3>2
  <2>4. PointsAt(m[i].q, m[i].t, m[i].to, m)
    BY <1>1, <1>4, <1>6, <2>3, PointsAtGrown
  <2> QED
    BY <2>1, <2>2, <2>4
<1>8. VarsOK(m)
  BY <1>4, <1>7 DEF VarsOK
<1> QED
  BY <1>3, <1>4, <1>6, <1>8

\* What an expression points to may be pointed to by what it converts to.
LEMMA AnswerPoints ==
  ASSUME NEW e, NEW t, NEW r, NEW l, Answers(e, t, r, l),
         NEW q, e.q # <<>> => Converts(q, e.q)
  PROVE  PointsAt(q, t, e.to, l)
<1> SUFFICES ASSUME e.to # 0
             PROVE  e.to \in 1..Len(l) /\ l[e.to].t = Pointee(t) /\ Converts(q, Append(l[e.to].q, Plain))
  BY DEF PointsAt
<1>1. e.q # <<>>
  BY DEF Answers
<1>2. /\ e.to \in 1..Len(l) /\ l[e.to].t = Pointee(t) /\ Converts(e.q, Append(l[e.to].q, Plain))
      /\ Converts(q, e.q)
  BY <1>1 DEF Answers, PointsAt
<1> QED
  BY <1>2, ConvertsTransitive

\* The function that was made.
LEMMA FuncFacts ==
  ASSUME CountsOK, VarsOK(vs), FuncOK, func # NoFunc
  PROVE  /\ func.t \in program.types /\ func.t.level \in Nat
         /\ func.rv \in Seq(Qualifier) /\ Len(func.rv) = func.t.level + 1 /\ NoneVolatile(func.rv)
         /\ func.rv # <<>>
         /\ func.param \in 1..Len(vs) /\ vs[func.param].t \in program.types
         /\ vs[func.param].q \in Seq(Qualifier) /\ Len(vs[func.param].q) = vs[func.param].t.level + 1
         /\ ~InStruct(vs[func.param].t).v /\ NoneVolatile(vs[func.param].q)
<1>1. /\ func.t \in program.types /\ func.rv \in Seq(Qualifier) /\ Len(func.rv) = func.t.level + 1
      /\ NoneVolatile(func.rv) /\ func.param \in 1..Len(vs)
      /\ ~InStruct(vs[func.param].t).v /\ NoneVolatile(vs[func.param].q)
  BY DEF FuncOK, Function
<1>2. func.t.level \in Nat
  BY <1>1, TypeFacts
<1>3. func.rv # <<>>
  BY <1>1, <1>2, NotEmpty
<1> QED
  BY <1>1, <1>2, <1>3, VariableFacts

\* A request for what must not be volatile.
LEMMA AskedRequest ==
  ASSUME NEW t, NEW q \in Seq(Qualifier), Len(q) = t.level + 1, NoneVolatile(q)
  PROVE  Asks(q, FALSE) \in Requests /\ Request(Asks(q, FALSE), t)
BY DEF Asks, Requests, Request

LEMMA ExprGood ==
  ASSUME NEW t \in program.types, NEW r \in Requests, Request(r, t), NEW fn \in {0, 1},
         NEW free \in BOOLEAN, InStruct(t).v => free,
         NEW as \in {"value", "param", "return", "variable"}
  PROVE  Expr(t, r, as, fn, free) \in Good
BY DEF Good, Item, ItemOK, Expr

\* One expression is made before another one's place is taken.
LEMMA CallServes ==
  ASSUME NEW x, NEW y, Serves(x, y), NEW z, z.do # "body", LeftType(z) = LeftType(x),
         Implies(LeftRequest(z), LeftRequest(x)) \/ LeftRequest(x).wild,
         ~(x.do = "expr" /\ x.as = "return")
  PROVE  Serves(z, y)
<1> SUFFICES ASSUME Uses(y)
             PROVE  /\ LeftType(z) = UsedType(y)
                    /\ Implies(LeftRequest(z), UsedRequest(y))
                    /\ y.do # "return"
  BY DEF Serves
<1>1. /\ LeftType(x) = UsedType(y) /\ Implies(LeftRequest(x), UsedRequest(y))
      /\ y.do # "return"
  BY DEF Serves
<1>2. Implies(LeftRequest(z), UsedRequest(y))
  BY <1>1, ConvertsTransitive DEF Implies
<1> QED
  BY <1>1, <1>2

LEMMA CallAgainKeeps ==
  ASSUME IInv, CallAgain
  PROVE  IInv' /\ LastOK'
<1>1. /\ todo # <<>> /\ Now.do = "expr" /\ CountsOK /\ VarsOK(vs)
      /\ Now.t \in program.types /\ Now.r \in Requests /\ Request(Now.r, Now.t)
      /\ Now.fn \in {0, 1} /\ Now.free \in BOOLEAN /\ (InStruct(Now.t).v => Now.free)
      /\ LeftType(Now) = Now.t /\ LeftRequest(Now) = Now.r
      /\ Linked(Later, Good, Served)
      /\ Later # <<>> => Later[1] \in Good /\ Serves(Now, Later[1])
  BY ExprWork DEF CallAgain, MayCall, IInv
<1>2. /\ Now.as \in {"value", "param"} /\ func # NoFunc /\ func.var # 0 /\ work < MaxWork
      /\ func.t = Now.t /\ Match(Now.r, func.rv, FALSE) /\ work' = work + 1
      /\ res' = Constant /\ last' = Quiet /\ UNCHANGED <<program, field, vs, func>>
  BY DEF CallAgain, MayCall
<1>3. /\ func.t.level \in Nat /\ func.rv \in Seq(Qualifier) /\ Len(func.rv) = func.t.level + 1
      /\ vs[func.param].t \in program.types /\ ~InStruct(vs[func.param].t).v
      /\ vs[func.param].q \in Seq(Qualifier) /\ Len(vs[func.param].q) = vs[func.param].t.level + 1
      /\ NoneVolatile(vs[func.param].q)
  BY <1>1, <1>2, FuncFacts DEF IInv
<1>4. PICK t \in program.types, q \in Seq(Qualifier) : t = vs[func.param].t /\ q = vs[func.param].q
  BY <1>3
<1>5. PICK x : x = Expr(t, Asks(q, FALSE), "param", Now.fn, Now.free)
  OBVIOUS
<1>6. PICK y : y = Call(Now.t, Now.r, FALSE, Now.fn, Now.free)
  OBVIOUS
<1>7. todo' = <<x, y>> \o Later
  BY <1>4, <1>5, <1>6 DEF CallAgain
<1>8. x \in Good
  <2>1. Asks(q, FALSE) \in Requests /\ Request(Asks(q, FALSE), t)
    BY <1>3, <1>4, AskedRequest
  <2>2. InStruct(t).v => Now.free
    BY <1>3, <1>4
  <2> QED
    BY <1>1, <1>5, <2>1, <2>2, ExprGood
<1>9. Now.r.wild \/ Converts(Now.r.q, func.rv)
  <2> SUFFICES ASSUME ~Now.r.wild
               PROVE  Converts(Now.r.q, func.rv)
    OBVIOUS
  <2>1. Len(Now.r.q) = Now.t.level + 1 /\ ~Now.r.strict
    BY <1>1, RequestLength
  <2>2. PICK s \in BOOLEAN : ~s
    BY Zenon
  <2>3. Now.r = Asks(Now.r.q, s) /\ Now.r.q \in Seq(Qualifier)
    BY <1>1, <2>1, <2>2 DEF Asks, Requests
  <2>4. Len(Now.r.q) = Len(func.rv) /\ Match(Asks(Now.r.q, s), func.rv, FALSE)
    BY <1>2, <1>3, <2>1, <2>3
  <2> QED
    BY <1>3, <2>2, <2>3, <2>4, MatchConverts
<1>10. y \in Good
  BY <1>1, <1>2, <1>6, <1>9 DEF Good, Item, ItemOK, Call
<1>11. <<x, y>> \in Served
  <2>1. LeftType(x) = t /\ LeftRequest(x) = Asks(q, FALSE) /\ x.do = "expr"
    BY <1>5 DEF LeftType, LeftRequest, Expr
  <2>2. Uses(y) /\ UsedType(y) = t /\ UsedRequest(y) = Asks(q, FALSE) /\ y.do # "return"
    BY <1>4, <1>6 DEF Uses, UsedType, UsedRequest, Call
  <2>3. Implies(Asks(q, FALSE), Asks(q, FALSE))
    BY ConvertsReflexive DEF Implies, Asks
  <2>4. Serves(x, y)
    BY <2>1, <2>2, <2>3 DEF Serves
  <2> QED
    BY <1>8, <1>10, <2>4 DEF Served
<1>12. Later # <<>> => <<y, Later[1]>> \in Served
  <2> SUFFICES ASSUME Later # <<>>
               PROVE  Serves(y, Later[1])
    BY <1>1, <1>10 DEF Served
  <2>1. y.do = "call" /\ LeftType(y) = Now.t /\ LeftRequest(y) = Now.r
    BY <1>6 DEF LeftType, LeftRequest, Call
  <2>2. Implies(Now.r, Now.r) \/ Now.r.wild
    BY ConvertsReflexive DEF Implies
  <2> QED
    BY <1>1, <1>2, <2>1, <2>2, CallServes
<1>13. Linked(todo', Good, Served) /\ todo'[1] = x /\ todo' # <<>>
  BY <1>1, <1>7, <1>8, <1>10, <1>11, <1>12, LinkedTwo
<1>14. Now'.do \in {"expr", "lhs"}
  BY <1>5, <1>13 DEF Now, Expr
<1> QED
  BY <1>2, <1>13, <1>14, PushedWork

\* A call of a new function: its argument has to be made first.
LEMMA CallNewKeeps ==
  ASSUME IInv, CallNew
  PROVE  IInv' /\ LastOK'
<1>1. /\ todo # <<>> /\ Now.do = "expr" /\ CountsOK /\ VarsOK(vs)
      /\ Now.t \in program.types /\ Now.r \in Requests /\ Request(Now.r, Now.t)
      /\ Now.fn \in {0, 1} /\ Now.free \in BOOLEAN /\ (InStruct(Now.t).v => Now.free)
      /\ LeftType(Now) = Now.t /\ LeftRequest(Now) = Now.r
      /\ Linked(Later, Good, Served)
      /\ Later # <<>> => Later[1] \in Good /\ Serves(Now, Later[1])
  BY ExprWork DEF CallNew, MayCall, IInv
<1>2. /\ Now.as \in {"value", "param"} /\ func = NoFunc
      /\ res' = Constant /\ last' = Quiet /\ UNCHANGED <<program, field, work>>
  BY DEF CallNew, MayCall
<1>3. PICK t \in ParamTypes : \E q \in Random(t.level + 1, "read", TRUE, TRUE, program.coins) :
      \E rv \in RvQualifiers(Now.t, Now.r, Now.free) :
       LET l == Add(vs, t, q, "param", 1, 0)
       IN /\ Len(l) <= MaxVars
          /\ vs' = l
          /\ func' = [t |-> Now.t, rv |-> rv, param |-> Newest(l), var |-> 0, deref |-> 0]
          /\ todo' = <<Expr(t, Asks(q, FALSE), "param", Now.fn, Now.free),
                       Call(Now.t, Now.r, TRUE, Now.fn, Now.free)>> \o Later
  BY DEF CallNew
<1>4. PICK q \in Random(t.level + 1, "read", TRUE, TRUE, program.coins) :
      \E rv \in RvQualifiers(Now.t, Now.r, Now.free) :
       LET l == Add(vs, t, q, "param", 1, 0)
       IN /\ Len(l) <= MaxVars
          /\ vs' = l
          /\ func' = [t |-> Now.t, rv |-> rv, param |-> Newest(l), var |-> 0, deref |-> 0]
          /\ todo' = <<Expr(t, Asks(q, FALSE), "param", Now.fn, Now.free),
                       Call(Now.t, Now.r, TRUE, Now.fn, Now.free)>> \o Later
  BY <1>3
<1>5. PICK rv \in RvQualifiers(Now.t, Now.r, Now.free) :
          /\ Len(vs') <= MaxVars
          /\ vs' = Add(vs, t, q, "param", 1, 0)
          /\ func' = [t |-> Now.t, rv |-> rv, param |-> Newest(vs'), var |-> 0, deref |-> 0]
          /\ todo' = <<Expr(t, Asks(q, FALSE), "param", Now.fn, Now.free),
                       Call(Now.t, Now.r, TRUE, Now.fn, Now.free)>> \o Later
  BY <1>4
<1>6. t \in program.types /\ ~InStruct(t).v /\ t.level \in Nat /\ Now.t.level \in Nat
  BY <1>1, <1>3, TypeFacts DEF ParamTypes
<1>7. program.coins \in SUBSET Qualifier
  BY <1>1, SelectionConstantsOK DEF CountsOK
<1>8. q \in Seq(Qualifier) /\ Len(q) = t.level + 1 /\ NoneVolatile(q)
  <2>1. t.level + 1 \in Nat \ {0}
    BY <1>6
  <2>2. PICK b \in BOOLEAN : b /\ q \in Random(t.level + 1, "read", b, b, program.coins)
    BY <1>4, Zenon
  <2> QED
    <3>1. PICK access : q \in Random(t.level + 1, access, b, b, program.coins)
      BY <2>2
    <3>2. q \in Seq(Qualifier) /\ Len(q) = t.level + 1 /\ (b => NoneVolatile(q))
      BY <1>7, <2>1, <3>1, RandomFacts
    <3> QED
      BY <2>2, <3>2
<1>9. /\ rv \in Seq(Qualifier) /\ Len(rv) = Now.t.level + 1 /\ NoneVolatile(rv)
      /\ Now.r.wild \/ Converts(Now.r.q, rv)
  <2>1. CASE Now.r.wild
    <3>1. Now.t.level + 1 \in Nat \ {0}
      BY <1>6
    <3>2. PICK b \in BOOLEAN :
            b /\ rv \in Random(Now.t.level + 1, "read", Now.free, b, program.coins)
      BY <1>5, <2>1, Zenon DEF RvQualifiers
    <3>3. Now.free \in BOOLEAN
      BY <1>1
    <3>4. rv \in Seq(Qualifier) /\ Len(rv) = Now.t.level + 1 /\ NoneVolatile(rv)
      <4>1. PICK access : rv \in Random(Now.t.level + 1, access, Now.free, b, program.coins)
        BY <3>2
      <4>2. rv \in Seq(Qualifier) /\ Len(rv) = Now.t.level + 1 /\ (b => NoneVolatile(rv))
        BY <1>7, <3>1, <3>3, <4>1, RandomFacts
      <4> QED
        BY <3>2, <4>2
    <3> QED
      BY <2>1, <3>4
  <2>2. CASE ~Now.r.wild
    <3>1. rv \in RandomReturned(Now.r.q)
      BY <2>2 DEF RvQualifiers
    <3>2. Now.r.q \in Seq(Qualifier) /\ Len(Now.r.q) = Now.t.level + 1 /\ NoneVolatile(Now.r.q)
      BY <1>1, <2>2, RequestLength DEF Requests
    <3> QED
      BY <3>1, <3>2, ReturnedFacts
  <2> QED
    BY <2>1, <2>2
<1>10. PICK i \in Nat :
         /\ i = Newest(vs') /\ i \in 1..Len(vs') /\ VarsOK(vs') /\ Grown(vs, vs')
         /\ vs'[i].t = t /\ vs'[i].q = q
  <2>1. PICK to \in Nat, fn \in {0, 1}, scope \in {"global", "local", "param"} :
          to = 0 /\ fn = 1 /\ scope = "param"
    OBVIOUS
  <2>2. PointsAt(q, t, to, vs)
    BY <2>1 DEF PointsAt
  <2>3. vs' = Add(vs, t, q, scope, fn, to)
    BY <1>5, <2>1
  <2>4. /\ VarsOK(vs') /\ Grown(vs, vs') /\ Len(vs') > Len(vs) /\ Newest(vs') = Len(vs) + 1
        /\ vs'[Newest(vs')].t = t /\ vs'[Newest(vs')].q = q
    BY <1>1, <1>6, <1>8, <2>2, <2>3, AddKeeps
  <2>5. Len(vs) \in Nat /\ Len(vs') \in Nat
    BY <1>1, <2>4 DEF VarsOK
  <2> QED
    BY <2>4, <2>5
<1>11. /\ func' # NoFunc /\ func'.t = Now.t /\ func'.rv = rv /\ func'.param = i /\ func'.var = 0
       /\ func' \in Function
  <2>1. func' = [t |-> Now.t, rv |-> rv, param |-> i, var |-> 0, deref |-> 0]
    BY <1>5, <1>10
  <2>2. rv # <<>>
    BY <1>6, <1>9, NotEmpty
  <2>3. func' # NoFunc
    BY <2>1, <2>2 DEF NoFunc
  <2> QED
    BY <1>1, <1>9, <1>10, <2>1, <2>3 DEF Function
<1>12. FuncKept
  BY <1>2 DEF FuncKept
<1>13. FuncOK'
  <2>1. func' \in Function'
    BY <1>2, <1>11 DEF Function
  <2>2. Len(func'.rv) = func'.t.level + 1 /\ NoneVolatile(func'.rv)
    BY <1>9, <1>11
  <2>3. ~InStruct(vs[func.param].t)'.v /\ NoneVolatile(vs'[func'.param].q)
    <3>1. InStruct(vs[func.param].t)' = InStruct(t)
      BY <1>2, <1>10, <1>11 DEF InStruct
    <3> QED
      BY <1>6, <1>8, <1>10, <1>11, <3>1
  <2> QED
    BY <1>10, <1>11, <2>1, <2>2, <2>3 DEF FuncOK
<1>14. /\ Good \subseteq Good' /\ Served \subseteq Served'
       /\ \A z \in Good : Uses(z)' = Uses(z)
       /\ \A z \in Good : Uses(z) => /\ UsedType(z)' = UsedType(z)
                                     /\ UsedRequest(z)' = UsedRequest(z)
  BY <1>1, <1>2, <1>10, <1>12, ContextKept DEF IInv
<1>15. PICK x : x = Expr(t, Asks(q, FALSE), "param", Now.fn, Now.free)
  OBVIOUS
<1>16. PICK y : y = Call(Now.t, Now.r, TRUE, Now.fn, Now.free)
  OBVIOUS
<1>17. todo' = <<x, y>> \o Later
  BY <1>5, <1>15, <1>16
<1>18. x \in Good'
  <2>1. Asks(q, FALSE) \in Requests /\ Request(Asks(q, FALSE), t)
    BY <1>8, AskedRequest
  <2>2. InStruct(t).v => Now.free
    BY <1>6
  <2>3. x \in Good
    BY <1>1, <1>6, <1>15, <2>1, <2>2, ExprGood
  <2> QED
    BY <1>14, <2>3
<1>19. y \in Good'
  <2>1. y \in Item
    BY <1>1, <1>16 DEF Item, Call
  <2>2. Item' = Item
    BY <1>2 DEF Item
  <2>3. InStruct(y.t)' = InStruct(Now.t)
    BY <1>2, <1>16 DEF InStruct, Call
  <2>4. ItemOK(y)'
    BY <1>1, <1>9, <1>11, <1>16, <2>3 DEF ItemOK, Call
  <2> QED
    BY <2>1, <2>2, <2>4 DEF Good
<1>20. <<x, y>> \in Served'
  <2>1. LeftType(x)' = t /\ LeftRequest(x)' = Asks(q, FALSE) /\ x.do = "expr"
    BY <1>15 DEF LeftType, LeftRequest, Expr
  <2>2. UsedType(y)' = t /\ UsedRequest(y)' = Asks(q, FALSE) /\ y.do = "call"
    BY <1>10, <1>11, <1>16 DEF UsedType, UsedRequest, Call
  <2>3. Implies(Asks(q, FALSE), Asks(q, FALSE))
    BY ConvertsReflexive DEF Implies, Asks
  <2>4. Serves(x, y)'
    BY <2>1, <2>2, <2>3 DEF Serves
  <2> QED
    BY <1>18, <1>19, <2>4 DEF Served
<1>21. Later # <<>> => <<y, Later[1]>> \in Served'
  <2> SUFFICES ASSUME Later # <<>>
               PROVE  <<y, Later[1]>> \in Served'
    OBVIOUS
  <2>1. PICK z \in Good : z = Later[1] /\ Serves(Now, z) /\ z \in Good'
    BY <1>1, <1>14
  <2>2. LeftType(y)' = Now.t /\ LeftRequest(y)' = Now.r /\ y.do = "call"
    BY <1>16 DEF LeftType, LeftRequest, Call
  <2>3. Uses(z) => /\ Now.t = UsedType(z) /\ Implies(Now.r, UsedRequest(z))
                   /\ z.do # "return"
    BY <1>1, <1>2, <2>1 DEF Serves
  <2>4. Uses(z)' => /\ Now.t = UsedType(z)' /\ Implies(Now.r, UsedRequest(z)')
                    /\ z.do # "return"
    BY <1>14, <2>1, <2>3
  <2>5. Serves(y, z)'
    BY <2>2, <2>4 DEF Serves
  <2> QED
    BY <1>19, <2>1, <2>5 DEF Served
<1>22. Linked(Later, Good', Served')
  BY <1>1, <1>14, LinkedMore
<1>23. Linked(todo', Good', Served') /\ todo'[1] = x /\ todo' # <<>>
  BY <1>17, <1>18, <1>19, <1>20, <1>21, <1>22, LinkedTwo
<1>24. Now'.do \in {"expr", "lhs", "body"}
  BY <1>15, <1>23 DEF Now, Expr
<1>25. VarsOK(vs)' /\ Len(vs') \in Nat
  BY <1>2, <1>10, VarsPrimed
<1>26. TodoOK' /\ ResOK'
  BY <1>2, <1>23, <1>24, <1>25, PushKeeps
<1>27. CountsOK'
  BY <1>2, <1>5, CountKept
<1> QED
  BY <1>2, <1>13, <1>25, <1>26, <1>27, QuietKeeps DEF IInv

LEMMA ConvertedLegal ==
  ASSUME NEW to, res.q # <<>> => Converts(to, res.q), NEW c \in Converted(to)
  PROVE  Converts(c[1], c[2])
<1>1. res.q # <<>> /\ c = <<to, res.q>>
  BY DEF Converted
<1> QED
  BY <1>1

LEMMA CallWork ==
  ASSUME IInv, Doing("call")
  PROVE  /\ todo # <<>> /\ Now.do = "call" /\ CountsOK /\ VarsOK(vs) /\ func # NoFunc
         /\ Now.t = func.t /\ Now.t \in program.types /\ Now.r \in Requests /\ Request(Now.r, Now.t)
         /\ Now.fn \in {0, 1} /\ Now.free \in BOOLEAN /\ (InStruct(Now.t).v => Now.free)
         /\ Now.r.wild \/ Converts(Now.r.q, func.rv)
         /\ Now.new \/ func.var # 0
         /\ LeftType(Now) = Now.t /\ LeftRequest(Now) = Now.r
         /\ Linked(Later, Good, Served)
         /\ Later # <<>> => Later[1] \in Good /\ Serves(Now, Later[1])
         /\ Answers(res, vs[func.param].t, Asks(vs[func.param].q, FALSE), vs)
<1>1. todo # <<>> /\ Now.do = "call" /\ CountsOK /\ VarsOK(vs)
  BY DEF Doing, IInv
<1>2. /\ Now \in Good /\ Linked(Later, Good, Served)
      /\ Later # <<>> => Later[1] \in Good /\ Serves(Now, Later[1])
  BY <1>1, FirstWork
<1>3. PICK x \in Good : x = Now /\ x.do = "call"
  BY <1>1, <1>2
<1>4. /\ x.t \in program.types /\ x.r \in Requests /\ Request(x.r, x.t)
      /\ x.fn \in {0, 1} /\ x.free \in BOOLEAN /\ (InStruct(x.t).v => x.free)
      /\ func # NoFunc /\ x.t = func.t /\ (x.r.wild \/ Converts(x.r.q, func.rv))
      /\ x.new \/ func.var # 0
  BY <1>1, <1>3, WorkFacts, Zenon
<1>5. LeftType(Now) = Now.t /\ LeftRequest(Now) = Now.r
  BY <1>1 DEF LeftType, LeftRequest
<1>6. Answers(res, UsedType(Now), UsedRequest(Now), vs)
  BY <1>1 DEF IInv, ResOK, Uses
<1>7. UsedType(Now) = vs[func.param].t /\ UsedRequest(Now) = Asks(vs[func.param].q, FALSE)
  BY <1>1 DEF UsedType, UsedRequest
<1> QED
  BY <1>1, <1>2, <1>3, <1>4, <1>5, <1>6, <1>7

\* The parameter gets the argument's value.
LEMMA BoundFacts ==
  ASSUME IInv, Doing("call")
  PROVE  /\ VarsOK(Bound) /\ Grown(vs, Bound) /\ Len(Bound) = Len(vs)
         /\ \A c \in Converted(vs[func.param].q) : Converts(c[1], c[2])
<1>1. /\ CountsOK /\ VarsOK(vs) /\ func # NoFunc
      /\ Answers(res, vs[func.param].t, Asks(vs[func.param].q, FALSE), vs)
  BY CallWork
<1>2. PICK o \in 1..Len(vs) : o = func.param
  BY <1>1, FuncFacts DEF IInv
<1>3. res.q # <<>> => Converts(vs[o].q, res.q)
  BY <1>1, <1>2 DEF Answers, Asks
<1>4. PointsAt(vs[o].q, vs[o].t, res.to, vs)
  BY <1>1, <1>2, <1>3, AnswerPoints
<1>5. PICK to \in Nat : to = res.to
  BY <1>1 DEF Answers, Expression
<1>6. PICK m : m = Bound /\ m = Repoint(vs, o, to)
  BY <1>2, <1>5 DEF Bound, Repoint
<1>7. PointsAt(vs[o].q, vs[o].t, to, vs)
  BY <1>4, <1>5
<1>8. VarsOK(Bound) /\ Grown(vs, Bound) /\ Len(Bound) = Len(vs)
  BY <1>1, <1>6, <1>7, RepointKeeps
<1> QED
  BY <1>2, <1>3, <1>8, ConvertedLegal

LEMMA ArgumentLegal ==
  ASSUME IInv, Doing("call"), last' = Argument
  PROVE  LastOK'
<1>1. /\ last'.wrote = 0 /\ last'.fits
      /\ last'.converts = Converted(vs[func.param].q)
  BY DEF Argument, Quiet
<1> QED
  BY <1>1, BoundFacts, NothingWritten

\* The body of the function is a return statement.
LEMMA EnterNewKeeps ==
  ASSUME IInv, EnterNew
  PROVE  IInv' /\ LastOK'
<1>1. /\ todo # <<>> /\ Now.do = "call" /\ CountsOK /\ VarsOK(vs) /\ func # NoFunc
      /\ Now.t = func.t /\ Now.t \in program.types /\ Now.r \in Requests /\ Request(Now.r, Now.t)
      /\ Now.fn \in {0, 1} /\ Now.free \in BOOLEAN /\ (InStruct(Now.t).v => Now.free)
      /\ Now.r.wild \/ Converts(Now.r.q, func.rv)
      /\ LeftType(Now) = Now.t /\ LeftRequest(Now) = Now.r
      /\ Linked(Later, Good, Served)
      /\ Later # <<>> => Later[1] \in Good /\ Serves(Now, Later[1])
  BY CallWork DEF EnterNew
<1>2. /\ vs' = Bound /\ res' = Constant /\ last' = Argument
      /\ UNCHANGED <<program, field, func, work>>
  BY DEF EnterNew
<1>3. /\ VarsOK(vs') /\ Grown(vs, vs') /\ Len(vs') = Len(vs)
      /\ VarsOK(vs)' /\ Len(vs') \in Nat /\ Len(vs) \in Nat
  <2>1. VarsOK(Bound) /\ Grown(vs, Bound) /\ Len(Bound) = Len(vs)
    BY BoundFacts DEF EnterNew
  <2> QED
    BY <1>1, <1>2, <2>1, VarsPrimed DEF VarsOK
<1>4. FuncOK' /\ FuncKept
  BY <1>2, <1>3, FuncStays DEF IInv
<1>5. Good \subseteq Good' /\ Served \subseteq Served'
  BY <1>1, <1>2, <1>3, <1>4, ContextKept DEF IInv
<1>6. PICK x : x = Expr(func.t, Asks(func.rv, FALSE), "return", 1, Now.free)
  OBVIOUS
<1>7. PICK y : y = Return
  OBVIOUS
<1>8. todo' = <<x, y>> \o Later
  BY <1>6, <1>7 DEF EnterNew
<1>9. x \in Good
  <2>1. Asks(func.rv, FALSE) \in Requests /\ Request(Asks(func.rv, FALSE), func.t)
    BY <1>1, FuncFacts, AskedRequest DEF IInv
  <2>2. PICK fn \in {0, 1}, as \in {"value", "param", "return", "variable"} :
          /\ as = "return" /\ fn = 1
    OBVIOUS
  <2>3. x = Expr(func.t, Asks(func.rv, FALSE), as, fn, Now.free)
    BY <1>6, <2>2
  <2> QED
    BY <1>1, <2>1, <2>3, ExprGood
<1>10. y \in Good
  BY <1>1, <1>7 DEF Good, Item, ItemOK, Return
<1>11. <<x, y>> \in Served
  <2>1. LeftType(x) = func.t /\ LeftRequest(x) = Asks(func.rv, FALSE) /\ x.do = "expr" /\ x.as = "return"
    BY <1>6 DEF LeftType, LeftRequest, Expr
  <2>2. UsedType(y) = func.t /\ UsedRequest(y) = Asks(func.rv, FALSE)
    BY <1>7 DEF UsedType, UsedRequest, Return
  <2>3. Implies(Asks(func.rv, FALSE), Asks(func.rv, FALSE))
    BY ConvertsReflexive DEF Implies, Asks
  <2>4. Serves(x, y)
    BY <2>1, <2>2, <2>3 DEF Serves
  <2> QED
    BY <1>9, <1>10, <2>4 DEF Served
<1>12. Later # <<>> => <<y, Later[1]>> \in Served
  <2> SUFFICES ASSUME Later # <<>>
               PROVE  Serves(y, Later[1])
    BY <1>1, <1>10 DEF Served
  <2>1. y.do = "return" /\ LeftType(y) = Now.t /\ LeftRequest(y) = Asks(func.rv, FALSE)
    BY <1>1, <1>7 DEF LeftType, LeftRequest, Return
  <2>2. Implies(Asks(func.rv, FALSE), Now.r) \/ Now.r.wild
    BY <1>1 DEF Implies, Asks
  <2> QED
    BY <1>1, <2>1, <2>2, CallServes
<1>13. Linked(todo', Good, Served) /\ todo'[1] = x /\ todo' # <<>>
  BY <1>1, <1>8, <1>9, <1>10, <1>11, <1>12, LinkedTwo
<1>14. Now'.do \in {"expr", "lhs", "body"}
  BY <1>6, <1>13 DEF Now, Expr
<1>15. TodoOK' /\ ResOK'
  <2>1. Linked(todo', Good', Served')
    BY <1>5, <1>13, LinkedMore
  <2> QED
    BY <1>2, <1>3, <1>13, <1>14, <2>1, PushKeeps
<1>16. CountsOK'
  BY <1>1, <1>2, <1>3, CountKept DEF CountsOK
<1>17. LastOK'
  BY <1>2, ArgumentLegal DEF EnterNew
<1> QED
  BY <1>3, <1>4, <1>15, <1>16, <1>17 DEF IInv

LEMMA EnterAgainKeeps ==
  ASSUME IInv, EnterAgain
  PROVE  IInv' /\ LastOK'
<1>1. /\ todo # <<>> /\ Now.do = "call" /\ CountsOK /\ VarsOK(vs) /\ func # NoFunc
      /\ Now.t = func.t /\ Now.t \in program.types /\ Now.r \in Requests /\ Request(Now.r, Now.t)
      /\ Now.fn \in {0, 1} /\ Now.free \in BOOLEAN /\ (InStruct(Now.t).v => Now.free)
      /\ Now.r.wild \/ Converts(Now.r.q, func.rv)
      /\ Now.new \/ func.var # 0
      /\ LeftType(Now) = Now.t /\ LeftRequest(Now) = Now.r
      /\ Linked(Later, Good, Served)
      /\ Later # <<>> => Later[1] \in Good /\ Serves(Now, Later[1])
  BY CallWork DEF EnterAgain
<1>2. /\ ~Now.new /\ func.var # 0
      /\ UNCHANGED <<program, field, func, work>>
  BY <1>1 DEF EnterAgain
<1>3. CASE Valid(Bound, func.var, func.deref) /\ ~Escapes(Bound, Returned(Bound).to)
  <2>1. /\ res' = [Constant EXCEPT !.q = func.rv, !.to = Returned(Bound).to]
        /\ vs' = Bound /\ last' = Argument /\ todo' = Later
    BY <1>3 DEF EnterAgain, Done
  <2>2. /\ VarsOK(Bound) /\ Grown(vs, Bound) /\ Len(Bound) = Len(vs)
    BY BoundFacts DEF EnterAgain
  <2>3. PICK v \in 1..Len(vs), d \in -1..MaxLevel :
          /\ v = func.var /\ d = func.deref /\ Derives(vs[v], d, func.t)
          /\ Converts(func.rv, Indirect(vs[v].q, d))
    BY <1>1, <1>2 DEF IInv, FuncOK, Names
  <2>4. v \in 1..Len(Bound) /\ Derives(Bound[v], d, func.t) /\ Bound[v].q = vs[v].q
    BY <2>2, <2>3 DEF Grown, Derives
  <2>5. PICK to : to = Value(Bound, v, d).to /\ to = Returned(Bound).to
    BY <2>3 DEF Returned
  <2>6. /\ to \in 0..Len(Bound) /\ PointsAt(Indirect(vs[v].q, d), func.t, to, Bound)
    <3>1. Valid(Bound, v, d)
      BY <1>3, <2>3
    <3>2. /\ Value(Bound, v, d).q = Indirect(Bound[v].q, d)
          /\ Value(Bound, v, d).to \in 0..Len(Bound)
          /\ PointsAt(Value(Bound, v, d).q, func.t, Value(Bound, v, d).to, Bound)
      BY <1>1, <2>2, <2>4, <3>1, ValuePoints
    <3> QED
      BY <2>4, <2>5, <3>2
  <2>7. PointsAt(func.rv, func.t, to, Bound)
    BY <2>3, <2>6, ConvertsTransitive DEF PointsAt
  <2>8. PICK e : e = [Constant EXCEPT !.q = func.rv, !.to = Returned(Bound).to]
    OBVIOUS
  <2>9. /\ func.rv \in Seq(Qualifier) /\ Len(func.rv) = func.t.level + 1 /\ func.rv # <<>>
    BY <1>1, FuncFacts DEF IInv
  <2>10. e \in Expression /\ e.q = func.rv /\ e.to = to /\ e.var = 0
    <3>1. to \in Nat
      BY <2>2, <2>6 DEF VarsOK
    <3>2. e = [var |-> 0, deref |-> 0, q |-> func.rv, to |-> to]
      BY <2>5, <2>8 DEF Constant
    <3> QED
      BY <2>9, <3>1, <3>2 DEF Expression
  <2>11. Answers(e, Now.t, Now.r, Bound)
    BY <1>1, <2>7, <2>9, <2>10 DEF Answers
  <2>12. IInv'
    <3>1. Len(vs') <= MaxVars
      BY <1>1, <2>1, <2>2 DEF CountsOK
    <3> QED
      BY <1>1, <1>2, <2>1, <2>2, <2>6, <2>8, <2>10, <2>11, <3>1, DoneAll
  <2>13. LastOK'
    BY <2>1, ArgumentLegal DEF EnterAgain
  <2> QED
    BY <2>12, <2>13
<1>4. CASE ~(Valid(Bound, func.var, func.deref) /\ ~Escapes(Bound, Returned(Bound).to))
  <2>1. PICK x : x = Expr(Now.t, Now.r, "variable", Now.fn, Now.free)
    OBVIOUS
  <2>2. todo' = <<x>> \o Later /\ res' = Constant /\ last' = Quiet /\ UNCHANGED vs
    BY <1>4, <2>1 DEF EnterAgain
  <2>3. x \in Good
    BY <1>1, <2>1, ExprGood
  <2>4. Later # <<>> => <<x, Later[1]>> \in Served
    <3> SUFFICES ASSUME Later # <<>>
                 PROVE  Serves(x, Later[1])
      BY <1>1, <2>3 DEF Served
    <3>1. x.do = "expr" /\ LeftType(x) = Now.t /\ LeftRequest(x) = Now.r
      BY <2>1 DEF LeftType, LeftRequest, Expr
    <3>2. Implies(Now.r, Now.r) \/ Now.r.wild
      BY ConvertsReflexive DEF Implies
    <3> QED
      BY <1>1, <3>1, <3>2, CallServes
  <2>5. Linked(todo', Good, Served) /\ todo'[1] = x /\ todo' # <<>>
    BY <1>1, <2>2, <2>3, <2>4, LinkedOne
  <2>6. Now'.do \in {"expr", "lhs"}
    BY <2>1, <2>5 DEF Now, Expr
  <2> QED
    BY <1>2, <2>2, <2>5, <2>6, PushedWork
<1> QED
  BY <1>3, <1>4

\* The body of the function is done: what it returned is what it returns.
LEMMA ReturnValueKeeps ==
  ASSUME IInv, ReturnValue
  PROVE  IInv' /\ LastOK'
<1>1. /\ todo # <<>> /\ Now.do = "return" /\ CountsOK /\ VarsOK(vs)
  BY DEF ReturnValue, Doing, IInv
<1>2. /\ func' = [func EXCEPT !.var = res.var, !.deref = res.deref]
      /\ res' = [Constant EXCEPT !.q = func.rv, !.to = res.to] /\ vs' = vs /\ todo' = Later
      /\ last' = [Quiet EXCEPT !.converts = Converted(func.rv)]
      /\ UNCHANGED <<program, field, work>>
  BY DEF ReturnValue, Done
<1>3. func # NoFunc
  <2>1. PICK x \in Good : x = Now /\ x.do = "return"
    BY <1>1, FirstWork
  <2> QED
    BY <1>1, <2>1, WorkFacts
<1>4. LeftType(Now) = func.t /\ LeftRequest(Now) = Asks(func.rv, FALSE)
  BY <1>1 DEF LeftType, LeftRequest
<1>5. Answers(res, func.t, Asks(func.rv, FALSE), vs) /\ res.var # 0
  <2>1. Answers(res, UsedType(Now), UsedRequest(Now), vs) /\ res.var # 0
    BY <1>1 DEF IInv, ResOK, Uses
  <2>2. UsedType(Now) = func.t /\ UsedRequest(Now) = Asks(func.rv, FALSE)
    BY <1>1 DEF UsedType, UsedRequest
  <2> QED
    BY <2>1, <2>2
<1>6. /\ func.t \in program.types /\ func.rv \in Seq(Qualifier) /\ Len(func.rv) = func.t.level + 1
      /\ func.rv # <<>> /\ func \in Function
  BY <1>1, <1>3, FuncFacts DEF IInv, FuncOK
<1>7. /\ res.q # <<>> /\ res \in Expression /\ Names(res, func.t, vs) /\ Converts(func.rv, res.q)
  BY <1>5 DEF Answers, Asks
<1>8. /\ func' \in Function /\ func' # NoFunc /\ func'.t = func.t /\ func'.rv = func.rv
      /\ func'.param = func.param /\ func'.var = res.var /\ func'.deref = res.deref
  <2>1. func' = [t |-> func.t, rv |-> func.rv, param |-> func.param,
                 var |-> res.var, deref |-> res.deref]
    BY <1>2, <1>6 DEF Function
  <2>2. res.var \in Nat /\ res.deref \in Int
    BY <1>7 DEF Expression
  <2>3. func' # NoFunc
    BY <1>6, <2>1 DEF NoFunc
  <2> QED
    BY <1>6, <2>1, <2>2, <2>3 DEF Function
<1>9. FuncKept
  BY <1>5, <1>8 DEF FuncKept
<1>10. Grown(vs, vs') /\ VarsOK(vs') /\ VarsOK(vs)' /\ Len(vs') \in Nat
  BY <1>2, SameGrown
<1>11. FuncOK'
  <2>1. func' \in Function'
    BY <1>2, <1>8 DEF Function
  <2>2. /\ Len(func'.rv) = func'.t.level + 1 /\ NoneVolatile(func'.rv)
        /\ func'.param \in 1..Len(vs')
        /\ ~InStruct(vs[func.param].t)'.v /\ NoneVolatile(vs'[func'.param].q)
    <3>1. InStruct(vs[func.param].t)' = InStruct(vs[func.param].t)
      BY <1>2, <1>8 DEF InStruct
    <3> QED
      BY <1>1, <1>2, <1>3, <1>8, <3>1, FuncFacts DEF IInv
  <2>3. Names([var |-> func'.var, deref |-> func'.deref,
               q |-> Indirect(vs'[func'.var].q, func'.deref), to |-> 0], func'.t, vs')
    BY <1>2, <1>7, <1>8 DEF Names
  <2>4. Converts(func'.rv, Indirect(vs'[func'.var].q, func'.deref))
    BY <1>2, <1>7, <1>8 DEF Names
  <2> QED
    BY <2>1, <2>2, <2>3, <2>4 DEF FuncOK
<1>12. PICK to \in Nat : to = res.to /\ to \in 0..Len(vs)
  BY <1>7 DEF IInv, ResOK, Expression
<1>13. /\ res' \in Expression /\ res'.q = func.rv /\ res'.to = to /\ res'.var = 0
  <2>1. res' = [var |-> 0, deref |-> 0, q |-> func.rv, to |-> to]
    BY <1>2, <1>12 DEF Constant
  <2> QED
    BY <1>6, <2>1 DEF Expression
<1>14. Answers(res', LeftType(Now), LeftRequest(Now), vs')
  <2>1. PointsAt(func.rv, func.t, to, vs)
    BY <1>5, <1>7, <1>12, AnswerPoints
  <2>2. Converts(func.rv, func.rv)
    BY ConvertsReflexive
  <2> QED
    BY <1>2, <1>4, <1>6, <1>13, <2>1, <2>2 DEF Answers, Asks
<1>15. TodoOK' /\ ResOK'
  <2>1. res'.to \in 0..Len(vs') /\ Now.do # "body" /\ Now.do # "expr"
    BY <1>1, <1>2, <1>12, <1>13
  <2> QED
    BY <1>1, <1>2, <1>9, <1>10, <1>14, <2>1, DoneKeeps
<1>16. CountsOK'
  BY <1>1, <1>2, CountKept DEF CountsOK
<1>17. LastOK'
  <2>1. last'.wrote = 0 /\ last'.fits /\ last'.converts = Converted(func.rv)
    BY <1>2 DEF Quiet
  <2>2. \A c \in Converted(func.rv) : Converts(c[1], c[2])
    BY <1>7, ConvertedLegal
  <2> QED
    BY <2>1, <2>2, NothingWritten
<1> QED
  BY <1>10, <1>11, <1>15, <1>16, <1>17 DEF IInv

-----------------------------------------------------------------------------
(* Left-hand sides *)

LEMMA LhsWork ==
  ASSUME IInv, Doing("lhs")
  PROVE  /\ todo # <<>> /\ Now.do = "lhs" /\ CountsOK /\ VarsOK(vs)
         /\ Now.t \in program.types /\ Now.r \in Requests /\ Request(Now.r, Now.t)
         /\ Now.fn \in {0, 1} /\ Now.free \in BOOLEAN /\ (InStruct(Now.t).v => Now.free)
         /\ Now.given \in BOOLEAN /\ (Now.given <=> ~Now.r.wild) /\ ~InStruct(Now.t).c
         /\ Now.op \in AssignOps(Now.t)
         /\ LeftType(Now) = Now.t /\ LeftRequest(Now) = Now.r
         /\ Answers(res, Now.t, Now.r, vs)
<1>1. todo # <<>> /\ Now.do = "lhs" /\ CountsOK /\ VarsOK(vs)
  BY DEF Doing, IInv
<1>2. PICK x \in Good : x = Now /\ x.do = "lhs"
  BY <1>1, FirstWork
<1>3. /\ x.t \in program.types /\ x.r \in Requests /\ Request(x.r, x.t)
      /\ x.fn \in {0, 1} /\ x.free \in BOOLEAN /\ (InStruct(x.t).v => x.free)
      /\ x.given \in BOOLEAN /\ x.given = ~x.r.wild /\ ~InStruct(x.t).c
      /\ x.op \in AssignOps(x.t)
  BY <1>1, <1>2, WorkFacts, Zenon
<1>4. LeftType(Now) = Now.t /\ LeftRequest(Now) = Now.r
  BY <1>1 DEF LeftType, LeftRequest
<1>5. Answers(res, UsedType(Now), UsedRequest(Now), vs)
  BY <1>1 DEF IInv, ResOK, Uses
<1>6. UsedType(Now) = Now.t /\ UsedRequest(Now) = Now.r
  BY <1>1 DEF UsedType, UsedRequest
<1> QED
  BY <1>1, <1>2, <1>3, <1>4, <1>5, <1>6

\* Qualifiers that a left-hand side may have: those that were asked for, or
\* stricter ones than the right-hand side has.
Suits(q) ==
  /\ Now.r.wild \/ Converts(Now.r.q, q)
  /\ res.q # <<>> => Converts(q, res.q)

\* Requests for such a left-hand side.
Fair(r) ==
  /\ r \in Requests
  /\ IF r.wild THEN ~Now.given /\ res.q = <<>>
     ELSE /\ Len(r.q) = Now.t.level + 1
          /\ r.strict <=> ~Now.given
          /\ IF Now.given THEN SameBelow(r.q, Now.r.q)
             ELSE res.q # <<>> /\ SameBelow(r.q, res.q)

LEMMA FairSame ==
  ASSUME IInv, Doing("lhs"), NEW r, Fair(r), NEW q, r.wild \/ SameBelow(q, r.q)
  PROVE  Suits(q)
<1>1. /\ (Now.given <=> ~Now.r.wild) /\ Answers(res, Now.t, Now.r, vs)
  BY LhsWork
<1>2. CASE r.wild
  BY <1>1, <1>2 DEF Fair, Suits
<1>3. CASE ~r.wild /\ Now.given
  <2>1. SameBelow(q, r.q) /\ SameBelow(r.q, Now.r.q)
    BY <1>3 DEF Fair
  <2>2. Converts(Now.r.q, q) /\ Converts(q, Now.r.q)
    BY <2>1, SameBelowConverts, TopIsFree
  <2>3. res.q # <<>> => Converts(Now.r.q, res.q)
    BY <1>1, <1>3 DEF Answers
  <2> QED
    BY <2>2, <2>3, ConvertsTransitive DEF Suits
<1>4. CASE ~r.wild /\ ~Now.given
  <2>1. SameBelow(q, r.q) /\ SameBelow(r.q, res.q)
    BY <1>4 DEF Fair
  <2>2. Converts(q, res.q)
    BY <2>1, SameBelowConverts, TopIsFree
  <2> QED
    BY <1>1, <1>4, <2>2 DEF Suits
<1> QED
  BY <1>2, <1>3, <1>4

LEMMA FairMatch ==
  ASSUME IInv, Doing("lhs"), NEW r, Fair(r), NEW i \in 1..Len(vs), NEW n \in Nat,
         Derives(vs[i], n, Now.t), MatchIndirect(r, vs[i].q, Now.given)
  PROVE  Suits(Indirect(vs[i].q, n))
<1>1. /\ (Now.given <=> ~Now.r.wild) /\ Answers(res, Now.t, Now.r, vs) /\ Now.given \in BOOLEAN
      /\ CountsOK /\ VarsOK(vs) /\ Now.t \in program.types
  BY LhsWork
<1>2. r \in Requests /\ (r.wild \/ Len(r.q) = Now.t.level + 1)
  BY DEF Fair
<1>3. PICK t \in program.types, exact \in BOOLEAN : t = Now.t /\ (exact <=> Now.given) /\ exact = Now.given
  BY <1>1
<1>4. PICK d : d = Indirect(vs[i].q, n)
  OBVIOUS
<1>5. /\ r.wild \/ r.strict \/ Converts(r.q, d)
      /\ r.wild \/ ~exact \/ Converts(r.q, d)
      /\ r.wild \/ ~(r.strict \/ exact) \/ Converts(d, r.q)
  <2>1. n \in Int /\ n >= -1 /\ CountsOK /\ VarsOK(vs)
    BY <1>1
  <2>2. Derives(vs[i], n, t) /\ MatchIndirect(r, vs[i].q, exact) /\ (r.wild \/ Len(r.q) = t.level + 1)
    BY <1>2, <1>3
  <2> QED
    BY <1>2, <1>4, <2>1, <2>2, MatchedAnswers
<1>6. CASE r.wild
  BY <1>1, <1>4, <1>6 DEF Fair, Suits
<1>7. CASE ~r.wild /\ Now.given
  <2>1. SameBelow(r.q, Now.r.q) /\ Converts(r.q, d) /\ Converts(d, r.q)
    BY <1>3, <1>5, <1>7 DEF Fair
  <2>2. Converts(Now.r.q, d) /\ Converts(d, Now.r.q)
    BY <2>1, TopIsFree
  <2>3. res.q # <<>> => Converts(Now.r.q, res.q)
    BY <1>1, <1>7 DEF Answers
  <2> QED
    BY <1>4, <2>2, <2>3, ConvertsTransitive DEF Suits
<1>8. CASE ~r.wild /\ ~Now.given
  <2>1. SameBelow(r.q, res.q) /\ Converts(d, r.q)
    BY <1>3, <1>5, <1>8 DEF Fair
  <2>2. Converts(d, res.q)
    BY <2>1, TopIsFree
  <2> QED
    BY <1>1, <1>4, <1>8, <2>2 DEF Suits
<1> QED
  BY <1>6, <1>7, <1>8

\* What a request says of the variable itself does not matter.
LEMMA FairTop ==
  ASSUME NEW r, Fair(r), ~r.wild, NEW q \in Seq(Qualifier), SameBelow(q, r.q),
         NEW s, s = [r EXCEPT !.q = q]
  PROVE  Fair(s) /\ s \in Requests /\ ~s.wild /\ s.q = q /\ Len(q) = Len(r.q)
<1>1. r \in Requests /\ r.wild \in BOOLEAN /\ r.strict \in BOOLEAN
  BY DEF Fair, Requests
<1>2. s \in Requests /\ s.wild = r.wild /\ s.strict = r.strict /\ s.q = q
  BY <1>1 DEF Requests
<1>3. Len(q) = Len(r.q) /\ \A a : SameBelow(r.q, a) => SameBelow(q, a)
  BY DEF SameBelow
<1>4. Fair(s)
  BY <1>1, <1>2, <1>3 DEF Fair
<1> QED
  BY <1>2, <1>3, <1>4

LEMMA AskedFair ==
  ASSUME IInv, Doing("lhs")
  PROVE  Fair(Asked)
<1>1. /\ Now.t \in program.types /\ Now.r \in Requests /\ Request(Now.r, Now.t) /\ CountsOK
      /\ Now.given \in BOOLEAN /\ (Now.given <=> ~Now.r.wild) /\ Answers(res, Now.t, Now.r, vs)
  BY LhsWork
<1>2. PICK r : r = IF Now.given THEN Now.r
                   ELSE IF res.q = <<>> THEN Anything ELSE Asks(res.q, TRUE)
  BY Zenon
<1>3. Asked = IF Now.op = "compound" /\ ~r.wild
              THEN [r EXCEPT !.q = [r.q EXCEPT ![Len(r.q)] = [r.q[Len(r.q)] EXCEPT !.v = FALSE]]]
              ELSE r
  BY <1>2 DEF Asked
<1>4. Fair(r)
  <2>1. CASE Now.given
    <3>1. r = Now.r /\ ~r.wild
      BY <1>1, <1>2, <2>1
    <3>2. Len(r.q) = Now.t.level + 1 /\ ~r.strict
      BY <1>1, <3>1, RequestLength
    <3>3. SameBelow(r.q, Now.r.q)
      BY <3>1 DEF SameBelow
    <3> QED
      BY <1>1, <2>1, <3>1, <3>2, <3>3 DEF Fair
  <2>2. CASE ~Now.given /\ res.q = <<>>
    <3>1. r = Anything
      BY <1>2, <2>2
    <3>2. <<>> \in Seq(Qualifier)
      OBVIOUS
    <3> QED
      BY <2>2, <3>1, <3>2 DEF Fair, Anything, Requests
  <2>3. CASE ~Now.given /\ res.q # <<>>
    <3>1. r = Asks(res.q, TRUE)
      BY <1>2, <2>3
    <3>2. res.q \in Seq(Qualifier) /\ Len(res.q) = Now.t.level + 1
      BY <1>1, <2>3 DEF Answers, Expression
    <3>3. SameBelow(res.q, res.q)
      BY DEF SameBelow
    <3>4. /\ r \in Requests /\ ~r.wild /\ r.strict /\ r.q = res.q
      BY <3>1, <3>2 DEF Asks, Requests
    <3> QED
      BY <2>3, <3>2, <3>3, <3>4 DEF Fair
  <2> QED
    BY <1>1, <2>1, <2>2, <2>3
<1>5. CASE ~(Now.op = "compound" /\ ~r.wild)
  BY <1>3, <1>4, <1>5
<1>6. CASE Now.op = "compound" /\ ~r.wild
  <2>1. PICK n \in Nat : n = Len(r.q) /\ n \in 1..n /\ r.q \in Seq(Qualifier) /\ r.q[n] \in Qualifier
    <3>1. Len(r.q) = Now.t.level + 1 /\ r.q \in Seq(Qualifier)
      BY <1>4, <1>6 DEF Fair, Requests
    <3>2. Len(r.q) \in 1..Len(r.q)
      BY <1>1, <3>1, TypeFacts
    <3> QED
      BY <3>1, <3>2
  <2>2. PICK f \in Qualifier : f = [r.q[n] EXCEPT !.v = FALSE]
    BY <2>1 DEF Qualifier
  <2>3. PICK q \in Seq(Qualifier) :
          /\ q = [r.q EXCEPT ![n] = f] /\ Len(q) = n
          /\ \A i \in 1..n : q[i] = IF i = n THEN f ELSE r.q[i]
    <3>1. PICK a \in Seq(Qualifier) : a = r.q /\ n \in 1..Len(a)
      BY <2>1
    <3>2. /\ [a EXCEPT ![n] = f] \in Seq(Qualifier) /\ Len([a EXCEPT ![n] = f]) = Len(a)
          /\ \A i \in 1..Len(a) : [a EXCEPT ![n] = f][i] = IF i = n THEN f ELSE a[i]
      BY <3>1, Updated
    <3> QED
      BY <2>1, <3>1, <3>2
  <2>4. SameBelow(q, r.q)
    <3>1. \A i \in 1..n - 1 : i \in 1..n /\ i # n
      OBVIOUS
    <3> QED
      BY <2>1, <2>3, <3>1 DEF SameBelow
  <2>5. Asked = [r EXCEPT !.q = q]
    BY <1>3, <1>6, <2>1, <2>2, <2>3, Zenon
  <2> QED
    BY <1>4, <1>6, <2>4, <2>5, FairTop
<1> QED
  BY <1>5, <1>6

LEMMA WritableFair ==
  ASSUME IInv, Doing("lhs"), NEW free \in BOOLEAN
  PROVE  /\ Fair(Writable(free))
         /\ ~Writable(free).wild => /\ Writable(free).q \in Seq(Qualifier)
                                    /\ Len(Writable(free).q) = Now.t.level + 1
                                    /\ ~Top(Writable(free).q).c
                                    /\ Top(Writable(free).q).v => free
<1>1. Fair(Asked) /\ Now.t \in program.types /\ CountsOK
  BY AskedFair, LhsWork
<1>2. CASE Asked.wild
  BY <1>1, <1>2 DEF Writable
<1>3. CASE ~Asked.wild
  <2>1. Asked.q \in Seq(Qualifier) /\ Len(Asked.q) = Now.t.level + 1
    BY <1>1, <1>3 DEF Fair, Requests
  <2>2. Len(Asked.q) > 0
    BY <1>1, <2>1, TypeFacts
  <2>3. PICK q \in Seq(Qualifier) :
          /\ q = Restrict(Asked.q, "write", free) /\ SameBelow(q, Asked.q)
          /\ ~Top(q).c /\ (Top(q).v => free)
    BY <2>1, <2>2, RestrictFacts
  <2>4. Writable(free) = [Asked EXCEPT !.q = q]
    BY <1>3, <2>3 DEF Writable
  <2>5. /\ Fair(Writable(free)) /\ ~Writable(free).wild /\ Writable(free).q = q
        /\ Len(q) = Len(Asked.q)
    BY <1>1, <1>3, <2>3, <2>4, FairTop
  <2> QED
    BY <2>1, <2>3, <2>5
<1> QED
  BY <1>2, <1>3

\* The assignment itself, to a variable of the list l that suits.
LEMMA StoreKeeps ==
  ASSUME IInv, Doing("lhs"), UNCHANGED <<program, field, func, work>>,
         NEW l, VarsOK(l), Grown(vs, l), Len(l) <= MaxVars,
         NEW i \in 1..Len(l), NEW n \in 0..MaxLevel, Derives(l[i], n, Now.t), Valid(l, i, n),
         Suits(Indirect(l[i].q, n)), ~Top(Indirect(l[i].q, n)).c,
         NEW made, \A c \in made : Converts(c[1], c[2]), NEW selected, selected,
         Store(l, i, n, made, selected)
  PROVE  IInv' /\ LastOK'
<1>1. /\ todo # <<>> /\ Now.do = "lhs" /\ CountsOK /\ VarsOK(vs)
      /\ Now.t \in program.types /\ ~InStruct(Now.t).c /\ Now.t.level \in Nat
      /\ LeftType(Now) = Now.t /\ LeftRequest(Now) = Now.r
      /\ Answers(res, Now.t, Now.r, vs)
  BY LhsWork, TypeFacts
<1>2. PICK q \in Seq(Qualifier) : q = Indirect(l[i].q, n) /\ Len(q) = Now.t.level + 1 /\ q # <<>>
  <2>1. n \in -1..MaxLevel
    BY SelectionConstantsOK
  <2>2. Indirect(l[i].q, n) \in Seq(Qualifier) /\ Len(Indirect(l[i].q, n)) = Now.t.level + 1
    BY <1>1, <2>1, ValuePoints
  <2> QED
    BY <1>1, <2>2, NotEmpty
<1>3. PICK o \in 1..Len(l) : o = Object(l, i, n) /\ l[o].t = Now.t /\ Below(q, l[o].q)
  BY <1>1, <1>2, DerivedObject
<1>4. PICK after : after = IF Now.t.level > 0 THEN Repoint(l, o, res.to) ELSE l
  OBVIOUS
<1>5. PICK rhs : rhs = IF Now.op = "simple" THEN Converted(q) ELSE {}
  OBVIOUS
<1>6. /\ res' = [Constant EXCEPT !.q = q, !.to = after[o].to] /\ vs' = after /\ todo' = Later
      /\ last' = [converts |-> made \cup rhs, wrote |-> o, fits |-> selected /\ ~Top(q).c]
  <2>1. after = IF Now.t.level > 0 THEN [l EXCEPT ![o].to = res.to] ELSE l
    BY <1>4 DEF Repoint
  <2> QED
    BY <1>2, <1>3, <1>5, <2>1 DEF Store, Done
<1>7. SameBelow(l[o].q, q) /\ SameBelow(q, l[o].q)
  BY <1>3, TopIsFree DEF Below
<1>8. res.q # <<>> => Converts(l[o].q, res.q)
  BY <1>2, <1>7, TopIsFree DEF Suits
<1>9. VarsOK(after) /\ Grown(l, after) /\ Len(after) = Len(l)
  <2>1. CASE Now.t.level > 0
    <3>1. PointsAt(l[o].q, Now.t, res.to, vs)
      BY <1>1, <1>8, AnswerPoints
    <3>2. vs \in Seq(Variable) /\ l \in Seq(Variable)
      BY <1>1 DEF VarsOK
    <3>3. PointsAt(l[o].q, l[o].t, res.to, l)
      BY <1>3, <3>1, <3>2, PointsAtGrown
    <3>4. res.to \in Nat
      BY <1>1 DEF Answers, Expression
    <3> QED
      BY <1>1, <1>4, <2>1, <3>3, <3>4, RepointKeeps
  <2>2. CASE ~(Now.t.level > 0)
    <3>1. after = l /\ Len(l) \in Nat
      BY <1>4, <2>2 DEF VarsOK
    <3> QED
      BY <3>1 DEF Grown
  <2> QED
    BY <2>1, <2>2
<1>10. Grown(vs, after)
  BY <1>1, <1>9, GrownTransitive DEF VarsOK
<1>11. after[o].t = Now.t /\ after[o].q = l[o].q /\ o \in 1..Len(after) /\ Len(after) \in Nat
  BY <1>3, <1>9 DEF Grown, VarsOK
<1>12. PICK to \in 0..Len(after) : to = after[o].to /\ PointsAt(l[o].q, Now.t, to, after)
  <2>1. after[o].to \in 0..Len(after)
    BY <1>1, <1>9, <1>11, VariableFacts
  <2>2. PointsAt(after[o].q, after[o].t, after[o].to, after)
    BY <1>9, <1>11 DEF VarsOK
  <2> QED
    BY <1>11, <2>1, <2>2
<1>13. PointsAt(q, Now.t, to, after)
  BY <1>7, <1>12, TopIsFree DEF PointsAt
<1>14. /\ res' \in Expression /\ res'.q = q /\ res'.to = to /\ res'.var = 0
  <2>1. res' = [var |-> 0, deref |-> 0, q |-> q, to |-> to]
    BY <1>6, <1>12 DEF Constant
  <2>2. to \in Nat
    BY <1>11
  <2> QED
    BY <2>1, <2>2 DEF Expression
<1>15. Answers(res', LeftType(Now), LeftRequest(Now), vs')
  BY <1>1, <1>2, <1>6, <1>13, <1>14 DEF Answers, Suits
<1>16. IInv'
  <2>1. Len(vs') <= MaxVars /\ res'.to \in 0..Len(vs') /\ Now.do # "body" /\ Now.do # "expr"
    BY <1>1, <1>6, <1>9, <1>12, <1>14
  <2> QED
    BY <1>1, <1>6, <1>9, <1>10, <1>15, <2>1, DoneAll
<1>17. LastOK'
  <2>1. last'.fits /\ last'.wrote = o /\ last'.converts = made \cup rhs
    BY <1>2, <1>6, Zenon
  <2>2. ASSUME NEW c \in made \cup rhs
        PROVE  Converts(c[1], c[2])
    <3>1. res.q # <<>> => Converts(q, res.q)
      BY <1>2 DEF Suits
    <3>2. c \in made \/ c \in Converted(q)
      BY <1>5
    <3> QED
      BY <3>1, <3>2, ConvertedLegal
  <2>3. ~Top(vs'[o].q).c
    BY <1>2, <1>3, <1>6, <1>11 DEF Below
  <2>4. ~InStruct(vs[last.wrote].t)'.c
    <3>1. InStruct(vs[last.wrote].t)' = InStruct(Now.t)
      BY <1>6, <1>11, <2>1 DEF InStruct
    <3> QED
      BY <1>1, <3>1
  <2> QED
    BY <2>1, <2>2, <2>3, <2>4 DEF LastOK, ConstNeverWritten, ConversionsLegal, AssertionsHold
<1> QED
  BY <1>16, <1>17

LEMMA ContextFacts ==
  ASSUME IInv, Doing("lhs"), NEW free \in Contexts
  PROVE  free \in BOOLEAN /\ (InStruct(Now.t).v => free)
<1>1. Now.free \in BOOLEAN /\ (InStruct(Now.t).v => Now.free) /\ Now.op \in AssignOps(Now.t)
  BY LhsWork
<1>2. CASE Now.op = "compound"
  <2>1. Now.t = Integer(0)
    BY <1>1, <1>2 DEF AssignOps
  <2>2. ~InStruct(Now.t).v
    BY <2>1 DEF InStruct, Integer, Struct, Plain
  <2> QED
    BY <1>1, <1>2, <2>2 DEF Contexts
<1>3. CASE Now.op # "compound"
  BY <1>1, <1>3 DEF Contexts
<1> QED
  BY <1>2, <1>3

LEMMA MayWriteFacts ==
  ASSUME IInv, Doing("lhs"), NEW r, Fair(r), NEW free, NEW i \in 1..Len(vs),
         NEW n \in 0..MaxLevel, MayWrite(i, n, r, free)
  PROVE  /\ Derives(vs[i], n, Now.t) /\ Valid(vs, i, n) /\ Suits(Indirect(vs[i].q, n))
         /\ ~Top(Indirect(vs[i].q, n)).c /\ SelectedFits(vs[i], free)
<1>1. CountsOK /\ VarsOK(vs) /\ Now.t \in program.types /\ n \in Nat
  BY LhsWork, SelectionConstantsOK
<1>2. /\ Derives(vs[i], n, Now.t) /\ Valid(vs, i, n) /\ MatchIndirect(r, vs[i].q, Now.given)
      /\ (After(vs[i], n).v \/ After(vs[i], 0).v) => free
      /\ ~After(vs[i], n).c
  BY DEF MayWrite, Eligible
<1>3. Suits(Indirect(vs[i].q, n))
  BY <1>1, <1>2, FairMatch
<1>4. After(vs[i], n).c <=> Top(Indirect(vs[i].q, n)).c \/ InStruct(Now.t).c
  BY <1>1, <1>2, AfterFacts
<1> QED
  BY <1>2, <1>3, <1>4 DEF SelectedFits

\* An assignment to a variable that was there.
LEMMA ThereKeeps ==
  ASSUME IInv, Doing("lhs"), UNCHANGED <<program, field, func, work>>,
         NEW r, Fair(r), NEW free, NEW i \in 1..Len(vs), NEW n \in 0..MaxLevel,
         MayWrite(i, n, r, free), NEW selected, SelectedFits(vs[i], free) => selected,
         Store(vs, i, n, {}, selected)
  PROVE  IInv' /\ LastOK'
<1>1. /\ VarsOK(vs) /\ Grown(vs, vs) /\ Len(vs) <= MaxVars
  <2>1. Len(vs) \in Nat /\ VarsOK(vs) /\ Len(vs) <= MaxVars
    BY DEF IInv, VarsOK, CountsOK
  <2> QED
    BY <2>1 DEF Grown
<1>2. /\ Derives(vs[i], n, Now.t) /\ Valid(vs, i, n) /\ Suits(Indirect(vs[i].q, n))
      /\ ~Top(Indirect(vs[i].q, n)).c /\ selected
  BY MayWriteFacts
<1>3. PICK made : made = {} /\ Store(vs, i, n, made, selected)
  OBVIOUS
<1>4. \A c \in made : Converts(c[1], c[2])
  BY <1>3
<1> QED
  BY <1>1, <1>2, <1>3, <1>4, StoreKeeps

LEMMA WriteThroughKeeps ==
  ASSUME IInv, WriteThrough
  PROVE  IInv' /\ LastOK'
<1>1. Doing("lhs") /\ UNCHANGED <<program, field, func, work>>
  BY DEF WriteThrough
<1>2. PICK free \in Contexts : \E i \in Visible(Now.fn) : \E n \in 1..MaxLevel :
        MayWrite(i, n, Asked, free) /\ Store(vs, i, n, {}, TRUE)
  BY DEF WriteThrough
<1>3. PICK i \in Visible(Now.fn) : \E n \in 1..MaxLevel :
        MayWrite(i, n, Asked, free) /\ Store(vs, i, n, {}, TRUE)
  BY <1>2
<1>4. PICK n \in 1..MaxLevel : MayWrite(i, n, Asked, free) /\ Store(vs, i, n, {}, TRUE)
  BY <1>3
<1>5. i \in 1..Len(vs) /\ n \in 0..MaxLevel
  BY <1>3, SelectionConstantsOK DEF Visible, Globals, Locals, Params
<1>6. PICK r : r = Asked /\ Fair(r) /\ MayWrite(i, n, r, free)
  BY <1>1, <1>4, AskedFair
<1>7. PICK selected : selected = TRUE /\ Store(vs, i, n, {}, selected)
  BY <1>4
<1> QED
  BY <1>1, <1>5, <1>6, <1>7, ThereKeeps

LEMMA WriteVariableKeeps ==
  ASSUME IInv, WriteVariable
  PROVE  IInv' /\ LastOK'
<1>1. Doing("lhs") /\ UNCHANGED <<program, field, func, work>>
  BY DEF WriteVariable
<1>2. PICK free \in Contexts : \E i \in Expanded(vs, Visible(Now.fn), Now.t) : \E n \in 0..MaxLevel :
        /\ MayWrite(i, n, Writable(free), free)
        /\ Store(vs, i, n, {}, SelectedFits(vs[i], free))
  BY DEF WriteVariable
<1>3. PICK i \in Expanded(vs, Visible(Now.fn), Now.t) : \E n \in 0..MaxLevel :
        /\ MayWrite(i, n, Writable(free), free)
        /\ Store(vs, i, n, {}, SelectedFits(vs[i], free))
  BY <1>2
<1>4. PICK n \in 0..MaxLevel : /\ MayWrite(i, n, Writable(free), free)
                               /\ Store(vs, i, n, {}, SelectedFits(vs[i], free))
  BY <1>3
<1>5. i \in 1..Len(vs)
  BY <1>3 DEF Expanded, Visible, Globals, Locals, Params
<1>6. PICK r : r = Writable(free) /\ Fair(r) /\ MayWrite(i, n, r, free)
  <2>1. free \in BOOLEAN
    BY <1>1, ContextFacts
  <2> QED
    BY <1>1, <1>4, <2>1, WritableFair
<1>7. PICK selected : selected = SelectedFits(vs[i], free) /\ Store(vs, i, n, {}, selected)
  BY <1>4, Zenon
<1> QED
  BY <1>1, <1>5, <1>6, <1>7, ThereKeeps

LEMMA WriteNewVariableKeeps ==
  ASSUME IInv, WriteNewVariable
  PROVE  IInv' /\ LastOK'
<1>1. Doing("lhs") /\ UNCHANGED <<program, field, func, work>>
  BY DEF WriteNewVariable
<1>2. PICK free \in Contexts : \E place \in {"global", "local"} :
      \E l \in NewVars(Now.t, Writable(free), "write", place, Now.fn,
                       [free |-> free, exact |-> Now.given]) :
        Store(l, Newest(l), 0, Initialised(l), SelectedFits(l[Newest(l)], free))
  BY DEF WriteNewVariable
<1>3. PICK place \in {"global", "local"} :
      \E l \in NewVars(Now.t, Writable(free), "write", place, Now.fn,
                       [free |-> free, exact |-> Now.given]) :
        Store(l, Newest(l), 0, Initialised(l), SelectedFits(l[Newest(l)], free))
  BY <1>2
<1>4. PICK l \in NewVars(Now.t, Writable(free), "write", place, Now.fn,
                         [free |-> free, exact |-> Now.given]) :
        Store(l, Newest(l), 0, Initialised(l), SelectedFits(l[Newest(l)], free))
  BY <1>3
<1>5. free \in BOOLEAN /\ (InStruct(Now.t).v => free)
  BY <1>1, ContextFacts
<1>6. /\ CountsOK /\ VarsOK(vs) /\ Now.t \in program.types /\ Now.fn \in {0, 1}
      /\ Now.given \in BOOLEAN /\ ~InStruct(Now.t).c
  BY <1>1, LhsWork
<1>7. PICK r \in Requests :
        /\ r = Writable(free) /\ Fair(r)
        /\ ~r.wild => /\ r.q \in Seq(Qualifier) /\ Len(r.q) = Now.t.level + 1
                      /\ ~Top(r.q).c /\ (Top(r.q).v => free)
  <2>1. Fair(Writable(free))
    BY <1>1, <1>5, WritableFair
  <2>2. Writable(free) \in Requests
    BY <2>1 DEF Fair
  <2> QED
    BY <1>1, <1>5, <2>1, <2>2, WritableFair
<1>8. PICK q \in Seq(Qualifier) :
        /\ Len(q) = Now.t.level + 1 /\ NewIn(vs, Now.t, q, "write", free, l)
        /\ r.wild \/ q = r.q
        /\ ~Top(q).c /\ (Top(q).v => free)
  <2>1. PICK ctx : ctx = [free |-> free, exact |-> Now.given]
    OBVIOUS
  <2>2. ctx.exact \in BOOLEAN /\ ctx.free \in BOOLEAN /\ ctx.free = free
    BY <1>5, <1>6, <2>1
  <2>3. l \in NewVars(Now.t, r, "write", place, Now.fn, ctx)
    BY <1>7, <2>1
  <2>4. PICK q \in Seq(Qualifier) :
          /\ Len(q) = Now.t.level + 1 /\ NewIn(vs, Now.t, q, "write", ctx.free, l)
          /\ r.wild => ~Top(q).c /\ (Top(q).v => ctx.free)
          /\ ~r.wild => q = r.q
    BY <1>6, <1>7, <2>2, <2>3, NewVarsKeeps
  <2> QED
    BY <1>7, <2>2, <2>4
<1>9. PICK i \in 1..Len(l) :
        /\ i = Newest(l) /\ l[i].t = Now.t /\ VarsOK(l) /\ Grown(vs, l) /\ Len(l) <= MaxVars
        /\ SameBelow(l[i].q, q) /\ ~Top(l[i].q).c /\ (Top(l[i].q).v => free)
  <2>1. Newest(l) \in 1..Len(l) /\ l[Newest(l)].t = Now.t
        /\ VarsOK(l) /\ Grown(vs, l) /\ Len(l) <= MaxVars
    BY <1>8 DEF NewIn
  <2>2. /\ SameBelow(l[Newest(l)].q, q)
        /\ (Top(l[Newest(l)].q).c => Top(q).c) /\ (Top(l[Newest(l)].q).v => Top(q).v)
    BY <1>5, <1>6, <1>8, NewQualifiers
  <2> QED
    BY <1>8, <2>1, <2>2
<1>10. PICK n \in 0..MaxLevel :
         /\ n = 0 /\ Derives(l[i], n, Now.t) /\ Valid(l, i, n) /\ Indirect(l[i].q, n) = l[i].q
  <2>1. 0 \in 0..MaxLevel
    BY SelectionConstantsOK
  <2> QED
    BY <1>6, <1>9, <2>1, NewDerives
<1>11. Suits(l[i].q)
  <2>1. r.wild \/ SameBelow(l[i].q, r.q)
    BY <1>8, <1>9
  <2> QED
    BY <1>1, <1>7, <2>1, FairSame
<1>12. PICK made, selected :
         /\ made = Initialised(l) /\ selected = SelectedFits(l[i], free)
         /\ Store(l, i, n, made, selected)
  BY <1>4, <1>9, <1>10, Zenon
<1>13. selected
  <2>1. SelectedFits(l[i], free)
    BY <1>5, <1>6, <1>9, NewFits
  <2> QED
    BY <1>12, <2>1
<1>14. \A c \in made : Converts(c[1], c[2])
  <2>1. Len(vs) \in Nat
    BY <1>6 DEF VarsOK
  <2> QED
    BY <1>6, <1>9, <1>12, <2>1, InitialisedLegal
<1>15. Suits(Indirect(l[i].q, n)) /\ ~Top(Indirect(l[i].q, n)).c
  BY <1>9, <1>10, <1>11
<1> QED
  BY <1>1, <1>9, <1>10, <1>12, <1>13, <1>14, <1>15, StoreKeeps

\* Through a new pointer, whose type allows it to be written through.
LEMMA WriteThroughNewKeeps ==
  ASSUME IInv, WriteThroughNew
  PROVE  IInv' /\ LastOK'
<1>1. /\ Doing("lhs") /\ UNCHANGED <<program, field, func, work>>
      /\ Pointer(Now.t) \in program.types
  BY DEF WriteThroughNew
<1>2. PICK t \in program.types : t = Pointer(Now.t)
  BY <1>1
<1>3. PICK free \in Contexts :
        LET qs == IF Asked.wild THEN Random(t.level + 1, "write", free, TRUE, program.coins)
                  ELSE RandomAdd(Asked.q, ~free, Now.given, program.coins)
        IN \E p \in qs :
           LET q == ForWriting(p)
               place == IF Top(q).v THEN "global" ELSE "local"
           IN \E l \in Made(vs, t, q, "write", place, Now.fn, [free |-> free, exact |-> Now.given]) :
                IF Valid(l, Newest(l), 1) THEN Store(l, Newest(l), 1, Initialised(l), TRUE)
                ELSE /\ vs' = l /\ last' = [Quiet EXCEPT !.converts = Initialised(l)]
                     /\ UNCHANGED <<res, todo>>
  BY <1>2 DEF WriteThroughNew
<1>4. PICK p \in IF Asked.wild THEN Random(t.level + 1, "write", free, TRUE, program.coins)
                 ELSE RandomAdd(Asked.q, ~free, Now.given, program.coins) :
           LET q == ForWriting(p)
               place == IF Top(q).v THEN "global" ELSE "local"
           IN \E l \in Made(vs, t, q, "write", place, Now.fn, [free |-> free, exact |-> Now.given]) :
                IF Valid(l, Newest(l), 1) THEN Store(l, Newest(l), 1, Initialised(l), TRUE)
                ELSE /\ vs' = l /\ last' = [Quiet EXCEPT !.converts = Initialised(l)]
                     /\ UNCHANGED <<res, todo>>
  BY <1>3
<1>5. PICK q : q = ForWriting(p)
  OBVIOUS
<1>6. PICK place \in {"global", "local"} : place = IF Top(q).v THEN "global" ELSE "local"
  BY Zenon
<1>7. PICK l \in Made(vs, t, q, "write", place, Now.fn, [free |-> free, exact |-> Now.given]) :
        IF Valid(l, Newest(l), 1) THEN Store(l, Newest(l), 1, Initialised(l), TRUE)
        ELSE /\ vs' = l /\ last' = [Quiet EXCEPT !.converts = Initialised(l)]
             /\ UNCHANGED <<res, todo>>
  BY <1>4, <1>5, <1>6, Zenon
<1>8. free \in BOOLEAN
  BY <1>1, ContextFacts
<1>9. /\ todo # <<>> /\ CountsOK /\ VarsOK(vs) /\ Now.t \in program.types /\ Now.fn \in {0, 1}
      /\ Now.given \in BOOLEAN
  BY <1>1, LhsWork
<1>10. /\ Now.t.level \in Nat /\ t.level = Now.t.level + 1 /\ t.base = Now.t.base
  <2>1. Now.t = [base |-> Now.t.base, level |-> Now.t.level] /\ Now.t.level \in Nat
    BY <1>9, TypeFacts
  <2> QED
    BY <1>2, <2>1 DEF Pointer
<1>11. program.coins \in SUBSET Qualifier
  BY <1>9, SelectionConstantsOK DEF CountsOK
<1>12. Fair(Asked)
  BY <1>1, AskedFair
<1>13. /\ p \in Seq(Qualifier) /\ Len(p) = Now.t.level + 2
       /\ ~Asked.wild => \A j \in 1..Now.t.level + 1 : p[j] = Asked.q[j]
  <2>1. CASE Asked.wild
    <3>1. t.level + 1 \in Nat \ {0} /\ t.level + 1 = Now.t.level + 2
      BY <1>10
    <3>2. PICK access \in {"write"}, b \in {TRUE} : p \in Random(t.level + 1, access, free, b, program.coins)
      BY <2>1, Zenon
    <3>3. b \in BOOLEAN
      OBVIOUS
    <3>4. p \in Seq(Qualifier) /\ Len(p) = t.level + 1
      BY <1>8, <1>11, <3>1, <3>2, <3>3, RandomFacts
    <3> QED
      BY <2>1, <3>1, <3>4
  <2>2. CASE ~Asked.wild
    <3>1. Asked.q \in Seq(Qualifier) /\ Len(Asked.q) = Now.t.level + 1
      BY <1>12, <2>2 DEF Fair, Requests
    <3>2. PICK none \in BOOLEAN : none = ~free
      BY Zenon
    <3>3. p \in RandomAdd(Asked.q, none, Now.given, program.coins)
      BY <2>2, <3>2, Zenon
    <3>4. /\ p \in Seq(Qualifier) /\ Len(p) = Len(Asked.q) + 1
          /\ \A j \in 1..Len(Asked.q) : p[j] = Asked.q[j]
      BY <1>9, <1>11, <3>1, <3>3, AddFacts
    <3> QED
      BY <1>10, <3>1, <3>4
  <2> QED
    BY <2>1, <2>2
<1>14. /\ q \in Seq(Qualifier) /\ Len(q) = Now.t.level + 2 /\ ~q[Now.t.level + 1].c
       /\ \A j \in 1..Now.t.level : q[j] = p[j]
  <2>1. Len(p) > 1 /\ Len(p) - 1 = Now.t.level + 1
    BY <1>10, <1>13
  <2>2. /\ q \in Seq(Qualifier) /\ Len(q) = Len(p) /\ ~q[Len(p) - 1].c
        /\ \A j \in 1..Len(p) : j # Len(p) - 1 => q[j] = p[j]
    BY <1>5, <1>13, <2>1, ForWritingFacts
  <2>3. \A j \in 1..Now.t.level : j \in 1..Len(p) /\ j # Len(p) - 1
    BY <1>10, <1>13, <2>1
  <2> QED
    BY <1>13, <2>1, <2>2, <2>3
<1>15. NewIn(vs, t, q, "write", free, l)
  <2>1. PICK ctx : ctx = [free |-> free, exact |-> Now.given]
    OBVIOUS
  <2>2. ctx.exact \in BOOLEAN /\ ctx.free \in BOOLEAN /\ ctx.free = free
    BY <1>8, <1>9, <2>1
  <2>3. l \in Made(vs, t, q, "write", place, Now.fn, ctx)
    BY <2>1
  <2>4. Len(q) = t.level + 1
    BY <1>10, <1>14
  <2>5. NewIn(vs, t, q, "write", ctx.free, l)
    BY <1>9, <1>14, <2>2, <2>3, <2>4, MadeKeeps
  <2> QED
    BY <2>2, <2>5
<1>16. PICK i \in 1..Len(l), a \in Seq(Qualifier) :
         /\ i = Newest(l) /\ l[i].t = t /\ VarsOK(l) /\ Grown(vs, l) /\ Len(l) <= MaxVars
         /\ a = l[i].q /\ SameBelow(a, q) /\ Len(a) = Now.t.level + 2
  <2>1. Newest(l) \in 1..Len(l) /\ l[Newest(l)].t = t
        /\ VarsOK(l) /\ Grown(vs, l) /\ Len(l) <= MaxVars
    BY <1>15 DEF NewIn
  <2>2. Len(q) = t.level + 1
    BY <1>10, <1>14
  <2>3. l[Newest(l)].q \in Seq(Qualifier) /\ Len(l[Newest(l)].q) = t.level + 1
        /\ SameBelow(l[Newest(l)].q, q)
    BY <1>8, <1>9, <1>14, <1>15, <2>2, NewQualifiers
  <2> QED
    BY <1>10, <2>1, <2>3
<1>17. PICK made : made = Initialised(l) /\ \A c \in made : Converts(c[1], c[2])
  <2>1. Len(vs) \in Nat
    BY <1>9 DEF VarsOK
  <2>2. \A c \in Initialised(l) : Converts(c[1], c[2])
    BY <1>9, <1>16, <2>1, InitialisedLegal
  <2> QED
    BY <2>2
<1>18. CASE ~Valid(l, i, 1)
  <2>1. /\ vs' = l /\ last' = [Quiet EXCEPT !.converts = made] /\ res' = res /\ todo' = todo
    BY <1>7, <1>16, <1>17, <1>18
  <2>2. IInv'
    BY <1>1, <1>9, <1>16, <2>1, StayAll
  <2>3. last'.wrote = 0 /\ last'.fits /\ last'.converts = made
    BY <2>1 DEF Quiet
  <2> QED
    BY <1>17, <2>2, <2>3, NothingWritten
<1>19. CASE Valid(l, i, 1)
  <2>1. PICK n \in 0..MaxLevel, selected \in {TRUE} : n = 1 /\ selected /\ Store(l, i, n, made, selected)
    <3>1. 1 \in 0..MaxLevel
      BY SelectionConstantsOK
    <3>2. Store(l, i, 1, made, TRUE)
      BY <1>7, <1>16, <1>17, <1>19
    <3> QED
      BY <3>1, <3>2
  <2>2. Derives(l[i], n, Now.t) /\ Valid(l, i, n)
    BY <1>10, <1>16, <1>19, <2>1 DEF Derives
  <2>3. PICK d \in Seq(Qualifier) :
          /\ d = Indirect(a, 1) /\ Len(d) = Now.t.level + 1
          /\ \A j \in 1..Now.t.level + 1 : d[j] = q[j]
    <3>1. Len(a) > 0 /\ Len(a) - 1 = Now.t.level + 1 /\ Len(q) - 1 = Now.t.level + 1
      BY <1>10, <1>14, <1>16
    <3>2. /\ Indirect(a, 1) \in Seq(Qualifier) /\ Len(Indirect(a, 1)) = Len(a) - 1
          /\ \A j \in 1..Len(a) - 1 : Indirect(a, 1)[j] = a[j]
      BY <3>1, DropLevel
    <3>3. \A j \in 1..Len(a) - 1 : a[j] = q[j]
      BY <1>16 DEF SameBelow
    <3> QED
      BY <3>1, <3>2, <3>3
  <2>4. ~Top(d).c
    <3>1. Now.t.level + 1 \in 1..Now.t.level + 1
      BY <1>10
    <3> QED
      BY <1>14, <2>3, <3>1 DEF Top
  <2>5. Asked.wild \/ SameBelow(d, Asked.q)
    <3> SUFFICES ASSUME ~Asked.wild
                 PROVE  SameBelow(d, Asked.q)
      OBVIOUS
    <3>1. Len(Asked.q) = Now.t.level + 1
      BY <1>12 DEF Fair
    <3>2. \A j \in 1..Now.t.level : j \in 1..Now.t.level + 1
      BY <1>10
    <3>3. \A j \in 1..Now.t.level : d[j] = Asked.q[j]
      BY <1>13, <1>14, <2>3, <3>2
    <3>4. Len(d) - 1 = Now.t.level
      BY <1>10, <2>3
    <3> QED
      BY <2>3, <3>1, <3>3, <3>4 DEF SameBelow
  <2>6. Suits(d)
    BY <1>1, <1>12, <2>5, FairSame
  <2>7. Indirect(l[i].q, n) = d
    BY <1>16, <2>1, <2>3
  <2> QED
    BY <1>1, <1>16, <1>17, <2>1, <2>2, <2>4, <2>6, <2>7, StoreKeeps
<1> QED
  BY <1>18, <1>19

-----------------------------------------------------------------------------
(* All steps, and what follows *)

LEMMA StartsOK ==
  ASSUME Init
  PROVE  IInv /\ LastOK
<1>1. /\ program \in Programs /\ func = NoFunc /\ res = Constant /\ work = 0 /\ last = Quiet
      /\ program.coins \subseteq Qualifier /\ Plain \in program.coins
      /\ Integer(0) \in program.types
  BY SelectionConstantsOK DEF Init
<1>2. PICK e : e = <<>> /\ VarsOK(e) /\ Len(e) = 0
  <2>1. PICK e \in Seq(Variable) : e = <<>> /\ Len(e) = 0
    <3>1. <<>> \in Seq(Variable) /\ Len(<<>>) = 0
      OBVIOUS
    <3> QED
      BY <3>1
  <2>2. 1..Len(e) = {}
    BY <2>1
  <2>3. VarsOK(e)
    BY <2>2 DEF VarsOK
  <2> QED
    BY <2>1, <2>3
<1>3. field \in program.coins /\ work \in 0..MaxWork
  BY <1>1, SelectionConstantsOK DEF Init
<1>4. CountsOK /\ VarsOK(vs)
  <2>1. CASE vs = <<>>
    BY <1>1, <1>2, <1>3, <2>1, SelectionConstantsOK DEF CountsOK
  <2>2. CASE vs # <<>>
    <3>1. PICK b \in program.coins : vs = Add(<<>>, Integer(0), <<b>>, "global", 0, 0)
      BY <2>2 DEF Init
    <3>2. vs = <<[t |-> Integer(0), q |-> <<b>>, scope |-> "global", fn |-> 0, within |-> 0,
                  to |-> 0]>>
      BY <3>1 DEF Add, Integer, Struct
    <3>3. <<b>> \in Seq(Qualifier) /\ Len(<<b>>) = 1 /\ Integer(0).level = 0
      BY <1>1 DEF Integer
    <3>4. PICK v \in Variable :
            v = [t |-> Integer(0), q |-> <<b>>, scope |-> "global", fn |-> 0, within |-> 0,
                 to |-> 0]
      BY <1>1, <3>3 DEF Variable
    <3>5. vs = <<v>> /\ vs \in Seq(Variable) /\ Len(vs) = 1 /\ vs[1] = v
      BY <3>2, <3>4
    <3>6. VarsOK(vs)
      <4>1. Len(v.q) = v.t.level + 1 /\ PointsAt(v.q, v.t, v.to, vs)
        BY <3>3, <3>4 DEF PointsAt
      <4>2. \A i \in 1..Len(vs) : vs[i] = v
        BY <3>5
      <4> QED
        BY <3>5, <4>1, <4>2 DEF VarsOK
    <3> QED
      BY <1>1, <1>3, <3>5, <3>6, SelectionConstantsOK DEF CountsOK
  <2> QED
    BY <2>1, <2>2
<1>5. FuncOK
  BY <1>1 DEF FuncOK
<1>6. PICK x : x \in Good /\ todo = <<x>> /\ x.do = "body"
  <2>1. PICK free \in BOOLEAN : todo = <<Body(free)>>
    BY DEF Init
  <2>2. Body(free) \in Item /\ ItemOK(Body(free)) /\ Body(free).do = "body"
    BY DEF Body, Item, ItemOK
  <2> QED
    BY <2>1, <2>2 DEF Good
<1>7. TodoOK
  <2>1. <<x>> \in Seq(Good) /\ Len(<<x>>) = 1
    BY <1>6
  <2> QED
    BY <1>6, <2>1 DEF TodoOK, Linked
<1>8. ResOK
  <2>1. ~Uses(Now)
    BY <1>6 DEF Uses, Now
  <2>2. <<>> \in Seq(Qualifier) /\ Len(vs) \in Nat
    BY <1>4 DEF VarsOK
  <2> QED
    BY <1>1, <2>1, <2>2 DEF ResOK, Constant, Expression
<1>9. LastOK
  BY <1>1 DEF LastOK, ConstNeverWritten, ConversionsLegal, AssertionsHold, Quiet
<1> QED
  BY <1>4, <1>5, <1>7, <1>8, <1>9 DEF IInv

LEMMA StepKeeps ==
  ASSUME IInv, LastOK, [Next]_vars
  PROVE  IInv' /\ LastOK'
<1>1. CASE UNCHANGED vars
  <2>1. /\ program' = program /\ field' = field /\ vs' = vs /\ func' = func /\ todo' = todo
        /\ res' = res /\ work' = work /\ last' = last
    BY <1>1 DEF vars
  <2>2. CountsOK' /\ VarsOK(vs)' /\ FuncOK' /\ TodoOK' /\ ResOK'
    <3>1. CountsOK' /\ VarsOK(vs)'
      BY <2>1 DEF IInv, CountsOK, VarsOK, Variable
    <3>2. FuncOK'
      BY <2>1 DEF IInv, FuncOK, Function, Names, Derives, InStruct
    <3>3. Good' = Good /\ Served' = Served
      BY <2>1 DEF Good, Item, ItemOK, Served, Serves, Uses, UsedType, UsedRequest, LeftType,
                  LeftRequest, InStruct
    <3>4. TodoOK'
      BY <2>1, <3>3 DEF IInv, TodoOK
    <3>5. ResOK'
      BY <2>1 DEF IInv, ResOK, Uses, UsedType, UsedRequest, Now
    <3> QED
      BY <3>1, <3>2, <3>4, <3>5
  <2>3. LastOK'
    BY <2>1 DEF LastOK, ConstNeverWritten, ConversionsLegal, AssertionsHold, InStruct
  <2> QED
    BY <2>2, <2>3 DEF IInv
<1>2. CASE Assign
  BY <1>2, AssignKeeps
<1>3. CASE MakeConstant \/ ReadVariable \/ ReadNewVariable \/ EmbedAssignment
  BY <1>3, MakeConstantKeeps, ReadVariableKeeps, ReadNewVariableKeeps, EmbedAssignmentKeeps
<1>4. CASE CallNew \/ CallAgain \/ EnterNew \/ EnterAgain \/ ReturnValue
  BY <1>4, CallNewKeeps, CallAgainKeeps, EnterNewKeeps, EnterAgainKeeps, ReturnValueKeeps
<1>5. CASE WriteThrough \/ WriteThroughNew \/ WriteVariable \/ WriteNewVariable
  BY <1>5, WriteThroughKeeps, WriteThroughNewKeeps, WriteVariableKeeps, WriteNewVariableKeeps
<1> QED
  BY <1>1, <1>2, <1>3, <1>4, <1>5 DEF Next

LEMMA TypesFollow ==
  ASSUME IInv
  PROVE  TypeOK
<1>1. CountsOK /\ VarsOK(vs) /\ res.to \in 0..Len(vs)
  BY DEF IInv, ResOK
<1>2. ASSUME NEW i \in 1..Len(vs)
      PROVE  /\ vs[i].t \in program.types /\ vs[i].q \in Qualifiers(vs[i].t.level + 1)
             /\ vs[i].to # 0 => vs[i].to \in 1..Len(vs) /\ vs[vs[i].to].t = Pointee(vs[i].t)
  <2>1. PICK n \in Nat, q \in Seq(Qualifier) :
          n = vs[i].t.level + 1 /\ q = vs[i].q /\ Len(q) = n
    <3>1. /\ vs[i].t.level \in Nat /\ vs[i].q \in Seq(Qualifier)
          /\ Len(vs[i].q) = vs[i].t.level + 1
      BY <1>1, VariableFacts
    <3> QED
      BY <3>1
  <2>2. q \in Qualifiers(n)
    BY <2>1 DEF Qualifiers
  <2>3. /\ vs[i].t \in program.types /\ vs[i].to \in 0..Len(vs)
        /\ vs[i].to # 0 => vs[vs[i].to].t = Pointee(vs[i].t)
    BY <1>1, VariableFacts
  <2>4. Len(vs) \in Nat
    BY <1>1 DEF VarsOK
  <2> QED
    BY <2>1, <2>2, <2>3, <2>4
<1> QED
  BY <1>1, <1>2 DEF TypeOK, CountsOK

THEOREM Invariance == Spec => [](IInv /\ LastOK)
<1>1. Init => IInv /\ LastOK
  BY StartsOK
<1>2. IInv /\ LastOK /\ [Next]_vars => (IInv /\ LastOK)'
  BY StepKeeps
<1> QED
  BY <1>1, <1>2, PTL DEF Spec

\* Every variable has a qualifier for each level of indirection and points
\* to one of its pointee type, whatever is made, passed and returned.
THEOREM TypeCorrect == Spec => []TypeOK
<1>1. IInv => TypeOK
  BY TypesFollow
<1> QED
  BY <1>1, Invariance, PTL

\* No sequence of initialisations, assignments, calls and returns makes a
\* pointer that leads, over any number of levels, to something more const
\* or volatile than its type says (CVQualifiers::stricter_than, match,
\* random_loose_qualifiers).
THEOREM NoWayAround == Spec => []NoHole
<1>1. IInv => NoHole
  BY HolesClosed DEF IInv
<1> QED
  BY <1>1, Invariance, PTL

\* No assignment, through a pointer or not, writes an object that is const
\* or has a const field (VariableSelector::is_eligible_var).
THEOREM NothingConstIsWritten == Spec => []ConstNeverWritten
<1>1. LastOK => ConstNeverWritten
  BY DEF LastOK
<1> QED
  BY <1>1, Invariance, PTL

\* Every initialisation, assignment, argument and returned value is a
\* conversion that C lets through (CVQualifiers::match).
THEOREM EveryConversionIsLegal == Spec => []ConversionsLegal
<1>1. LastOK => ConversionsLegal
  BY DEF LastOK
<1> QED
  BY <1>1, Invariance, PTL

\* The assertions about a left-hand side and a selected variable never fail
\* (Lhs::make_random, VariableSelector::select).
THEOREM AssertionsNeverFail == Spec => []AssertionsHold
<1>1. LastOK => AssertionsHold
  BY DEF LastOK
<1> QED
  BY <1>1, Invariance, PTL
====
