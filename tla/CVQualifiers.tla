---------------------------- MODULE CVQualifiers -----------------------------
(***************************************************************************)
(* The const and volatile qualifiers of a type, one for each level of      *)
(* indirection: <<c, p>> are those of "c int *p".  The first is about the  *)
(* object at the end of the chain, the last about the variable itself.     *)
(* A request is what an expression's surroundings ask of its qualifiers.   *)
(***************************************************************************)
EXTENDS Integers, Sequences

Qualifier == [c : BOOLEAN, v : BOOLEAN]
Plain == [c |-> FALSE, v |-> FALSE]
Qualifiers(n) == [1..n -> Qualifier]

Top(q) == q[Len(q)]

\* mutant: const int ** is taken for stricter than int **
StricterAnyDepth(a, b) ==
  /\ Len(a) = Len(b)
  /\ \A i \in 1..Len(a) : (b[i].c => a[i].c) /\ (b[i].v => a[i].v)
  /\ Len(a) > 1 => a[1].v = b[1].v

\* stricter_than: below two stars the qualifiers have to be the same.
StricterThan(a, b) ==
  /\ Len(a) = Len(b)
  /\ \A i \in 1..Len(a) :
       /\ b[i].c => a[i].c
       /\ b[i].v => a[i].v
       /\ Len(a) - i >= 2 => a[i] = b[i]
  /\ Len(a) > 1 => a[1].v = b[1].v

\* Anything will do: no request, or that of a constant.
Anything == [wild |-> TRUE, strict |-> FALSE, q |-> <<>>]
Asks(q, strict) == [wild |-> FALSE, strict |-> strict, q |-> q]

\* mutant: accept_stricter is not looked at
MatchOneWay(r, q, exact) ==
  r.wild \/ (IF exact THEN r.q = q ELSE (Len(r.q) = 1 /\ Len(q) = 1) \/ StricterThan(r.q, q))

\* match; exact is CGOptions::match_exact_qualifiers().
Match(r, q, exact) ==
  \/ r.wild
  \/ IF exact
     THEN r.q = q
     ELSE \/ Len(r.q) = 1 /\ Len(q) = 1
          \/ r.strict /\ StricterThan(q, r.q)
          \/ ~r.strict /\ StricterThan(r.q, q)

\* indirect_qualifiers: after n dereferences, or of the address.
Indirect(q, n) == IF n < 0 THEN Append(q, Plain) ELSE SubSeq(q, 1, Len(q) - n)

\* match_indirect
MatchIndirect(r, q, exact) ==
  \/ r.wild
  \/ /\ Len(q) - Len(r.q) >= -1
     /\ Match(r, Indirect(q, Len(q) - Len(r.q)), exact)

\* restrict: the top level may not be const when written, nor volatile
\* in a context with side effects.
Fitted(b, access, free) == [c |-> b.c /\ access # "write", v |-> b.v /\ free]
Restrict(q, access, free) == [q EXCEPT ![Len(q)] = Fitted(@, access, free)]

\* random_qualifiers for a type with n levels; coins are the qualifiers that
\* the options leave (--no-consts, --no-volatiles).
Random(n, access, free, noVolatile, coins) ==
  {Restrict(q, access, free) :
     q \in [1..n -> {b \in coins : noVolatile => ~b.v}]}

\* random_looser_consts and random_looser_volatiles
Looser(q, exact) ==
  {p \in Qualifiers(Len(q)) : \A i \in 1..Len(q) :
     /\ ~q[i].c \/ Len(q) - i >= 2 \/ exact => p[i].c = q[i].c
     /\ ~q[i].v \/ (i = 1 /\ Len(q) > 1) \/ Len(q) - i >= 2 \/ exact => p[i].v = q[i].v}

\* random_loose_qualifiers
RandomLoose(q, access, free, exact) == {Restrict(p, access, free) : p \in Looser(q, exact)}

\* random_qualifiers for the value that a function returns: not volatile.
RandomReturned(q) == {[i \in 1..Len(q) |-> [p[i] EXCEPT !.v = FALSE]] : p \in Looser(q, FALSE)}

\* random_add_qualifiers
RandomAdd(q, noVolatile, exact, coins) ==
  {Append(q, b) : b \in {d \in coins : (exact => d = Plain) /\ ~(noVolatile /\ d.v)}}

\* mutant: set_const(false, 0)
ForWritingTop(q) == [q EXCEPT ![Len(q)].c = FALSE]

\* set_const(false, 1): what a pointer points to is going to be written.
ForWriting(q) == [q EXCEPT ![Len(q) - 1].c = FALSE]

(***************************************************************************)
(* What C asks of an assignment, an initialisation, an argument or a       *)
(* returned value (C99 6.5.16.1): the pointed-to type on the left has all  *)
(* qualifiers of the one on the right, and below it they are the same.     *)
(* The qualifiers of the two objects themselves do not matter.             *)
(***************************************************************************)
Converts(to, from) ==
  /\ Len(to) = Len(from)
  /\ \A i \in 1..Len(to) - 1 :
       /\ from[i].c => to[i].c
       /\ from[i].v => to[i].v
       /\ i < Len(to) - 1 => to[i] = from[i]
===============================================================================
