------------------------ MODULE RecursiveBlockProofs ------------------------
(***************************************************************************)
(* The managers of an immediately recursive function describe the          *)
(* execution at every depth of recursion and up to the first return, for   *)
(* any statements, limits, entry facts and depths.                         *)
(***************************************************************************)
EXTENDS RecursiveBlock, FiniteSetTheorems, TLAPS

Deep  == Cardinality(DOMAIN mgrs)
Slots == IF after = <<>> THEN 1 ELSE Len(after)

NonEmptyFacts == [Ptr -> (SUBSET Target) \ {{}}]

\* what f admits, g admits
Within(f, g) == \A p \in Ptr : f[p] \subseteq g[p]

Record == [facts : Facts, locals : Nat]

ManagerRecord ==
  [in : Facts, visited : BOOLEAN, call : Facts, facts : Facts, out : Facts,
   ins : Seq(Record), outs : Seq(Facts)]

\* Every manager that can still be used has one record for each statement
\* after the call, and at least one, to which the handover refers.
Typed ==
  /\ phase \in {"before", "calls", "after", "aborted", "returns", "run", "unwind"}
  /\ before \in Seq(Statements) /\ after \in Seq(Statements) /\ locals \in Nat
  /\ Deep \in 1 .. MaxMgrs
  /\ mgrs \in [1 .. Deep -> ManagerRecord]
  /\ live # {} /\ live \subseteq 1 .. Deep /\ deleted \subseteq 1 .. Deep
  /\ \A d \in 1 .. Deep : Len(mgrs[d].ins) = Len(mgrs[d].outs)
  /\ \A d \in live \cup deleted : Len(mgrs[d].ins) = Slots
  /\ entry \in Entries /\ {ret, outputs, inputs} \subseteq Facts
  /\ cnt \in Nat /\ rounds \in Nat /\ unwound \in Nat /\ level \in 0 .. MaxLevel
  /\ once \in BOOLEAN /\ bad \in BOOLEAN
  /\ store \in [Ptr -> Target]

\* the manager's facts at the call are those of a visit of "before" that passed
Visited(d) ==
  /\ mgrs[d].in \in NonEmptyFacts
  /\ Fails(before, mgrs[d].in) = {}
  /\ mgrs[d].call = FactsOut(before, mgrs[d].in)

\* While "before" is generated there is one manager, as it was made.
GenerationInv ==
  phase = "before" =>
    /\ mgrs = [d \in {1} |-> Manager(entry)] /\ after = <<>> /\ deleted = {} /\ ~once
    /\ Fails(before, entry) = {}
    /\ outputs = FactsOut(before, entry)

\* The first fixed point: each depth starts with what the one before it passes
\* on; the last, once it is the limit, with more.
CallsInv ==
  phase = "calls" =>
    /\ live = 1 .. Deep /\ after = <<>> /\ deleted = {}
    /\ once => /\ Deep = 1 /\ mgrs[1].visited
               /\ inputs = NoFacts /\ outputs = entry
    /\ ~once => /\ Deep > 1 /\ mgrs[1].in = entry
                /\ \A d \in 1 .. Deep : Visited(d)
                /\ \A d \in 1 .. Deep - 1 :
                     mgrs[d + 1].visited => Within(mgrs[d].call, mgrs[d + 1].in)
                /\ \A d \in 1 .. Deep - 1 : mgrs[d].visited
                /\ outputs = mgrs[Deep].call
                /\ IF mgrs[Deep].visited THEN inputs = mgrs[Deep].in
                                         ELSE outputs = mgrs[Deep - 1].call

\* Once it is reached: the last manager is closed under one more call, and
\* "after" passes from the facts at every call but the first.
FixedInv ==
  phase \notin {"before", "calls"} =>
    /\ Deep > 1 /\ mgrs[1].in = entry
    /\ \A d \in 1 .. Deep : Visited(d)
    /\ \A d \in 1 .. Deep - 1 : Within(mgrs[d].call, mgrs[d + 1].in)
    /\ Within(mgrs[Deep].call, mgrs[Deep].in)
    /\ \A d \in 2 .. Deep : Fails(after, mgrs[d].call) = {}

\* While "after" is generated, a manager's facts are those after its call.
\* The one that was dropped starts with the same facts as the last.
AfterInv ==
  phase = "after" =>
    /\ live = (1 .. Deep) \ {Deep - 1} /\ deleted = {}
    /\ \A d \in live : mgrs[d].facts = FactsOut(after, AfterCall(d))

\* The execution: described by the facts at the call on the way down, and again
\* where the first call returns to.
WitnessInv ==
  /\ phase \notin {"run", "unwind"} => level = 0 /\ Describes(entry, store)
  /\ phase # "unwind" => unwound = 0
  /\ phase = "run" => /\ level = 0 => Describes(entry, store)
                      /\ level > 0 => Describes(mgrs[Min({level, Deep})].call, store)
  /\ phase = "unwind" /\ unwound = 0 => Describes(mgrs[Min({level + 1, Deep})].call, store)
  /\ unwound < 2 => ~bad

IInv ==
  /\ Typed
  /\ GenerationInv /\ CallsInv /\ FixedInv /\ AfterInv
  /\ WitnessInv

-----------------------------------------------------------------------------
(* Numbers *)

\* A nonempty set of naturals has a least element.  The library proves it by
\* an induction that takes an operator; here the numbers below all of S, if
\* none were in S, would be mapped one to one to those but zero.
LEMMA MinIsLeast ==
  ASSUME NEW S, S \subseteq Nat, S # {}
  PROVE  Min(S) \in S /\ \A y \in S : Min(S) <= y
<1>1. PICK m \in S : TRUE
  OBVIOUS
<1>2. \E x \in S : \A y \in S : x <= y
  <2> SUFFICES ASSUME \A x \in S : \E y \in S : ~(x <= y)
               PROVE  FALSE
    OBVIOUS
  <2> DEFINE Q == {n \in 0 .. m : \A y \in S : n <= y}
             f == [n \in Q |-> n + 1]
  <2>1. 0 \in Q
    BY <1>1
  <2>2. ASSUME NEW n \in Q
        PROVE  n + 1 \in Q \ {0}
    <3>1. n \notin S /\ n \in Nat /\ \A y \in S : n <= y
      BY <1>1
    <3>2. \A y \in S : n + 1 <= y
      BY <3>1
    <3> QED
      BY <1>1, <3>1, <3>2
  <2>3. IsFiniteSet(Q)
    <3>1. IsFiniteSet(0 .. m)
      BY <1>1, FS_Interval
    <3> QED
      BY <3>1, FS_Subset
  <2>4. IsFiniteSet(Q \ {0}) /\ Cardinality(Q \ {0}) < Cardinality(Q)
    <3>1. /\ IsFiniteSet(Q \ {0}) /\ Cardinality(Q \ {0}) = Cardinality(Q) - 1
      BY <2>1, <2>3, FS_RemoveElement
    <3>2. Cardinality(Q) \in Nat
      BY <2>3, FS_CardinalityType
    <3> HIDE DEF Q
    <3> QED
      BY <3>1, <3>2
  <2>5. f \in [Q -> Q \ {0}]
    BY <2>2
  <2>6. \E x, y \in Q : x # y /\ f[x] = f[y]
    <3> HIDE DEF Q, f
    <3> QED
      BY <2>3, <2>4, <2>5, FS_PigeonHole
  <2> QED
    BY <2>6
<1> QED
  BY <1>2 DEF Min

LEMMA MaxIsGreatest ==
  ASSUME NEW n \in Nat, NEW S, S \subseteq 1 .. n, S # {}
  PROVE  Max(S) \in S /\ \A y \in S : y <= Max(S)
<1> DEFINE R == {n - y : y \in S}
<1>1. R \subseteq Nat /\ R # {}
  OBVIOUS
<1>2. Min(R) \in R /\ \A z \in R : Min(R) <= z
  <2> HIDE DEF R
  <2> QED
    BY <1>1, MinIsLeast
<1>3. PICK m \in S : Min(R) = n - m
  BY <1>2
<1>4. ASSUME NEW y \in S
      PROVE  y <= m
  <2>1. n - m <= n - y
    BY <1>2, <1>3
  <2> QED
    BY <2>1
<1> QED
  BY <1>4 DEF Max

\* Induction over the first numbers, of a property given by a set.
LEMMA UpTo ==
  ASSUME NEW n \in Nat, NEW A, 1 \in A,
         \A i \in 1 .. n : i \in A => i + 1 \in A
  PROVE  1 .. n + 1 \subseteq A
<1> DEFINE R == (1 .. n + 1) \ A
<1> SUFFICES ASSUME R # {}
             PROVE  FALSE
  OBVIOUS
<1>1. Min(R) \in R /\ \A y \in R : Min(R) <= y
  <2>1. R \subseteq Nat
    OBVIOUS
  <2> HIDE DEF R
  <2> QED
    BY <2>1, MinIsLeast
<1>2. PICK m : m = Min(R)
  OBVIOUS
<1>3. m \in 1 .. n + 1 /\ m \notin A /\ m # 1
  BY <1>1, <1>2
<1>4. m - 1 \in 1 .. n /\ m - 1 + 1 = m
  BY <1>3
<1>5. m - 1 \in A
  <2>1. ~(m <= m - 1)
    BY <1>3
  <2>2. m - 1 \notin R
    BY <1>1, <1>2, <2>1
  <2> QED
    BY <1>4, <2>2
<1> QED
  BY <1>3, <1>4, <1>5

\* The values that a function of each step passes on, from the first to the last.
IsChain(g, n, S, x, F) ==
  /\ g \in [1 .. n + 1 -> S]
  /\ g[1] = x
  /\ \A i \in 1 .. n : g[i + 1] = F[i][g[i]]

LEMMA Iterated ==
  ASSUME NEW n \in Nat, NEW S, NEW x \in S, NEW F \in [1 .. n -> [S -> S]]
  PROVE  \E g : IsChain(g, n, S, x, F)
<1> DEFINE A == {k \in 1 .. n + 1 : \E g \in [1 .. k -> S] :
                   g[1] = x /\ \A i \in 1 .. k - 1 : g[i + 1] = F[i][g[i]]}
<1>1. 1 \in A
  <2> DEFINE g == [i \in 1 .. 1 |-> x]
  <2>1. g \in [1 .. 1 -> S] /\ g[1] = x /\ \A i \in 1 .. 1 - 1 : g[i + 1] = F[i][g[i]]
    OBVIOUS
  <2> HIDE DEF g
  <2> QED
    BY <2>1
<1>2. ASSUME NEW k \in 1 .. n, k \in A
      PROVE  k + 1 \in A
  <2>1. PICK g \in [1 .. k -> S] : g[1] = x /\ \A i \in 1 .. k - 1 : g[i + 1] = F[i][g[i]]
    BY <1>2
  <2> DEFINE h == [i \in 1 .. k + 1 |-> IF i = k + 1 THEN F[k][g[k]] ELSE g[i]]
  <2>2. F[k][g[k]] \in S
    BY <2>1
  <2>3. h \in [1 .. k + 1 -> S] /\ h[1] = x
    BY <2>1, <2>2
  <2>4. ASSUME NEW i \in 1 .. k
        PROVE  h[i + 1] = F[i][h[i]]
    <3>1. h[i] = g[i]
      OBVIOUS
    <3>2. CASE i = k
      BY <3>1, <3>2
    <3>3. CASE i # k
      <4>1. i \in 1 .. k - 1 /\ h[i + 1] = g[i + 1]
        BY <3>3
      <4> QED
        BY <3>1, <4>1, <2>1
    <3> QED
      BY <3>2, <3>3
  <2>5. k + 1 - 1 = k /\ k + 1 \in 1 .. n + 1
    OBVIOUS
  <2>6. \A i \in 1 .. k + 1 - 1 : h[i + 1] = F[i][h[i]]
    BY <2>4, <2>5
  <2> HIDE DEF h
  <2> QED
    BY <2>3, <2>5, <2>6
<1>3. n + 1 \in A
  <2> HIDE DEF A
  <2>1. 1 .. n + 1 \subseteq A
    BY <1>1, <1>2, UpTo
  <2> QED
    BY <2>1
<1>4. n + 1 - 1 = n
  OBVIOUS
<1> QED
  BY <1>3, <1>4 DEF IsChain

-----------------------------------------------------------------------------
(* Statements *)

LEMMA StatementFacts ==
  ASSUME NEW s \in Statements
  PROVE  /\ s \in AllStatements
         /\ s.kind \in {"set", "copy", "use"}
         /\ s.kind = "set" => s.lhs \in Ptr /\ s.to \in Target
         /\ s.kind = "copy" => s.lhs \in Ptr /\ s.from \in Ptr
         /\ s.kind = "use" => s.ptr \in Ptr
         /\ s.new \in BOOLEAN
BY RecursionConstantsOK DEF RecursionConstantsOK, AllStatements

LEMMA OutTypes ==
  ASSUME NEW s \in Statements
  PROVE  /\ \A f \in Facts : Out(s, f) \in Facts
         /\ \A f \in NonEmptyFacts : Out(s, f) \in NonEmptyFacts
         /\ \A st \in [Ptr -> Target] : Exec(s, st) \in [Ptr -> Target]
BY StatementFacts DEF Facts, NonEmptyFacts, Out, Exec

\* One statement: the output describes the pointers after it.
LEMMA OutSound ==
  ASSUME NEW s \in Statements, NEW f \in Facts, NEW st \in [Ptr -> Target],
         Describes(f, st)
  PROVE  /\ Describes(Out(s, f), Exec(s, st))
         /\ Valid(s, f) => ~(s.kind = "use" /\ st[s.ptr] = Null)
<1>1. CASE s.kind = "set"
  BY <1>1, StatementFacts DEF Facts, Describes, Out, Exec, Valid
<1>2. CASE s.kind = "copy"
  BY <1>2, StatementFacts DEF Facts, Describes, Out, Exec, Valid
<1>3. CASE s.kind = "use"
  BY <1>3, StatementFacts DEF Facts, Describes, Out, Exec, Valid, Safe
<1> QED
  BY <1>1, <1>2, <1>3, StatementFacts

LEMMA MergeFacts ==
  ASSUME NEW f \in Facts, NEW g \in Facts
  PROVE  /\ Merge(f, g) \in Facts
         /\ Within(f, Merge(f, g)) /\ Within(g, Merge(f, g))
         /\ f \in NonEmptyFacts => Merge(f, g) \in NonEmptyFacts
         /\ Renew(f, g) \in Facts
BY DEF Facts, NonEmptyFacts, Within, Merge, Renew

LEMMA SmallFacts ==
  /\ NoFacts \in Facts
  /\ NonEmptyFacts \subseteq Facts
  /\ Entries \subseteq NonEmptyFacts
  /\ \A f \in Facts : Merge(NoFacts, f) = f
<1>1. \A f \in Facts : Merge(NoFacts, f) = f
  BY DEF Facts, NoFacts, Merge
<1> QED
  BY <1>1, RecursionConstantsOK DEF Facts, NonEmptyFacts, NoFacts, RecursionConstantsOK

-----------------------------------------------------------------------------
(* Blocks of statements *)

LEMMA AlongSteps ==
  ASSUME NEW stms \in Seq(Statements), NEW f \in Facts
  PROVE  /\ FactsAlong(stms, f) \in [1 .. Len(stms) + 1 -> Facts]
         /\ FactsAlong(stms, f)[1] = f
         /\ \A i \in 1 .. Len(stms) :
              FactsAlong(stms, f)[i + 1] = Out(stms[i], FactsAlong(stms, f)[i])
<1>1. PICK n \in Nat : n = Len(stms) /\ \A i \in 1 .. n : stms[i] \in Statements
  OBVIOUS
<1> DEFINE Steps(g) == [i \in 1 .. n + 1 |-> IF i = 1 THEN f ELSE Out(stms[i - 1], g[i - 1])]
<1>2. PICK S : S = Facts
  OBVIOUS
<1>3. PICK F \in [1 .. n -> [S -> S]] :
              \A i \in 1 .. n : \A g \in S : F[i][g] = Out(stms[i], g)
  <2> DEFINE H == [i \in 1 .. n |-> [g \in S |-> Out(stms[i], g)]]
  <2>1. H \in [1 .. n -> [S -> S]]
    BY <1>1, <1>2, OutTypes
  <2> QED
    BY <2>1
<1>4. \E g : g = Steps(g)
  <2>1. PICK g \in [1 .. n + 1 -> S] : g[1] = f /\ \A i \in 1 .. n : g[i + 1] = F[i][g[i]]
    <3>1. f \in S
      BY <1>2
    <3>2. \E g : IsChain(g, n, S, f, F)
      BY <3>1, Iterated
    <3> QED
      BY <3>2 DEF IsChain
  <2>2. ASSUME NEW i \in 1 .. n + 1, i # 1
        PROVE  g[i] = Out(stms[i - 1], g[i - 1])
    <3>1. i - 1 \in 1 .. n /\ i - 1 + 1 = i /\ i - 1 \in 1 .. n + 1
      BY <1>1, <2>2
    <3>2. g[i - 1] \in S
      BY <3>1
    <3> QED
      BY <1>3, <2>1, <3>1, <3>2
  <2>3. g = Steps(g)
    BY <2>1, <2>2
  <2> QED
    BY <2>3
<1>5. PICK G : G = FactsAlong(stms, f) /\ G = Steps(G)
  BY <1>1, <1>4 DEF FactsAlong
<1>6. G[1] = f
  BY <1>1, <1>5
<1>7. ASSUME NEW i \in 1 .. n
      PROVE  G[i + 1] = Out(stms[i], G[i])
  <2>1. PICK j \in 1 .. n + 1 : j = i + 1 /\ j # 1 /\ j - 1 = i
    BY <1>1
  <2>2. G[j] = Out(stms[j - 1], G[j - 1])
    BY <1>5, <2>1
  <2> QED
    BY <2>1, <2>2
<1>8. 1 .. n + 1 \subseteq {i \in 1 .. n + 1 : G[i] \in S}
  <2>1. PICK A : A = {i \in 1 .. n + 1 : G[i] \in S}
    OBVIOUS
  <2>2. 1 \in A
    BY <1>1, <1>2, <1>6, <2>1
  <2>3. ASSUME NEW i \in 1 .. n, i \in A
        PROVE  i + 1 \in A
    BY <1>1, <1>2, <1>7, <2>1, <2>3, OutTypes
  <2> QED
    BY <1>1, <2>1, <2>2, <2>3, UpTo
<1>9. G \in [1 .. n + 1 -> S]
  <2>1. G = [i \in 1 .. n + 1 |-> G[i]]
    BY <1>5
  <2> HIDE DEF Steps
  <2> QED
    BY <1>8, <2>1
<1> HIDE DEF Steps
<1> QED
  BY <1>1, <1>2, <1>5, <1>6, <1>7, <1>9

LEMMA StoresSteps ==
  ASSUME NEW stms \in Seq(Statements), NEW st \in [Ptr -> Target]
  PROVE  /\ StoresAlong(stms, st) \in [1 .. Len(stms) + 1 -> [Ptr -> Target]]
         /\ StoresAlong(stms, st)[1] = st
         /\ \A i \in 1 .. Len(stms) :
              StoresAlong(stms, st)[i + 1] = Exec(stms[i], StoresAlong(stms, st)[i])
<1>1. PICK n \in Nat : n = Len(stms) /\ \A i \in 1 .. n : stms[i] \in Statements
  OBVIOUS
<1> DEFINE Steps(g) == [i \in 1 .. n + 1 |-> IF i = 1 THEN st ELSE Exec(stms[i - 1], g[i - 1])]
<1>2. PICK S : S = [Ptr -> Target]
  OBVIOUS
<1>3. PICK F \in [1 .. n -> [S -> S]] :
              \A i \in 1 .. n : \A g \in S : F[i][g] = Exec(stms[i], g)
  <2> DEFINE H == [i \in 1 .. n |-> [g \in S |-> Exec(stms[i], g)]]
  <2>1. H \in [1 .. n -> [S -> S]]
    BY <1>1, <1>2, OutTypes
  <2> QED
    BY <2>1
<1>4. \E g : g = Steps(g)
  <2>1. PICK g \in [1 .. n + 1 -> S] : g[1] = st /\ \A i \in 1 .. n : g[i + 1] = F[i][g[i]]
    <3>1. st \in S
      BY <1>2
    <3>2. \E g : IsChain(g, n, S, st, F)
      BY <3>1, Iterated
    <3> QED
      BY <3>2 DEF IsChain
  <2>2. ASSUME NEW i \in 1 .. n + 1, i # 1
        PROVE  g[i] = Exec(stms[i - 1], g[i - 1])
    <3>1. i - 1 \in 1 .. n /\ i - 1 + 1 = i /\ i - 1 \in 1 .. n + 1
      BY <1>1, <2>2
    <3>2. g[i - 1] \in S
      BY <3>1
    <3> QED
      BY <1>3, <2>1, <3>1, <3>2
  <2>3. g = Steps(g)
    BY <2>1, <2>2
  <2> QED
    BY <2>3
<1>5. PICK G : G = StoresAlong(stms, st) /\ G = Steps(G)
  BY <1>1, <1>4 DEF StoresAlong
<1>6. G[1] = st
  BY <1>1, <1>5
<1>7. ASSUME NEW i \in 1 .. n
      PROVE  G[i + 1] = Exec(stms[i], G[i])
  <2>1. PICK j \in 1 .. n + 1 : j = i + 1 /\ j # 1 /\ j - 1 = i
    BY <1>1
  <2>2. G[j] = Exec(stms[j - 1], G[j - 1])
    BY <1>5, <2>1
  <2> QED
    BY <2>1, <2>2
<1>8. 1 .. n + 1 \subseteq {i \in 1 .. n + 1 : G[i] \in S}
  <2>1. PICK A : A = {i \in 1 .. n + 1 : G[i] \in S}
    OBVIOUS
  <2>2. 1 \in A
    BY <1>1, <1>2, <1>6, <2>1
  <2>3. ASSUME NEW i \in 1 .. n, i \in A
        PROVE  i + 1 \in A
    BY <1>1, <1>2, <1>7, <2>1, <2>3, OutTypes
  <2> QED
    BY <1>1, <2>1, <2>2, <2>3, UpTo
<1>9. G \in [1 .. n + 1 -> S]
  <2>1. G = [i \in 1 .. n + 1 |-> G[i]]
    BY <1>5
  <2> HIDE DEF Steps
  <2> QED
    BY <1>8, <2>1
<1> HIDE DEF Steps
<1> QED
  BY <1>1, <1>2, <1>5, <1>6, <1>7, <1>9

LEMMA FactsOutTypes ==
  ASSUME NEW stms \in Seq(Statements), NEW f \in Facts
  PROVE  /\ FactsOut(stms, f) \in Facts
         /\ f \in NonEmptyFacts => FactsOut(stms, f) \in NonEmptyFacts
<1>1. PICK n \in Nat : n = Len(stms) /\ \A i \in 1 .. n : stms[i] \in Statements
  OBVIOUS
<1>2. PICK G : G = FactsAlong(stms, f)
  OBVIOUS
<1>3. /\ G \in [1 .. n + 1 -> Facts] /\ G[1] = f
      /\ \A i \in 1 .. n : G[i + 1] = Out(stms[i], G[i])
  BY <1>1, <1>2, AlongSteps
<1>4. ASSUME f \in NonEmptyFacts
      PROVE  G[n + 1] \in NonEmptyFacts
  <2>1. PICK A : A = {i \in 1 .. n + 1 : G[i] \in NonEmptyFacts}
    OBVIOUS
  <2>2. 1 \in A
    BY <1>3, <1>4, <2>1
  <2>3. ASSUME NEW i \in 1 .. n, i \in A
        PROVE  i + 1 \in A
    <3>1. G[i] \in NonEmptyFacts /\ stms[i] \in Statements /\ i + 1 \in 1 .. n + 1
      BY <1>1, <2>1, <2>3
    <3>2. Out(stms[i], G[i]) \in NonEmptyFacts
      BY <3>1, OutTypes
    <3> QED
      BY <1>3, <2>1, <3>1, <3>2
  <2>4. 1 .. n + 1 \subseteq A
    BY <2>2, <2>3, UpTo
  <2> QED
    BY <2>1, <2>4
<1> QED
  BY <1>1, <1>2, <1>3, <1>4 DEF FactsOut

\* A block that passes the analysis from facts that describe the pointers runs
\* without dereferencing null, and its output describes them afterwards.
LEMMA RunSound ==
  ASSUME NEW stms \in Seq(Statements), NEW f \in Facts,
         store \in [Ptr -> Target], bad \in BOOLEAN, Run(stms)
  PROVE  /\ store' \in [Ptr -> Target] /\ bad' \in BOOLEAN
         /\ Describes(f, store) => Describes(FactsOut(stms, f), store')
         /\ Describes(f, store) /\ Fails(stms, f) = {} => bad' = bad
<1>1. PICK n \in Nat : n = Len(stms) /\ \A i \in 1 .. n : stms[i] \in Statements
  OBVIOUS
<1>2. PICK G, T : G = FactsAlong(stms, f) /\ T = StoresAlong(stms, store)
  OBVIOUS
<1>3. /\ G \in [1 .. n + 1 -> Facts] /\ G[1] = f
      /\ \A i \in 1 .. n : G[i + 1] = Out(stms[i], G[i])
  BY <1>1, <1>2, AlongSteps
<1>4. /\ T \in [1 .. n + 1 -> [Ptr -> Target]] /\ T[1] = store
      /\ \A i \in 1 .. n : T[i + 1] = Exec(stms[i], T[i])
  BY <1>1, <1>2, StoresSteps
<1>5. /\ store' = T[n + 1]
      /\ bad' = (bad \/ \E i \in 1 .. n : stms[i].kind = "use" /\ T[i][stms[i].ptr] = Null)
  BY <1>1, <1>2 DEF Run
<1>6. ASSUME Describes(f, store)
      PROVE  \A i \in 1 .. n + 1 : Describes(G[i], T[i])
  <2>1. PICK A : A = {i \in 1 .. n + 1 : Describes(G[i], T[i])}
    OBVIOUS
  <2>2. 1 \in A
    BY <1>3, <1>4, <1>6, <2>1
  <2>3. ASSUME NEW i \in 1 .. n, i \in A
        PROVE  i + 1 \in A
    <3>1. /\ i \in 1 .. n + 1 /\ i + 1 \in 1 .. n + 1
          /\ stms[i] \in Statements /\ Describes(G[i], T[i])
      BY <1>1, <2>1, <2>3
    <3>2. G[i] \in Facts /\ T[i] \in [Ptr -> Target]
      BY <1>3, <1>4, <3>1
    <3>3. Describes(Out(stms[i], G[i]), Exec(stms[i], T[i]))
      BY <3>1, <3>2, OutSound
    <3> QED
      BY <1>3, <1>4, <2>1, <3>1, <3>3
  <2>4. 1 .. n + 1 \subseteq A
    BY <2>2, <2>3, UpTo
  <2> QED
    BY <2>1, <2>4
<1>7. ASSUME Describes(f, store), Fails(stms, f) = {}, NEW i \in 1 .. n
      PROVE  ~(stms[i].kind = "use" /\ T[i][stms[i].ptr] = Null)
  <2>1. Valid(stms[i], G[i])
    BY <1>1, <1>2, <1>7 DEF Fails
  <2>2. i \in 1 .. n + 1
    OBVIOUS
  <2>3. G[i] \in Facts /\ T[i] \in [Ptr -> Target] /\ Describes(G[i], T[i])
    BY <1>3, <1>4, <1>6, <1>7, <2>2
  <2> QED
    BY <1>1, <2>1, <2>3, OutSound
<1>8. store' \in [Ptr -> Target] /\ bad' \in BOOLEAN
  <2>1. n + 1 \in 1 .. n + 1
    OBVIOUS
  <2> QED
    BY <1>4, <1>5, <2>1
<1>9. Describes(f, store) => Describes(FactsOut(stms, f), store')
  <2>1. n + 1 \in 1 .. n + 1
    OBVIOUS
  <2> QED
    BY <1>1, <1>2, <1>5, <1>6, <2>1 DEF FactsOut
<1>10. Describes(f, store) /\ Fails(stms, f) = {} => bad' = bad
  BY <1>5, <1>7
<1> QED
  BY <1>8, <1>9, <1>10

\* What is known of the first statements does not change when others follow, or
\* when those that follow are deleted.
LEMMA PrefixAlong ==
  ASSUME NEW s \in Seq(Statements), NEW t \in Seq(Statements), NEW f \in Facts,
         Len(t) <= Len(s), \A i \in 1 .. Len(t) : t[i] = s[i]
  PROVE  /\ \A i \in 1 .. Len(t) + 1 : FactsAlong(t, f)[i] = FactsAlong(s, f)[i]
         /\ Fails(t, f) = Fails(s, f) \cap 1 .. Len(t)
<1>1. PICK m \in Nat, n \in Nat : m = Len(t) /\ n = Len(s) /\ m <= n
  OBVIOUS
<1>2. PICK G, H : G = FactsAlong(t, f) /\ H = FactsAlong(s, f)
  OBVIOUS
<1>3. G[1] = f /\ \A i \in 1 .. m : G[i + 1] = Out(s[i], G[i])
  <2>1. G[1] = f /\ \A i \in 1 .. m : G[i + 1] = Out(t[i], G[i])
    BY <1>1, <1>2, AlongSteps
  <2>2. \A i \in 1 .. m : t[i] = s[i]
    BY <1>1
  <2> QED
    BY <2>1, <2>2
<1>4. H[1] = f /\ \A i \in 1 .. m : H[i + 1] = Out(s[i], H[i])
  BY <1>1, <1>2, AlongSteps
<1>5. \A i \in 1 .. m + 1 : G[i] = H[i]
  <2>1. PICK A : A = {i \in 1 .. m + 1 : G[i] = H[i]}
    OBVIOUS
  <2>2. 1 \in A
    BY <1>3, <1>4, <2>1
  <2>3. ASSUME NEW i \in 1 .. m, i \in A
        PROVE  i + 1 \in A
    BY <1>3, <1>4, <2>1, <2>3
  <2>4. 1 .. m + 1 \subseteq A
    BY <2>2, <2>3, UpTo
  <2> QED
    BY <2>1, <2>4
<1>6. \A i \in 1 .. m : i \in 1 .. n /\ i \in 1 .. m + 1 /\ t[i] = s[i]
  BY <1>1
<1>7. Fails(t, f) = Fails(s, f) \cap 1 .. m
  BY <1>1, <1>2, <1>5, <1>6 DEF Fails
<1> QED
  BY <1>1, <1>2, <1>5, <1>7

LEMMA AppendAlong ==
  ASSUME NEW stms \in Seq(Statements), NEW s \in Statements, NEW f \in Facts
  PROVE  /\ Append(stms, s) \in Seq(Statements)
         /\ FactsOut(Append(stms, s), f) = Out(s, FactsOut(stms, f))
         /\ Fails(stms, f) = {} /\ Valid(s, FactsOut(stms, f)) => Fails(Append(stms, s), f) = {}
<1>1. PICK n \in Nat, t \in Seq(Statements) :
             /\ n = Len(stms) /\ t = Append(stms, s)
             /\ Len(t) = n + 1 /\ t[n + 1] = s /\ \A i \in 1 .. n : t[i] = stms[i]
  <2>1. Append(stms, s) \in Seq(Statements) /\ Len(stms) \in Nat
    OBVIOUS
  <2>2. \A i \in 1 .. Len(stms) : Append(stms, s)[i] = stms[i]
    OBVIOUS
  <2>3. Len(Append(stms, s)) = Len(stms) + 1 /\ Append(stms, s)[Len(stms) + 1] = s
    OBVIOUS
  <2> QED
    BY <2>1, <2>2, <2>3
<1>2. /\ \A i \in 1 .. n + 1 : FactsAlong(stms, f)[i] = FactsAlong(t, f)[i]
      /\ Fails(stms, f) = Fails(t, f) \cap 1 .. n
  <2>1. Len(stms) <= Len(t) /\ \A i \in 1 .. Len(stms) : stms[i] = t[i]
    BY <1>1
  <2>2. /\ \A i \in 1 .. Len(stms) + 1 : FactsAlong(stms, f)[i] = FactsAlong(t, f)[i]
        /\ Fails(stms, f) = Fails(t, f) \cap 1 .. Len(stms)
    BY <2>1, PrefixAlong
  <2> QED
    BY <1>1, <2>2
<1>3. n + 1 \in 1 .. n + 1 /\ n + 1 \in 1 .. Len(t)
  BY <1>1
<1>4. FactsAlong(t, f)[n + 1] = FactsOut(stms, f)
  BY <1>1, <1>2, <1>3 DEF FactsOut
<1>5. FactsOut(t, f) = Out(s, FactsOut(stms, f))
  <2>1. FactsAlong(t, f)[n + 1 + 1] = Out(t[n + 1], FactsAlong(t, f)[n + 1])
    BY <1>3, AlongSteps
  <2> QED
    BY <1>1, <1>4, <2>1 DEF FactsOut
<1>6. ASSUME Fails(stms, f) = {}, Valid(s, FactsOut(stms, f))
      PROVE  Fails(t, f) = {}
  <2>1. n + 1 \notin Fails(t, f)
    BY <1>1, <1>4, <1>6 DEF Fails
  <2>2. Fails(t, f) \subseteq 1 .. n + 1
    BY <1>1 DEF Fails
  <2> QED
    BY <1>2, <1>6, <2>1, <2>2
<1> QED
  BY <1>1, <1>5, <1>6

-----------------------------------------------------------------------------
(* Managers *)

LEMMA DeepFacts ==
  ASSUME Typed
  PROVE  /\ Deep \in Nat /\ Deep >= 1 /\ Deep <= MaxMgrs
         /\ DOMAIN mgrs = 1 .. Deep
         /\ Deepest = Deep
         /\ \A d \in 1 .. Deep :
              /\ mgrs[d] \in ManagerRecord
              /\ AfterCall(d) = mgrs[IF d = Deep THEN d ELSE d + 1].call
              /\ AfterCall(d) \in Facts
<1>1. Deep \in Nat /\ Deep >= 1 /\ Deep <= MaxMgrs /\ DOMAIN mgrs = 1 .. Deep
  BY RecursionConstantsOK DEF Typed, RecursionConstantsOK
<1>2. Deepest = Deep
  <2>1. PICK n \in Nat : n = Deep
    BY <1>1
  <2>2. Max(1 .. n) \in 1 .. n /\ \A y \in 1 .. n : y <= Max(1 .. n)
    <3>1. 1 .. n # {} /\ 1 .. n \subseteq 1 .. n
      BY <1>1, <2>1
    <3> QED
      BY <3>1, MaxIsGreatest
  <2>3. n \in 1 .. n
    BY <1>1, <2>1
  <2>4. Max(1 .. n) = n
    BY <2>2, <2>3
  <2> QED
    BY <1>1, <2>1, <2>4 DEF Deepest
<1>3. ASSUME NEW d \in 1 .. Deep
      PROVE  /\ mgrs[d] \in ManagerRecord
             /\ AfterCall(d) = mgrs[IF d = Deep THEN d ELSE d + 1].call
             /\ AfterCall(d) \in Facts
  <2>1. \A e \in 1 .. Deep : mgrs[e] \in ManagerRecord
    BY DEF Typed
  <2>2. AfterCall(d) = mgrs[IF d = Deep THEN d ELSE d + 1].call
    BY <1>2 DEF AfterCall
  <2>3. (IF d = Deep THEN d ELSE d + 1) \in 1 .. Deep
    BY <1>1
  <2> QED
    BY <2>1, <2>2, <2>3 DEF ManagerRecord
<1> QED
  BY <1>1, <1>2, <1>3

LEMMA Counted ==
  ASSUME NEW n \in Nat, NEW m, DOMAIN m = 1 .. n
  PROVE  Cardinality(DOMAIN m) = n
<1>1. Cardinality(1 .. n) = IF 1 > n THEN 0 ELSE n - 1 + 1
  BY FS_Interval
<1> QED
  BY <1>1

LEMMA WithNextFacts ==
  ASSUME NEW n \in Nat, n >= 1, n <= MaxMgrs, NEW m \in [1 .. n -> ManagerRecord]
  PROVE  \E k \in Nat :
           /\ k <= MaxMgrs /\ k > 1 /\ k >= n
           /\ WithNext(m) \in [1 .. k -> ManagerRecord]
           /\ Cardinality(DOMAIN WithNext(m)) = k
           /\ \A d \in 1 .. n : WithNext(m)[d] = m[d]
           /\ k # n => k = n + 1 /\ WithNext(m)[k] = [m[n] EXCEPT !.visited = FALSE]
<1>1. MaxMgrs \in Nat /\ MaxMgrs > 1
  BY RecursionConstantsOK DEF RecursionConstantsOK
<1>2. Cardinality(DOMAIN m) = n
  BY Counted
<1>3. CASE n < MaxMgrs
  <2>1. PICK w : w = WithNext(m)
    OBVIOUS
  <2>2. w = [d \in 1 .. n + 1 |-> IF d <= n THEN m[d] ELSE [m[n] EXCEPT !.visited = FALSE]]
    BY <1>2, <1>3, <2>1 DEF WithNext, WithCopy
  <2>3. m[n] \in ManagerRecord /\ \A d \in 1 .. n : m[d] \in ManagerRecord
    OBVIOUS
  <2>4. [m[n] EXCEPT !.visited = FALSE] \in ManagerRecord
    BY <2>3 DEF ManagerRecord
  <2>5. w \in [1 .. n + 1 -> ManagerRecord]
    <3> HIDE DEF ManagerRecord
    <3>1. \A d \in 1 .. n + 1 : w[d] \in ManagerRecord
      BY <2>2, <2>3, <2>4
    <3> QED
      BY <2>2, <3>1
  <2>6. Cardinality(DOMAIN w) = n + 1
    BY <2>5, Counted
  <2>7. /\ \A d \in 1 .. n : w[d] = m[d]
        /\ w[n + 1] = [m[n] EXCEPT !.visited = FALSE]
    BY <2>2
  <2>8. n + 1 \in Nat /\ n + 1 <= MaxMgrs /\ n + 1 > 1 /\ n + 1 >= n
    BY <1>1, <1>3
  <2> QED
    BY <2>1, <2>5, <2>6, <2>7, <2>8
<1>4. CASE n = MaxMgrs
  BY <1>1, <1>2, <1>4 DEF WithNext
<1>5. n < MaxMgrs \/ n = MaxMgrs
  BY <1>1
<1> QED
  BY <1>3, <1>4, <1>5

\* The managers that are live, ordered by depth.
LEMMA LiveFacts ==
  ASSUME Typed
  PROVE  /\ Max(live) \in live /\ \A d \in live : d <= Max(live)
         /\ \A d \in 1 .. Deep : Returner(d) \in live
         /\ SetAside \subseteq live /\ Max(live) \notin SetAside
         /\ Cardinality(live) \in Nat
<1>1. PICK n \in Nat, S \in {live} : n = Deep /\ S = live /\ S \subseteq 1 .. n /\ S # {}
  BY DeepFacts DEF Typed
<1>2. Max(S) \in S /\ \A d \in S : d <= Max(S)
  BY <1>1, MaxIsGreatest
<1>3. ASSUME NEW d \in 1 .. Deep
      PROVE  Returner(d) \in live
  <2>1. PICK R : R = {e \in live : e > d} \cup {Max(live)}
    OBVIOUS
  <2>2. R \subseteq live /\ R # {}
    BY <1>1, <1>2, <2>1
  <2>3. R \subseteq Nat
    BY <1>1, <2>2
  <2>4. Min(R) \in R
    BY <2>2, <2>3, MinIsLeast
  <2> QED
    BY <2>1, <2>2, <2>4 DEF Returner
<1>4. IsFiniteSet(S) /\ Cardinality(S) \in Nat
  <2>1. IsFiniteSet(1 .. n)
    BY FS_Interval
  <2> QED
    BY <1>1, <2>1, FS_Subset, FS_CardinalityType
<1>5. ASSUME Cardinality(S) # 1
      PROVE  Penultimate \in S /\ Penultimate # Max(S)
  <2>1. PICK x : x = Max(S)
    OBVIOUS
  <2>2. PICK R : R = S \ {x}
    OBVIOUS
  <2>3. R # {}
    <3>1. CASE S = {x}
      BY <1>5, <3>1, FS_Singleton
    <3>2. CASE S # {x}
      BY <1>2, <2>1, <2>2, <3>2
    <3> QED
      BY <3>1, <3>2
  <2>4. Max(R) \in R
    BY <1>1, <2>2, <2>3, MaxIsGreatest
  <2> QED
    BY <1>1, <2>1, <2>2, <2>4 DEF Penultimate
<1> QED
  BY <1>1, <1>2, <1>3, <1>4, <1>5 DEF SetAside

LEMMA RenewedTypes ==
  ASSUME Typed, NEW d \in live \cup deleted
  PROVE  Renewed(d) \in Facts
<1>1. d \in 1 .. Deep /\ Returner(d) \in 1 .. Deep
  BY LiveFacts DEF Typed
<1>2. mgrs[d] \in ManagerRecord /\ mgrs[Returner(d)] \in ManagerRecord
  BY <1>1, DeepFacts
<1>3. Slots \in Nat /\ Slots >= 1
  BY DEF Slots, Typed
<1>4. mgrs[d].ins \in Seq(Record) /\ Len(mgrs[d].ins) >= 1
  BY <1>2, <1>3 DEF Typed, ManagerRecord
<1>5. mgrs[d].ins[1] \in Record
  BY <1>4
<1>6. mgrs[d].ins[1].facts \in Facts /\ mgrs[Returner(d)].out \in Facts
  BY <1>2, <1>5 DEF Record, ManagerRecord
<1> QED
  BY <1>6, MergeFacts DEF Renewed

LEMMA RecordFacts ==
  ASSUME Typed, NEW d \in live \cup deleted
  PROVE  /\ Len(after) \in Nat /\ Slots \in Nat /\ Slots >= 1 /\ Len(after) <= Slots
         /\ mgrs[d].ins \in [1 .. Slots -> Record]
         /\ mgrs[d].outs \in [1 .. Slots -> Facts]
         /\ \A i \in 1 .. Len(after) : mgrs[d].ins[i].facts \in Facts
<1>1. d \in 1 .. Deep /\ mgrs[d] \in ManagerRecord
  BY DeepFacts DEF Typed
<1>2. PICK ins \in Seq(Record), outs \in Seq(Facts) : ins = mgrs[d].ins /\ outs = mgrs[d].outs
  BY <1>1 DEF ManagerRecord
<1>3. Len(ins) = Slots /\ Len(outs) = Slots
  BY <1>1, <1>2 DEF Typed
<1>4. Len(after) \in Nat /\ Slots \in Nat /\ Slots >= 1 /\ Len(after) <= Slots
  <2>1. after \in Seq(Statements)
    BY DEF Typed
  <2> QED
    BY <2>1 DEF Slots
<1>5. \A i \in 1 .. Len(after) : ins[i] \in Record
  BY <1>3, <1>4
<1>6. ins \in [1 .. Slots -> Record] /\ outs \in [1 .. Slots -> Facts]
  BY <1>3, <1>4
<1> QED
  BY <1>2, <1>4, <1>5, <1>6 DEF Record

LEMMA VisitTypes ==
  ASSUME Typed, NEW d \in live
  PROVE  \A i \in 1 .. Len(after) + 1 : VisitFacts(d)[i] \in Facts
<1>1. PICK n \in Nat, outs \in {mgrs[d].outs} :
             /\ n = Len(after) /\ outs = mgrs[d].outs
             /\ \A i \in 1 .. n : after[i] \in Statements /\ outs[i] \in Facts
  <2>1. /\ Len(after) \in Nat /\ Slots \in Nat /\ Len(after) <= Slots
        /\ mgrs[d].outs \in [1 .. Slots -> Facts]
    BY RecordFacts
  <2>2. \A i \in 1 .. Len(after) : after[i] \in Statements
    BY DEF Typed
  <2>3. \A i \in 1 .. Len(after) : mgrs[d].outs[i] \in Facts
    BY <2>1
  <2> QED
    BY <2>1, <2>2, <2>3
<1>2. PICK x \in Facts : x = Renewed(d)
  BY RenewedTypes
<1> DEFINE Visit(i, g) == IF Shortcut(d, i, g) THEN outs[i] ELSE Out(after[i], g)
           Steps(g) == [i \in 1 .. n + 1 |-> IF i = 1 THEN x ELSE Visit(i - 1, g[i - 1])]
<1>3. PICK F \in [1 .. n -> [Facts -> Facts]] :
              \A i \in 1 .. n : \A g \in Facts : F[i][g] = Visit(i, g)
  <2> DEFINE H == [i \in 1 .. n |-> [g \in Facts |-> Visit(i, g)]]
  <2>1. H \in [1 .. n -> [Facts -> Facts]]
    BY <1>1, OutTypes
  <2> QED
    BY <2>1
<1> HIDE DEF Visit
<1>4. \E g : g = Steps(g)
  <2>1. PICK g \in [1 .. n + 1 -> Facts] : g[1] = x /\ \A i \in 1 .. n : g[i + 1] = F[i][g[i]]
    <3>1. \E g : IsChain(g, n, Facts, x, F)
      BY Iterated
    <3> QED
      BY <3>1 DEF IsChain
  <2>2. ASSUME NEW i \in 1 .. n + 1, i # 1
        PROVE  g[i] = Visit(i - 1, g[i - 1])
    <3>1. PICK j \in 1 .. n : j = i - 1 /\ j + 1 = i /\ j \in 1 .. n + 1
      BY <2>2
    <3>2. g[j] \in Facts
      BY <3>1
    <3>3. g[j + 1] = Visit(j, g[j])
      BY <1>3, <2>1, <3>2
    <3> QED
      BY <3>1, <3>3
  <2>3. g = Steps(g)
    BY <2>1, <2>2
  <2> QED
    BY <2>3
<1>5. PICK G : G = VisitFacts(d) /\ G = Steps(G)
  <2>1. VisitFacts(d) = CHOOSE g : g = Steps(g)
    BY <1>1, <1>2 DEF VisitFacts, Visit
  <2> QED
    BY <1>4, <2>1
<1>6. G[1] \in Facts
  BY <1>5
<1>7. ASSUME NEW i \in 1 .. n, G[i] \in Facts
      PROVE  G[i + 1] \in Facts
  <2>1. PICK j \in 1 .. n + 1 : j = i + 1 /\ j # 1 /\ j - 1 = i
    OBVIOUS
  <2>2. G[j] = Visit(j - 1, G[j - 1])
    BY <1>5, <2>1
  <2>3. Visit(i, G[i]) \in Facts
    BY <1>1, <1>7, OutTypes DEF Visit
  <2> QED
    BY <2>1, <2>2, <2>3
<1>8. PICK A : A = {i \in 1 .. n + 1 : G[i] \in Facts}
  OBVIOUS
<1>9. 1 \in A /\ \A i \in 1 .. n : i \in A => i + 1 \in A
  BY <1>6, <1>7, <1>8
<1>10. 1 .. n + 1 \subseteq A
  BY <1>9, UpTo
<1> QED
  BY <1>1, <1>5, <1>8, <1>10

-----------------------------------------------------------------------------
(* Generation up to the recursive call *)

LEMMA EmptyBlock ==
  ASSUME NEW f \in Facts
  PROVE  FactsOut(<<>>, f) = f /\ Fails(<<>>, f) = {}
<1>1. <<>> \in Seq(Statements) /\ Len(<<>>) = 0 /\ 0 + 1 = 1
  OBVIOUS
<1>2. FactsAlong(<<>>, f)[1] = f
  BY <1>1, AlongSteps
<1>3. 1 .. 0 = {}
  OBVIOUS
<1> QED
  BY <1>1, <1>2, <1>3 DEF FactsOut, Fails

LEMMA ManagerTypes ==
  ASSUME NEW f \in Facts
  PROVE  /\ Manager(f) \in ManagerRecord
         /\ Len(Manager(f).ins) = 1 /\ Len(Manager(f).outs) = 1
         /\ Manager(f).in = f /\ Manager(f).call = NoFacts
<1>1. [facts |-> NoFacts, locals |-> 0] \in Record
  BY SmallFacts DEF Record
<1>2. PICK ins, outs : ins = <<[facts |-> NoFacts, locals |-> 0]>> /\ outs = <<NoFacts>>
  OBVIOUS
<1>3. ins \in Seq(Record) /\ outs \in Seq(Facts) /\ Len(ins) = 1 /\ Len(outs) = 1
  BY <1>1, <1>2, SmallFacts
<1>4. Manager(f) = [in |-> f, visited |-> FALSE, call |-> NoFacts, facts |-> NoFacts,
                    out |-> NoFacts, ins |-> ins, outs |-> outs]
  BY <1>2 DEF Manager
<1> QED
  BY <1>3, <1>4, SmallFacts DEF ManagerRecord

\* One manager, as it was made or cleared.
LEMMA OneManager ==
  ASSUME NEW m, m = [d \in {1} |-> m[1]], m[1] \in ManagerRecord
  PROVE  /\ DOMAIN m = 1 .. 1 /\ Cardinality(DOMAIN m) = 1
         /\ m \in [1 .. 1 -> ManagerRecord]
<1>1. DOMAIN m = 1 .. 1
  <2>1. DOMAIN m = {1}
    OBVIOUS
  <2>2. 1 .. 1 = {1}
    OBVIOUS
  <2> QED
    BY <2>1, <2>2
<1>2. Cardinality(DOMAIN m) = 1
  BY <1>1, Counted
<1>3. \A d \in 1 .. 1 : m[d] \in ManagerRecord
  OBVIOUS
<1> HIDE DEF ManagerRecord
<1>4. m = [d \in 1 .. 1 |-> m[d]]
  OBVIOUS
<1> QED
  BY <1>1, <1>2, <1>3, <1>4

LEMMA Start ==
  ASSUME Init
  PROVE  IInv
<1>1. /\ entry \in Entries /\ entry \in Facts
      /\ before = <<>> /\ after = <<>> /\ phase = "before"
  BY SmallFacts DEF Init
<1>2. /\ mgrs = [d \in {1} |-> Manager(entry)] /\ mgrs[1] = Manager(entry)
      /\ mgrs = [d \in {1} |-> mgrs[1]]
  BY DEF Init
<1>3. Deep = 1 /\ mgrs \in [1 .. Deep -> ManagerRecord]
  <2>1. mgrs[1] \in ManagerRecord
    BY <1>1, <1>2, ManagerTypes
  <2>2. Cardinality(DOMAIN mgrs) = 1 /\ mgrs \in [1 .. 1 -> ManagerRecord]
    BY <1>2, <2>1, OneManager
  <2> QED
    BY <2>2 DEF Deep
<1>4. Slots = 1 /\ 1 .. Deep = {1}
  BY <1>1, <1>3 DEF Slots
<1>5. Typed
  <2>1. 1 \in 1 .. MaxMgrs /\ 0 \in 0 .. MaxLevel
    BY RecursionConstantsOK DEF RecursionConstantsOK
  <2>2. \A d \in 1 .. Deep : Len(mgrs[d].ins) = 1 /\ Len(mgrs[d].outs) = 1
    BY <1>1, <1>2, <1>4, ManagerTypes
  <2>3. {ret, outputs, inputs} \subseteq Facts
    BY <1>1, SmallFacts DEF Init
  <2>4. <<>> \in Seq(Statements)
    OBVIOUS
  <2>5. live = {1} /\ deleted = {} /\ locals = 0 /\ cnt = 0 /\ rounds = 0 /\ unwound = 0
        /\ level = 0 /\ once = FALSE /\ bad = FALSE /\ store \in [Ptr -> Target]
    BY DEF Init
  <2> HIDE DEF ManagerRecord
  <2> QED
    BY <1>1, <1>3, <1>4, <2>1, <2>2, <2>3, <2>4, <2>5 DEF Typed
<1>6. GenerationInv
  BY <1>1, EmptyBlock DEF Init, GenerationInv
<1>7. WitnessInv
  BY DEF Init, WitnessInv
<1> QED
  BY <1>1, <1>5, <1>6, <1>7 DEF IInv, CallsInv, FixedInv, AfterInv

LEMMA GenBeforeKeeps ==
  ASSUME IInv, NEW s \in Statements, GenBefore(s)
  PROVE  IInv'
<1>1. /\ phase = "before" /\ phase' = "before" /\ Valid(s, outputs)
      /\ before' = Append(before, s) /\ outputs' = Out(s, outputs)
      /\ UNCHANGED <<after, mgrs, live, deleted, ret, entry, inputs, cnt, once, rounds,
                     level, unwound, store, bad>>
      /\ locals' = LocalsWith(s)
  BY DEF GenBefore, managers, witness
<1>2. /\ entry \in Facts /\ outputs \in Facts /\ before \in Seq(Statements)
      /\ Fails(before, entry) = {} /\ outputs = FactsOut(before, entry)
  BY <1>1, SmallFacts DEF IInv, Typed, GenerationInv
<1>3. /\ before' \in Seq(Statements) /\ outputs' \in Facts
      /\ Fails(before', entry) = {} /\ outputs' = FactsOut(before', entry)
  BY <1>1, <1>2, AppendAlong, OutTypes
<1>4. Deep' = Deep /\ Slots' = Slots
  BY <1>1 DEF Deep, Slots
<1>5. Typed'
  <2>1. locals' \in Nat
    BY <1>1 DEF IInv, Typed, LocalsWith
  <2> QED
    BY <1>1, <1>3, <1>4, <2>1 DEF IInv, Typed
<1>6. GenerationInv'
  BY <1>1, <1>3 DEF IInv, GenerationInv
<1>7. WitnessInv'
  BY <1>1 DEF IInv, WitnessInv
<1> QED
  BY <1>1, <1>5, <1>6, <1>7 DEF IInv, CallsInv, FixedInv, AfterInv

\* The managers, and perhaps a copy of the last one.
LEMMA NextManagers ==
  ASSUME NEW n \in Nat, n >= 1, n <= MaxMgrs, NEW m \in [1 .. n -> ManagerRecord],
         \A d \in 1 .. n : Len(m[d].ins) = 1 /\ Len(m[d].outs) = 1,
         mgrs' = WithNext(m)
  PROVE  /\ Deep' \in Nat /\ Deep' > 1 /\ Deep' >= n /\ Deep' <= MaxMgrs
         /\ mgrs' \in [1 .. Deep' -> ManagerRecord] /\ DOMAIN mgrs' = 1 .. Deep'
         /\ \A d \in 1 .. Deep' : Len(mgrs'[d].ins) = 1 /\ Len(mgrs'[d].outs) = 1
         /\ \A d \in 1 .. n : mgrs'[d] = m[d]
         /\ Deep' # n => /\ Deep' = n + 1
                         /\ mgrs'[Deep'].in = m[n].in /\ mgrs'[Deep'].call = m[n].call
                         /\ mgrs'[Deep'].visited = FALSE
<1>1. PICK k \in Nat :
             /\ k <= MaxMgrs /\ k > 1 /\ k >= n
             /\ mgrs' \in [1 .. k -> ManagerRecord]
             /\ Cardinality(DOMAIN mgrs') = k
             /\ \A d \in 1 .. n : mgrs'[d] = m[d]
             /\ k # n => k = n + 1 /\ mgrs'[k] = [m[n] EXCEPT !.visited = FALSE]
  <2>1. \E k \in Nat :
           /\ k <= MaxMgrs /\ k > 1 /\ k >= n
           /\ WithNext(m) \in [1 .. k -> ManagerRecord]
           /\ Cardinality(DOMAIN WithNext(m)) = k
           /\ \A d \in 1 .. n : WithNext(m)[d] = m[d]
           /\ k # n => k = n + 1 /\ WithNext(m)[k] = [m[n] EXCEPT !.visited = FALSE]
    BY WithNextFacts
  <2> QED
    BY <2>1
<1>2. Deep' = k
  BY <1>1 DEF Deep
<1>3. ASSUME k # n
      PROVE  /\ k = n + 1 /\ mgrs'[k].in = m[n].in /\ mgrs'[k].call = m[n].call
             /\ mgrs'[k].visited = FALSE
             /\ Len(mgrs'[k].ins) = 1 /\ Len(mgrs'[k].outs) = 1
  <2>1. mgrs'[k] = [m[n] EXCEPT !.visited = FALSE] /\ n \in 1 .. n /\ k = n + 1
    BY <1>1, <1>3
  <2>2. m[n] \in ManagerRecord
    BY <2>1
  <2> QED
    BY <2>1, <2>2 DEF ManagerRecord
<1>4. ASSUME NEW d \in 1 .. k
      PROVE  Len(mgrs'[d].ins) = 1 /\ Len(mgrs'[d].outs) = 1
  <2>1. CASE d \in 1 .. n
    BY <1>1, <2>1
  <2>2. CASE d \notin 1 .. n
    <3>1. k # n /\ d = k
      <4>1. k # n
        BY <2>2
      <4> QED
        BY <1>3, <2>2, <4>1
    <3> QED
      BY <1>3, <3>1
  <2> QED
    BY <2>1, <2>2
<1>5. DOMAIN mgrs' = 1 .. k
  BY <1>1
<1> QED
  BY <1>1, <1>2, <1>3, <1>4, <1>5

LEMMA GenCallKeeps ==
  ASSUME IInv, GenCall
  PROVE  IInv'
<1>1. /\ phase = "before" /\ phase' = "calls"
      /\ UNCHANGED <<before, after, locals, deleted, ret, entry, outputs, inputs, cnt, once,
                     rounds, level, unwound, store, bad>>
      /\ live' = DOMAIN mgrs'
  BY DEF GenCall, body, analysis, witness
<1>2. PICK m : m = [mgrs EXCEPT ![1].call = outputs, ![1].visited = TRUE]
  OBVIOUS
<1>3. /\ mgrs = [d \in {1} |-> Manager(entry)] /\ after = <<>> /\ deleted = {} /\ ~once
      /\ Fails(before, entry) = {} /\ outputs = FactsOut(before, entry)
      /\ entry \in Facts /\ entry \in NonEmptyFacts /\ outputs \in Facts
  BY <1>1, SmallFacts DEF IInv, Typed, GenerationInv
<1>4. /\ m = [d \in {1} |-> m[1]] /\ m[1] \in ManagerRecord
      /\ m[1].in = entry /\ m[1].call = outputs /\ m[1].visited = TRUE
      /\ Len(m[1].ins) = 1 /\ Len(m[1].outs) = 1
  <2>1. PICK w : w = Manager(entry)
    OBVIOUS
  <2>2. /\ w \in ManagerRecord /\ w.in = entry /\ Len(w.ins) = 1 /\ Len(w.outs) = 1
    BY <1>3, <2>1, ManagerTypes
  <2>3. m = [d \in {1} |-> [w EXCEPT !.call = outputs, !.visited = TRUE]]
    BY <1>2, <1>3, <2>1
  <2> QED
    BY <1>3, <2>2, <2>3 DEF ManagerRecord
<1>5. m \in [1 .. 1 -> ManagerRecord]
  BY <1>4, OneManager
<1>6. /\ \A d \in 1 .. 1 : Len(m[d].ins) = 1 /\ Len(m[d].outs) = 1
      /\ mgrs' = WithNext(m) /\ 1 <= MaxMgrs
  BY <1>2, <1>4, RecursionConstantsOK DEF GenCall, RecursionConstantsOK
<1>7. /\ Deep' = 2 /\ Deep' \in 1 .. MaxMgrs
      /\ mgrs' \in [1 .. Deep' -> ManagerRecord] /\ DOMAIN mgrs' = 1 .. Deep'
      /\ \A d \in 1 .. Deep' : Len(mgrs'[d].ins) = 1 /\ Len(mgrs'[d].outs) = 1
      /\ mgrs'[1] = m[1]
      /\ mgrs'[2].in = entry /\ mgrs'[2].call = outputs /\ mgrs'[2].visited = FALSE
  <2>1. PICK n \in Nat : n = 1
    OBVIOUS
  <2>2. /\ n >= 1 /\ n <= MaxMgrs /\ m \in [1 .. n -> ManagerRecord]
        /\ \A d \in 1 .. n : Len(m[d].ins) = 1 /\ Len(m[d].outs) = 1
    BY <1>5, <1>6, <2>1
  <2>3. /\ Deep' \in Nat /\ Deep' > 1 /\ Deep' >= n /\ Deep' <= MaxMgrs
        /\ mgrs' \in [1 .. Deep' -> ManagerRecord] /\ DOMAIN mgrs' = 1 .. Deep'
        /\ \A d \in 1 .. Deep' : Len(mgrs'[d].ins) = 1 /\ Len(mgrs'[d].outs) = 1
        /\ \A d \in 1 .. n : mgrs'[d] = m[d]
        /\ Deep' # n => /\ Deep' = n + 1
                        /\ mgrs'[Deep'].in = m[n].in /\ mgrs'[Deep'].call = m[n].call
                        /\ mgrs'[Deep'].visited = FALSE
    BY <1>6, <2>2, NextManagers
  <2> QED
    BY <1>4, <2>1, <2>3
<1>8. Slots' = 1 /\ live' = 1 .. Deep'
  BY <1>1, <1>3, <1>7 DEF Slots
<1>9. Typed'
  <2>1. live' # {}
    BY <1>7, <1>8
  <2> HIDE DEF ManagerRecord
  <2> QED
    BY <1>1, <1>3, <1>7, <1>8, <2>1 DEF IInv, Typed
<1>10. CallsInv'
  <2>1. \A d \in 1 .. 2 : Visited(d)'
    <3>1. \A d \in 1 .. 2 : mgrs'[d].in = entry /\ mgrs'[d].call = outputs
      BY <1>4, <1>7
    <3> QED
      BY <1>1, <1>3, <3>1 DEF Visited
  <2>2. \A d \in 1 .. Deep' - 1 : d = 1 /\ d + 1 = 2
    BY <1>7
  <2>3. /\ \A d \in 1 .. Deep' - 1 : mgrs'[d].visited /\ ~mgrs'[d + 1].visited
        /\ mgrs'[Deep' - 1].call = outputs
    BY <1>4, <1>7, <2>2
  <2>4. ~once' /\ outputs' = outputs /\ entry' = entry /\ mgrs'[1].in = entry
    BY <1>1, <1>3, <1>4, <1>7
  <2> QED
    BY <1>1, <1>3, <1>7, <1>8, <2>1, <2>3, <2>4 DEF CallsInv
<1>11. WitnessInv'
  BY <1>1 DEF IInv, WitnessInv
<1> QED
  BY <1>1, <1>9, <1>10, <1>11 DEF IInv, GenerationInv, FixedInv, AfterInv

-----------------------------------------------------------------------------
(* The first fixed point *)

\* A round starts with all that the last manager passed on.
LEMMA RoundFacts ==
  ASSUME IInv, phase = "calls"
  PROVE  /\ RoundInputs \in NonEmptyFacts /\ RoundInputs \in Facts
         /\ once => Deep = 1 /\ RoundInputs = entry
         /\ ~once => /\ Within(mgrs[Deep - 1].call, RoundInputs)
                     /\ Within(mgrs[Deep].call, RoundInputs)
                     /\ Deep > 1
<1>1. /\ Deepest = Deep /\ Deep \in Nat /\ Deep >= 1
      /\ outputs \in Facts /\ inputs \in Facts /\ entry \in NonEmptyFacts /\ entry \in Facts
      /\ \A d \in 1 .. Deep : mgrs[d] \in ManagerRecord
      /\ \A d \in 1 .. Deep : mgrs[d].in \in Facts /\ mgrs[d].call \in Facts
  <2>1. Deepest = Deep /\ Deep \in Nat /\ Deep >= 1 /\ \A d \in 1 .. Deep : mgrs[d] \in ManagerRecord
    BY DeepFacts DEF IInv
  <2> QED
    BY <2>1, SmallFacts DEF IInv, Typed, ManagerRecord
<1>2. CASE once
  <2>1. Deep = 1 /\ mgrs[1].visited /\ inputs = NoFacts /\ outputs = entry
    BY <1>2 DEF IInv, CallsInv
  <2>2. RoundInputs = entry
    BY <1>1, <2>1, SmallFacts DEF RoundInputs
  <2> QED
    BY <1>1, <1>2, <2>1, <2>2
<1>3. CASE ~once
  <2>1. /\ Deep > 1
        /\ \A d \in 1 .. Deep : Visited(d)
        /\ \A d \in 1 .. Deep - 1 : mgrs[d + 1].visited => Within(mgrs[d].call, mgrs[d + 1].in)
        /\ outputs = mgrs[Deep].call
        /\ IF mgrs[Deep].visited THEN inputs = mgrs[Deep].in ELSE outputs = mgrs[Deep - 1].call
    BY <1>3 DEF IInv, CallsInv
  <2>2. PICK e \in 1 .. Deep : e = Deep - 1 /\ e \in 1 .. Deep - 1 /\ e + 1 = Deep /\ Deep \in 1 .. Deep
    BY <1>1, <2>1
  <2>3. /\ mgrs[Deep].in \in NonEmptyFacts /\ Fails(before, mgrs[Deep].in) = {}
        /\ mgrs[Deep].call = FactsOut(before, mgrs[Deep].in)
    BY <2>1, <2>2 DEF Visited
  <2>4. outputs \in NonEmptyFacts
    <3>1. before \in Seq(Statements) /\ mgrs[Deep].in \in Facts
      BY <1>1, <2>2 DEF IInv, Typed
    <3> QED
      BY <2>1, <2>3, <3>1, FactsOutTypes
  <2>5. CASE mgrs[Deep].visited
    <3>1. RoundInputs = Merge(inputs, outputs) /\ inputs = mgrs[Deep].in
      BY <1>1, <2>1, <2>5 DEF RoundInputs
    <3>2. /\ Merge(inputs, outputs) \in Facts /\ Merge(inputs, outputs) \in NonEmptyFacts
          /\ Within(inputs, Merge(inputs, outputs)) /\ Within(outputs, Merge(inputs, outputs))
      BY <1>1, <2>3, <3>1, MergeFacts
    <3>3. Within(mgrs[e].call, inputs)
      BY <2>1, <2>2, <2>5, <3>1
    <3>4. Within(mgrs[e].call, RoundInputs)
      BY <3>1, <3>2, <3>3 DEF Within
    <3> QED
      BY <1>3, <2>1, <2>2, <3>1, <3>2, <3>4
  <2>6. CASE ~mgrs[Deep].visited
    <3>1. RoundInputs = outputs
      BY <1>1, <2>6 DEF RoundInputs
    <3>2. Within(outputs, outputs)
      BY DEF Within
    <3> QED
      BY <1>1, <1>3, <2>1, <2>4, <2>6, <3>1, <3>2
  <2> QED
    BY <2>5, <2>6
<1> QED
  BY <1>2, <1>3

LEMMA VisitBeforeKeeps ==
  ASSUME IInv, VisitBefore
  PROVE  IInv'
<1>1. /\ phase = "calls" /\ phase' = "calls" /\ Fails(before, RoundInputs) = {}
      /\ UNCHANGED <<before, after, locals, deleted, ret, entry, rounds, level, unwound, store, bad>>
      /\ outputs' = FactsOut(before, RoundInputs)
      /\ live' = DOMAIN mgrs' /\ inputs' = RoundInputs /\ cnt' = RoundCnt /\ once' = FALSE
  BY DEF VisitBefore, CallRound, body, witness
<1>2. PICK n \in Nat, f \in Facts, o \in Facts :
             /\ n = Deep /\ f = RoundInputs /\ o = FactsOut(before, f) /\ o = outputs'
             /\ f \in NonEmptyFacts
  <2>1. RoundInputs \in Facts /\ RoundInputs \in NonEmptyFacts
    BY <1>1, RoundFacts
  <2>2. before \in Seq(Statements) /\ Deep \in Nat
    BY DeepFacts DEF IInv, Typed
  <2> QED
    BY <1>1, <2>1, <2>2, FactsOutTypes
<1>3. PICK m : m = [mgrs EXCEPT ![n].in = f, ![n].call = o, ![n].visited = TRUE]
  OBVIOUS
<1>4. /\ n >= 1 /\ n <= MaxMgrs /\ n \in 1 .. n /\ Deepest = n
      /\ mgrs \in [1 .. n -> ManagerRecord]
      /\ after = <<>> /\ deleted = {} /\ live = 1 .. n
      /\ \A d \in 1 .. n : Len(mgrs[d].ins) = 1 /\ Len(mgrs[d].outs) = 1
  <2>1. n >= 1 /\ n <= MaxMgrs /\ Deepest = n
    BY <1>2, DeepFacts DEF IInv
  <2>2. after = <<>> /\ deleted = {} /\ live = 1 .. n
    BY <1>1, <1>2 DEF IInv, CallsInv
  <2>3. mgrs \in [1 .. n -> ManagerRecord]
    BY <1>2 DEF IInv, Typed
  <2>4. \A d \in 1 .. n : Len(mgrs[d].ins) = 1 /\ Len(mgrs[d].outs) = 1
    BY <1>2, <2>2 DEF IInv, Typed, Slots
  <2> QED
    BY <2>1, <2>2, <2>3, <2>4
<1>5. /\ m \in [1 .. n -> ManagerRecord]
      /\ m[n].in = f /\ m[n].call = o /\ m[n].visited = TRUE
      /\ \A d \in 1 .. n : d # n => m[d] = mgrs[d]
      /\ \A d \in 1 .. n : Len(m[d].ins) = 1 /\ Len(m[d].outs) = 1
  <2>1. PICK w \in ManagerRecord : w = mgrs[n]
    BY <1>4
  <2>2. PICK v : v = [w EXCEPT !.in = f, !.call = o, !.visited = TRUE]
    OBVIOUS
  <2>3. /\ v \in ManagerRecord /\ v.in = f /\ v.call = o /\ v.visited = TRUE
        /\ v.ins = w.ins /\ v.outs = w.outs
    BY <2>1, <2>2 DEF ManagerRecord
  <2>4. m = [mgrs EXCEPT ![n] = v]
    BY <1>3, <1>4, <2>1, <2>2
  <2> HIDE DEF ManagerRecord
  <2> QED
    BY <1>4, <2>1, <2>3, <2>4
<1>6. mgrs' = WithNext(m)
  BY <1>1, <1>2, <1>3, <1>4 DEF VisitBefore
<1>7. /\ Deep' \in Nat /\ Deep' > 1 /\ Deep' >= n /\ Deep' <= MaxMgrs
      /\ mgrs' \in [1 .. Deep' -> ManagerRecord] /\ DOMAIN mgrs' = 1 .. Deep'
      /\ \A d \in 1 .. Deep' : Len(mgrs'[d].ins) = 1 /\ Len(mgrs'[d].outs) = 1
      /\ \A d \in 1 .. n : mgrs'[d] = m[d]
      /\ Deep' # n => /\ Deep' = n + 1
                      /\ mgrs'[Deep'].in = m[n].in /\ mgrs'[Deep'].call = m[n].call
                      /\ mgrs'[Deep'].visited = FALSE
  BY <1>4, <1>5, <1>6, NextManagers
<1>8. PICK k \in Nat : k = Deep'
  BY <1>7
<1>9. Slots' = 1 /\ live' = 1 .. k
  BY <1>1, <1>4, <1>7, <1>8 DEF Slots
<1>10. Typed'
  <2>1. live' # {} /\ k \in 1 .. MaxMgrs
    BY <1>7, <1>8, <1>9, RecursionConstantsOK DEF RecursionConstantsOK
  <2>2. cnt' \in Nat
    BY <1>1 DEF RoundCnt, IInv, Typed
  <2> HIDE DEF ManagerRecord
  <2>3. {ret', outputs', inputs'} \subseteq Facts
    BY <1>1, <1>2 DEF IInv, Typed
  <2> QED
    BY <1>1, <1>4, <1>7, <1>8, <1>9, <2>1, <2>2, <2>3 DEF IInv, Typed
<1>11. ASSUME NEW d \in 1 .. n, d # n
       PROVE  ~once /\ mgrs'[d] = mgrs[d]
  <2>1. Deep # 1
    BY <1>2, <1>11
  <2> QED
    BY <1>1, <1>5, <1>7, <1>11, <2>1, RoundFacts
<1>12. ASSUME NEW d \in 1 .. k
       PROVE  Visited(d)'
  <2>1. CASE d \in 1 .. n /\ d # n
    <3>1. Visited(d) /\ mgrs'[d] = mgrs[d]
      BY <1>1, <1>2, <1>11, <2>1 DEF IInv, CallsInv
    <3> QED
      BY <1>1, <3>1 DEF Visited
  <2>2. CASE ~(d \in 1 .. n /\ d # n)
    <3>1. mgrs'[d].in = f /\ mgrs'[d].call = o
      <4>1. CASE d = n
        BY <1>4, <1>5, <1>7, <4>1
      <4>2. CASE d # n
        <5>1. k # n /\ d = k
          BY <1>4, <1>7, <1>8, <2>2, <4>2
        <5> QED
          BY <1>5, <1>7, <1>8, <5>1
      <4> QED
        BY <4>1, <4>2
    <3> QED
      BY <1>1, <1>2, <3>1 DEF Visited
  <2> QED
    BY <2>1, <2>2
<1>13. ASSUME NEW d \in 1 .. k - 1
       PROVE  /\ mgrs'[d].visited
              /\ mgrs'[d + 1].visited => Within(mgrs'[d].call, mgrs'[d + 1].in)
  <2> k = n \/ k = n + 1
    BY <1>7, <1>8
  <2>1. CASE d = n
    <3>1. k # n /\ d + 1 = k
      BY <2>1
    <3>2. mgrs'[n] = m[n] /\ ~mgrs'[k].visited
      BY <1>4, <1>7, <1>8, <3>1
    <3> QED
      BY <1>5, <2>1, <3>1, <3>2
  <2>2. CASE d # n
    <3>1. d \in 1 .. n /\ d \in 1 .. n - 1 /\ d + 1 \in 1 .. n
      BY <2>2
    <3>2. ~once /\ mgrs'[d] = mgrs[d]
      BY <1>11, <2>2, <3>1
    <3>3. /\ mgrs[d].visited
          /\ mgrs[d + 1].visited => Within(mgrs[d].call, mgrs[d + 1].in)
      BY <1>1, <1>2, <3>1, <3>2 DEF IInv, CallsInv
    <3>4. CASE d + 1 = n
      <4>1. Within(mgrs[n - 1].call, f) /\ n - 1 = d
        BY <1>1, <1>2, <3>2, <3>4, RoundFacts
      <4> QED
        BY <1>5, <1>7, <3>1, <3>2, <3>3, <3>4, <4>1
    <3>5. CASE d + 1 # n
      BY <1>11, <3>1, <3>2, <3>3, <3>5
    <3> QED
      BY <3>4, <3>5
  <2> QED
    BY <2>1, <2>2
<1>14. mgrs'[1].in = entry
  <2>1. CASE n = 1
    <3>1. once
      BY <1>1, <1>2, <2>1 DEF IInv, CallsInv
    <3> QED
      BY <1>1, <1>2, <1>5, <1>7, <2>1, <3>1, RoundFacts
  <2>2. CASE n # 1
    <3>1. 1 \in 1 .. n
      BY <1>4
    <3>2. ~once /\ mgrs'[1] = mgrs[1]
      BY <1>11, <2>2, <3>1
    <3> QED
      BY <1>1, <3>2 DEF IInv, CallsInv
  <2> QED
    BY <2>1, <2>2
<1>15. outputs' = mgrs'[k].call
  BY <1>2, <1>4, <1>5, <1>7, <1>8
<1>16. IF mgrs'[k].visited THEN inputs' = mgrs'[k].in ELSE outputs' = mgrs'[k - 1].call
  <2>1. CASE k = n
    BY <1>1, <1>2, <1>4, <1>5, <1>7, <2>1
  <2>2. CASE k # n
    <3>1. k - 1 = n /\ ~mgrs'[k].visited
      BY <1>7, <1>8, <2>2
    <3> QED
      BY <1>2, <1>4, <1>5, <1>7, <3>1
  <2> QED
    BY <2>1, <2>2
<1>17. CallsInv'
  <2>1. Deep' = k /\ k > 1
    BY <1>7, <1>8
  <2> QED
    BY <1>1, <1>4, <1>9, <1>12, <1>13, <1>14, <1>15, <1>16, <2>1 DEF CallsInv
<1>18. WitnessInv'
  BY <1>1 DEF IInv, WitnessInv
<1> QED
  BY <1>1, <1>10, <1>17, <1>18 DEF IInv, GenerationInv, FixedInv, AfterInv

LEMMA RemoveBeforeKeeps ==
  ASSUME IInv, RemoveBefore
  PROVE  IInv'
<1>1. /\ phase = "calls" /\ phase' = "calls" /\ Fails(before, RoundInputs) # {}
      /\ UNCHANGED <<after, locals, deleted, ret, entry, rounds, level, unwound, store, bad>>
      /\ before' = SubSeq(before, 1, Min(Fails(before, RoundInputs)) - 1)
      /\ mgrs' = [d \in {1} |-> [Manager(NoFacts) EXCEPT !.visited = TRUE]]
      /\ live' = {1} /\ outputs' = entry /\ inputs' = NoFacts /\ cnt' = 0 /\ once' = TRUE
  BY DEF RemoveBefore, CallRound, witness
<1>2. before' \in Seq(Statements)
  <2>1. PICK F : F = Fails(before, RoundInputs) /\ F # {} /\ F \subseteq 1 .. Len(before)
    BY <1>1 DEF Fails
  <2>2. before \in Seq(Statements) /\ Len(before) \in Nat
    BY DEF IInv, Typed
  <2>3. Min(F) \in F
    BY <2>1, <2>2, MinIsLeast
  <2>4. PICK k \in 0 .. Len(before) : k = Min(F) - 1
    BY <2>1, <2>2, <2>3
  <2>5. SubSeq(before, 1, k) \in Seq(Statements)
    BY <2>2
  <2> QED
    BY <1>1, <2>1, <2>4, <2>5
<1>3. /\ mgrs' = [d \in {1} |-> mgrs'[1]] /\ mgrs'[1] \in ManagerRecord
      /\ mgrs'[1].visited = TRUE /\ Len(mgrs'[1].ins) = 1 /\ Len(mgrs'[1].outs) = 1
  <2>1. PICK w : w = Manager(NoFacts)
    OBVIOUS
  <2>2. w \in ManagerRecord /\ Len(w.ins) = 1 /\ Len(w.outs) = 1
    BY <2>1, SmallFacts, ManagerTypes
  <2>3. mgrs' = [d \in {1} |-> [w EXCEPT !.visited = TRUE]]
    BY <1>1, <2>1
  <2> QED
    BY <2>2, <2>3 DEF ManagerRecord
<1>4. Deep' = 1 /\ mgrs' \in [1 .. Deep' -> ManagerRecord]
  BY <1>3, OneManager DEF Deep
<1>5. after = <<>> /\ deleted = {} /\ Slots' = 1 /\ live' = 1 .. Deep'
  <2>1. 1 .. 1 = {1}
    OBVIOUS
  <2> QED
    BY <1>1, <1>4, <2>1 DEF IInv, CallsInv, Slots
<1>6. Typed'
  <2>1. live' # {} /\ 1 \in 1 .. MaxMgrs
    BY <1>1, RecursionConstantsOK DEF RecursionConstantsOK
  <2>2. {ret', outputs', inputs'} \subseteq Facts
    BY <1>1, SmallFacts DEF IInv, Typed
  <2>3. \A d \in 1 .. Deep' : Len(mgrs'[d].ins) = 1 /\ Len(mgrs'[d].outs) = 1
    BY <1>3, <1>4
  <2> HIDE DEF ManagerRecord
  <2> QED
    BY <1>1, <1>2, <1>4, <1>5, <2>1, <2>2, <2>3 DEF IInv, Typed
<1>7. CallsInv'
  BY <1>1, <1>3, <1>4, <1>5 DEF CallsInv
<1>8. WitnessInv'
  BY <1>1 DEF IInv, WitnessInv
<1> QED
  BY <1>1, <1>6, <1>7, <1>8 DEF IInv, GenerationInv, FixedInv, AfterInv

\* What the first fixed point found stays, whatever else of the managers changes.
LEMMA CallsKept ==
  ASSUME Typed, DOMAIN mgrs' = DOMAIN mgrs,
         \A d \in 1 .. Deep : mgrs'[d].in = mgrs[d].in /\ mgrs'[d].call = mgrs[d].call
  PROVE  /\ Deep' = Deep /\ Deepest' = Deepest
         /\ \A d \in 1 .. Deep : AfterCall(d)' = AfterCall(d)
<1>1. Deep' = Deep /\ Deepest' = Deepest
  BY DEF Deep, Deepest
<1>2. ASSUME NEW d \in 1 .. Deep
      PROVE  AfterCall(d)' = AfterCall(d)
  <2>1. Deepest = Deep /\ Deep \in Nat
    BY DeepFacts
  <2>2. (IF d = Deepest THEN d ELSE d + 1) \in 1 .. Deep
    BY <2>1
  <2> QED
    BY <1>1, <2>2 DEF AfterCall
<1> QED
  BY <1>1, <1>2

LEMMA EndCallsKeeps ==
  ASSUME IInv, EndCalls
  PROVE  IInv'
<1>1. /\ phase = "calls" /\ phase' = "after" /\ ~once /\ RoundInputs = mgrs[Deepest].in
      /\ UNCHANGED <<before, after, locals, deleted, entry, outputs, inputs, cnt, once, rounds,
                     level, unwound, store, bad>>
      /\ mgrs' = [d \in DOMAIN mgrs |-> [mgrs[d] EXCEPT !.facts = AfterCall(d)]]
      /\ live' = live \ {Penultimate}
      /\ ret' = mgrs[1].call
  BY DEF EndCalls, CallRound, CallsFixed, body, analysis, witness
<1>2. PICK n \in Nat : n = Deep /\ n > 1 /\ Deepest = n /\ DOMAIN mgrs = 1 .. n
  BY <1>1, DeepFacts DEF IInv, CallsInv
<1>3. /\ after = <<>> /\ deleted = {} /\ live = 1 .. n /\ mgrs[1].in = entry
      /\ \A d \in 1 .. n : Visited(d) /\ mgrs[d] \in ManagerRecord
      /\ \A d \in 1 .. n - 1 : mgrs[d + 1].visited => Within(mgrs[d].call, mgrs[d + 1].in)
      /\ \A d \in 1 .. n - 1 : mgrs[d].visited
  <2>1. \A d \in 1 .. n : mgrs[d] \in ManagerRecord
    BY <1>2, DeepFacts DEF IInv
  <2> QED
    BY <1>1, <1>2, <2>1 DEF IInv, CallsInv
<1>4. \A d \in 1 .. n :
        /\ mgrs'[d] \in ManagerRecord /\ mgrs'[d].facts = AfterCall(d)
        /\ mgrs'[d].in = mgrs[d].in /\ mgrs'[d].call = mgrs[d].call
        /\ mgrs'[d].ins = mgrs[d].ins /\ mgrs'[d].outs = mgrs[d].outs
  <2> TAKE d \in 1 .. n
  <2>1. mgrs[d] \in ManagerRecord /\ AfterCall(d) \in Facts
    BY <1>2, DeepFacts DEF IInv
  <2>2. mgrs'[d] = [mgrs[d] EXCEPT !.facts = AfterCall(d)]
    BY <1>1, <1>2
  <2> QED
    BY <2>1, <2>2 DEF ManagerRecord
<1>5. /\ Deep' = n
      /\ mgrs' \in [1 .. n -> ManagerRecord]
      /\ \A d \in 1 .. n : AfterCall(d)' = AfterCall(d)
  <2>1. DOMAIN mgrs' = DOMAIN mgrs
    BY <1>1
  <2>2. Deep' = n /\ \A d \in 1 .. n : AfterCall(d)' = AfterCall(d)
    BY <1>2, <1>4, <2>1, CallsKept DEF IInv
  <2> HIDE DEF ManagerRecord
  <2>3. mgrs' \in [1 .. n -> ManagerRecord]
    BY <1>1, <1>2, <1>4, <2>1
  <2> QED
    BY <2>2, <2>3
<1>6. live' = (1 .. n) \ {n - 1} /\ live' # {}
  <2>1. Max(1 .. n) = n
    <3>1. 1 .. n # {} /\ 1 .. n \subseteq 1 .. n /\ n \in 1 .. n
      BY <1>2
    <3>2. Max(1 .. n) \in 1 .. n /\ \A y \in 1 .. n : y <= Max(1 .. n)
      BY <3>1, MaxIsGreatest
    <3> QED
      BY <3>1, <3>2
  <2>2. PICK R : R = (1 .. n) \ {n}
    OBVIOUS
  <2>3. Max(R) = n - 1
    <3>1. R # {} /\ R \subseteq 1 .. n /\ n - 1 \in R
      BY <1>2, <2>2
    <3>2. Max(R) \in R /\ \A y \in R : y <= Max(R)
      BY <3>1, MaxIsGreatest
    <3>3. \A y \in R : y <= n - 1
      BY <2>2
    <3> QED
      BY <2>2, <3>1, <3>2, <3>3
  <2>4. Penultimate = n - 1
    BY <1>3, <2>1, <2>2, <2>3 DEF Penultimate
  <2>5. n \in (1 .. n) \ {n - 1}
    BY <1>2
  <2> QED
    BY <1>1, <1>3, <2>4, <2>5
<1>7. Typed'
  <2>1. Slots' = Slots /\ Slots = 1
    BY <1>1, <1>3 DEF Slots
  <2>2. \A d \in 1 .. n : Len(mgrs[d].ins) = 1 /\ Len(mgrs[d].outs) = 1
    BY <1>2, <1>3, <2>1 DEF IInv, Typed
  <2>3. ret' \in Facts
    <3>1. 1 \in 1 .. n
      BY <1>2
    <3> QED
      BY <1>1, <1>3, <3>1 DEF ManagerRecord
  <2> HIDE DEF ManagerRecord
  <2>4. \A d \in 1 .. n : Len(mgrs'[d].ins) = 1 /\ Len(mgrs'[d].outs) = 1
    BY <1>4, <2>2
  <2>5. /\ Deep' \in 1 .. MaxMgrs /\ mgrs' \in [1 .. Deep' -> ManagerRecord]
        /\ live' # {} /\ live' \subseteq 1 .. Deep' /\ deleted' = {}
        /\ \A d \in live' \cup deleted' : Len(mgrs'[d].ins) = Slots'
        /\ \A d \in 1 .. Deep' : Len(mgrs'[d].ins) = Len(mgrs'[d].outs)
    <3>1. n \in 1 .. MaxMgrs
      BY <1>2 DEF IInv, Typed
    <3>2. live' \subseteq 1 .. n /\ deleted' = {}
      BY <1>1, <1>3, <1>6
    <3> QED
      BY <1>5, <1>6, <2>1, <2>4, <3>1, <3>2
  <2>6. phase' \in {"before", "calls", "after", "aborted", "returns", "run", "unwind"}
    BY <1>1
  <2> QED
    BY <1>1, <2>3, <2>5, <2>6 DEF IInv, Typed
<1>8. FixedInv'
  <2>1. ASSUME NEW d \in 1 .. n
        PROVE  Visited(d)'
    BY <1>1, <1>3, <1>4 DEF Visited
  <2>2. Within(mgrs[n - 1].call, mgrs[n].in) /\ Within(mgrs[n].call, mgrs[n].in)
    BY <1>1, <1>2, RoundFacts
  <2>3. ASSUME NEW d \in 1 .. n - 1
        PROVE  Within(mgrs'[d].call, mgrs'[d + 1].in)
    <3>1. d \in 1 .. n /\ d + 1 \in 1 .. n
      OBVIOUS
    <3>2. Within(mgrs[d].call, mgrs[d + 1].in)
      <4>1. CASE d = n - 1
        BY <2>2, <4>1
      <4>2. CASE d # n - 1
        <5>1. d + 1 \in 1 .. n - 1
          BY <4>2
        <5> QED
          BY <1>3, <5>1
      <4> QED
        BY <4>1, <4>2
    <3> QED
      BY <1>4, <3>1, <3>2
  <2>4. ASSUME NEW d \in 2 .. n
        PROVE  Fails(after', mgrs'[d].call) = {}
    <3>1. d \in 1 .. n
      OBVIOUS
    <3>2. mgrs'[d].call \in Facts
      BY <1>4, <3>1 DEF ManagerRecord
    <3> QED
      BY <1>1, <1>3, <3>2, EmptyBlock
  <2>5. /\ n \in 1 .. n /\ 1 \in 1 .. n
        /\ mgrs'[1].in = entry /\ Within(mgrs'[n].call, mgrs'[n].in)
    BY <1>2, <1>3, <1>4, <2>2
  <2> QED
    BY <1>1, <1>2, <1>5, <2>1, <2>3, <2>4, <2>5 DEF FixedInv
<1>9. AfterInv'
  <2>1. ASSUME NEW d \in live'
        PROVE  mgrs'[d].facts = FactsOut(after', AfterCall(d)')
    <3>1. d \in 1 .. n
      BY <1>6
    <3>2. AfterCall(d) \in Facts
      BY <1>2, <3>1, DeepFacts DEF IInv
    <3> QED
      BY <1>1, <1>3, <1>4, <1>5, <3>1, <3>2, EmptyBlock
  <2> QED
    BY <1>1, <1>3, <1>5, <1>6, <2>1 DEF AfterInv
<1>10. WitnessInv'
  BY <1>1 DEF IInv, WitnessInv
<1> QED
  BY <1>1, <1>7, <1>8, <1>9, <1>10 DEF IInv, GenerationInv, CallsInv

-----------------------------------------------------------------------------
(* After the call *)

LEMMA FixedKept ==
  ASSUME IInv, phase \notin {"before", "calls"}, phase' \notin {"before", "calls"},
         before' = before, entry' = entry, DOMAIN mgrs' = DOMAIN mgrs,
         \A d \in 1 .. Deep : mgrs'[d].in = mgrs[d].in /\ mgrs'[d].call = mgrs[d].call,
         \A d \in 2 .. Deep : Fails(after', mgrs[d].call) = {}
  PROVE  FixedInv'
<1>1. PICK n \in Nat : n = Deep /\ n > 1 /\ Deep' = n
  BY DeepFacts, CallsKept DEF IInv, FixedInv
<1>2. /\ mgrs[1].in = entry
      /\ \A d \in 1 .. n : Visited(d)
      /\ \A d \in 1 .. n - 1 : Within(mgrs[d].call, mgrs[d + 1].in)
      /\ Within(mgrs[n].call, mgrs[n].in)
  BY <1>1 DEF IInv, FixedInv
<1>3. \A d \in 1 .. n : Visited(d)'
  BY <1>1, <1>2 DEF Visited
<1>4. ASSUME NEW d \in 1 .. n - 1
      PROVE  Within(mgrs'[d].call, mgrs'[d + 1].in)
  <2>1. d \in 1 .. n /\ d + 1 \in 1 .. n
    OBVIOUS
  <2> QED
    BY <1>1, <1>2, <2>1
<1>5. mgrs'[1].in = entry /\ Within(mgrs'[n].call, mgrs'[n].in)
  <2>1. 1 \in 1 .. n /\ n \in 1 .. n
    BY <1>1
  <2> QED
    BY <1>1, <1>2, <2>1
<1>6. \A d \in 2 .. n : Fails(after', mgrs'[d].call) = {}
  <2>1. \A d \in 2 .. n : d \in 1 .. n
    OBVIOUS
  <2> QED
    BY <1>1, <2>1
<1> QED
  BY <1>1, <1>3, <1>4, <1>5, <1>6 DEF FixedInv

\* The managers after a step that leaves their number alone.
LEMMA TypedKept ==
  ASSUME Typed, phase' \in {"after", "aborted", "returns", "run", "unwind"},
         before' = before, after' \in Seq(Statements), locals' \in Nat, entry' = entry,
         {ret', outputs', inputs'} \subseteq Facts, cnt' \in Nat, rounds' \in Nat,
         unwound' \in Nat, level' \in 0 .. MaxLevel, once' \in BOOLEAN, bad' \in BOOLEAN,
         store' \in [Ptr -> Target],
         DOMAIN mgrs' = DOMAIN mgrs, mgrs' = [d \in DOMAIN mgrs |-> mgrs'[d]],
         \A d \in 1 .. Deep : mgrs'[d] \in ManagerRecord /\ Len(mgrs'[d].ins) = Len(mgrs'[d].outs),
         live' # {}, live' \cup deleted' \subseteq 1 .. Deep,
         \A d \in live' \cup deleted' : Len(mgrs'[d].ins) = Slots'
  PROVE  Typed'
<1>1. DOMAIN mgrs = 1 .. Deep /\ Deep' = Deep
  BY DeepFacts DEF Deep
<1>2. mgrs' \in [1 .. Deep' -> ManagerRecord]
  BY <1>1
<1>3. live' \subseteq 1 .. Deep' /\ deleted' \subseteq 1 .. Deep'
  BY <1>1
<1> QED
  BY <1>1, <1>2, <1>3 DEF Typed

LEMMA Extended ==
  ASSUME NEW S, NEW q \in Seq(S), NEW k \in Nat, k <= Len(q), NEW x \in S
  PROVE  SubSeq(q, 1, k) \o <<x>> \in Seq(S) /\ Len(SubSeq(q, 1, k) \o <<x>>) = k + 1
<1>1. PICK t : t = SubSeq(q, 1, k)
  OBVIOUS
<1>2. t \in Seq(S) /\ Len(t) = k
  BY <1>1
<1>3. t \o <<x>> \in Seq(S) /\ Len(t \o <<x>>) = k + 1
  BY <1>2
<1> QED
  BY <1>1, <1>3

LEMMA GenAfterKeeps ==
  ASSUME IInv, NEW s \in Statements, GenAfter(s)
  PROVE  IInv'
<1> DEFINE k == Len(after)
           ins(m) == SubSeq(m.ins, 1, k) \o <<[facts |-> m.facts, locals |-> LocalsWith(s)]>>
           outs(m) == SubSeq(m.outs, 1, k) \o <<Out(s, m.facts)>>
           updated(m) == [m EXCEPT !.facts = Out(s, m.facts), !.ins = ins(m), !.outs = outs(m)]
<1> HIDE DEF updated
<1>1. k \in Nat /\ after \in Seq(Statements)
  BY DEF IInv, Typed
<1>2. /\ phase = "after" /\ phase' = "after"
      /\ \A d \in live : Valid(s, mgrs[d].facts)
      /\ after' = Append(after, s) /\ locals' = LocalsWith(s)
      /\ mgrs' = [d \in DOMAIN mgrs |-> IF d \in live THEN updated(mgrs[d]) ELSE mgrs[d]]
      /\ UNCHANGED <<before, live, deleted, ret, entry, outputs, inputs, cnt, once, rounds,
                     level, unwound, store, bad>>
  BY DEF GenAfter, analysis, witness, updated
<1>3. PICK n \in Nat : n = Deep /\ n > 1 /\ DOMAIN mgrs = 1 .. n
  BY <1>2, DeepFacts DEF IInv, FixedInv
<1>4. /\ live = (1 .. n) \ {n - 1} /\ deleted = {}
      /\ \A d \in live : mgrs[d].facts = FactsOut(after, AfterCall(d))
  BY <1>2, <1>3 DEF IInv, AfterInv
<1>5. /\ after' \in Seq(Statements) /\ Len(after') = k + 1 /\ Slots' = k + 1
      /\ locals' \in Nat
  <2>1. after' \in Seq(Statements) /\ Len(after') = k + 1 /\ after' # <<>>
    BY <1>1, <1>2
  <2>2. locals' \in Nat
    BY <1>2 DEF IInv, Typed, LocalsWith
  <2> QED
    BY <2>1, <2>2 DEF Slots
<1>6. ASSUME NEW d \in live
      PROVE  /\ mgrs'[d] \in ManagerRecord
             /\ mgrs'[d].facts = Out(s, mgrs[d].facts)
             /\ mgrs'[d].in = mgrs[d].in /\ mgrs'[d].call = mgrs[d].call
             /\ Len(mgrs'[d].ins) = k + 1 /\ Len(mgrs'[d].outs) = k + 1
  <2>1. PICK m : m = mgrs[d]
    OBVIOUS
  <2>2. m \in ManagerRecord /\ d \in 1 .. n /\ Len(m.ins) >= k /\ Len(m.outs) >= k
    <3>1. d \in 1 .. n /\ m \in ManagerRecord
      BY <1>3, <1>4, <2>1, DeepFacts DEF IInv
    <3>2. Len(m.ins) = Slots /\ Len(m.outs) = Slots /\ Slots >= k
      BY <1>1, <1>3, <2>1, <3>1 DEF IInv, Typed, Slots
    <3> QED
      BY <3>1, <3>2, <1>1 DEF Slots
  <2>3. /\ m.facts \in Facts /\ m.ins \in Seq(Record) /\ m.outs \in Seq(Facts)
    BY <2>2 DEF ManagerRecord
  <2>4. [facts |-> m.facts, locals |-> LocalsWith(s)] \in Record /\ Out(s, m.facts) \in Facts
    BY <1>2, <1>5, <2>3, OutTypes DEF Record
  <2>5. ins(m) \in Seq(Record) /\ Len(ins(m)) = k + 1
    BY <1>1, <2>2, <2>3, <2>4, Extended
  <2>6. outs(m) \in Seq(Facts) /\ Len(outs(m)) = k + 1
    BY <1>1, <2>2, <2>3, <2>4, Extended
  <2>7. mgrs'[d] = updated(m)
    BY <1>2, <1>3, <2>1, <2>2
  <2> HIDE DEF ins, outs
  <2> QED
    BY <2>1, <2>2, <2>4, <2>5, <2>6, <2>7 DEF ManagerRecord, updated
<1>7. ASSUME NEW d \in 1 .. n, d \notin live
      PROVE  mgrs'[d] = mgrs[d]
  BY <1>2, <1>3, <1>7
<1>8. DOMAIN mgrs' = DOMAIN mgrs /\ mgrs' = [d \in DOMAIN mgrs |-> mgrs'[d]]
  BY <1>2
<1> HIDE DEF ins, outs, k
<1>9. \A d \in 1 .. n :
        /\ mgrs'[d] \in ManagerRecord /\ Len(mgrs'[d].ins) = Len(mgrs'[d].outs)
        /\ mgrs'[d].in = mgrs[d].in /\ mgrs'[d].call = mgrs[d].call
  <2> TAKE d \in 1 .. n
  <2>1. CASE d \in live
    BY <1>6, <2>1
  <2>2. CASE d \notin live
    <3>1. mgrs[d] \in ManagerRecord /\ Len(mgrs[d].ins) = Len(mgrs[d].outs)
      BY <1>3, DeepFacts DEF IInv, Typed
    <3> QED
      BY <1>7, <2>2, <3>1
  <2> QED
    BY <2>1, <2>2
<1>10. /\ Deep' = n
       /\ \A d \in 1 .. n : AfterCall(d)' = AfterCall(d)
  BY <1>3, <1>8, <1>9, CallsKept DEF IInv
<1>11. Typed'
  <2>1. live' # {} /\ live' \cup deleted' \subseteq 1 .. Deep
    BY <1>2, <1>3, <1>4 DEF IInv, Typed
  <2>2. \A d \in live' \cup deleted' : Len(mgrs'[d].ins) = Slots'
    BY <1>2, <1>4, <1>5, <1>6
  <2>3. phase' \in {"after", "aborted", "returns", "run", "unwind"}
    BY <1>2
  <2>4. /\ {ret', outputs', inputs'} \subseteq Facts /\ cnt' \in Nat /\ rounds' \in Nat
        /\ unwound' \in Nat /\ level' \in 0 .. MaxLevel /\ once' \in BOOLEAN /\ bad' \in BOOLEAN
        /\ store' \in [Ptr -> Target] /\ before' = before /\ entry' = entry
    BY <1>2 DEF IInv, Typed
  <2>5. Typed
    BY DEF IInv
  <2> QED
    BY <1>3, <1>5, <1>8, <1>9, <2>1, <2>2, <2>3, <2>4, <2>5, TypedKept
<1>12. ASSUME NEW e \in 2 .. n
       PROVE  Fails(after', mgrs[e].call) = {}
  <2>1. PICK d \in live : AfterCall(d) = mgrs[e].call
    <3>1. CASE e = n
      <4>1. n \in live /\ n \in 1 .. n
        BY <1>3, <1>4
      <4>2. AfterCall(n) = mgrs[n].call
        BY <1>3, <4>1, DeepFacts DEF IInv
      <4> QED
        BY <3>1, <4>1, <4>2
    <3>2. CASE e # n
      <4>1. e - 1 \in live /\ e - 1 \in 1 .. n /\ e - 1 # n /\ e - 1 + 1 = e
        BY <1>3, <1>4, <3>2
      <4>2. AfterCall(e - 1) = mgrs[e].call
        BY <1>3, <4>1, DeepFacts DEF IInv
      <4> QED
        BY <4>1, <4>2
    <3> QED
      BY <3>1, <3>2
  <2>2. AfterCall(d) \in Facts
    BY <1>3, <1>4, DeepFacts DEF IInv
  <2>3. Fails(after, AfterCall(d)) = {}
    BY <1>2, <1>3, <2>1 DEF IInv, FixedInv
  <2>4. Valid(s, FactsOut(after, AfterCall(d)))
    BY <1>2, <1>4
  <2> QED
    BY <1>1, <1>2, <2>1, <2>2, <2>3, <2>4, AppendAlong
<1>13. FixedInv'
  <2>1. \A d \in 1 .. Deep : mgrs'[d].in = mgrs[d].in /\ mgrs'[d].call = mgrs[d].call
    BY <1>3, <1>9
  <2>2. \A d \in 2 .. Deep : Fails(after', mgrs[d].call) = {}
    BY <1>3, <1>12
  <2> QED
    BY <1>2, <1>8, <2>1, <2>2, FixedKept
<1>14. AfterInv'
  <2>1. ASSUME NEW d \in live
        PROVE  mgrs'[d].facts = FactsOut(after', AfterCall(d)')
    <3>1. d \in 1 .. n
      BY <1>4
    <3>2. AfterCall(d) \in Facts
      BY <1>3, <3>1, DeepFacts DEF IInv
    <3>3. FactsOut(after', AfterCall(d)) = Out(s, FactsOut(after, AfterCall(d)))
      BY <1>1, <1>2, <3>2, AppendAlong
    <3> QED
      BY <1>4, <1>6, <1>10, <3>1, <3>3
  <2> QED
    BY <1>2, <1>4, <1>10, <2>1 DEF AfterInv
<1>15. WitnessInv'
  BY <1>2 DEF IInv, WitnessInv
<1> QED
  BY <1>2, <1>11, <1>13, <1>14, <1>15 DEF IInv, GenerationInv, CallsInv

\* "after" is as it was: all that is recorded about it changes.
LEMMA RecordsRenewed ==
  ASSUME IInv, phase \in {"after", "returns"}, phase' \in {"returns", "run"},
         UNCHANGED <<before, after, locals, entry, level, unwound, store, bad>>,
         {ret', outputs', inputs'} \subseteq Facts, cnt' \in Nat, rounds' \in Nat, once' \in BOOLEAN,
         DOMAIN mgrs' = DOMAIN mgrs, mgrs' = [d \in DOMAIN mgrs |-> mgrs'[d]],
         \A d \in 1 .. Deep :
           /\ mgrs'[d] \in ManagerRecord
           /\ Len(mgrs'[d].ins) = Len(mgrs[d].ins) /\ Len(mgrs'[d].outs) = Len(mgrs[d].outs)
           /\ mgrs'[d].in = mgrs[d].in /\ mgrs'[d].call = mgrs[d].call,
         live' # {}, live' \cup deleted' \subseteq live \cup deleted
  PROVE  IInv'
<1>1. Typed'
  <2>1. Typed
    BY DEF IInv
  <2>2. \A d \in 1 .. Deep : mgrs'[d] \in ManagerRecord /\ Len(mgrs'[d].ins) = Len(mgrs'[d].outs)
    BY <2>1 DEF Typed
  <2>3. live' \cup deleted' \subseteq 1 .. Deep
    BY <2>1 DEF Typed
  <2>4. \A d \in live' \cup deleted' : Len(mgrs'[d].ins) = Slots'
    BY <2>1, <2>3 DEF Typed, Slots
  <2>5. /\ phase' \in {"after", "aborted", "returns", "run", "unwind"}
        /\ after' \in Seq(Statements) /\ locals' \in Nat /\ before' = before /\ entry' = entry
        /\ unwound' \in Nat /\ level' \in 0 .. MaxLevel /\ bad' \in BOOLEAN
        /\ store' \in [Ptr -> Target]
    BY <2>1 DEF Typed
  <2> QED
    BY <2>1, <2>2, <2>3, <2>4, <2>5, TypedKept
<1>2. FixedInv'
  <2>1. \A d \in 2 .. Deep : Fails(after', mgrs[d].call) = {}
    BY DEF IInv, FixedInv
  <2> QED
    BY <2>1, FixedKept
<1>3. WitnessInv'
  BY DEF IInv, WitnessInv
<1> QED
  BY <1>1, <1>2, <1>3 DEF IInv, GenerationInv, CallsInv, AfterInv

LEMMA AbortAfterKeeps ==
  ASSUME IInv, NEW s \in Statements, AbortAfter(s)
  PROVE  IInv'
<1>1. /\ phase = "after" /\ phase' = "aborted"
      /\ UNCHANGED <<before, after, locals, mgrs, live, deleted, ret, entry, outputs, inputs,
                     cnt, once, rounds, level, unwound, store, bad>>
  BY DEF AbortAfter, body, managers, analysis, witness
<1>2. Deep' = Deep /\ Slots' = Slots
  BY <1>1 DEF Deep, Slots
<1>3. Typed'
  BY <1>1, <1>2 DEF IInv, Typed
<1>4. FixedInv'
  <2>1. \A d \in 2 .. Deep : Fails(after', mgrs[d].call) = {}
    BY <1>1 DEF IInv, FixedInv
  <2> QED
    BY <1>1, <2>1, FixedKept
<1>5. WitnessInv'
  BY <1>1 DEF IInv, WitnessInv
<1> QED
  BY <1>1, <1>3, <1>4, <1>5 DEF IInv, GenerationInv, CallsInv, AfterInv

LEMMA EndAfterKeeps ==
  ASSUME IInv, EndAfter
  PROVE  IInv'
<1>1. /\ phase = "after" /\ phase' = "returns"
      /\ mgrs' = [d \in DOMAIN mgrs |-> IF d \in live THEN [mgrs[d] EXCEPT !.out = mgrs[d].facts]
                                                      ELSE mgrs[d]]
      /\ cnt' = 0 /\ once' = FALSE /\ rounds' = Cardinality(live)
      /\ UNCHANGED <<before, after, locals, live, deleted, ret, entry, outputs, inputs,
                     level, unwound, store, bad>>
  BY DEF EndAfter, body, witness
<1>2. \A d \in 1 .. Deep :
           /\ mgrs'[d] \in ManagerRecord
           /\ Len(mgrs'[d].ins) = Len(mgrs[d].ins) /\ Len(mgrs'[d].outs) = Len(mgrs[d].outs)
           /\ mgrs'[d].in = mgrs[d].in /\ mgrs'[d].call = mgrs[d].call
  <2> TAKE d \in 1 .. Deep
  <2>1. mgrs[d] \in ManagerRecord /\ d \in DOMAIN mgrs
    BY DeepFacts DEF IInv
  <2>2. mgrs'[d] = IF d \in live THEN [mgrs[d] EXCEPT !.out = mgrs[d].facts] ELSE mgrs[d]
    BY <1>1, <2>1
  <2> QED
    BY <2>1, <2>2 DEF ManagerRecord
<1>3. DOMAIN mgrs' = DOMAIN mgrs /\ mgrs' = [d \in DOMAIN mgrs |-> mgrs'[d]]
  BY <1>1
<1>4. /\ {ret', outputs', inputs'} \subseteq Facts /\ cnt' \in Nat /\ rounds' \in Nat
      /\ live' # {} /\ once' \in BOOLEAN
  <2>1. Cardinality(live) \in Nat
    BY LiveFacts DEF IInv
  <2> QED
    BY <1>1, <2>1 DEF IInv, Typed
<1>5. /\ phase \in {"after", "returns"} /\ phase' \in {"returns", "run"}
      /\ live' \cup deleted' \subseteq live \cup deleted
      /\ UNCHANGED <<before, after, locals, entry, level, unwound, store, bad>>
  BY <1>1
<1> QED
  BY <1>2, <1>3, <1>4, <1>5, RecordsRenewed

-----------------------------------------------------------------------------
(* The second fixed point *)

LEMMA AsideFacts ==
  ASSUME Typed
  PROVE  /\ live \ SetAside # {}
         /\ SetAside \subseteq live
         /\ Min(live) \in live
         /\ Merge(ret, mgrs[Returner(Min(live))].out) \in Facts
<1>1. Min(live) \in live
  <2>1. live \subseteq Nat /\ live # {}
    BY DeepFacts DEF Typed
  <2> QED
    BY <2>1, MinIsLeast
<1>2. Returner(Min(live)) \in 1 .. Deep
  BY <1>1, LiveFacts DEF Typed
<1>3. mgrs[Returner(Min(live))].out \in Facts
  BY <1>2, DeepFacts DEF ManagerRecord
<1>4. ret \in Facts
  BY DEF Typed
<1> QED
  BY <1>1, <1>3, <1>4, LiveFacts, MergeFacts

LEMMA Returned ==
  ASSUME Typed, PrepareReturns
  PROVE  /\ ret' \in Facts /\ live' # {} /\ live' \subseteq live
         /\ live' \cup deleted' \subseteq live \cup deleted
<1>1. ret \in Facts
  BY DEF Typed
<1>2. ret' \in Facts
  BY <1>1, AsideFacts DEF PrepareReturns
<1> QED
  BY <1>2, AsideFacts DEF PrepareReturns

LEMMA EndReturnsKeeps ==
  ASSUME IInv, EndReturns
  PROVE  IInv'
<1>1. /\ phase = "returns" /\ phase' = "run" /\ PrepareReturns
      /\ mgrs' = [d \in DOMAIN mgrs |->
                    IF d \in live' THEN [mgrs[d] EXCEPT !.ins[1].facts = Renewed(d),
                                                        !.facts = mgrs[d].out]
                                   ELSE mgrs[d]]
      /\ UNCHANGED <<before, after, locals, entry, outputs, inputs, cnt, once, rounds,
                     level, unwound, store, bad>>
  BY DEF EndReturns, ReturnRound, body, analysis, witness
<1>2. Typed
  BY DEF IInv
<1>3. /\ ret' \in Facts /\ live' # {} /\ live' \subseteq live
      /\ live' \cup deleted' \subseteq live \cup deleted
  BY <1>1, <1>2, Returned
<1>4. \A d \in 1 .. Deep :
           /\ mgrs'[d] \in ManagerRecord
           /\ Len(mgrs'[d].ins) = Len(mgrs[d].ins) /\ Len(mgrs'[d].outs) = Len(mgrs[d].outs)
           /\ mgrs'[d].in = mgrs[d].in /\ mgrs'[d].call = mgrs[d].call
  <2> TAKE d \in 1 .. Deep
  <2>1. PICK m \in ManagerRecord : m = mgrs[d] /\ d \in DOMAIN mgrs
    BY <1>2, DeepFacts
  <2>2. CASE d \in live'
    <3>1. Renewed(d) \in Facts /\ d \in live \cup deleted
      BY <1>2, <1>3, <2>2, RenewedTypes
    <3>2. /\ m.ins \in Seq(Record) /\ Len(m.ins) >= 1 /\ m.out \in Facts
      BY <1>2, <2>1, <3>1, RecordFacts DEF ManagerRecord, Typed
    <3>3. PICK q : q = [m.ins EXCEPT ![1].facts = Renewed(d)]
      OBVIOUS
    <3>4. q \in Seq(Record) /\ Len(q) = Len(m.ins)
      <4>1. PICK r : r = [m.ins[1] EXCEPT !.facts = Renewed(d)]
        OBVIOUS
      <4>2. r \in Record
        <5>1. m.ins[1] \in Record
          BY <3>2
        <5> QED
          BY <3>1, <4>1, <5>1 DEF Record
      <4>3. q = [m.ins EXCEPT ![1] = r]
        BY <3>3, <4>1
      <4> QED
        BY <3>2, <4>2, <4>3
    <3>5. mgrs'[d] = [m EXCEPT !.ins = q, !.facts = m.out]
      BY <1>1, <2>1, <2>2, <3>3
    <3> QED
      BY <2>1, <3>2, <3>4, <3>5 DEF ManagerRecord
  <2>3. CASE d \notin live'
    BY <1>1, <2>1, <2>3
  <2> QED
    BY <2>2, <2>3
<1>5. DOMAIN mgrs' = DOMAIN mgrs /\ mgrs' = [d \in DOMAIN mgrs |-> mgrs'[d]]
  BY <1>1
<1>6. /\ {ret', outputs', inputs'} \subseteq Facts /\ cnt' \in Nat /\ rounds' \in Nat
      /\ once' \in BOOLEAN
  BY <1>1, <1>2, <1>3 DEF Typed
<1>7. /\ phase \in {"after", "returns"} /\ phase' \in {"returns", "run"}
      /\ UNCHANGED <<before, after, locals, entry, level, unwound, store, bad>>
  BY <1>1
<1> QED
  BY <1>3, <1>4, <1>5, <1>6, <1>7, RecordsRenewed

LEMMA OfTwo ==
  ASSUME NEW a \in Nat, NEW b \in Nat
  PROVE  /\ Min({a, b}) = IF a <= b THEN a ELSE b
         /\ Max({a, b}) = IF a <= b THEN b ELSE a
<1>1. \E x \in {a, b} : \A y \in {a, b} : x <= y
  OBVIOUS
<1>2. \E x \in {a, b} : \A y \in {a, b} : x >= y
  OBVIOUS
<1>3. Min({a, b}) = IF a <= b THEN a ELSE b
  BY <1>1 DEF Min
<1>4. Max({a, b}) = IF a <= b THEN b ELSE a
  BY <1>2 DEF Max
<1> QED
  BY <1>3, <1>4

LEMMA VisitAfterKeeps ==
  ASSUME IInv, VisitAfter
  PROVE  IInv'
<1> DEFINE slots == 1 .. Max({1, Len(after)})
           last == Len(after) + 1
           visited(d) ==
             [mgrs[d] EXCEPT !.facts = VisitFacts(d)[last], !.out = VisitFacts(d)[last],
                             !.ins  = [i \in slots |-> [facts |-> VisitFacts(d)[i], locals |-> locals]],
                             !.outs = [i \in slots |-> VisitFacts(d)[Min({i + 1, last})]]]
<1> HIDE DEF visited
<1>1. /\ phase = "returns" /\ phase' = "returns" /\ PrepareReturns
      /\ mgrs' = [d \in DOMAIN mgrs |-> IF d \in live' THEN visited(d) ELSE mgrs[d]]
      /\ cnt' = cnt + 1 /\ once' = FALSE
      /\ UNCHANGED <<before, after, locals, entry, outputs, inputs, rounds,
                     level, unwound, store, bad>>
  BY DEF VisitAfter, ReturnRound, body, witness, visited
<1>2. Typed
  BY DEF IInv
<1>3. /\ ret' \in Facts /\ live' # {} /\ live' \subseteq live
      /\ live' \cup deleted' \subseteq live \cup deleted
  BY <1>1, <1>2, Returned
<1>4. Len(after) \in Nat /\ locals \in Nat /\ after \in Seq(Statements)
  BY <1>2 DEF Typed
<1>5. slots = 1 .. Slots /\ Slots \in Nat /\ Slots <= last /\ Slots >= 1
  <2>1. Max({1, Len(after)}) = IF 1 <= Len(after) THEN Len(after) ELSE 1
    BY <1>4, OfTwo
  <2> QED
    BY <1>4, <2>1 DEF Slots
<1> HIDE DEF slots
<1>6. ASSUME NEW d \in live'
      PROVE  /\ mgrs'[d] \in ManagerRecord
             /\ Len(mgrs'[d].ins) = Slots /\ Len(mgrs'[d].outs) = Slots
             /\ mgrs'[d].in = mgrs[d].in /\ mgrs'[d].call = mgrs[d].call
  <2>1. PICK f : f = VisitFacts(d)
    OBVIOUS
  <2>2. \A i \in 1 .. last : f[i] \in Facts
    BY <1>2, <1>3, <2>1, VisitTypes
  <2>3. PICK m \in ManagerRecord : m = mgrs[d] /\ d \in DOMAIN mgrs
    BY <1>2, <1>3, DeepFacts DEF Typed
  <2>4. PICK ins, outs :
               /\ ins = [i \in slots |-> [facts |-> f[i], locals |-> locals]]
               /\ outs = [i \in slots |-> f[Min({i + 1, last})]]
    OBVIOUS
  <2>5. ins \in Seq(Record) /\ Len(ins) = Slots
    <3>1. \A i \in 1 .. Slots : [facts |-> f[i], locals |-> locals] \in Record
      <4> TAKE i \in 1 .. Slots
      <4>1. i \in 1 .. last
        BY <1>4, <1>5
      <4> QED
        BY <1>4, <2>2, <4>1 DEF Record
    <3> HIDE DEF last
    <3> QED
      BY <1>5, <2>4, <3>1
  <2>6. outs \in Seq(Facts) /\ Len(outs) = Slots
    <3>1. \A i \in 1 .. Slots : f[Min({i + 1, last})] \in Facts
      <4> TAKE i \in 1 .. Slots
      <4>1. Min({i + 1, last}) = IF i + 1 <= last THEN i + 1 ELSE last
        <5>1. i + 1 \in Nat /\ last \in Nat
          BY <1>4
        <5> HIDE DEF last
        <5> QED
          BY <5>1, OfTwo
      <4>2. Min({i + 1, last}) \in 1 .. last
        BY <1>4, <4>1
      <4> QED
        BY <2>2, <4>2
    <3> HIDE DEF last
    <3> QED
      BY <1>5, <2>4, <3>1
  <2>7. mgrs'[d] = [m EXCEPT !.facts = f[last], !.out = f[last], !.ins = ins, !.outs = outs]
    BY <1>1, <2>1, <2>3, <2>4 DEF visited
  <2>8. f[last] \in Facts
    BY <1>4, <2>2
  <2> QED
    BY <2>3, <2>5, <2>6, <2>7, <2>8 DEF ManagerRecord
<1>7. \A d \in 1 .. Deep :
           /\ mgrs'[d] \in ManagerRecord
           /\ Len(mgrs'[d].ins) = Len(mgrs[d].ins) /\ Len(mgrs'[d].outs) = Len(mgrs[d].outs)
           /\ mgrs'[d].in = mgrs[d].in /\ mgrs'[d].call = mgrs[d].call
  <2> TAKE d \in 1 .. Deep
  <2>1. mgrs[d] \in ManagerRecord /\ d \in DOMAIN mgrs
    BY <1>2, DeepFacts
  <2>2. CASE d \in live'
    <3>1. Len(mgrs[d].ins) = Slots /\ Len(mgrs[d].outs) = Slots
      BY <1>2, <1>3, <2>2 DEF Typed
    <3> QED
      BY <1>6, <2>2, <3>1
  <2>3. CASE d \notin live'
    BY <1>1, <2>1, <2>3
  <2> QED
    BY <2>2, <2>3
<1>8. DOMAIN mgrs' = DOMAIN mgrs /\ mgrs' = [d \in DOMAIN mgrs |-> mgrs'[d]]
  BY <1>1
<1>9. /\ {ret', outputs', inputs'} \subseteq Facts /\ cnt' \in Nat /\ rounds' \in Nat
      /\ once' \in BOOLEAN
  <2>1. cnt \in Nat /\ rounds \in Nat /\ outputs \in Facts /\ inputs \in Facts
    BY <1>2 DEF Typed
  <2>2. cnt' = cnt + 1 /\ once' = FALSE /\ UNCHANGED <<rounds, outputs, inputs>>
    BY <1>1
  <2>3. cnt' \in Nat
    BY <2>1, <2>2
  <2> QED
    BY <1>3, <2>1, <2>2, <2>3
<1>10. /\ phase \in {"after", "returns"} /\ phase' \in {"returns", "run"}
       /\ UNCHANGED <<before, after, locals, entry, level, unwound, store, bad>>
  BY <1>1
<1> QED
  BY <1>3, <1>7, <1>8, <1>9, <1>10, RecordsRenewed

\* What may be recorded for a statement past the end are facts.
LEMMA PastEndTypes ==
  ASSUME Typed, FailsAfter # {}, NEW d \in live \cup deleted
  PROVE  PastEnd(d) \subseteq Facts
<1>1. Len(after) \in Nat /\ Len(after) >= 1
  <2>1. Len(after) \in Nat
    BY DEF Typed
  <2>2. FailsAfter \subseteq 1 .. Len(after)
    BY DEF FailsAfter
  <2>3. PICK i \in 1 .. Len(after) : TRUE
    BY <2>2
  <2> QED
    BY <2>1, <2>3
<1>2. mgrs[d].ins[Len(after)].facts \in Facts
  BY <1>1, RecordFacts
<1>3. d \in live \ SetAside => VisitFacts(d)[Len(after)] \in Facts
  BY <1>1, VisitTypes
<1> QED
  BY <1>2, <1>3, SmallFacts DEF PastEnd

LEMMA RemoveAfterKeeps ==
  ASSUME IInv, RemoveAfter
  PROVE  IInv'
<1> DEFINE n == Min(FailsAfter) - 1
           all == live \cup deleted
           empty == [facts |-> NoFacts, locals |-> 0]
           ins(g) == IF n = 0 THEN <<[facts |-> g, locals |-> 0]>> ELSE [i \in 1 .. n |-> empty]
           outs == IF n = 0 THEN <<NoFacts>> ELSE [i \in 1 .. n |-> NoFacts]
           cleared(m, f, g) == [m EXCEPT !.facts = f, !.out = NoFacts, !.ins = ins(g), !.outs = outs]
<1> HIDE DEF cleared
<1>1. /\ phase = "returns" /\ phase' = "returns" /\ FailsAfter # {}
      /\ after' = SubSeq(after, 1, n)
      /\ live' = all /\ deleted' = deleted \cup SetAside
      /\ rounds' = Cardinality(all) /\ cnt' = 0 /\ once' = TRUE
      /\ UNCHANGED <<before, locals, entry, outputs, inputs, level, unwound, store, bad>>
  BY DEF RemoveAfter, ReturnRound, witness
<1>2. PICK g : /\ \A d \in all : g[d] \in PastEnd(d)
               /\ mgrs' = [d \in DOMAIN mgrs |->
                             IF d \in all THEN cleared(mgrs[d], AfterCall(d), g[d]) ELSE mgrs[d]]
  BY DEF RemoveAfter, cleared
<1>3. ret' = IF Min(live) \in SetAside THEN ret ELSE Merge(ret, mgrs[Returner(Min(live))].out)
  BY DEF RemoveAfter
<1>4. Typed
  BY DEF IInv
<1>5. /\ n \in Nat /\ n <= Len(after) /\ Len(after) \in Nat /\ after \in Seq(Statements)
  <2>1. Len(after) \in Nat /\ after \in Seq(Statements)
    BY <1>4 DEF Typed
  <2>2. PICK F : F = FailsAfter /\ F # {} /\ F \subseteq 1 .. Len(after)
    BY <1>1 DEF FailsAfter
  <2>3. F \subseteq Nat
    BY <2>1, <2>2
  <2>4. PICK x \in F : x = Min(F)
    BY <2>2, <2>3, MinIsLeast
  <2>5. x \in 1 .. Len(after) /\ n = x - 1
    BY <2>2, <2>4
  <2> HIDE DEF n
  <2> QED
    BY <2>1, <2>5
<1> HIDE DEF n
<1>6. PICK k \in Nat : k = IF n = 0 THEN 1 ELSE n
  BY <1>5
<1>7. /\ after' \in Seq(Statements) /\ Len(after') = n /\ Slots' = k
      /\ \A i \in 1 .. n : after'[i] = after[i]
  <2>1. PICK t : t = SubSeq(after, 1, n)
    OBVIOUS
  <2>2. t \in Seq(Statements) /\ Len(t) = n /\ \A i \in 1 .. n : t[i] = after[i]
    BY <1>5, <2>1
  <2>3. (t = <<>>) <=> n = 0
    BY <1>5, <2>2
  <2>4. after' = t
    BY <1>1, <2>1
  <2> QED
    BY <1>6, <2>2, <2>3, <2>4 DEF Slots
<1>8. outs \in Seq(Facts) /\ Len(outs) = k
  <2>1. CASE n = 0
    BY <1>6, <2>1, SmallFacts
  <2>2. CASE n # 0
    BY <1>5, <1>6, <2>2, SmallFacts
  <2> QED
    BY <2>1, <2>2
<1>9. ASSUME NEW h \in Facts
      PROVE  ins(h) \in Seq(Record) /\ Len(ins(h)) = k
  <2>1. empty \in Record /\ [facts |-> h, locals |-> 0] \in Record
    BY SmallFacts DEF Record
  <2> HIDE DEF empty
  <2>2. CASE n = 0
    BY <1>6, <2>1, <2>2
  <2>3. CASE n # 0
    BY <1>5, <1>6, <2>1, <2>3
  <2> QED
    BY <2>2, <2>3
<1> HIDE DEF ins, outs
<1>10. ASSUME NEW d \in all
       PROVE  /\ mgrs'[d] \in ManagerRecord
              /\ Len(mgrs'[d].ins) = k /\ Len(mgrs'[d].outs) = k
              /\ mgrs'[d].in = mgrs[d].in /\ mgrs'[d].call = mgrs[d].call
  <2>1. PICK m \in ManagerRecord : m = mgrs[d] /\ d \in DOMAIN mgrs /\ d \in 1 .. Deep
    BY <1>4, DeepFacts DEF Typed
  <2>2. PICK f \in Facts, h \in Facts : f = AfterCall(d) /\ h = g[d]
    <3>1. g[d] \in Facts
      BY <1>1, <1>2, <1>4, PastEndTypes
    <3>2. AfterCall(d) \in Facts
      BY <1>4, <2>1, DeepFacts
    <3> QED
      BY <3>1, <3>2
  <2>3. mgrs'[d] = cleared(m, f, h)
    BY <1>2, <2>1, <2>2
  <2>4. ins(h) \in Seq(Record) /\ Len(ins(h)) = k
    BY <1>9
  <2> HIDE DEF all
  <2> QED
    BY <1>8, <2>1, <2>3, <2>4, SmallFacts DEF cleared, ManagerRecord
<1>11. \A d \in 1 .. Deep :
         /\ mgrs'[d] \in ManagerRecord /\ Len(mgrs'[d].ins) = Len(mgrs'[d].outs)
         /\ mgrs'[d].in = mgrs[d].in /\ mgrs'[d].call = mgrs[d].call
  <2> TAKE d \in 1 .. Deep
  <2>1. CASE d \in all
    BY <1>10, <2>1
  <2>2. CASE d \notin all
    <3>1. mgrs[d] \in ManagerRecord /\ d \in DOMAIN mgrs /\ Len(mgrs[d].ins) = Len(mgrs[d].outs)
      BY <1>4, DeepFacts DEF Typed
    <3>2. mgrs'[d] = mgrs[d]
      BY <1>2, <2>2, <3>1
    <3> QED
      BY <3>1, <3>2
  <2> QED
    BY <2>1, <2>2
<1>12. DOMAIN mgrs' = DOMAIN mgrs /\ mgrs' = [d \in DOMAIN mgrs |-> mgrs'[d]]
  BY <1>2
<1>13. Typed'
  <2>1. ret' \in Facts /\ outputs' \in Facts /\ inputs' \in Facts
    BY <1>1, <1>3, <1>4, AsideFacts DEF Typed
  <2>2. rounds' \in Nat
    <3>1. IsFiniteSet(all)
      <4>1. all \subseteq 1 .. Deep /\ Deep \in Nat
        BY <1>4, DeepFacts DEF Typed
      <4>2. IsFiniteSet(1 .. Deep)
        BY <4>1, FS_Interval
      <4> HIDE DEF all
      <4> QED
        BY <4>1, <4>2, FS_Subset
    <3> HIDE DEF all
    <3> QED
      BY <1>1, <3>1, FS_CardinalityType
  <2>3. live' # {} /\ live' \cup deleted' \subseteq 1 .. Deep /\ live' \cup deleted' \subseteq all
    BY <1>1, <1>4, LiveFacts DEF Typed
  <2>4. \A d \in live' \cup deleted' : Len(mgrs'[d].ins) = Slots'
    BY <1>7, <1>10, <2>3
  <2>5. /\ locals' \in Nat /\ before' = before /\ entry' = entry
        /\ unwound' \in Nat /\ level' \in 0 .. MaxLevel /\ bad' \in BOOLEAN
        /\ store' \in [Ptr -> Target]
    BY <1>1, <1>4 DEF Typed
  <2>6. phase' \in {"after", "aborted", "returns", "run", "unwind"} /\ cnt' \in Nat /\ once' \in BOOLEAN
    BY <1>1
  <2>7. {ret', outputs', inputs'} \subseteq Facts
    BY <2>1
  <2> QED
    BY <1>4, <1>7, <1>11, <1>12, <2>2, <2>3, <2>4, <2>5, <2>6, <2>7, TypedKept
<1>14. FixedInv'
  <2>1. ASSUME NEW d \in 2 .. Deep
        PROVE  Fails(after', mgrs[d].call) = {}
    <3>1. Deep \in Nat /\ d \in 1 .. Deep
      BY <1>4, DeepFacts
    <3>2. mgrs[d].call \in Facts
      BY <1>4, <3>1, DeepFacts DEF ManagerRecord
    <3>3. Fails(after, mgrs[d].call) = {}
      BY <1>1 DEF IInv, FixedInv
    <3>4. Fails(after', mgrs[d].call) = Fails(after, mgrs[d].call) \cap 1 .. Len(after')
      BY <1>5, <1>7, <3>2, PrefixAlong
    <3> QED
      BY <3>3, <3>4
  <2>2. /\ phase \notin {"before", "calls"} /\ phase' \notin {"before", "calls"}
        /\ before' = before /\ entry' = entry
    BY <1>1
  <2> QED
    BY <1>11, <1>12, <2>1, <2>2, FixedKept
<1>15. WitnessInv'
  BY <1>1 DEF IInv, WitnessInv
<1> QED
  BY <1>1, <1>13, <1>14, <1>15 DEF IInv, GenerationInv, CallsInv, AfterInv

-----------------------------------------------------------------------------
(* The generated function runs *)

LEMMA ProgramKept ==
  ASSUME IInv, phase \in {"run", "unwind"}, phase' \in {"run", "unwind"},
         UNCHANGED <<body, managers, analysis>>,
         level' \in 0 .. MaxLevel, unwound' \in Nat, bad' \in BOOLEAN, store' \in [Ptr -> Target],
         WitnessInv'
  PROVE  IInv'
<1>1. UNCHANGED <<before, after, locals, mgrs, live, deleted, ret, entry, outputs, inputs,
                  cnt, once, rounds>>
  BY DEF body, managers, analysis
<1>2. Deep' = Deep /\ Slots' = Slots
  BY <1>1 DEF Deep, Slots
<1>3. Typed'
  <2>1. phase' \in {"before", "calls", "after", "aborted", "returns", "run", "unwind"}
    OBVIOUS
  <2> QED
    BY <1>1, <1>2, <2>1 DEF IInv, Typed
<1>4. FixedInv'
  <2>1. \A d \in 1 .. Deep : Visited(d)' <=> Visited(d)
    BY <1>1 DEF Visited
  <2> QED
    BY <1>1, <1>2, <2>1 DEF IInv, FixedInv
<1> QED
  BY <1>3, <1>4 DEF IInv, GenerationInv, CallsInv, AfterInv

LEMMA CallKeeps ==
  ASSUME IInv, Call
  PROVE  IInv'
<1>1. /\ phase = "run" /\ phase' = "run" /\ level < MaxLevel /\ level' = level + 1
      /\ Run(before) /\ UNCHANGED <<body, managers, analysis>> /\ unwound' = unwound
  BY DEF Call
<1>2. PICK n \in Nat :
             /\ n = Deep /\ n > 1 /\ mgrs' = mgrs /\ Deep' = n
             /\ mgrs[1].in = entry
             /\ \A d \in 1 .. n : Visited(d) /\ mgrs[d].in \in Facts /\ mgrs[d].call \in Facts
             /\ \A d \in 1 .. n - 1 : Within(mgrs[d].call, mgrs[d + 1].in)
             /\ Within(mgrs[n].call, mgrs[n].in)
  <2>1. Deep \in Nat /\ \A d \in 1 .. Deep : mgrs[d] \in ManagerRecord
    BY DeepFacts DEF IInv
  <2>2. mgrs' = mgrs /\ Deep' = Deep
    BY <1>1 DEF managers, Deep
  <2> QED
    BY <1>1, <2>1, <2>2 DEF IInv, FixedInv, ManagerRecord
<1>3. /\ level \in Nat /\ level' \in 0 .. MaxLevel /\ before \in Seq(Statements)
      /\ store \in [Ptr -> Target] /\ bad \in BOOLEAN
  <2>1. level \in 0 .. MaxLevel /\ MaxLevel \in Nat
    BY RecursionConstantsOK DEF IInv, Typed, RecursionConstantsOK
  <2>2. level \in Nat /\ level' \in 0 .. MaxLevel
    BY <1>1, <2>1
  <2> QED
    BY <2>2 DEF IInv, Typed
<1>4. PICK e \in 1 .. n : e = Min({level + 1, n}) /\ Describes(mgrs[e].in, store)
  <2>1. Min({level + 1, n}) = IF level + 1 <= n THEN level + 1 ELSE n
    BY <1>3, OfTwo
  <2>2. CASE level = 0
    <3>1. 1 \in 1 .. n /\ Min({level + 1, n}) = 1
      BY <1>2, <2>1, <2>2
    <3>2. Describes(entry, store)
      BY <1>1, <2>2 DEF IInv, WitnessInv
    <3> QED
      BY <1>2, <3>1, <3>2
  <2>3. CASE level # 0
    <3>1. level > 0 /\ Min({level, n}) = IF level <= n THEN level ELSE n
      BY <1>3, <2>3, OfTwo
    <3>2. PICK d \in 1 .. n : d = Min({level, n}) /\ Describes(mgrs[d].call, store)
      <4>1. Min({level, n}) \in 1 .. n
        BY <1>2, <1>3, <3>1
      <4>2. Describes(mgrs[Min({level, n})].call, store)
        BY <1>1, <1>2, <3>1 DEF IInv, WitnessInv
      <4> QED
        BY <4>1, <4>2
    <3>3. PICK e \in 1 .. n : e = Min({level + 1, n}) /\ Within(mgrs[d].call, mgrs[e].in)
      <4>1. CASE level < n
        <5>1. d = level /\ d \in 1 .. n - 1 /\ Min({level + 1, n}) = d + 1 /\ d + 1 \in 1 .. n
          BY <1>3, <2>1, <3>1, <3>2, <4>1
        <5> QED
          BY <1>2, <5>1
      <4>2. CASE ~(level < n)
        <5>1. d = n /\ Min({level + 1, n}) = n /\ n \in 1 .. n
          BY <1>2, <1>3, <2>1, <3>1, <3>2, <4>2
        <5> QED
          BY <1>2, <5>1
      <4> QED
        BY <4>1, <4>2
    <3>4. Describes(mgrs[e].in, store)
      BY <3>2, <3>3 DEF Describes, Within
    <3> QED
      BY <3>3, <3>4
  <2> QED
    BY <2>2, <2>3
<1>5. /\ store' \in [Ptr -> Target] /\ bad' = bad /\ bad' \in BOOLEAN
      /\ Describes(mgrs[e].call, store')
  <2>1. PICK f \in Facts : f = mgrs[e].in /\ Fails(before, f) = {} /\ mgrs[e].call = FactsOut(before, f)
    BY <1>2 DEF Visited
  <2>2. /\ store' \in [Ptr -> Target] /\ bad' \in BOOLEAN
        /\ Describes(f, store) => Describes(FactsOut(before, f), store')
        /\ Describes(f, store) /\ Fails(before, f) = {} => bad' = bad
    BY <1>1, <1>3, RunSound
  <2> QED
    BY <1>4, <2>1, <2>2
<1>6. WitnessInv'
  <2>1. level' > 0 /\ Describes(mgrs'[Min({level', Deep'})].call, store')
    BY <1>1, <1>2, <1>3, <1>4, <1>5
  <2>2. ~bad' /\ unwound' = 0 /\ level' # 0
    BY <1>1, <1>3, <1>5, <2>1 DEF IInv, WitnessInv
  <2> QED
    BY <1>1, <2>1, <2>2 DEF WitnessInv
<1>7. unwound' \in Nat /\ phase \in {"run", "unwind"} /\ phase' \in {"run", "unwind"}
  BY <1>1 DEF IInv, Typed
<1> QED
  BY <1>1, <1>3, <1>5, <1>6, <1>7, ProgramKept

LEMMA BaseKeeps ==
  ASSUME IInv, Base
  PROVE  IInv'
<1>1. /\ phase = "run" /\ phase' = "unwind" /\ level > 0 /\ level' = level - 1
      /\ UNCHANGED <<body, managers, analysis>>
      /\ unwound' = unwound /\ store' = store /\ bad' = bad
  BY DEF Base
<1>2. /\ level \in 0 .. MaxLevel /\ MaxLevel \in Nat /\ unwound' \in Nat
      /\ bad' \in BOOLEAN /\ store' \in [Ptr -> Target]
  BY <1>1, RecursionConstantsOK DEF IInv, Typed, RecursionConstantsOK
<1>3. level' \in 0 .. MaxLevel /\ level' + 1 = level
  BY <1>1, <1>2
<1>4. mgrs' = mgrs /\ Deep' = Deep
  BY <1>1 DEF managers, Deep
<1>5. WitnessInv'
  <2>1. Describes(mgrs[Min({level, Deep})].call, store)
    BY <1>1 DEF IInv, WitnessInv
  <2>2. Describes(mgrs'[Min({level' + 1, Deep'})].call, store')
    BY <1>1, <1>3, <1>4, <2>1
  <2>3. unwound = 0 /\ (unwound < 2 => ~bad)
    BY <1>1 DEF IInv, WitnessInv
  <2>4. unwound' = 0 /\ ~bad
    BY <1>1, <2>3
  <2> QED
    BY <1>1, <2>2, <2>4 DEF WitnessInv
<1> QED
  BY <1>1, <1>2, <1>3, <1>5, ProgramKept

\* "after" runs first from the facts at the call one level deeper, for which
\* some manager accepted it.
LEMMA UnwindKeeps ==
  ASSUME IInv, Unwind
  PROVE  IInv'
<1>1. /\ phase = "unwind" /\ phase' = "unwind" /\ level > 0 /\ level' = level - 1
      /\ Run(after) /\ UNCHANGED <<body, managers, analysis>> /\ unwound' = unwound + 1
  BY DEF Unwind
<1>2. /\ level \in 0 .. MaxLevel /\ MaxLevel \in Nat /\ unwound \in Nat
      /\ bad \in BOOLEAN /\ store \in [Ptr -> Target] /\ after \in Seq(Statements)
  BY RecursionConstantsOK DEF IInv, Typed, RecursionConstantsOK
<1>3. level' \in 0 .. MaxLevel /\ level \in Nat /\ unwound' \in Nat
  BY <1>1, <1>2
<1>4. /\ store' \in [Ptr -> Target] /\ bad' \in BOOLEAN
      /\ unwound = 0 => bad' = bad
  <2>1. PICK n \in Nat : n = Deep /\ n > 1
    BY <1>1, DeepFacts DEF IInv, FixedInv
  <2>2. PICK e \in 2 .. n : e = Min({level + 1, n})
    <3>1. Min({level + 1, n}) = IF level + 1 <= n THEN level + 1 ELSE n
      BY <1>3, OfTwo
    <3> QED
      BY <1>1, <1>3, <2>1, <3>1
  <2>3. PICK f \in Facts : f = mgrs[e].call /\ Fails(after, f) = {}
    <3>1. e \in 1 .. n
      OBVIOUS
    <3>2. mgrs[e].call \in Facts
      BY <2>1, <3>1, DeepFacts DEF IInv, ManagerRecord
    <3>3. Fails(after, mgrs[e].call) = {}
      BY <1>1, <2>1 DEF IInv, FixedInv
    <3> QED
      BY <3>2, <3>3
  <2>4. unwound = 0 => Describes(f, store)
    BY <1>1, <2>1, <2>2, <2>3 DEF IInv, WitnessInv
  <2>5. /\ store' \in [Ptr -> Target] /\ bad' \in BOOLEAN
        /\ Describes(f, store) /\ Fails(after, f) = {} => bad' = bad
    BY <1>1, <1>2, RunSound
  <2> QED
    BY <2>3, <2>4, <2>5
<1>5. WitnessInv'
  <2>1. unwound' # 0 /\ (unwound' < 2 => unwound = 0)
    BY <1>1, <1>2
  <2>2. unwound = 0 => ~bad
    BY DEF IInv, WitnessInv
  <2>3. unwound' < 2 => ~bad'
    BY <1>4, <2>1, <2>2
  <2> QED
    BY <1>1, <2>1, <2>3 DEF WitnessInv
<1>6. phase \in {"run", "unwind"} /\ phase' \in {"run", "unwind"}
  BY <1>1
<1> QED
  BY <1>1, <1>3, <1>4, <1>5, <1>6, ProgramKept

-----------------------------------------------------------------------------
(* The theorems *)

LEMMA StepKeeps ==
  ASSUME IInv, [Next]_vars
  PROVE  IInv'
<1>1. CASE \E s \in Statements : GenBefore(s) \/ GenAfter(s) \/ AbortAfter(s)
  BY <1>1, GenBeforeKeeps, GenAfterKeeps, AbortAfterKeeps
<1>2. CASE GenCall
  BY <1>2, GenCallKeeps
<1>3. CASE VisitBefore
  BY <1>3, VisitBeforeKeeps
<1>4. CASE RemoveBefore
  BY <1>4, RemoveBeforeKeeps
<1>5. CASE EndCalls
  BY <1>5, EndCallsKeeps
<1>6. CASE EndAfter
  BY <1>6, EndAfterKeeps
<1>7. CASE VisitAfter
  BY <1>7, VisitAfterKeeps
<1>8. CASE RemoveAfter
  BY <1>8, RemoveAfterKeeps
<1>9. CASE EndReturns
  BY <1>9, EndReturnsKeeps
<1>10. CASE Call
  BY <1>10, CallKeeps
<1>11. CASE Base
  BY <1>11, BaseKeeps
<1>12. CASE Unwind
  BY <1>12, UnwindKeeps
<1>13. CASE UNCHANGED vars
  <2>1. UNCHANGED <<phase, before, after, locals, mgrs, live, deleted, ret, entry, outputs,
                    inputs, cnt, once, rounds, level, unwound, store, bad>>
    BY <1>13 DEF vars, body, managers, analysis, witness
  <2>2. Deep' = Deep /\ Slots' = Slots
    BY <2>1 DEF Deep, Slots
  <2>3. Deepest' = Deepest /\ \A d : AfterCall(d)' = AfterCall(d) /\ (Visited(d)' <=> Visited(d))
    BY <2>1 DEF Deepest, AfterCall, Visited
  <2>4. Typed'
    BY <2>1, <2>2 DEF IInv, Typed
  <2>5. GenerationInv' /\ WitnessInv'
    BY <2>1, <2>2 DEF IInv, GenerationInv, WitnessInv
  <2>6. CallsInv'
    BY <2>1, <2>2, <2>3 DEF IInv, CallsInv
  <2>7. FixedInv'
    BY <2>1, <2>2, <2>3 DEF IInv, FixedInv
  <2>8. AfterInv'
    BY <2>1, <2>2, <2>3 DEF IInv, AfterInv
  <2> QED
    BY <2>4, <2>5, <2>6, <2>7, <2>8 DEF IInv
<1> QED
  BY <1>1, <1>2, <1>3, <1>4, <1>5, <1>6, <1>7, <1>8, <1>9, <1>10, <1>11, <1>12, <1>13 DEF Next

LEMMA Invariant == Spec => []IInv
<1>1. Init => IInv
  BY Start
<1>2. IInv /\ [Next]_vars => IInv'
  BY StepKeeps
<1> QED
  BY <1>1, <1>2, PTL DEF Spec

\* The types, and the limit on managers (prepare_for_next_iteration).
THEOREM RecursionTypes == Spec => []TypeOK
<1>1. IInv => TypeOK
  <2> SUFFICES ASSUME IInv
               PROVE  TypeOK
    OBVIOUS
  <2>1. Typed
    BY DEF IInv
  <2>2. DOMAIN mgrs = 1 .. Deep /\ Deep \in 1 .. MaxMgrs
    BY <2>1, DeepFacts DEF Typed
  <2>3. DOMAIN mgrs \in {1 .. n : n \in 1 .. MaxMgrs}
    BY <2>2
  <2>4. \A d \in DOMAIN mgrs :
          /\ {mgrs[d].in, mgrs[d].call, mgrs[d].facts, mgrs[d].out} \subseteq Facts
          /\ Len(mgrs[d].ins) = Len(mgrs[d].outs)
    <3> TAKE d \in DOMAIN mgrs
    <3>1. d \in 1 .. Deep /\ mgrs[d] \in ManagerRecord
      BY <2>1, <2>2, DeepFacts
    <3>2. Len(mgrs[d].ins) = Len(mgrs[d].outs)
      BY <2>1, <3>1 DEF Typed
    <3> QED
      BY <3>1, <3>2 DEF ManagerRecord
  <2>5. entry \in Facts
    BY <2>1, SmallFacts DEF Typed
  <2> QED
    BY <2>1, <2>2, <2>3, <2>4, <2>5 DEF Typed, TypeOK
<1> QED
  BY <1>1, Invariant, PTL

\* At the recursive call, at any depth, the pointers are described by the facts
\* of the manager of that depth, or of the last one when the limit on managers
\* was reached before (immediate_rec_call_find_fixed_point).
THEOREM DescentDescribed == Spec => []DescentSound
<1>1. IInv => DescentSound
  <2> SUFFICES ASSUME IInv, phase = "run", level > 0
               PROVE  Describes(mgrs[Min({level, Deepest})].call, store)
    BY DEF DescentSound
  <2>1. Deepest = Deep
    BY DeepFacts DEF IInv
  <2> QED
    BY <2>1 DEF IInv, WitnessInv
<1> QED
  BY <1>1, Invariant, PTL

\* Nothing dereferences null before the second return of a call, although
\* update_map_fact_mgrs drops a manager after the first fixed point.
THEOREM FirstReturnChecked == Spec => []FirstReturnSafe
<1>1. IInv => FirstReturnSafe
  <2> SUFFICES ASSUME IInv, bad
               PROVE  unwound > 1
    BY DEF FirstReturnSafe
  <2>1. unwound \in Nat /\ ~(unwound < 2)
    BY DEF IInv, Typed, WitnessInv
  <2> QED
    BY <2>1
<1> QED
  BY <1>1, Invariant, PTL

\* A statement that is valid with the merged facts is valid with the facts of
\* each manager: a merged fact without null comes from facts without null, and
\* none of them is empty.  It is about facts on globals and statements without
\* branches; the assertion of Statement::update_maps depends on more.
THEOREM ManagersAccept == Spec => []RegenerationValid
<1>1. IInv => RegenerationValid
  <2> SUFFICES ASSUME IInv, phase = "after",
                      NEW s \in Statements, Valid(s, Merged), NEW d \in live
               PROVE  Valid(s, mgrs[d].facts)
    BY DEF RegenerationValid
  <2>1. d \in 1 .. Deep /\ mgrs[d].facts = FactsOut(after, AfterCall(d))
    BY DEF IInv, Typed, AfterInv
  <2>2. AfterCall(d) \in NonEmptyFacts /\ AfterCall(d) \in Facts
    <3>1. /\ AfterCall(d) = mgrs[IF d = Deep THEN d ELSE d + 1].call
          /\ AfterCall(d) \in Facts /\ Deep \in Nat
      BY <2>1, DeepFacts DEF IInv
    <3>2. PICK e \in 1 .. Deep : e = IF d = Deep THEN d ELSE d + 1
      BY <2>1, <3>1
    <3>3. mgrs[e].in \in NonEmptyFacts /\ mgrs[e].call = FactsOut(before, mgrs[e].in)
      BY <3>2 DEF IInv, FixedInv, Visited
    <3>4. mgrs[e].in \in Facts /\ before \in Seq(Statements)
      BY <3>3, SmallFacts DEF IInv, Typed
    <3> QED
      BY <3>1, <3>2, <3>3, <3>4, FactsOutTypes
  <2>3. mgrs[d].facts \in NonEmptyFacts
    <3>1. after \in Seq(Statements)
      BY DEF IInv, Typed
    <3> QED
      BY <2>1, <2>2, <3>1, FactsOutTypes
  <2>4. \A p \in Ptr : mgrs[d].facts[p] \subseteq Merged[p]
    BY DEF Merged, MergeAll
  <2>5. s.kind = "use" => s.ptr \in Ptr
    BY StatementFacts
  <2> QED
    BY <2>3, <2>4, <2>5 DEF Valid, Safe, NonEmptyFacts
<1> QED
  BY <1>1, Invariant, PTL
=============================================================================
