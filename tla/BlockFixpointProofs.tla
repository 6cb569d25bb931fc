------------------------ MODULE BlockFixpointProofs -------------------------
EXTENDS BlockFixpointInvariant, FiniteSetTheorems, TLAPS

----------------------------------------------------------------------------
(* Induction over an initial segment of the numbers, of a property given by *)
(* a set.  The library's induction takes an operator; here, if a number     *)
(* were missing, adding one would map the numbers below it one to one to    *)
(* those but zero.                                                          *)

LEMMA UpTo ==
  ASSUME NEW n \in Nat, NEW A, 0 \in A,
         \A i \in 1 .. n : i - 1 \in A => i \in A
  PROVE  0 .. n \subseteq A
<1> SUFFICES ASSUME NEW k \in 0 .. n, k \notin A
             PROVE  FALSE
  OBVIOUS
<1> DEFINE Q == {i \in 0 .. n : 0 .. i \subseteq A}
           f == [i \in Q |-> i + 1]
<1>1. 0 \in Q
  OBVIOUS
<1>2. ASSUME NEW i \in Q
      PROVE  i + 1 \in Q \ {0}
  OBVIOUS
<1>3. IsFiniteSet(Q)
  <2>1. IsFiniteSet(0 .. n)
    BY FS_Interval
  <2> QED
    BY <2>1, FS_Subset
<1>4. IsFiniteSet(Q \ {0}) /\ Cardinality(Q \ {0}) < Cardinality(Q)
  <2>1. IsFiniteSet(Q \ {0}) /\ Cardinality(Q \ {0}) = Cardinality(Q) - 1
    BY <1>1, <1>3, FS_RemoveElement
  <2>2. Cardinality(Q) \in Nat
    BY <1>3, FS_CardinalityType
  <2> HIDE DEF Q
  <2> QED
    BY <2>1, <2>2
<1>5. f \in [Q -> Q \ {0}]
  BY <1>2
<1>6. \E x, y \in Q : x # y /\ f[x] = f[y]
  <2> HIDE DEF Q, f
  <2> QED
    BY <1>3, <1>4, <1>5, FS_PigeonHole
<1> QED
  BY <1>6

----------------------------------------------------------------------------
LEMMA WithoutDef ==
  ASSUME NEW t \in Seq(Nodes), NEW X
  PROVE  \E w : /\ w[0] = <<>>
                /\ \A i \in 1 .. Len(t) : w[i] = IF t[i] \in X THEN w[i - 1] ELSE Append(w[i - 1], t[i])
                /\ Without(t, X) = w[Len(t)]
<1> DEFINE N == Len(t)
           Begun == <<>>
           Step(i, v) == IF t[i] \in X THEN v ELSE Append(v, t[i])
           E(h) == [i \in 0 .. N |-> IF i = 0 THEN Begun ELSE Step(i, h[i - 1])]
           Steps(h, n) == h[0] = Begun /\ \A i \in 1 .. n : h[i] = Step(i, h[i - 1])
           A == {n \in 0 .. N : \E h : Steps(h, n)}
<1>1. N \in Nat
  OBVIOUS
<1>2. Without(t, X) = (CHOOSE h : h = E(h))[N]
  BY DEF Without
<1> HIDE DEF Begun, Step, N
<1>3. \E h : h = E(h)
  <2>1. 0 \in A
    <3>1. PICK h : h = [i \in {0} |-> Begun]
      OBVIOUS
    <3>2. h[0] = Begun /\ 1 .. 0 = {}
      BY <3>1
    <3> QED
      BY <1>1, <3>2
  <2>2. ASSUME NEW n \in 1 .. N, n - 1 \in A
        PROVE  n \in A
    <3>1. PICK h : Steps(h, n - 1)
      BY <2>2
    <3>2. PICK g : g = [i \in 0 .. n |-> IF i = n THEN Step(n, h[n - 1]) ELSE h[i]]
      OBVIOUS
    <3>3. g[0] = Begun /\ g[n] = Step(n, g[n - 1])
      BY <1>1, <3>1, <3>2
    <3>4. ASSUME NEW i \in 1 .. n, i # n
          PROVE  g[i] = Step(i, g[i - 1])
      BY <3>1, <3>2, <3>4
    <3>5. Steps(g, n)
      BY <3>3, <3>4
    <3> QED
      BY <1>1, <3>5
  <2>3. N \in A
    <3> HIDE DEF A
    <3>1. \A i \in 1 .. N : i - 1 \in A => i \in A
      BY <2>2
    <3>2. 0 .. N \subseteq A
      BY <1>1, <2>1, <3>1, UpTo
    <3> QED
      BY <1>1, <3>2
  <2>4. PICK h : Steps(h, N)
    BY <2>3
  <2>5. PICK g : g = [i \in 0 .. N |-> h[i]]
    OBVIOUS
  <2>6. ASSUME NEW i \in 0 .. N
        PROVE  g[i] = IF i = 0 THEN Begun ELSE Step(i, g[i - 1])
    BY <1>1, <2>4, <2>5
  <2>7. g = E(g)
    BY <2>5, <2>6
  <2> QED
    BY <2>7
<1>4. PICK w : w = (CHOOSE h : h = E(h)) /\ w = E(w)
  <2> HIDE DEF E
  <2> QED
    BY <1>3
<1>5. Without(t, X) = w[N]
  BY <1>2, <1>4
<1>6. Steps(w, N)
  <2>1. w = E(w)
    BY <1>4
  <2>2. ASSUME NEW i \in 0 .. N
        PROVE  w[i] = IF i = 0 THEN Begun ELSE Step(i, w[i - 1])
    BY <2>1
  <2> QED
    BY <1>1, <2>2
<1>7. w[0] = <<>>
  BY <1>6 DEF Begun
<1>8. \A i \in 1 .. Len(t) : w[i] = IF t[i] \in X THEN w[i - 1] ELSE Append(w[i - 1], t[i])
  BY <1>6 DEF Step, N
<1>9. Without(t, X) = w[Len(t)]
  BY <1>5 DEF N
<1> HIDE DEF E, Steps, A
<1> QED
  BY <1>7, <1>8, <1>9

LEMMA RemoveFromDef ==
  ASSUME NEW P, P.seq \in [Blocks -> Seq(Nodes)], NEW b \in Blocks, NEW k
  PROVE  \E w : /\ w[0] = P
                /\ \A i \in 1 .. Len(P.seq[b]) : w[i] = RemoveNth(w[i - 1], b, k)
                /\ RemoveFrom(P, b, k) = w[Len(P.seq[b])]
<1> DEFINE N == Len(P.seq[b])
           Begun == P
           Step(i, v) == RemoveNth(v, b, k)
           E(h) == [i \in 0 .. N |-> IF i = 0 THEN Begun ELSE Step(i, h[i - 1])]
           Steps(h, n) == h[0] = Begun /\ \A i \in 1 .. n : h[i] = Step(i, h[i - 1])
           A == {n \in 0 .. N : \E h : Steps(h, n)}
<1>1. N \in Nat
  OBVIOUS
<1>2. RemoveFrom(P, b, k) = (CHOOSE h : h = E(h))[N]
  BY DEF RemoveFrom
<1> HIDE DEF Begun, Step, N
<1>3. \E h : h = E(h)
  <2>1. 0 \in A
    <3>1. PICK h : h = [i \in {0} |-> Begun]
      OBVIOUS
    <3>2. h[0] = Begun /\ 1 .. 0 = {}
      BY <3>1
    <3> QED
      BY <1>1, <3>2
  <2>2. ASSUME NEW n \in 1 .. N, n - 1 \in A
        PROVE  n \in A
    <3>1. PICK h : Steps(h, n - 1)
      BY <2>2
    <3>2. PICK g : g = [i \in 0 .. n |-> IF i = n THEN Step(n, h[n - 1]) ELSE h[i]]
      OBVIOUS
    <3>3. g[0] = Begun /\ g[n] = Step(n, g[n - 1])
      BY <1>1, <3>1, <3>2
    <3>4. ASSUME NEW i \in 1 .. n, i # n
          PROVE  g[i] = Step(i, g[i - 1])
      BY <3>1, <3>2
    <3>5. Steps(g, n)
      BY <3>3, <3>4
    <3> QED
      BY <1>1, <3>5
  <2>3. N \in A
    <3> HIDE DEF A
    <3>1. \A i \in 1 .. N : i - 1 \in A => i \in A
      BY <2>2
    <3>2. 0 .. N \subseteq A
      BY <1>1, <2>1, <3>1, UpTo
    <3> QED
      BY <1>1, <3>2
  <2>4. PICK h : Steps(h, N)
    BY <2>3
  <2>5. PICK g : g = [i \in 0 .. N |-> h[i]]
    OBVIOUS
  <2>6. ASSUME NEW i \in 0 .. N
        PROVE  g[i] = IF i = 0 THEN Begun ELSE Step(i, g[i - 1])
    BY <1>1, <2>4, <2>5
  <2>7. g = E(g)
    BY <2>5, <2>6
  <2> QED
    BY <2>7
<1>4. PICK w : w = (CHOOSE h : h = E(h)) /\ w = E(w)
  <2> HIDE DEF E
  <2> QED
    BY <1>3
<1>5. RemoveFrom(P, b, k) = w[N]
  BY <1>2, <1>4
<1>6. Steps(w, N)
  <2>1. w = E(w)
    BY <1>4
  <2>2. ASSUME NEW i \in 0 .. N
        PROVE  w[i] = IF i = 0 THEN Begun ELSE Step(i, w[i - 1])
    BY <2>1
  <2> QED
    BY <1>1, <2>2
<1>7. w[0] = P
  BY <1>6 DEF Begun
<1>8. \A i \in 1 .. Len(P.seq[b]) : w[i] = RemoveNth(w[i - 1], b, k)
  BY <1>6 DEF Step, N
<1>9. RemoveFrom(P, b, k) = w[Len(P.seq[b])]
  BY <1>5 DEF N
<1> HIDE DEF E, Steps, A
<1> QED
  BY <1>7, <1>8, <1>9

LEMMA WalkBodyDef ==
  ASSUME NEW P, P.seq \in [Blocks -> Seq(Nodes)], NEW m, NEW f
  PROVE  \E w : /\ w[0] = Walk0(m, f)
                /\ \A i \in 1 .. Len(P.seq[Body]) : w[i] = VisitInBody(P, P.seq[Body][i], w[i - 1])
                /\ WalkBody(m, P, f) = w[Len(P.seq[Body])]
<1> DEFINE N == Len(P.seq[Body])
           Begun == Walk0(m, f)
           Step(i, v) == VisitInBody(P, P.seq[Body][i], v)
           E(h) == [i \in 0 .. N |-> IF i = 0 THEN Begun ELSE Step(i, h[i - 1])]
           Steps(h, n) == h[0] = Begun /\ \A i \in 1 .. n : h[i] = Step(i, h[i - 1])
           A == {n \in 0 .. N : \E h : Steps(h, n)}
<1>1. N \in Nat
  BY DEF Blocks
<1>2. WalkBody(m, P, f) = (CHOOSE h : h = E(h))[N]
  BY DEF WalkBody
<1> HIDE DEF Begun, Step, N
<1>3. \E h : h = E(h)
  <2>1. 0 \in A
    <3>1. PICK h : h = [i \in {0} |-> Begun]
      OBVIOUS
    <3>2. h[0] = Begun /\ 1 .. 0 = {}
      BY <3>1
    <3> QED
      BY <1>1, <3>2
  <2>2. ASSUME NEW n \in 1 .. N, n - 1 \in A
        PROVE  n \in A
    <3>1. PICK h : Steps(h, n - 1)
      BY <2>2
    <3>2. PICK g : g = [i \in 0 .. n |-> IF i = n THEN Step(n, h[n - 1]) ELSE h[i]]
      OBVIOUS
    <3>3. g[0] = Begun /\ g[n] = Step(n, g[n - 1])
      BY <1>1, <3>1, <3>2
    <3>4. ASSUME NEW i \in 1 .. n, i # n
          PROVE  g[i] = Step(i, g[i - 1])
      BY <3>1, <3>2
    <3>5. Steps(g, n)
      BY <3>3, <3>4
    <3> QED
      BY <1>1, <3>5
  <2>3. N \in A
    <3> HIDE DEF A
    <3>1. \A i \in 1 .. N : i - 1 \in A => i \in A
      BY <2>2
    <3>2. 0 .. N \subseteq A
      BY <1>1, <2>1, <3>1, UpTo
    <3> QED
      BY <1>1, <3>2
  <2>4. PICK h : Steps(h, N)
    BY <2>3
  <2>5. PICK g : g = [i \in 0 .. N |-> h[i]]
    OBVIOUS
  <2>6. ASSUME NEW i \in 0 .. N
        PROVE  g[i] = IF i = 0 THEN Begun ELSE Step(i, g[i - 1])
    BY <1>1, <2>4, <2>5
  <2>7. g = E(g)
    BY <2>5, <2>6
  <2> QED
    BY <2>7
<1>4. PICK w : w = (CHOOSE h : h = E(h)) /\ w = E(w)
  <2> HIDE DEF E
  <2> QED
    BY <1>3
<1>5. WalkBody(m, P, f) = w[N]
  BY <1>2, <1>4
<1>6. Steps(w, N)
  <2>1. w = E(w)
    BY <1>4
  <2>2. ASSUME NEW i \in 0 .. N
        PROVE  w[i] = IF i = 0 THEN Begun ELSE Step(i, w[i - 1])
    BY <2>1
  <2> QED
    BY <1>1, <2>2
<1>7. w[0] = Walk0(m, f)
  BY <1>6 DEF Begun
<1>8. \A i \in 1 .. Len(P.seq[Body]) : w[i] = VisitInBody(P, P.seq[Body][i], w[i - 1])
  BY <1>6 DEF Step, N
<1>9. WalkBody(m, P, f) = w[Len(P.seq[Body])]
  BY <1>5 DEF N
<1> HIDE DEF E, Steps, A
<1> QED
  BY <1>7, <1>8, <1>9

LEMMA WalkTopDef ==
  ASSUME NEW P, P.seq \in [Blocks -> Seq(Nodes)], NEW m, NEW f
  PROVE  \E w : /\ w[0] = Walk0(m, f)
                /\ \A i \in 1 .. Len(P.seq[Top]) : w[i] = VisitInTop(P, P.seq[Top][i], w[i - 1])
                /\ WalkTop(m, P, f) = w[Len(P.seq[Top])]
<1> DEFINE N == Len(P.seq[Top])
           Begun == Walk0(m, f)
           Step(i, v) == VisitInTop(P, P.seq[Top][i], v)
           E(h) == [i \in 0 .. N |-> IF i = 0 THEN Begun ELSE Step(i, h[i - 1])]
           Steps(h, n) == h[0] = Begun /\ \A i \in 1 .. n : h[i] = Step(i, h[i - 1])
           A == {n \in 0 .. N : \E h : Steps(h, n)}
<1>1. N \in Nat
  BY DEF Blocks
<1>2. WalkTop(m, P, f) = (CHOOSE h : h = E(h))[N]
  BY DEF WalkTop
<1> HIDE DEF Begun, Step, N
<1>3. \E h : h = E(h)
  <2>1. 0 \in A
    <3>1. PICK h : h = [i \in {0} |-> Begun]
      OBVIOUS
    <3>2. h[0] = Begun /\ 1 .. 0 = {}
      BY <3>1
    <3> QED
      BY <1>1, <3>2
  <2>2. ASSUME NEW n \in 1 .. N, n - 1 \in A
        PROVE  n \in A
    <3>1. PICK h : Steps(h, n - 1)
      BY <2>2
    <3>2. PICK g : g = [i \in 0 .. n |-> IF i = n THEN Step(n, h[n - 1]) ELSE h[i]]
      OBVIOUS
    <3>3. g[0] = Begun /\ g[n] = Step(n, g[n - 1])
      BY <1>1, <3>1, <3>2
    <3>4. ASSUME NEW i \in 1 .. n, i # n
          PROVE  g[i] = Step(i, g[i - 1])
      BY <3>1, <3>2
    <3>5. Steps(g, n)
      BY <3>3, <3>4
    <3> QED
      BY <1>1, <3>5
  <2>3. N \in A
    <3> HIDE DEF A
    <3>1. \A i \in 1 .. N : i - 1 \in A => i \in A
      BY <2>2
    <3>2. 0 .. N \subseteq A
      BY <1>1, <2>1, <3>1, UpTo
    <3> QED
      BY <1>1, <3>2
  <2>4. PICK h : Steps(h, N)
    BY <2>3
  <2>5. PICK g : g = [i \in 0 .. N |-> h[i]]
    OBVIOUS
  <2>6. ASSUME NEW i \in 0 .. N
        PROVE  g[i] = IF i = 0 THEN Begun ELSE Step(i, g[i - 1])
    BY <1>1, <2>4, <2>5
  <2>7. g = E(g)
    BY <2>5, <2>6
  <2> QED
    BY <2>7
<1>4. PICK w : w = (CHOOSE h : h = E(h)) /\ w = E(w)
  <2> HIDE DEF E
  <2> QED
    BY <1>3
<1>5. WalkTop(m, P, f) = w[N]
  BY <1>2, <1>4
<1>6. Steps(w, N)
  <2>1. w = E(w)
    BY <1>4
  <2>2. ASSUME NEW i \in 0 .. N
        PROVE  w[i] = IF i = 0 THEN Begun ELSE Step(i, w[i - 1])
    BY <2>1
  <2> QED
    BY <1>1, <2>2
<1>7. w[0] = Walk0(m, f)
  BY <1>6 DEF Begun
<1>8. \A i \in 1 .. Len(P.seq[Top]) : w[i] = VisitInTop(P, P.seq[Top][i], w[i - 1])
  BY <1>6 DEF Step, N
<1>9. WalkTop(m, P, f) = w[Len(P.seq[Top])]
  BY <1>5 DEF N
<1> HIDE DEF E, Steps, A
<1> QED
  BY <1>7, <1>8, <1>9

LEMMA SearchBodyDef ==
  ASSUME NEW m, NEW P, NEW f, NEW once
  PROVE  \E w : /\ w[0] = Start(m, P, Body, f, once)
                /\ \A i \in 1 .. MaxRounds + 1 : w[i] = BodyRound(P, w[i - 1])
                /\ FixedPointBody(m, P, f, once) = Result(w[MaxRounds + 1])
<1> DEFINE N == MaxRounds + 1
           Begun == Start(m, P, Body, f, once)
           Step(i, v) == BodyRound(P, v)
           E(h) == [i \in 0 .. N |-> IF i = 0 THEN Begun ELSE Step(i, h[i - 1])]
           Steps(h, n) == h[0] = Begun /\ \A i \in 1 .. n : h[i] = Step(i, h[i - 1])
           A == {n \in 0 .. N : \E h : Steps(h, n)}
<1>1. N \in Nat
  BY FixpointConstantsOK
<1>2. FixedPointBody(m, P, f, once) = Result((CHOOSE h : h = E(h))[N])
  BY DEF FixedPointBody
<1> HIDE DEF Begun, Step, N
<1>3. \E h : h = E(h)
  <2>1. 0 \in A
    <3>1. PICK h : h = [i \in {0} |-> Begun]
      OBVIOUS
    <3>2. h[0] = Begun /\ 1 .. 0 = {}
      BY <3>1
    <3> QED
      BY <1>1, <3>2
  <2>2. ASSUME NEW n \in 1 .. N, n - 1 \in A
        PROVE  n \in A
    <3>1. PICK h : Steps(h, n - 1)
      BY <2>2
    <3>2. PICK g : g = [i \in 0 .. n |-> IF i = n THEN Step(n, h[n - 1]) ELSE h[i]]
      OBVIOUS
    <3>3. g[0] = Begun /\ g[n] = Step(n, g[n - 1])
      BY <1>1, <3>1, <3>2
    <3>4. ASSUME NEW i \in 1 .. n, i # n
          PROVE  g[i] = Step(i, g[i - 1])
      BY <3>1, <3>2
    <3>5. Steps(g, n)
      BY <3>3, <3>4
    <3> QED
      BY <1>1, <3>5
  <2>3. N \in A
    <3> HIDE DEF A
    <3>1. \A i \in 1 .. N : i - 1 \in A => i \in A
      BY <2>2
    <3>2. 0 .. N \subseteq A
      BY <1>1, <2>1, <3>1, UpTo
    <3> QED
      BY <1>1, <3>2
  <2>4. PICK h : Steps(h, N)
    BY <2>3
  <2>5. PICK g : g = [i \in 0 .. N |-> h[i]]
    OBVIOUS
  <2>6. ASSUME NEW i \in 0 .. N
        PROVE  g[i] = IF i = 0 THEN Begun ELSE Step(i, g[i - 1])
    BY <1>1, <2>4, <2>5
  <2>7. g = E(g)
    BY <2>5, <2>6
  <2> QED
    BY <2>7
<1>4. PICK w : w = (CHOOSE h : h = E(h)) /\ w = E(w)
  <2> HIDE DEF E
  <2> QED
    BY <1>3
<1>5. FixedPointBody(m, P, f, once) = Result(w[N])
  BY <1>2, <1>4
<1>6. Steps(w, N)
  <2>1. w = E(w)
    BY <1>4
  <2>2. ASSUME NEW i \in 0 .. N
        PROVE  w[i] = IF i = 0 THEN Begun ELSE Step(i, w[i - 1])
    BY <2>1
  <2> QED
    BY <1>1, <2>2
<1>7. w[0] = Start(m, P, Body, f, once)
  BY <1>6 DEF Begun
<1>8. \A i \in 1 .. MaxRounds + 1 : w[i] = BodyRound(P, w[i - 1])
  BY <1>6 DEF Step, N
<1>9. FixedPointBody(m, P, f, once) = Result(w[MaxRounds + 1])
  BY <1>5 DEF N
<1> HIDE DEF E, Steps, A
<1> QED
  BY <1>7, <1>8, <1>9

LEMMA SearchTopDef ==
  ASSUME NEW m, NEW P, NEW f, NEW once
  PROVE  \E w : /\ w[0] = Start(m, P, Top, f, once)
                /\ \A i \in 1 .. MaxRounds + 1 : w[i] = TopRound(P, w[i - 1])
                /\ FixedPointTop(m, P, f, once) = Result(w[MaxRounds + 1])
<1> DEFINE N == MaxRounds + 1
           Begun == Start(m, P, Top, f, once)
           Step(i, v) == TopRound(P, v)
           E(h) == [i \in 0 .. N |-> IF i = 0 THEN Begun ELSE Step(i, h[i - 1])]
           Steps(h, n) == h[0] = Begun /\ \A i \in 1 .. n : h[i] = Step(i, h[i - 1])
           A == {n \in 0 .. N : \E h : Steps(h, n)}
<1>1. N \in Nat
  BY FixpointConstantsOK
<1>2. FixedPointTop(m, P, f, once) = Result((CHOOSE h : h = E(h))[N])
  BY DEF FixedPointTop
<1> HIDE DEF Begun, Step, N
<1>3. \E h : h = E(h)
  <2>1. 0 \in A
    <3>1. PICK h : h = [i \in {0} |-> Begun]
      OBVIOUS
    <3>2. h[0] = Begun /\ 1 .. 0 = {}
      BY <3>1
    <3> QED
      BY <1>1, <3>2
  <2>2. ASSUME NEW n \in 1 .. N, n - 1 \in A
        PROVE  n \in A
    <3>1. PICK h : Steps(h, n - 1)
      BY <2>2
    <3>2. PICK g : g = [i \in 0 .. n |-> IF i = n THEN Step(n, h[n - 1]) ELSE h[i]]
      OBVIOUS
    <3>3. g[0] = Begun /\ g[n] = Step(n, g[n - 1])
      BY <1>1, <3>1, <3>2
    <3>4. ASSUME NEW i \in 1 .. n, i # n
          PROVE  g[i] = Step(i, g[i - 1])
      BY <3>1, <3>2
    <3>5. Steps(g, n)
      BY <3>3, <3>4
    <3> QED
      BY <1>1, <3>5
  <2>3. N \in A
    <3> HIDE DEF A
    <3>1. \A i \in 1 .. N : i - 1 \in A => i \in A
      BY <2>2
    <3>2. 0 .. N \subseteq A
      BY <1>1, <2>1, <3>1, UpTo
    <3> QED
      BY <1>1, <3>2
  <2>4. PICK h : Steps(h, N)
    BY <2>3
  <2>5. PICK g : g = [i \in 0 .. N |-> h[i]]
    OBVIOUS
  <2>6. ASSUME NEW i \in 0 .. N
        PROVE  g[i] = IF i = 0 THEN Begun ELSE Step(i, g[i - 1])
    BY <1>1, <2>4, <2>5
  <2>7. g = E(g)
    BY <2>5, <2>6
  <2> QED
    BY <2>7
<1>4. PICK w : w = (CHOOSE h : h = E(h)) /\ w = E(w)
  <2> HIDE DEF E
  <2> QED
    BY <1>3
<1>5. FixedPointTop(m, P, f, once) = Result(w[N])
  BY <1>2, <1>4
<1>6. Steps(w, N)
  <2>1. w = E(w)
    BY <1>4
  <2>2. ASSUME NEW i \in 0 .. N
        PROVE  w[i] = IF i = 0 THEN Begun ELSE Step(i, w[i - 1])
    BY <2>1
  <2> QED
    BY <1>1, <2>2
<1>7. w[0] = Start(m, P, Top, f, once)
  BY <1>6 DEF Begun
<1>8. \A i \in 1 .. MaxRounds + 1 : w[i] = TopRound(P, w[i - 1])
  BY <1>6 DEF Step, N
<1>9. FixedPointTop(m, P, f, once) = Result(w[MaxRounds + 1])
  BY <1>5 DEF N
<1> HIDE DEF E, Steps, A
<1> QED
  BY <1>7, <1>8, <1>9

LEMMA SettleDef ==
  ASSUME NEW P, P.seq \in [Blocks -> Seq(Nodes)], NEW b \in Blocks, NEW m, NEW in, NEW once
  PROVE  \E w : /\ w[0] = [P |-> P, r |-> FixedPoint(m, P, b, in, once),
                             rounds |-> FixedPoint(m, P, b, in, once).rounds]
                /\ \A i \in 1 .. Len(P.seq[b]) : w[i] = Retry(b, in, w[i - 1])
                /\ Settle(m, P, b, in, once) = w[Len(P.seq[b])]
<1> DEFINE N == Len(P.seq[b])
           Begun == [P |-> P, r |-> FixedPoint(m, P, b, in, once),
                             rounds |-> FixedPoint(m, P, b, in, once).rounds]
           Step(i, v) == Retry(b, in, v)
           E(h) == [i \in 0 .. N |-> IF i = 0 THEN Begun ELSE Step(i, h[i - 1])]
           Steps(h, n) == h[0] = Begun /\ \A i \in 1 .. n : h[i] = Step(i, h[i - 1])
           A == {n \in 0 .. N : \E h : Steps(h, n)}
<1>1. N \in Nat
  OBVIOUS
<1>2. Settle(m, P, b, in, once) = (CHOOSE h : h = E(h))[N]
  BY DEF Settle
<1> HIDE DEF Begun, Step, N
<1>3. \E h : h = E(h)
  <2>1. 0 \in A
    <3>1. PICK h : h = [i \in {0} |-> Begun]
      OBVIOUS
    <3>2. h[0] = Begun /\ 1 .. 0 = {}
      BY <3>1
    <3> QED
      BY <1>1, <3>2
  <2>2. ASSUME NEW n \in 1 .. N, n - 1 \in A
        PROVE  n \in A
    <3>1. PICK h : Steps(h, n - 1)
      BY <2>2
    <3>2. PICK g : g = [i \in 0 .. n |-> IF i = n THEN Step(n, h[n - 1]) ELSE h[i]]
      OBVIOUS
    <3>3. g[0] = Begun /\ g[n] = Step(n, g[n - 1])
      BY <1>1, <3>1, <3>2
    <3>4. ASSUME NEW i \in 1 .. n, i # n
          PROVE  g[i] = Step(i, g[i - 1])
      BY <3>1, <3>2
    <3>5. Steps(g, n)
      BY <3>3, <3>4
    <3> QED
      BY <1>1, <3>5
  <2>3. N \in A
    <3> HIDE DEF A
    <3>1. \A i \in 1 .. N : i - 1 \in A => i \in A
      BY <2>2
    <3>2. 0 .. N \subseteq A
      BY <1>1, <2>1, <3>1, UpTo
    <3> QED
      BY <1>1, <3>2
  <2>4. PICK h : Steps(h, N)
    BY <2>3
  <2>5. PICK g : g = [i \in 0 .. N |-> h[i]]
    OBVIOUS
  <2>6. ASSUME NEW i \in 0 .. N
        PROVE  g[i] = IF i = 0 THEN Begun ELSE Step(i, g[i - 1])
    BY <1>1, <2>4, <2>5
  <2>7. g = E(g)
    BY <2>5, <2>6
  <2> QED
    BY <2>7
<1>4. PICK w : w = (CHOOSE h : h = E(h)) /\ w = E(w)
  <2> HIDE DEF E
  <2> QED
    BY <1>3
<1>5. Settle(m, P, b, in, once) = w[N]
  BY <1>2, <1>4
<1>6. Steps(w, N)
  <2>1. w = E(w)
    BY <1>4
  <2>2. ASSUME NEW i \in 0 .. N
        PROVE  w[i] = IF i = 0 THEN Begun ELSE Step(i, w[i - 1])
    BY <2>1
  <2> QED
    BY <1>1, <2>2
<1>7. w[0] = [P |-> P, r |-> FixedPoint(m, P, b, in, once),
                             rounds |-> FixedPoint(m, P, b, in, once).rounds]
  BY <1>6 DEF Begun
<1>8. \A i \in 1 .. Len(P.seq[b]) : w[i] = Retry(b, in, w[i - 1])
  BY <1>6 DEF Step, N
<1>9. Settle(m, P, b, in, once) = w[Len(P.seq[b])]
  BY <1>5 DEF N
<1> HIDE DEF E, Steps, A
<1> QED
  BY <1>7, <1>8, <1>9

----------------------------------------------------------------------------
(* The program *)

LEMMA Small ==
  /\ Top \in Blocks /\ Body \in Blocks /\ Top # Body /\ Top # For /\ Body # For
  /\ Top \in Nodes /\ Body \in Nodes /\ For \in Nodes
  /\ Blocks = {Top, Body} /\ For \in Nat /\ Nodes \subseteq Nat /\ End \notin Nodes
  /\ Top < For /\ Body < For
BY FixpointConstantsOK DEF Top, Body, For, Blocks, Nodes, End

LEMMA InRange ==
  ASSUME NEW S, NEW t \in Seq(S)
  PROVE  /\ Range(t) = {t[i] : i \in 1 .. Len(t)} /\ Len(t) \in Nat /\ Range(t) \subseteq S
         /\ \A i \in 1 .. Len(t) : t[i] \in S /\ t[i] \in Range(t)
         /\ \A v \in Range(t) : \E i \in 1 .. Len(t) : t[i] = v
         /\ t = <<>> <=> Len(t) = 0
         /\ t # <<>> => Last(t) = t[Len(t)] /\ Len(t) \in 1 .. Len(t) /\ Last(t) \in Range(t)
BY DEF Range, Last

----------------------------------------------------------------------------
(* Deletion *)

\* What Without leaves is what is not in X, in the same order.
LEMMA WithoutFacts ==
  ASSUME NEW t \in Seq(Nodes), NEW X, NEW u, u = Without(t, X)
  PROVE  /\ u \in Seq(Nodes) /\ Len(u) <= Len(t)
         /\ \A i \in 1 .. Len(t) : t[i] \in X => Len(u) < Len(t)
         /\ \A i \in 1 .. Len(t) : t[i] \notin X => t[i] \in Range(u)
         /\ \A k \in 1 .. Len(u) : u[k] \notin X /\ u[k] \in Range(t)
         /\ \A k, l \in 1 .. Len(u) :
              k < l => \E i, j \in 1 .. Len(t) : i < j /\ u[k] = t[i] /\ u[l] = t[j]
<1> DEFINE Good(v, n) ==
             /\ v \in Seq(Nodes) /\ Len(v) <= n
             /\ \A i \in 1 .. n : t[i] \in X => Len(v) < n
             /\ \A i \in 1 .. n : t[i] \notin X => \E k \in 1 .. Len(v) : v[k] = t[i]
             /\ \A k \in 1 .. Len(v) : v[k] \notin X /\ \E i \in 1 .. n : v[k] = t[i]
             /\ \A k, l \in 1 .. Len(v) :
                  k < l => \E i, j \in 1 .. n : i < j /\ v[k] = t[i] /\ v[l] = t[j]
<1>1. PICK w : /\ w[0] = <<>>
               /\ \A i \in 1 .. Len(t) :
                    w[i] = IF t[i] \in X THEN w[i - 1] ELSE Append(w[i - 1], t[i])
               /\ u = w[Len(t)]
  BY WithoutDef
<1> DEFINE A == {n \in 0 .. Len(t) : Good(w[n], n)}
<1>2. Len(t) \in Nat /\ \A i \in 1 .. Len(t) : t[i] \in Nodes
  OBVIOUS
<1>3. 0 \in A
  <2>1. PICK v : v = <<>>
    OBVIOUS
  <2>2. v \in Seq(Nodes) /\ Len(v) = 0
    BY <2>1
  <2>3. Good(v, 0)
    BY <2>2
  <2>4. Good(w[0], 0)
    <3> HIDE DEF Good
    <3> QED
      BY <1>1, <2>1, <2>3
  <2> QED
    BY <1>2, <2>4
<1>4. ASSUME NEW n \in 1 .. Len(t), n - 1 \in A
      PROVE  n \in A
  <2>1. Good(w[n - 1], n - 1)
    BY <1>4
  <2>2. CASE t[n] \in X
    <3>1. w[n] = w[n - 1]
      BY <1>1, <2>2
    <3>2. ASSUME NEW v, Good(v, n - 1)
          PROVE  Good(v, n)
      <4>1. \A i \in 1 .. n : i \in 1 .. n - 1 \/ i = n
        BY <1>2
      <4>2. \A i \in 1 .. n - 1 : i \in 1 .. n
        BY <1>2
      <4>3. v \in Seq(Nodes) /\ Len(v) <= n - 1 /\ Len(v) \in Nat
        BY <3>2
      <4>4. \A i \in 1 .. n : t[i] \notin X => \E k \in 1 .. Len(v) : v[k] = t[i]
        BY <2>2, <3>2, <4>1
      <4>5. \A k \in 1 .. Len(v) : v[k] \notin X /\ \E i \in 1 .. n : v[k] = t[i]
        BY <3>2, <4>2
      <4>6. ASSUME NEW k \in 1 .. Len(v), NEW l \in 1 .. Len(v), k < l
            PROVE  \E i, j \in 1 .. n : i < j /\ v[k] = t[i] /\ v[l] = t[j]
        <5>1. PICK i \in 1 .. n - 1, j \in 1 .. n - 1 : i < j /\ v[k] = t[i] /\ v[l] = t[j]
          BY <3>2, <4>6
        <5> QED
          BY <4>2, <5>1
      <4>7. Len(v) <= n /\ Len(v) < n
        BY <1>2, <4>3
      <4> QED
        BY <4>3, <4>4, <4>5, <4>6, <4>7
    <3>3. Good(w[n], n)
      <4> HIDE DEF Good
      <4> QED
        BY <2>1, <3>1, <3>2
    <3>4. n \in 0 .. Len(t)
      BY <1>2
    <3> QED
      <4> HIDE DEF Good
      <4> QED
        BY <3>3, <3>4
  <2>3. CASE t[n] \notin X
    <3>1. w[n] = Append(w[n - 1], t[n])
      BY <1>1, <2>3
    <3>2. ASSUME NEW v, Good(v, n - 1), NEW z, z = Append(v, t[n])
          PROVE  Good(z, n)
      <4>1. /\ v \in Seq(Nodes) /\ z \in Seq(Nodes) /\ Len(z) = Len(v) + 1 /\ Len(v) \in Nat
            /\ \A k \in 1 .. Len(v) : z[k] = v[k] /\ k \in 1 .. Len(z)
            /\ z[Len(z)] = t[n] /\ Len(z) \in 1 .. Len(z)
            /\ \A k \in 1 .. Len(z) : k \in 1 .. Len(v) \/ k = Len(z)
        BY <1>2, <3>2
      <4>2. /\ \A i \in 1 .. n : i \in 1 .. n - 1 \/ i = n
            /\ \A i \in 1 .. n - 1 : i \in 1 .. n /\ i < n
            /\ n \in 1 .. n
        BY <1>2
      <4>3. Len(z) <= n /\ \A i \in 1 .. n : t[i] \in X => Len(z) < n
        BY <2>3, <3>2, <4>1, <4>2
      <4>4. \A i \in 1 .. n : t[i] \notin X => \E k \in 1 .. Len(z) : z[k] = t[i]
        <5>1. ASSUME NEW i \in 1 .. n - 1, t[i] \notin X
              PROVE  \E k \in 1 .. Len(z) : z[k] = t[i]
          BY <3>2, <4>1, <5>1
        <5> QED
          BY <4>1, <4>2, <5>1
      <4>5. \A k \in 1 .. Len(z) : z[k] \notin X /\ \E i \in 1 .. n : z[k] = t[i]
        <5>1. ASSUME NEW k \in 1 .. Len(v)
              PROVE  z[k] \notin X /\ \E i \in 1 .. n : z[k] = t[i]
          BY <3>2, <4>1, <4>2
        <5> QED
          BY <2>3, <4>1, <4>2, <5>1
      <4>6. ASSUME NEW k \in 1 .. Len(z), NEW l \in 1 .. Len(z), k < l
            PROVE  \E i, j \in 1 .. n : i < j /\ z[k] = t[i] /\ z[l] = t[j]
        <5>1. k \in 1 .. Len(v)
          BY <4>1, <4>6
        <5>2. CASE l \in 1 .. Len(v)
          <6>1. PICK i \in 1 .. n - 1, j \in 1 .. n - 1 : i < j /\ v[k] = t[i] /\ v[l] = t[j]
            BY <3>2, <4>6, <5>1, <5>2
          <6> QED
            BY <4>1, <4>2, <5>1, <5>2, <6>1
        <5>3. CASE l = Len(z)
          <6>1. PICK i \in 1 .. n - 1 : v[k] = t[i]
            BY <3>2, <5>1
          <6> QED
            BY <4>1, <4>2, <5>1, <5>3, <6>1
        <5> QED
          BY <4>1, <5>2, <5>3
      <4> QED
        BY <4>1, <4>3, <4>4, <4>5, <4>6
    <3>3. Good(w[n], n)
      <4> HIDE DEF Good
      <4> QED
        BY <2>1, <3>1, <3>2
    <3>4. n \in 0 .. Len(t)
      BY <1>2
    <3> QED
      <4> HIDE DEF Good
      <4> QED
        BY <3>3, <3>4
  <2> QED
    BY <2>2, <2>3
<1>5. Good(u, Len(t))
  <2>1. \A i \in 1 .. Len(t) : i - 1 \in A => i \in A
    BY <1>4
  <2>2. 0 .. Len(t) \subseteq A
    <3> HIDE DEF A
    <3> QED
      BY <1>2, <1>3, <2>1, UpTo
  <2> QED
    BY <1>1, <1>2, <2>2
<1>6. u \in Seq(Nodes) /\ \A k \in 1 .. Len(u) : u[k] \in Range(u)
  BY <1>5, InRange
<1>7. \A i \in 1 .. Len(t) : t[i] \in Range(t)
  BY InRange
<1>8. \A k \in 1 .. Len(u) : u[k] \notin X /\ u[k] \in Range(t)
  BY <1>5, <1>7
<1>9. \A i \in 1 .. Len(t) : t[i] \notin X => t[i] \in Range(u)
  BY <1>5, <1>6
<1> QED
  BY <1>5, <1>8, <1>9

LEMMA DoomedFacts ==
  ASSUME NEW P, P \in Program, NEW X \in SUBSET Nodes, NEW D, D = Doomed(P, X)
  PROVE  /\ X \subseteq D /\ D \subseteq Nodes
         /\ \A e \in P.edges : e.dest \in D /\ IsGoto(e.src) => e.src \in D
         /\ \A n \in D : n \in X \/ IsGoto(n)
         /\ (\A e \in P.edges : IsGoto(e.src) => e.dest \notin X) => D = X
<1> DEFINE Shut(Y) == X \subseteq Y /\ \A e \in P.edges : e.dest \in Y /\ IsGoto(e.src) => e.src \in Y
<1>1. D = {n \in Nodes : \A Y \in SUBSET Nodes : Shut(Y) => n \in Y}
  BY DEF Doomed
<1>2. \A e \in P.edges : e.src \in Nodes /\ e.dest \in Nodes
  BY DEF Program, Edges
<1>3. X \subseteq D /\ D \subseteq Nodes
  BY <1>1
<1>4. ASSUME NEW e \in P.edges, e.dest \in D, IsGoto(e.src)
      PROVE  e.src \in D
  BY <1>1, <1>2, <1>4
<1>5. ASSUME NEW n \in D
      PROVE  n \in X \/ IsGoto(n)
  <2> DEFINE Y == X \cup {v \in Nodes : IsGoto(v)}
  <2>1. Y \in SUBSET Nodes /\ Shut(Y)
    BY <1>2
  <2> QED
    BY <1>1, <2>1
<1>6. ASSUME \A e \in P.edges : IsGoto(e.src) => e.dest \notin X
      PROVE  D = X
  BY <1>1, <1>6
<1> QED
  BY <1>3, <1>4, <1>5, <1>6

\* What of the rest is whole may go: X has the gotos to what it has, and the loop
\* with its body or neither.
LEMMA RemoveAllOK ==
  ASSUME NEW P, WellFormed(P), NEW X \in SUBSET Nodes,
         \A e \in P.edges : e.dest \in X /\ IsGoto(e.src) => e.src \in X,
         For \in X => Range(P.seq[Body]) \subseteq X,
         Body \in X => Range(P.seq[Body]) \subseteq X
  PROVE  /\ WellFormed(RemoveAll(P, X)) /\ Left(RemoveAll(P, X), P)
         /\ \A b \in Blocks : \A n \in Range(P.seq[b]) :
              n \notin X => n \in Range(RemoveAll(P, X).seq[b])
         /\ \A b \in Blocks : \A n \in Range(P.seq[b]) :
              n \in X => Len(RemoveAll(P, X).seq[b]) < Len(P.seq[b])
<1> DEFINE Q == RemoveAll(P, X)
<1>1. /\ Q.seq = [b \in Blocks |-> Without(P.seq[b], X)]
      /\ Q.edges = {e \in P.edges : e.src \notin X /\ e.dest \notin X}
      /\ Q.breaks = P.breaks \ X
      /\ Q = [seq |-> Q.seq, edges |-> Q.edges, breaks |-> Q.breaks]
  BY DEF RemoveAll
<1> HIDE DEF Q
<1>2. /\ P.seq \in [Blocks -> Seq(Nodes)] /\ P.edges \subseteq Edges /\ P.breaks \subseteq Nodes
      /\ \A b \in Blocks : P.seq[b] \in Seq(Nodes)
  BY DEF WellFormed, Program
<1>3. ASSUME NEW b \in Blocks
      PROVE  /\ Q.seq[b] \in Seq(Nodes) /\ Len(Q.seq[b]) <= Len(P.seq[b])
             /\ Range(Q.seq[b]) = Range(P.seq[b]) \ X
             /\ \A n \in Range(P.seq[b]) : n \in X => Len(Q.seq[b]) < Len(P.seq[b])
             /\ SeqOK(Q.seq[b], b)
  <2>1. PICK t \in Seq(Nodes) : t = P.seq[b]
    BY <1>2
  <2>2. PICK u : u = Q.seq[b] /\ u = Without(t, X)
    BY <1>1, <2>1
  <2>3. /\ u \in Seq(Nodes) /\ Len(u) <= Len(t)
        /\ \A i \in 1 .. Len(t) : t[i] \in X => Len(u) < Len(t)
        /\ \A i \in 1 .. Len(t) : t[i] \notin X => t[i] \in Range(u)
        /\ \A k \in 1 .. Len(u) : u[k] \notin X /\ u[k] \in Range(t)
        /\ \A k, l \in 1 .. Len(u) :
             k < l => \E i, j \in 1 .. Len(t) : i < j /\ u[k] = t[i] /\ u[l] = t[j]
    BY <2>2, WithoutFacts
  <2>4. \A n \in Range(t) : \E i \in 1 .. Len(t) : t[i] = n
    BY InRange
  <2>5. \A n \in Range(u) : \E k \in 1 .. Len(u) : u[k] = n
    BY <2>3, InRange
  <2>6. Range(u) = Range(t) \ X
    BY <2>3, <2>4, <2>5
  <2>7. \A n \in Range(t) : n \in X => Len(u) < Len(t)
    BY <2>3, <2>4
  <2>8. SeqOK(t, b)
    BY <2>1 DEF WellFormed
  <2>9. ASSUME NEW k \in 1 .. Len(u)
        PROVE  StmOK(u[k], b)
    BY <2>3, <2>4, <2>8 DEF SeqOK
  <2>10. ASSUME NEW k \in 1 .. Len(u), NEW l \in 1 .. Len(u), k < l
         PROVE  u[k] # u[l] /\ stm[u[k]].k # "return"
    BY <2>3, <2>8, <2>10 DEF SeqOK
  <2>11. SeqOK(u, b)
    BY <2>9, <2>10 DEF SeqOK
  <2> QED
    BY <2>1, <2>2, <2>3, <2>6, <2>7, <2>11
<1>4. Top \in Blocks /\ Body \in Blocks /\ Blocks = {Top, Body}
  BY Small
<1>5. /\ Range(Q.seq[Top]) = Range(P.seq[Top]) \ X
      /\ Range(Q.seq[Body]) = Range(P.seq[Body]) \ X
      /\ Placed(Q) = Placed(P) \ X
  BY <1>3, <1>4 DEF Placed
<1>6. Left(Q, P)
  BY <1>1, <1>3 DEF Left
<1>7. Q \in Program
  BY <1>1, <1>2, <1>3 DEF Program
<1>8. Range(Q.seq[Top]) \cap Range(Q.seq[Body]) = {}
  BY <1>5 DEF WellFormed
<1>9. ASSUME NEW e \in Q.edges
      PROVE  EdgeOK(Q, e)
  BY <1>1, <1>5 DEF WellFormed, EdgeOK
<1>10. ASSUME NEW n \in Placed(Q)
       PROVE  JumpOK(Q, n)
  <2>1. n \in Placed(P) /\ n \notin X /\ JumpOK(P, n)
    BY <1>5 DEF WellFormed
  <2>2. ASSUME IsGoto(n)
        PROVE  /\ stm[n].to \in Range(Q.seq[Top])
               /\ \E e \in Q.edges : e.src = n /\ e.dest = stm[n].to /\ ~e.post
    BY <1>1, <1>5, <2>1, <2>2 DEF JumpOK
  <2>3. /\ Edge(n, Body, FALSE, TRUE).src = n /\ Edge(n, Body, FALSE, TRUE).dest = Body
        /\ Edge(n, For, TRUE, FALSE).src = n /\ Edge(n, For, TRUE, FALSE).dest = For
    BY DEF Edge
  <2>4. stm[n].k \in {"break", "continue"} => n \in Range(P.seq[Body])
    <3>1. SeqOK(P.seq[Top], Top) /\ Top # Body
      BY <1>4, Small DEF WellFormed
    <3>2. \A v \in Range(P.seq[Top]) : StmOK(v, Top)
      BY <1>2, <1>4, <3>1, InRange DEF SeqOK
    <3> QED
      BY <2>1, <3>1, <3>2 DEF Placed, StmOK
  <2>5. stm[n].k = "continue" => Edge(n, Body, FALSE, TRUE) \in Q.edges
    BY <1>1, <2>1, <2>3, <2>4, Zenon DEF JumpOK
  <2>6. stm[n].k = "break" => n \in Q.breaks
    BY <1>1, <2>1 DEF JumpOK
  <2>7. ASSUME stm[n].k = "break", For \in Range(Q.seq[Top])
        PROVE  Edge(n, For, TRUE, FALSE) \in Q.edges
    <3>1. Edge(n, For, TRUE, FALSE) \in P.edges /\ For \notin X
      BY <1>5, <2>1, <2>7 DEF JumpOK
    <3> QED
      BY <1>1, <2>1, <2>3, <3>1
  <2> QED
    BY <2>2, <2>5, <2>6, <2>7 DEF JumpOK
<1>11. \A n \in Q.breaks : n \in Range(Q.seq[Body]) /\ stm[n].k = "break"
  BY <1>1, <1>5 DEF WellFormed
<1>12. WellFormed(Q)
  BY <1>3, <1>7, <1>8, <1>9, <1>10, <1>11 DEF WellFormed
<1> QED
  BY <1>3, <1>5, <1>6, <1>12, <1>4 DEF Q

LEMMA WithoutNone ==
  ASSUME NEW t \in Seq(Nodes), NEW X, \A i \in 1 .. Len(t) : t[i] \notin X
  PROVE  Without(t, X) = t
<1>1. PICK w : /\ w[0] = <<>>
               /\ \A i \in 1 .. Len(t) :
                    w[i] = IF t[i] \in X THEN w[i - 1] ELSE Append(w[i - 1], t[i])
               /\ Without(t, X) = w[Len(t)]
  BY WithoutDef
<1> DEFINE A == {n \in 0 .. Len(t) : w[n] = SubSeq(t, 1, n)}
<1>2. Len(t) \in Nat
  OBVIOUS
<1>3. 0 \in A
  <2>1. SubSeq(t, 1, 0) = <<>>
    OBVIOUS
  <2>2. w[0] = SubSeq(t, 1, 0)
    BY <1>1, <2>1
  <2> QED
    BY <1>2, <2>2
<1>4. ASSUME NEW n \in 1 .. Len(t), n - 1 \in A
      PROVE  n \in A
  <2>1. w[n] = Append(SubSeq(t, 1, n - 1), t[n])
    BY <1>1, <1>4
  <2>2. PICK u : u = SubSeq(t, 1, n - 1)
    OBVIOUS
  <2>3. PICK v : v = SubSeq(t, 1, n)
    OBVIOUS
  <2>4. /\ u \in Seq(Nodes) /\ Len(u) = n - 1 /\ \A i \in 1 .. n - 1 : u[i] = t[i]
        /\ v \in Seq(Nodes) /\ Len(v) = n /\ \A i \in 1 .. n : v[i] = t[i]
    BY <2>2, <2>3
  <2>5. Append(u, t[n]) = v
    BY <2>4
  <2> QED
    BY <2>1, <2>2, <2>3, <2>5
<1>5. w[Len(t)] = t
  <2>1. \A i \in 1 .. Len(t) : i - 1 \in A => i \in A
    BY <1>4
  <2>2. 0 .. Len(t) \subseteq A
    <3> HIDE DEF A
    <3> QED
      BY <1>2, <1>3, <2>1, UpTo
  <2>3. w[Len(t)] = SubSeq(t, 1, Len(t))
    BY <1>2, <2>2
  <2>4. SubSeq(t, 1, Len(t)) = t
    OBVIOUS
  <2> QED
    BY <2>3, <2>4
<1> QED
  BY <1>1, <1>5

LEMMA PlacedFacts ==
  ASSUME NEW P, WellFormed(P)
  PROVE  /\ \A b \in Blocks : P.seq[b] \in Seq(Nodes)
         /\ \A b \in Blocks : \A s \in Range(P.seq[b]) :
              /\ StmOK(s, b) /\ s \in Nodes /\ s # Top /\ s # Body /\ s \in Placed(P)
              /\ \E i \in 1 .. Len(P.seq[b]) : P.seq[b][i] = s
              /\ stm[s].k = "return" => s = Last(P.seq[b])
         /\ Placed(P) \subseteq Nodes
         /\ For \notin Range(P.seq[Body])
<1>1. ASSUME NEW b \in Blocks
      PROVE  P.seq[b] \in Seq(Nodes) /\ SeqOK(P.seq[b], b)
  BY DEF WellFormed, Program
<1>2. ASSUME NEW b \in Blocks, NEW s \in Range(P.seq[b])
      PROVE  /\ StmOK(s, b) /\ s \in Nodes /\ s # Top /\ s # Body /\ s \in Placed(P)
             /\ \E i \in 1 .. Len(P.seq[b]) : P.seq[b][i] = s
             /\ stm[s].k = "return" => s = Last(P.seq[b])
  <2>1. PICK i \in 1 .. Len(P.seq[b]) : P.seq[b][i] = s
    BY <1>1, InRange
  <2>2. StmOK(s, b) /\ s \in Nodes
    BY <1>1, <2>1 DEF SeqOK
  <2>3. s # Top /\ s # Body
    BY <2>2, Small DEF StmOK, Top, Body, For
  <2>4. s \in Placed(P)
    BY <1>2, Small DEF Placed
  <2>5. ASSUME stm[s].k = "return"
        PROVE  s = Last(P.seq[b])
    BY <1>1, <2>1, <2>5, InRange DEF SeqOK
  <2> QED
    BY <2>1, <2>2, <2>3, <2>4, <2>5
<1>3. Placed(P) \subseteq Nodes
  BY <1>2, Small DEF Placed
<1>4. For \notin Range(P.seq[Body])
  BY <1>2, Small DEF StmOK
<1> QED
  BY <1>1, <1>2, <1>3, <1>4

LEMMA RemoveStmtOK ==
  ASSUME Fixed, NEW P, WellFormed(P), NEW b \in Blocks, NEW s \in Range(P.seq[b]),
         NEW Q, Q = RemoveStmt(P, s)
  PROVE  /\ WellFormed(Q) /\ Left(Q, P) /\ Len(Q.seq[b]) < Len(P.seq[b])
         /\ b = Top => (Follows(P) => Follows(Q))
         /\ b = Body => Beside(Q, P)
<1> DEFINE X == Contents(P, s)
           D == Doomed(P, X)
<1>1. /\ StmOK(s, b) /\ s \in Nodes /\ s # Top /\ s # Body
      /\ For \notin Range(P.seq[Body]) /\ Range(P.seq[Body]) \subseteq Nodes
  BY PlacedFacts, Small DEF Placed
<1>2. X = IF s = For THEN {For, Body} \cup Range(P.seq[Body]) ELSE {s}
  BY <1>1, Small DEF Contents
<1>3. X \in SUBSET Nodes /\ P \in Program
  BY <1>1, <1>2, Small DEF WellFormed
<1> HIDE DEF X
<1>4. /\ X \subseteq D /\ D \in SUBSET Nodes
      /\ \A e \in P.edges : e.dest \in D /\ IsGoto(e.src) => e.src \in D
      /\ \A n \in D : n \in X \/ IsGoto(n)
      /\ (\A e \in P.edges : IsGoto(e.src) => e.dest \notin X) => D = X
  BY <1>3, DoomedFacts
<1> HIDE DEF D
<1>5. ~IsGoto(For) /\ ~IsGoto(Body)
  BY DEF Fixed, IsGoto
<1>6. For \in D \/ Body \in D => s = For /\ Range(P.seq[Body]) \subseteq D
  BY <1>1, <1>2, <1>4, <1>5
<1>7. Q = RemoveAll(P, D)
  BY DEF RemoveStmt, X, D
<1>8. /\ WellFormed(Q) /\ Left(Q, P)
      /\ \A c \in Blocks : \A n \in Range(P.seq[c]) : n \notin D => n \in Range(Q.seq[c])
      /\ \A c \in Blocks : \A n \in Range(P.seq[c]) :
           n \in D => Len(Q.seq[c]) < Len(P.seq[c])
  BY <1>4, <1>6, <1>7, RemoveAllOK
<1>9. s \in D
  BY <1>2, <1>4
<1>10. /\ Q.seq = [c \in Blocks |-> Without(P.seq[c], D)]
       /\ Q.edges = {e \in P.edges : e.src \notin D /\ e.dest \notin D}
  BY <1>7 DEF RemoveAll
<1>11. ASSUME b = Top, Follows(P)
       PROVE  Follows(Q)
  <2>1. SUFFICES ASSUME FromTailToHead(Q, Body)
                 PROVE  Edge(Body, Body, FALSE, TRUE) \in Q.edges
    BY DEF Follows
  <2>2. Q.seq[Body] # <<>> /\ stm[Last(Q.seq[Body])].k # "return"
    BY <2>1 DEF FromTailToHead
  <2>3. /\ P.seq[Body] \in Seq(Nodes) /\ Q.seq[Body] \in Seq(Nodes)
        /\ Range(Q.seq[Body]) \subseteq Range(P.seq[Body])
    BY <1>8, PlacedFacts, Small DEF Left
  <2>4. Last(Q.seq[Body]) \in Range(P.seq[Body])
    BY <2>2, <2>3, InRange
  <2>5. Body \notin D
    <3>1. SUFFICES ASSUME Range(P.seq[Body]) \subseteq D
                   PROVE  FALSE
      BY <1>6
    <3>2. Q.seq[Body] = Without(P.seq[Body], D)
      BY <1>10, Small
    <3>3. \A k \in 1 .. Len(Q.seq[Body]) : Q.seq[Body][k] \notin D /\ Q.seq[Body][k] \in Range(P.seq[Body])
      BY <2>3, <3>2, WithoutFacts
    <3>4. Len(Q.seq[Body]) \in 1 .. Len(Q.seq[Body])
      BY <2>2, <2>3, InRange
    <3> QED
      BY <3>1, <3>3, <3>4
  <2>6. P.seq[Body] # <<>> /\ stm[Last(P.seq[Body])].k # "return"
    <3>1. P.seq[Body] # <<>>
      BY <2>3, <2>4, InRange
    <3>2. SUFFICES ASSUME stm[Last(P.seq[Body])].k = "return"
                   PROVE  FALSE
      BY <3>1
    <3>3. Last(P.seq[Body]) \in Range(P.seq[Body])
      BY <2>3, <3>1, InRange
    <3>4. Last(P.seq[Body]) \notin D
      <4>1. ~IsGoto(Last(P.seq[Body]))
        BY <3>2 DEF IsGoto
      <4>2. Last(P.seq[Body]) # s
        BY <1>11, <3>3, Small DEF WellFormed
      <4>3. s # For
        BY <1>2, <1>4, <2>5
      <4> QED
        BY <1>2, <1>4, <4>1, <4>2, <4>3
    <3>5. Last(P.seq[Body]) \in Range(Q.seq[Body])
      BY <1>8, <3>3, <3>4, Small
    <3>6. Last(P.seq[Body]) = Last(Q.seq[Body])
      BY <1>8, <3>2, <3>5, PlacedFacts, Small
    <3> QED
      BY <2>2, <3>2, <3>6
  <2>7. Edge(Body, Body, FALSE, TRUE) \in P.edges
    BY <1>11, <2>6 DEF Follows, FromTailToHead
  <2> QED
    BY <1>10, <2>5, <2>7 DEF Edge
<1>12. ASSUME b = Body
       PROVE  Beside(Q, P)
  <2>1. s # For /\ X = {s} /\ s \notin Range(P.seq[Top])
    BY <1>1, <1>2, <1>12, Small DEF WellFormed
  <2>2. \A e \in P.edges : e.dest # s
    BY <1>1, <2>1 DEF WellFormed, EdgeOK
  <2>3. D = {s}
    BY <1>4, <2>1, <2>2
  <2>4. Q.seq[Top] = P.seq[Top]
    <3>1. P.seq[Top] \in Seq(Nodes)
      BY PlacedFacts, Small
    <3>2. \A i \in 1 .. Len(P.seq[Top]) : P.seq[Top][i] \notin D
      BY <2>1, <2>3, <3>1, InRange
    <3> QED
      BY <1>10, <3>1, <3>2, WithoutNone, Small
  <2>5. \A e \in P.edges : e.src \notin Range(P.seq[Body]) => e \in Q.edges
    BY <1>10, <1>12, <2>2, <2>3
  <2> QED
    BY <1>10, <2>4, <2>5 DEF Beside
<1> QED
  BY <1>8, <1>9, <1>11, <1>12

LEMMA LeftSelf ==
  ASSUME NEW P, WellFormed(P)
  PROVE  Left(P, P) /\ Beside(P, P)
<1>1. ASSUME NEW b \in Blocks
      PROVE  Len(P.seq[b]) <= Len(P.seq[b])
  OBVIOUS
<1>2. Left(P, P)
  BY <1>1 DEF Left
<1>3. Beside(P, P)
  BY DEF Beside
<1> QED
  BY <1>2, <1>3

LEMMA LeftAgain ==
  ASSUME NEW P, NEW Q, NEW R, Left(Q, P), Left(R, Q),
         WellFormed(P), WellFormed(Q), WellFormed(R)
  PROVE  Left(R, P)
<1>1. ASSUME NEW b \in Blocks
      PROVE  Range(R.seq[b]) \subseteq Range(P.seq[b]) /\ Len(R.seq[b]) <= Len(P.seq[b])
  <2>1. Len(R.seq[b]) \in Nat /\ Len(Q.seq[b]) \in Nat /\ Len(P.seq[b]) \in Nat
    BY PlacedFacts, InRange
  <2>2. Range(Q.seq[b]) \subseteq Range(P.seq[b]) /\ Len(Q.seq[b]) <= Len(P.seq[b])
    BY DEF Left
  <2>3. Range(R.seq[b]) \subseteq Range(Q.seq[b]) /\ Len(R.seq[b]) <= Len(Q.seq[b])
    BY DEF Left
  <2>4. Range(R.seq[b]) \subseteq Range(P.seq[b])
    BY <2>2, <2>3
  <2>5. Len(R.seq[b]) <= Len(P.seq[b])
    BY <2>1, <2>2, <2>3
  <2> QED
    BY <2>4, <2>5
<1> QED
  BY <1>1 DEF Left

LEMMA BesideAgain ==
  ASSUME NEW P, NEW Q, NEW R, Left(Q, P), Beside(Q, P), Beside(R, Q)
  PROVE  Beside(R, P)
BY Small, Zenon DEF Left, Beside

LEMMA RemoveNthOK ==
  ASSUME Fixed, NEW P, WellFormed(P), NEW b \in Blocks, Deletable(P, b), NEW k \in Nat \ {0},
         NEW Q, Q = RemoveNth(P, b, k)
  PROVE  /\ WellFormed(Q) /\ Left(Q, P) /\ Deletable(Q, b) /\ (b = Body => Beside(Q, P))
         /\ k <= Len(P.seq[b]) => Len(Q.seq[b]) < Len(P.seq[b])
<1>1. P.seq[b] \in Seq(Nodes) /\ Len(P.seq[b]) \in Nat
  BY PlacedFacts, InRange
<1>2. CASE k > Len(P.seq[b])
  BY <1>2, LeftSelf DEF RemoveNth
<1>3. CASE k <= Len(P.seq[b])
  <2>1. PICK s \in Range(P.seq[b]) : s = P.seq[b][k]
    BY <1>1, <1>3, InRange
  <2>2. Q = RemoveStmt(P, s)
    BY <1>1, <1>3, <2>1 DEF RemoveNth
  <2>3. /\ WellFormed(Q) /\ Left(Q, P) /\ Len(Q.seq[b]) < Len(P.seq[b])
        /\ b = Top => (Follows(P) => Follows(Q))
        /\ b = Body => Beside(Q, P)
    BY <2>2, RemoveStmtOK
  <2>4. Deletable(Q, b)
    BY <2>3, Small DEF Deletable, Beside
  <2> QED
    BY <2>3, <2>4
<1> QED
  BY <1>1, <1>2, <1>3

LEMMA RemoveFromOK ==
  ASSUME Fixed, NEW P, WellFormed(P), NEW b \in Blocks, Deletable(P, b), NEW k \in Nat \ {0},
         NEW Q, Q = RemoveFrom(P, b, k)
  PROVE  /\ WellFormed(Q) /\ Left(Q, P) /\ Deletable(Q, b) /\ (b = Body => Beside(Q, P))
         /\ k <= Len(P.seq[b]) => Len(Q.seq[b]) < Len(P.seq[b])
<1> DEFINE N == Len(P.seq[b])
           Good(R) == /\ WellFormed(R) /\ Left(R, P) /\ Deletable(R, b)
                      /\ (b = Body => Beside(R, P))
<1>1. P.seq \in [Blocks -> Seq(Nodes)] /\ P.seq[b] \in Seq(Nodes) /\ N \in Nat
  BY PlacedFacts, InRange DEF WellFormed, Program
<1>2. PICK w : /\ w[0] = P
               /\ \A i \in 1 .. N : w[i] = RemoveNth(w[i - 1], b, k)
               /\ Q = w[N]
  BY <1>1, RemoveFromDef
<1> DEFINE A == {n \in 0 .. N : /\ Good(w[n])
                                /\ k <= N /\ n > 0 => Len(w[n].seq[b]) < N}
<1>3. Good(P)
  BY LeftSelf
<1>4. 0 \in A
  BY <1>1, <1>2, <1>3
<1>5. ASSUME NEW n \in 1 .. N, n - 1 \in A
      PROVE  n \in A
  <2>1. PICK R : R = w[n - 1]
    OBVIOUS
  <2>2. Good(R) /\ (k <= N /\ n - 1 > 0 => Len(R.seq[b]) < N)
    BY <1>5, <2>1
  <2>3. PICK S : S = w[n] /\ S = RemoveNth(R, b, k)
    BY <1>2, <2>1
  <2>4. /\ WellFormed(S) /\ Left(S, R) /\ Deletable(S, b) /\ (b = Body => Beside(S, R))
        /\ k <= Len(R.seq[b]) => Len(S.seq[b]) < Len(R.seq[b])
    BY <2>2, <2>3, RemoveNthOK
  <2>5. Left(S, P) /\ (b = Body => Beside(S, P))
    BY <2>2, <2>4, LeftAgain, BesideAgain
  <2>6. Len(S.seq[b]) \in Nat /\ Len(R.seq[b]) \in Nat /\ Len(S.seq[b]) <= Len(R.seq[b])
    BY <2>2, <2>4, PlacedFacts, InRange DEF Left
  <2>7. k <= N => Len(S.seq[b]) < N
    <3>1. CASE n - 1 > 0
      BY <1>1, <2>2, <2>6, <3>1
    <3>2. CASE n - 1 = 0
      BY <1>1, <1>2, <2>1, <2>4, <3>2
    <3> QED
      BY <3>1, <3>2
  <2>8. Good(S)
    BY <2>4, <2>5
  <2>9. Good(w[n]) /\ (k <= N /\ n > 0 => Len(w[n].seq[b]) < N)
    <3> HIDE DEF Good
    <3> QED
      BY <2>3, <2>7, <2>8
  <2>10. n \in 0 .. N
    BY <1>1
  <2> HIDE DEF Good
  <2> QED
    BY <2>9, <2>10
<1>6. N \in A
  <2>1. \A n \in 1 .. N : n - 1 \in A => n \in A
    BY <1>5
  <2> HIDE DEF A
  <2>2. 0 .. N \subseteq A
    BY <1>1, <1>4, <2>1, UpTo
  <2> QED
    BY <1>1, <2>2
<1>7. Good(Q) /\ (k <= N /\ N > 0 => Len(Q.seq[b]) < N)
  BY <1>2, <1>6
<1> QED
  BY <1>1, <1>7

LEMMA WithSelfEdgeOK ==
  ASSUME NEW P, WellFormed(P), NEW b \in Blocks, Deletable(P, b), NEW Q, Q = WithSelfEdge(P, b)
  PROVE  /\ WellFormed(Q) /\ Left(Q, P) /\ Deletable(Q, b) /\ (b = Body => Beside(Q, P))
         /\ Q.seq = P.seq /\ Follows(Q)
<1>1. Left(P, P) /\ Beside(P, P)
  BY LeftSelf
<1>2. CASE ~FromTailToHead(P, b)
  BY <1>1, <1>2, Small, Zenon DEF WithSelfEdge, Deletable, Follows
<1>3. CASE FromTailToHead(P, b)
  <2>1. b = Body
    BY <1>3 DEF FromTailToHead
  <2>2. PICK e : e = Edge(Body, Body, FALSE, TRUE)
    OBVIOUS
  <2>3. Q = [P EXCEPT !.edges = @ \cup {e}]
    BY <1>3, <2>1, <2>2 DEF WithSelfEdge, Edge
  <2>4. /\ e.src = Body /\ e.dest = Body /\ e.post = FALSE /\ e.back = TRUE /\ e \in Edges
    BY <2>2, Small DEF Edge, Edges
  <2>5. P \in Program
    BY DEF WellFormed
  <2>6. /\ Q.seq = P.seq /\ Q.breaks = P.breaks /\ Q.edges = P.edges \cup {e} /\ Q \in Program
    BY <2>3, <2>4, <2>5 DEF Program
  <2>7. Placed(Q) = Placed(P)
    BY <2>6 DEF Placed
  <2>8. \A g \in Q.edges : EdgeOK(Q, g)
    BY <2>4, <2>6, <2>7 DEF EdgeOK, WellFormed
  <2>9. \A n \in Placed(Q) : JumpOK(Q, n)
    BY <2>6, <2>7, Zenon DEF WellFormed, JumpOK
  <2>10. WellFormed(Q)
    BY <2>6, <2>8, <2>9 DEF WellFormed
  <2>11. Follows(Q)
    BY <2>2, <2>6 DEF Follows
  <2>12. Left(Q, P)
    BY <1>1, <2>6 DEF Left
  <2>13. Beside(Q, P)
    BY <2>2, <2>6 DEF Beside
  <2>14. Deletable(Q, b)
    BY <2>1, <2>6, Small DEF Deletable
  <2> QED
    BY <2>6, <2>10, <2>11, <2>12, <2>13, <2>14
<1> QED
  BY <1>2, <1>3

\* A walk counts the statements that it passes; one that fails does not pass all.
LEMMA WalkBodyCounts ==
  ASSUME NEW P, P.seq \in [Blocks -> Seq(Nodes)], NEW m, NEW f, NEW w, w = WalkBody(m, P, f)
  PROVE  w.passed \in Nat /\ (~w.ok => w.passed < Len(P.seq[Body]))
<1> DEFINE N == Len(P.seq[Body])
           Good(v, n) == v.passed \in Nat /\ v.passed <= n /\ (~v.ok => v.passed < n)
<1>1. N \in Nat
  BY Small
<1>2. PICK x : /\ x[0] = Walk0(m, f)
               /\ \A i \in 1 .. N : x[i] = VisitInBody(P, P.seq[Body][i], x[i - 1])
               /\ w = x[N]
  BY WalkBodyDef
<1> DEFINE A == {n \in 0 .. N : Good(x[n], n)}
<1>3. 0 \in A
  BY <1>1, <1>2 DEF Walk0
<1>4. ASSUME NEW n \in 1 .. N, n - 1 \in A
      PROVE  n \in A
  <2>1. PICK v : v = x[n - 1]
    OBVIOUS
  <2>2. Good(v, n - 1)
    BY <1>4, <2>1
  <2>3. PICK z : z = x[n] /\ z = VisitInBody(P, P.seq[Body][n], v)
    BY <1>2, <2>1
  <2>4. z = v \/ (\E r : z = NextStm(v, r) /\ v.ok)
    BY <2>3 DEF VisitInBody
  <2>5. z.passed \in Nat /\ z.passed <= n /\ (~z.ok => z.passed < n)
    BY <2>2, <2>4 DEF NextStm
  <2>6. Good(z, n)
    BY <2>5
  <2>7. n \in 0 .. N
    BY <1>1
  <2>8. Good(x[n], n)
    <3> HIDE DEF Good
    <3> QED
      BY <2>3, <2>6
  <2> HIDE DEF Good
  <2> QED
    BY <2>7, <2>8
<1>5. N \in A
  <2>1. \A n \in 1 .. N : n - 1 \in A => n \in A
    BY <1>4
  <2> HIDE DEF A
  <2>2. 0 .. N \subseteq A
    BY <1>1, <1>3, <2>1, UpTo
  <2> QED
    BY <1>1, <2>2
<1> QED
  BY <1>2, <1>5

LEMMA SearchBodyCounts ==
  ASSUME NEW P, P.seq \in [Blocks -> Seq(Nodes)], NEW m, NEW f, NEW once,
         NEW r, r = FixedPointBody(m, P, f, once)
  PROVE  r.passed \in Nat /\ (~r.ok => r.passed < Len(P.seq[Body]))
<1> DEFINE N == MaxRounds + 1
           Good(v) == v.passed \in Nat /\ (~v.ok => v.passed < Len(P.seq[Body]))
<1>1. N \in Nat
  BY FixpointConstantsOK
<1>2. PICK x : /\ x[0] = Start(m, P, Body, f, once)
               /\ \A i \in 1 .. MaxRounds + 1 : x[i] = BodyRound(P, x[i - 1])
               /\ r = Result(x[MaxRounds + 1])
  BY SearchBodyDef
<1> DEFINE A == {n \in 0 .. N : Good(x[n])}
<1>3. 0 \in A
  <2>1. x[0].passed = 0 /\ x[0].ok = TRUE
    BY <1>2 DEF Start, Enter
  <2> QED
    BY <1>1, <2>1
<1>4. ASSUME NEW n \in 1 .. N, n - 1 \in A
      PROVE  n \in A
  <2>1. PICK v : v = x[n - 1]
    OBVIOUS
  <2>2. Good(v)
    BY <1>4, <2>1
  <2>3. PICK z : z = x[n] /\ z = BodyRound(P, v)
    BY <1>2, <2>1
  <2>4. z = v \/ (\E g, w : z = Again(P, Body, v, w) /\ w = WalkBody(v.maps, P, g))
    BY <2>3 DEF BodyRound
  <2>5. z.passed \in Nat /\ (~z.ok => z.passed < Len(P.seq[Body]))
    <3>1. CASE z = v
      BY <2>2, <3>1
    <3>2. CASE \E g, w : z = Again(P, Body, v, w) /\ w = WalkBody(v.maps, P, g)
      BY <2>2, <3>2, WalkBodyCounts DEF Again, Enter
    <3> QED
      BY <2>4, <3>1, <3>2
  <2>6. Good(z)
    BY <2>5
  <2>7. n \in 0 .. N
    BY <1>1
  <2>8. Good(x[n])
    <3> HIDE DEF Good
    <3> QED
      BY <2>3, <2>6
  <2> HIDE DEF Good
  <2> QED
    BY <2>7, <2>8
<1>5. N \in A
  <2>1. \A n \in 1 .. N : n - 1 \in A => n \in A
    BY <1>4
  <2> HIDE DEF A
  <2>2. 0 .. N \subseteq A
    BY <1>1, <1>3, <2>1, UpTo
  <2> QED
    BY <1>1, <2>2
<1>6. Good(x[MaxRounds + 1])
  BY <1>5
<1> QED
  BY <1>2, <1>6 DEF Result

\* A walk counts the statements that it passes; one that fails does not pass all.
LEMMA WalkTopCounts ==
  ASSUME NEW P, P.seq \in [Blocks -> Seq(Nodes)], NEW m, NEW f, NEW w, w = WalkTop(m, P, f)
  PROVE  w.passed \in Nat /\ (~w.ok => w.passed < Len(P.seq[Top]))
<1> DEFINE N == Len(P.seq[Top])
           Good(v, n) == v.passed \in Nat /\ v.passed <= n /\ (~v.ok => v.passed < n)
<1>1. N \in Nat
  BY Small
<1>2. PICK x : /\ x[0] = Walk0(m, f)
               /\ \A i \in 1 .. N : x[i] = VisitInTop(P, P.seq[Top][i], x[i - 1])
               /\ w = x[N]
  BY WalkTopDef
<1> DEFINE A == {n \in 0 .. N : Good(x[n], n)}
<1>3. 0 \in A
  BY <1>1, <1>2 DEF Walk0
<1>4. ASSUME NEW n \in 1 .. N, n - 1 \in A
      PROVE  n \in A
  <2>1. PICK v : v = x[n - 1]
    OBVIOUS
  <2>2. Good(v, n - 1)
    BY <1>4, <2>1
  <2>3. PICK z : z = x[n] /\ z = VisitInTop(P, P.seq[Top][n], v)
    BY <1>2, <2>1
  <2>4. z = v \/ (\E r : z = NextStm(v, r) /\ v.ok)
    BY <2>3 DEF VisitInTop
  <2>5. z.passed \in Nat /\ z.passed <= n /\ (~z.ok => z.passed < n)
    BY <2>2, <2>4 DEF NextStm
  <2>6. Good(z, n)
    BY <2>5
  <2>7. n \in 0 .. N
    BY <1>1
  <2>8. Good(x[n], n)
    <3> HIDE DEF Good
    <3> QED
      BY <2>3, <2>6
  <2> HIDE DEF Good
  <2> QED
    BY <2>7, <2>8
<1>5. N \in A
  <2>1. \A n \in 1 .. N : n - 1 \in A => n \in A
    BY <1>4
  <2> HIDE DEF A
  <2>2. 0 .. N \subseteq A
    BY <1>1, <1>3, <2>1, UpTo
  <2> QED
    BY <1>1, <2>2
<1> QED
  BY <1>2, <1>5

LEMMA SearchTopCounts ==
  ASSUME NEW P, P.seq \in [Blocks -> Seq(Nodes)], NEW m, NEW f, NEW once,
         NEW r, r = FixedPointTop(m, P, f, once)
  PROVE  r.passed \in Nat /\ (~r.ok => r.passed < Len(P.seq[Top]))
<1> DEFINE N == MaxRounds + 1
           Good(v) == v.passed \in Nat /\ (~v.ok => v.passed < Len(P.seq[Top]))
<1>1. N \in Nat
  BY FixpointConstantsOK
<1>2. PICK x : /\ x[0] = Start(m, P, Top, f, once)
               /\ \A i \in 1 .. MaxRounds + 1 : x[i] = TopRound(P, x[i - 1])
               /\ r = Result(x[MaxRounds + 1])
  BY SearchTopDef
<1> DEFINE A == {n \in 0 .. N : Good(x[n])}
<1>3. 0 \in A
  <2>1. x[0].passed = 0 /\ x[0].ok = TRUE
    BY <1>2 DEF Start, Enter
  <2> QED
    BY <1>1, <2>1
<1>4. ASSUME NEW n \in 1 .. N, n - 1 \in A
      PROVE  n \in A
  <2>1. PICK v : v = x[n - 1]
    OBVIOUS
  <2>2. Good(v)
    BY <1>4, <2>1
  <2>3. PICK z : z = x[n] /\ z = TopRound(P, v)
    BY <1>2, <2>1
  <2>4. z = v \/ (\E g, w : z = Again(P, Top, v, w) /\ w = WalkTop(v.maps, P, g))
    BY <2>3 DEF TopRound
  <2>5. z.passed \in Nat /\ (~z.ok => z.passed < Len(P.seq[Top]))
    <3>1. CASE z = v
      BY <2>2, <3>1
    <3>2. CASE \E g, w : z = Again(P, Top, v, w) /\ w = WalkTop(v.maps, P, g)
      BY <2>2, <3>2, WalkTopCounts DEF Again, Enter
    <3> QED
      BY <2>4, <3>1, <3>2
  <2>6. Good(z)
    BY <2>5
  <2>7. n \in 0 .. N
    BY <1>1
  <2>8. Good(x[n])
    <3> HIDE DEF Good
    <3> QED
      BY <2>3, <2>6
  <2> HIDE DEF Good
  <2> QED
    BY <2>7, <2>8
<1>5. N \in A
  <2>1. \A n \in 1 .. N : n - 1 \in A => n \in A
    BY <1>4
  <2> HIDE DEF A
  <2>2. 0 .. N \subseteq A
    BY <1>1, <1>3, <2>1, UpTo
  <2> QED
    BY <1>1, <2>2
<1>6. Good(x[MaxRounds + 1])
  BY <1>5
<1> QED
  BY <1>2, <1>6 DEF Result

\* What post_creation_analysis leaves is well formed, and passes.
LEMMA SettleOK ==
  ASSUME Fixed, NEW P, WellFormed(P), NEW b \in Blocks, Deletable(P, b), NEW m, NEW in, NEW once,
         NEW y, y = Settle(m, P, b, in, once)
  PROVE  /\ WellFormed(y.P) /\ Left(y.P, P) /\ Deletable(y.P, b)
         /\ b = Body => Beside(y.P, P)
         /\ Follows(P) => Follows(y.P)
         /\ y.r.ok
<1> DEFINE N == Len(P.seq[b])
           Good(v, n) == /\ WellFormed(v.P) /\ Left(v.P, P) /\ Deletable(v.P, b)
                         /\ b = Body => Beside(v.P, P)
                         /\ Follows(P) => Follows(v.P)
                         /\ v.r.ok \/ Len(v.P.seq[b]) <= N - n
                         /\ v.r.passed \in Nat
                         /\ ~v.r.ok => v.r.passed < Len(v.P.seq[b])
<1>1. P.seq \in [Blocks -> Seq(Nodes)] /\ N \in Nat
  BY PlacedFacts, InRange DEF WellFormed, Program
<1>2. PICK x : /\ x[0] = [P |-> P, r |-> FixedPoint(m, P, b, in, once),
                          rounds |-> FixedPoint(m, P, b, in, once).rounds]
               /\ \A i \in 1 .. N : x[i] = Retry(b, in, x[i - 1])
               /\ y = x[N]
  BY <1>1, SettleDef
<1>3. ASSUME NEW Q, WellFormed(Q), NEW m1, NEW o, NEW r, r = FixedPoint(m1, Q, b, in, o)
      PROVE  r.passed \in Nat /\ (~r.ok => r.passed < Len(Q.seq[b]))
  BY <1>3, Small, SearchBodyCounts, SearchTopCounts, Zenon DEF WellFormed, Program, FixedPoint
<1> DEFINE A == {n \in 0 .. N : Good(x[n], n)}
<1>4. 0 \in A
  <2>1. PICK v : v = x[0] /\ v.P = P /\ v.r = FixedPoint(m, P, b, in, once)
    BY <1>2
  <2>2. v.r.passed \in Nat /\ (~v.r.ok => v.r.passed < Len(P.seq[b]))
    BY <1>3, <2>1
  <2>3. Good(v, 0)
    BY <1>1, <2>1, <2>2, LeftSelf
  <2> HIDE DEF Good
  <2> QED
    BY <1>1, <2>1, <2>3
<1>5. ASSUME NEW n \in 1 .. N, n - 1 \in A
      PROVE  n \in A
  <2>1. PICK v : v = x[n - 1]
    OBVIOUS
  <2>2. Good(v, n - 1)
    BY <1>5, <2>1
  <2>3. PICK z : z = x[n] /\ z = Retry(b, in, v)
    BY <1>2, <2>1
  <2>4. CASE v.r.ok
    <3>1. z = v
      BY <2>3, <2>4 DEF Retry
    <3>2. Good(v, n)
      BY <2>2, <2>4
    <3>3. Good(x[n], n)
      <4> HIDE DEF Good
      <4> QED
        BY <2>3, <3>1, <3>2
    <3>4. n \in 0 .. N
      BY <1>1
    <3> HIDE DEF Good
    <3> QED
      BY <3>3, <3>4
  <2>5. CASE ~v.r.ok
    <3>1. PICK k \in Nat \ {0} : k = v.r.passed + 1
      BY <2>2
    <3>2. PICK R : R = RemoveFrom(v.P, b, k)
      OBVIOUS
    <3>3. PICK Q : Q = WithSelfEdge(R, b)
      OBVIOUS
    <3>4. PICK r : r = FixedPoint(ResetMaps(v.r.maps, Q, b), Q, b, in, TRUE)
      OBVIOUS
    <3>5. z.P = Q /\ z.r = r
      BY <2>3, <2>5, <3>1, <3>2, <3>3, <3>4 DEF Retry
    <3>6. /\ WellFormed(R) /\ Left(R, v.P) /\ Deletable(R, b)
          /\ (b = Body => Beside(R, v.P))
          /\ k <= Len(v.P.seq[b]) => Len(R.seq[b]) < Len(v.P.seq[b])
      BY <2>2, <3>2, RemoveFromOK
    <3>7. /\ WellFormed(Q) /\ Left(Q, R) /\ Deletable(Q, b) /\ (b = Body => Beside(Q, R))
          /\ Q.seq = R.seq /\ Follows(Q)
      BY <3>3, <3>6, WithSelfEdgeOK
    <3>8. Left(Q, P)
      BY <2>2, <3>6, <3>7, LeftAgain
    <3>9. ASSUME b = Body
          PROVE  Beside(Q, P)
      BY <2>2, <3>6, <3>7, <3>9, BesideAgain, Zenon
    <3>10. Len(Q.seq[b]) < Len(v.P.seq[b])
      <4>1. Len(v.P.seq[b]) \in Nat
        BY <2>2, PlacedFacts, InRange
      <4> QED
        BY <2>2, <2>5, <3>1, <3>6, <3>7, <4>1
    <3>11. Len(Q.seq[b]) <= N - n
      <4>1. Len(v.P.seq[b]) \in Nat /\ Len(Q.seq[b]) \in Nat
        BY <2>2, <3>7, PlacedFacts, InRange
      <4>2. Len(v.P.seq[b]) <= N - (n - 1)
        BY <2>2, <2>5
      <4> QED
        BY <1>1, <3>10, <4>1, <4>2
    <3>12. r.passed \in Nat /\ (~r.ok => r.passed < Len(Q.seq[b]))
      BY <1>3, <3>4, <3>7
    <3>13. Good(z, n)
      BY <3>5, <3>7, <3>8, <3>9, <3>11, <3>12
    <3>14. Good(x[n], n)
      <4> HIDE DEF Good
      <4> QED
        BY <2>3, <3>13
    <3>15. n \in 0 .. N
      BY <1>1
    <3> HIDE DEF Good
    <3> QED
      BY <3>14, <3>15
  <2> QED
    BY <2>4, <2>5
<1>6. N \in A
  <2>1. \A n \in 1 .. N : n - 1 \in A => n \in A
    BY <1>5
  <2> HIDE DEF A
  <2>2. 0 .. N \subseteq A
    BY <1>1, <1>4, <2>1, UpTo
  <2> QED
    BY <1>1, <2>2
<1>7. Good(y, N)
  BY <1>2, <1>6
<1>8. y.r.ok
  BY <1>7
<1> QED
  BY <1>7, <1>8

----------------------------------------------------------------------------
(* The structure of the program *)

LEMMA ProgramFields ==
  P0.seq = seq /\ P0.edges = edges /\ P0.breaks = breaks
BY DEF P0

LEMMA InitStructure ==
  ASSUME Init
  PROVE  Structure
<1>1. /\ mode = "generate" /\ curr = Top /\ made = For
      /\ stm = [n \in Nodes |-> IF n = For THEN [NoStm EXCEPT !.k = "for"] ELSE NoStm]
      /\ seq = [b \in Blocks |-> <<>>]
      /\ locals = FALSE /\ edges = {} /\ breaks = {} /\ need = {}
  BY DEF Init
<1>2. NoStm \in Statement /\ [NoStm EXCEPT !.k = "for"] \in Statement
  BY FixpointConstantsOK DEF Nodes, NoStm, Statement
<1>3. stm \in [Nodes -> Statement] /\ Fixed
  BY <1>1, <1>2, Small DEF Fixed, NoStm
<1>4. made \in For .. MaxNodes
  BY <1>1, FixpointConstantsOK DEF For
<1>5. \A b \in Blocks : seq[b] = <<>>
  BY <1>1
<1>6. \A b \in Blocks : Range(seq[b]) = {} /\ SeqOK(seq[b], b)
  <2>1. PICK t : t = <<>>
    OBVIOUS
  <2>2. Len(t) = 0 /\ t \in Seq(Nodes)
    BY <2>1
  <2>3. Range(t) = {}
    <3>1. Range(t) = {t[i] : i \in 1 .. Len(t)}
      BY <2>2, InRange
    <3>2. 1 .. 0 = {}
      OBVIOUS
    <3> QED
      BY <2>2, <3>1, <3>2
  <2>4. \A b \in Blocks : SeqOK(t, b)
    BY <2>2 DEF SeqOK
  <2> QED
    BY <1>5, <2>1, <2>3, <2>4
<1>7. P0 \in Program
  BY <1>1 DEF P0, Program
<1>8. WellFormed(P0)
  BY <1>1, <1>6, <1>7, ProgramFields, Small DEF WellFormed, Placed
<1>9. Follows(P0)
  BY <1>5, ProgramFields, Small DEF Follows, FromTailToHead
<1> QED
  BY <1>1, <1>3, <1>4, <1>5, <1>6, <1>8, <1>9, Small DEF Structure

\* The statements stay; only the scope of the loop body may grow.
LEMMA Carry ==
  ASSUME NEW Q, WellFormed(Q), P0' = Q, made' = made, stm' = stm, locals => locals'
  PROVE  WellFormed(P0)'
<1>1. \A b \in Blocks : Scope(b) \subseteq Scope(b)' /\ Reach(b)' = Reach(b)
  BY DEF Scope, Reach
<1>2. \A n, b \in Nodes : b \in Blocks /\ StmOK(n, b) => StmOK(n, b)'
  BY <1>1 DEF StmOK
<1>3. ASSUME NEW b \in Blocks
      PROVE  SeqOK(Q.seq[b], b)'
  <2>1. SeqOK(Q.seq[b], b) /\ b \in Nodes
    BY Small DEF WellFormed
  <2>2. \A i \in 1 .. Len(Q.seq[b]) : Q.seq[b][i] \in Nodes
    BY InRange DEF WellFormed, Program
  <2> QED
    BY <1>2, <2>1, <2>2 DEF SeqOK
<1>4. \A n : IsGoto(n)' <=> IsGoto(n)
  BY DEF IsGoto
<1>5. \A e \in Q.edges : EdgeOK(Q, e)'
  BY <1>4 DEF WellFormed, EdgeOK
<1>6. \A n \in Placed(Q) : JumpOK(Q, n)'
  BY <1>4 DEF WellFormed, JumpOK
<1>7. WellFormed(Q)'
  BY <1>3, <1>5, <1>6 DEF WellFormed
<1> QED
  BY <1>7 DEF WellFormed

\* A new statement n in block c.
LEMMA Grow ==
  ASSUME Structure, NEW n, n = made + 1, n \in Nodes, NEW c \in Blocks,
         made' = n, locals' = locals, stm' \in [Nodes -> Statement],
         \A v \in Nodes : v # n => stm'[v] = stm[v],
         seq' \in [Blocks -> Seq(Nodes)],
         Range(seq'[c]) = Range(seq[c]) \cup {n},
         \A b \in Blocks : b # c => seq'[b] = seq[b],
         SeqOK(seq[c], c)',
         edges \subseteq edges', edges' \subseteq Edges,
         \A e \in Edges : e \in edges' => e \in edges \/ EdgeOK(P0, e)',
         JumpOK(P0, n)',
         breaks \subseteq breaks', breaks' \subseteq breaks \cup {n},
         n \in breaks' => c = Body /\ stm'[n].k = "break"
  PROVE  /\ WellFormed(P0)' /\ Fixed'
         /\ \A b \in Blocks : For \in Range(seq[b]) <=> For \in Range(seq'[b])
<1>1. /\ made \in For .. MaxNodes /\ n \in Nat /\ For < n /\ n # For /\ n # Top /\ n # Body
      /\ n \in For .. MaxNodes
  BY Small DEF Structure, Nodes, For, Top, Body
<1>2. WellFormed(P0) /\ P0.seq = seq /\ P0.edges = edges /\ P0.breaks = breaks
  BY ProgramFields DEF Structure
<1>3. P0'.seq = seq' /\ P0'.edges = edges' /\ P0'.breaks = breaks'
  BY DEF P0
<1>4. \A v \in Nodes : v # n => (IsGoto(v)' <=> IsGoto(v))
  BY DEF IsGoto
<1>5. \A v \in Placed(P0) : v \in Nodes /\ v # n
  <2>1. \A b \in Blocks : \A v \in Range(seq[b]) : v \in For .. made /\ v \in Nodes
    BY <1>2, PlacedFacts DEF StmOK
  <2> QED
    BY <1>1, <1>2, <2>1, Small DEF Placed
<1>6. \A b \in Blocks : Range(seq[b]) \subseteq Range(seq'[b]) /\ Range(seq'[b]) \subseteq Range(seq[b]) \cup {n}
  OBVIOUS
<1>7. Placed(P0)' = Placed(P0) \cup {n} /\ Placed(P0)' = Range(seq'[Top]) \cup Range(seq'[Body])
  BY <1>2, <1>3, <1>6, Small DEF Placed
<1>8. P0' \in Program
  <2>1. breaks' \subseteq Nodes
    BY <1>2 DEF WellFormed, Program
  <2> QED
    BY <2>1 DEF P0, Program
<1>9. ASSUME NEW b \in Blocks
      PROVE  SeqOK(seq[b], b)'
  <2>1. CASE b = c
    BY <2>1 DEF SeqOK
  <2>2. CASE b # c
    <3>1. seq[b]' = seq[b] /\ SeqOK(seq[b], b) /\ seq[b] \in Seq(Nodes)
      BY <1>2, <2>2, PlacedFacts DEF WellFormed
    <3>2. ASSUME NEW v \in Range(seq[b]), StmOK(v, b)
          PROVE  StmOK(v, b)'
      <4>1. v \in Nodes /\ v # n /\ v \in Placed(P0)
        BY <1>2, <1>5, PlacedFacts
      <4>2. Scope(b)' = Scope(b) /\ Reach(b)' = Reach(b)
        BY DEF Scope, Reach
      <4>3. v \in For .. n
        BY <1>1, <3>2 DEF StmOK
      <4>4. stm'[v] = stm[v]
        BY <4>1
      <4> QED
        BY <3>2, <4>2, <4>3, <4>4 DEF StmOK
    <3>3. \A i \in 1 .. Len(seq[b]) : seq[b][i] \in Range(seq[b]) /\ stm'[seq[b][i]] = stm[seq[b][i]]
      <4>1. \A v \in Range(seq[b]) : v \in Nodes /\ v # n
        BY <1>2, <1>5, PlacedFacts
      <4>2. \A i \in 1 .. Len(seq[b]) : seq[b][i] \in Range(seq[b])
        BY <3>1, InRange
      <4> QED
        BY <4>1, <4>2
    <3>4. PICK t \in Seq(Nodes) : t = seq[b]
      BY <3>1
    <3>5. \A v : v \in Range(t) => StmOK(v, b)'
      <4>1. \A v \in Range(t) : StmOK(v, b)
        BY <1>2, <3>4, PlacedFacts
      <4> QED
        BY <3>2, <3>4, <4>1
    <3>6. SeqOK(t, b) /\ Len(t) \in Nat /\ \A i \in 1 .. Len(t) : t[i] \in Range(t) /\ stm'[t[i]] = stm[t[i]]
      BY <3>1, <3>3, <3>4
    <3>7. SeqOK(t, b)'
      <4>1. \A i \in 1 .. Len(t) : StmOK(t[i], b)'
        BY <3>5, <3>6
      <4>2. \A i, j \in 1 .. Len(t) : i < j => t[i] # t[j] /\ stm'[t[i]].k # "return"
        BY <3>6 DEF SeqOK
      <4> QED
        BY <4>1, <4>2 DEF SeqOK
    <3> QED
      BY <3>1, <3>4, <3>7 DEF SeqOK
  <2> QED
    BY <2>1, <2>2
<1>10. Range(seq'[Top]) \cap Range(seq'[Body]) = {}
  <2>1. Range(seq[Top]) \cap Range(seq[Body]) = {} /\ n \notin Range(seq[Top]) /\ n \notin Range(seq[Body])
    BY <1>2, <1>5 DEF WellFormed, Placed
  <2> QED
    BY <2>1, Small
<1>11. \A b \in Blocks : For \in Range(seq[b]) <=> For \in Range(seq'[b])
  BY <1>1, <1>6
<1>12. ASSUME NEW e \in edges
       PROVE  EdgeOK(P0, e)'
  <2>1. EdgeOK(P0, e) /\ e \in Edges
    BY <1>2 DEF WellFormed, Program
  <2>2. CASE /\ e.src \in Placed(P0) /\ IsGoto(e.src)
             /\ e.dest = stm[e.src].to /\ e.dest \in Range(seq[Top]) /\ ~e.post
    <3>1. e.src \in Nodes /\ e.src # n
      BY <1>5, <2>2
    <3>2. IsGoto(e.src)' /\ e.dest = stm'[e.src].to
      BY <1>4, <2>2, <3>1
    <3>3. e.dest \in Range(seq'[Top]) /\ e.src \in Placed(P0)'
      BY <1>6, <1>7, <2>2, Small
    <3> QED
      BY <1>3, <2>2, <3>2, <3>3 DEF EdgeOK
  <2>3. CASE /\ e.src \in Range(seq[Body]) /\ stm[e.src].k = "continue"
             /\ e.dest = Body /\ ~e.post /\ e.back
    <3>1. e.src \in Nodes /\ e.src # n /\ e.src \in Range(seq'[Body])
      BY <1>2, <1>5, <1>6, <2>3, Small DEF Placed
    <3> QED
      BY <1>3, <2>3, <3>1 DEF EdgeOK
  <2>4. CASE e.src = Body /\ e.dest = Body /\ ~e.post /\ e.back
    BY <2>4 DEF EdgeOK
  <2>5. CASE e.src \in breaks /\ e.dest = For /\ For \in Range(seq[Top]) /\ e.post /\ ~e.back
    BY <1>3, <1>11, <2>5, Small DEF EdgeOK
  <2> QED
    BY <1>2, <2>1, <2>2, <2>3, <2>4, <2>5 DEF EdgeOK
<1>13. ASSUME NEW v \in Placed(P0)
       PROVE  JumpOK(P0, v)'
  <2>1. JumpOK(P0, v) /\ v \in Nodes /\ v # n /\ stm'[v] = stm[v] /\ (IsGoto(v)' <=> IsGoto(v))
    BY <1>2, <1>4, <1>5 DEF WellFormed
  <2>2. ASSUME IsGoto(v)
        PROVE  /\ stm'[v].to \in Range(seq'[Top])
               /\ \E e \in edges' : e.src = v /\ e.dest = stm'[v].to /\ ~e.post
    BY <1>2, <1>6, <2>1, <2>2, Small DEF JumpOK
  <2>3. stm'[v].k = "continue" => Edge(v, Body, FALSE, TRUE) \in edges'
    BY <1>2, <2>1 DEF JumpOK
  <2>4. stm'[v].k = "break" =>
          v \in breaks' /\ (For \in Range(seq'[Top]) => Edge(v, For, TRUE, FALSE) \in edges')
    BY <1>2, <1>11, <2>1, Small DEF JumpOK
  <2>5. Edge(v, Body, FALSE, TRUE)' = Edge(v, Body, FALSE, TRUE) /\ Edge(v, For, TRUE, FALSE)' = Edge(v, For, TRUE, FALSE)
    BY DEF Edge
  <2> QED
    BY <1>3, <2>1, <2>2, <2>3, <2>4, <2>5 DEF JumpOK
<1>14. \A v \in breaks' : v \in Range(seq'[Body]) /\ stm'[v].k = "break"
  <2>1. \A v \in breaks : v \in Range(seq[Body]) /\ stm[v].k = "break"
    BY <1>2 DEF WellFormed
  <2>2. \A v \in Range(seq[Body]) : v \in Nodes /\ v # n
    BY <1>2, <1>5 DEF Placed
  <2> QED
    BY <1>6, <2>1, <2>2, Small
<1>15. WellFormed(P0)'
  BY <1>3, <1>7, <1>8, <1>9, <1>10, <1>12, <1>13, <1>14 DEF WellFormed
<1>16. Fixed'
  BY <1>1, Small DEF Structure, Fixed
<1> QED
  BY <1>11, <1>15, <1>16

LEMMA AppendRange ==
  ASSUME NEW t \in Seq(Nodes), NEW n \in Nodes, NEW u, u = Append(t, n)
  PROVE  /\ u \in Seq(Nodes) /\ Range(u) = Range(t) \cup {n} /\ Len(u) = Len(t) + 1 /\ Last(u) = n /\ u # <<>>
         /\ \A i \in 1 .. Len(t) : u[i] = t[i] /\ i \in 1 .. Len(u)
         /\ u[Len(u)] = n /\ Len(u) \in 1 .. Len(u)
         /\ \A i \in 1 .. Len(u) : i \in 1 .. Len(t) \/ i = Len(u)
<1>1. /\ u \in Seq(Nodes) /\ Len(u) = Len(t) + 1 /\ Len(t) \in Nat
      /\ \A i \in 1 .. Len(t) : u[i] = t[i] /\ i \in 1 .. Len(u)
      /\ u[Len(u)] = n /\ Len(u) \in 1 .. Len(u)
      /\ \A i \in 1 .. Len(u) : i \in 1 .. Len(t) \/ i = Len(u)
  OBVIOUS
<1>2. \A v \in Range(t) : \E i \in 1 .. Len(t) : t[i] = v
  BY InRange
<1>3. /\ \A v \in Range(u) : \E i \in 1 .. Len(u) : u[i] = v
      /\ \A i \in 1 .. Len(u) : u[i] \in Range(u)
  BY <1>1, InRange
<1>4. \A i \in 1 .. Len(t) : t[i] \in Range(t)
  BY InRange
<1>5. Range(u) = Range(t) \cup {n}
  BY <1>1, <1>2, <1>3, <1>4
<1>6. u # <<>> /\ Last(u) = n
  <2>1. u # <<>>
    BY <1>1
  <2>2. Last(u) = u[Len(u)]
    BY <1>1, <2>1, InRange
  <2> QED
    BY <1>1, <2>1, <2>2
<1> QED
  BY <1>1, <1>5, <1>6

\* One more statement at the end of the block under construction.
LEMMA AddStructure ==
  ASSUME Structure, Adding, NEW st \in Statement, Add(st), NEW n, n = made + 1, StmOK(n, curr)',
         edges \subseteq edges', edges' \subseteq Edges,
         \A e \in Edges : e \in edges' => e \in edges \/ EdgeOK(P0, e)',
         JumpOK(P0, n)',
         breaks \subseteq breaks', breaks' \subseteq breaks \cup {n},
         n \in breaks' => curr = Body /\ st.k = "break",
         need' \subseteq {Top}, st.k = "goto" /\ curr = Body => st.to # For
  PROVE  Structure'
<1>1. /\ mode' = mode /\ curr' = curr /\ locals' = locals /\ made' = n
      /\ stm' = [stm EXCEPT ![n] = st] /\ seq' = [seq EXCEPT ![curr] = Append(@, n)]
      /\ mode = "generate" /\ made < MaxNodes /\ ~Closed(curr)
  BY DEF Add, Adding
<1>2. /\ curr \in Blocks /\ stm \in [Nodes -> Statement] /\ made \in For .. MaxNodes
      /\ WellFormed(P0) /\ P0.seq = seq /\ P0.edges = edges /\ P0.breaks = breaks
      /\ locals \in BOOLEAN
  BY ProgramFields DEF Structure
<1>3. n \in Nodes /\ made' \in For .. MaxNodes /\ n # For /\ n # Top /\ n # Body /\ n \in Nat
  BY <1>1, <1>2, FixpointConstantsOK DEF Nodes, For, Top, Body
<1>4. stm' \in [Nodes -> Statement] /\ stm'[n] = st /\ \A v \in Nodes : v # n => stm'[v] = stm[v]
  BY <1>1, <1>2, <1>3
<1>5. seq \in [Blocks -> Seq(Nodes)]
  BY <1>2 DEF WellFormed, Program
<1>6. PICK t : t = seq[curr] /\ t \in Seq(Nodes)
  BY <1>2, <1>5
<1>7. PICK u : u = seq'[curr] /\ u = Append(t, n)
  BY <1>1, <1>2, <1>5, <1>6
<1>8. /\ u \in Seq(Nodes) /\ Range(u) = Range(t) \cup {n} /\ Len(u) = Len(t) + 1
      /\ \A i \in 1 .. Len(t) : u[i] = t[i] /\ i \in 1 .. Len(u)
      /\ u[Len(u)] = n /\ Len(u) \in 1 .. Len(u)
      /\ \A i \in 1 .. Len(u) : i \in 1 .. Len(t) \/ i = Len(u)
  <2>1. n \in Nodes /\ t \in Seq(Nodes) /\ u = Append(t, n)
    BY <1>3, <1>6, <1>7
  <2>2. \A q \in Seq(Nodes), v \in Nodes : Range(Append(q, v)) = Range(q) \cup {v}
    BY AppendRange
  <2>3. Range(u) = Range(t) \cup {n}
    BY <2>1, <2>2
  <2> QED
    BY <2>1, <2>3
<1>9. /\ seq' \in [Blocks -> Seq(Nodes)] /\ Range(seq'[curr]) = Range(seq[curr]) \cup {n}
      /\ \A b \in Blocks : b # curr => seq'[b] = seq[b]
  BY <1>1, <1>2, <1>5, <1>6, <1>7, <1>8
<1>10. \A v \in Range(t) : v \in Nodes /\ v \in For .. made /\ v # n /\ StmOK(v, curr)
  <2>1. \A v \in Range(t) : v \in Nodes /\ StmOK(v, curr)
    BY <1>2, <1>6, PlacedFacts
  <2> QED
    BY <1>2, <1>3, <2>1 DEF StmOK
<1>11. SeqOK(seq[curr], curr)'
  <2>1. SeqOK(t, curr)
    BY <1>2, <1>6 DEF WellFormed
  <2>2. \A i \in 1 .. Len(t) : t[i] \in Range(t)
    BY <1>6, InRange
  <2>3. \A v : v \in Range(t) => StmOK(v, curr)'
    <3>1. SUFFICES ASSUME NEW v \in Range(t)
                   PROVE  StmOK(v, curr)'
      OBVIOUS
    <3>2. Scope(curr)' = Scope(curr) /\ Reach(curr)' = Reach(curr)
      BY <1>1 DEF Scope, Reach
    <3>3. stm'[v] = stm[v] /\ v \in For .. made'
      BY <1>1, <1>2, <1>4, <1>10
    <3>4. StmOK(v, curr)
      BY <1>10
    <3> QED
      BY <1>1, <3>2, <3>3, <3>4 DEF StmOK
  <2>4. PICK c : c = curr /\ c = curr'
    BY <1>1
  <2>5. \A i \in 1 .. Len(u) : StmOK(u[i], c)'
    <3>1. StmOK(n, c)'
      BY <2>4 DEF StmOK
    <3>2. \A i \in 1 .. Len(t) : StmOK(t[i], c)'
      BY <2>2, <2>3, <2>4 DEF StmOK
    <3> QED
      BY <1>8, <3>1, <3>2
  <2>6. ASSUME NEW i \in 1 .. Len(u), NEW j \in 1 .. Len(u), i < j
        PROVE  u[i] # u[j] /\ stm'[u[i]].k # "return"
    <3>1. i \in 1 .. Len(t) /\ u[i] = t[i] /\ t[i] \in Range(t)
      BY <1>8, <2>2, <2>6
    <3>2. stm'[u[i]] = stm[t[i]]
      BY <1>4, <1>10, <3>1
    <3>3. CASE j \in 1 .. Len(t)
      BY <1>8, <2>1, <2>6, <3>1, <3>2, <3>3 DEF SeqOK
    <3>4. CASE j = Len(u)
      <4>1. u[i] # u[j]
        BY <1>8, <1>10, <3>1, <3>4
      <4>2. ASSUME stm[t[i]].k = "return"
            PROVE  FALSE
        <5>1. i = Len(t)
          BY <1>6, <2>1, <3>1, <4>2 DEF SeqOK
        <5>2. t # <<>> /\ Last(t) = t[i]
          BY <1>6, <3>1, <5>1, InRange
        <5> QED
          BY <1>1, <1>6, <4>2, <5>2 DEF Closed
      <4> QED
        BY <3>2, <4>1, <4>2
    <3> QED
      BY <1>8, <3>3, <3>4
  <2>7. SeqOK(u, c)'
    BY <2>5, <2>6 DEF SeqOK
  <2> QED
    BY <1>1, <1>7, <2>4, <2>7 DEF SeqOK
<1>12. /\ WellFormed(P0)' /\ Fixed'
       /\ \A b \in Blocks : For \in Range(seq[b]) <=> For \in Range(seq'[b])
  BY <1>1, <1>2, <1>3, <1>4, <1>9, <1>11, Grow
<1>13. CASE curr = Body
  <2>1. For \notin Range(seq[Top]) /\ ~Closed(Top)
    BY <1>13 DEF Structure
  <2>2. seq'[Top] = seq[Top]
    BY <1>9, <1>13, Small
  <2>3. seq[Top] # <<>> => Last(seq[Top]) \in Nodes /\ Last(seq[Top]) # n
    <3>1. seq[Top] # <<>> => Last(seq[Top]) \in Range(seq[Top])
      BY <1>5, InRange, Small
    <3>2. \A v \in Range(seq[Top]) : v \in Nodes /\ StmOK(v, Top)
      BY <1>2, PlacedFacts, Small
    <3> QED
      BY <1>2, <3>1, <3>2 DEF StmOK
  <2>4. ~Closed(Top)'
    BY <1>4, <2>1, <2>2, <2>3 DEF Closed
  <2>5. "around" \notin Jumps => \A v \in Range(seq'[Body]) : IsGoto(v)' => stm'[v].to # For
    <3>1. SUFFICES ASSUME "around" \notin Jumps, NEW v \in Range(t) \cup {n}, stm'[v].k = "goto"
                   PROVE  stm'[v].to # For
      BY <1>6, <1>9, <1>13 DEF IsGoto
    <3>2. CASE v = n
      BY <1>4, <1>13, <3>1, <3>2
    <3>3. CASE v # n
      BY <1>4, <1>6, <1>10, <1>13, <3>1, <3>3 DEF Structure, IsGoto
    <3> QED
      BY <3>2, <3>3
  <2> QED
    BY <1>1, <1>2, <1>3, <1>4, <1>12, <1>13, <2>1, <2>4, <2>5, Small DEF Structure
<1>14. CASE curr = Top
  <2>1. Follows(P0) /\ (For \notin Range(seq[Top]) => seq[Body] = <<>> /\ ~locals)
    BY <1>1, <1>14, Small DEF Structure
  <2>2. seq'[Body] = seq[Body]
    BY <1>9, <1>14, Small
  <2>3. \A v \in Range(seq[Body]) : v \in Nodes /\ v # n
    <3>1. \A v \in Range(seq[Body]) : v \in Nodes /\ StmOK(v, Body)
      BY <1>2, PlacedFacts, Small
    <3> QED
      BY <1>2, <3>1 DEF StmOK
  <2>4. seq[Body] # <<>> => Last(seq[Body]) \in Range(seq[Body])
    BY <1>5, InRange, Small
  <2>5. Follows(P0)'
    <3>1. P0'.seq = seq' /\ P0'.edges = edges'
      BY DEF P0
    <3> QED
      BY <1>2, <1>4, <2>1, <2>2, <2>3, <2>4, <3>1 DEF Follows, FromTailToHead, Edge
  <2>6. "around" \notin Jumps => \A v \in Range(seq'[Body]) : IsGoto(v)' => stm'[v].to # For
    BY <1>4, <2>2, <2>3 DEF Structure, IsGoto
  <2> QED
    BY <1>1, <1>2, <1>3, <1>4, <1>12, <1>14, <2>1, <2>2, <2>5, <2>6, Small DEF Structure
<1> QED
  BY <1>2, <1>13, <1>14, Small

LEMMA AddFacts ==
  ASSUME Structure, Adding, NEW st, Add(st), NEW n, n = made + 1
  PROVE  /\ n \in Nodes /\ n # For /\ n # Top /\ n # Body /\ made' = n /\ n \in For .. made'
         /\ stm'[n] = st /\ seq'[curr] = Append(seq[curr], n) /\ n \in Range(seq'[curr])
         /\ seq[curr] \in Seq(Nodes)
         /\ \A b \in Blocks : Range(seq[b]) \subseteq Range(seq'[b])
         /\ \A b \in Blocks : b # curr => seq'[b] = seq[b]
         /\ locals' = locals /\ curr' = curr /\ curr \in Blocks
         /\ Scope(curr)' = Scope(curr) /\ Reach(curr)' = Reach(curr)
         /\ breaks \subseteq Nodes /\ edges \subseteq Edges /\ n \notin breaks /\ need \subseteq {Top}
<1>1. /\ made' = n /\ stm' = [stm EXCEPT ![n] = st] /\ seq' = [seq EXCEPT ![curr] = Append(@, n)]
      /\ made < MaxNodes /\ made \in For .. MaxNodes /\ stm \in [Nodes -> Statement]
      /\ curr \in Blocks /\ locals' = locals /\ curr' = curr
      /\ WellFormed(P0) /\ P0.seq = seq
  BY ProgramFields DEF Structure, Add, Adding
<1>2. n \in Nodes /\ n # For /\ n # Top /\ n # Body /\ n \in For .. made'
  BY <1>1, FixpointConstantsOK DEF Nodes, For, Top, Body
<1>3. seq \in [Blocks -> Seq(Nodes)]
  BY <1>1 DEF WellFormed, Program
<1>4. seq[curr] \in Seq(Nodes) /\ seq'[curr] = Append(seq[curr], n) /\ stm'[n] = st
  BY <1>1, <1>2, <1>3
<1>5. \A b \in Blocks : b # curr => seq'[b] = seq[b]
  BY <1>1, <1>3
<1>6. \A q \in Seq(Nodes), v \in Nodes : Range(Append(q, v)) = Range(q) \cup {v}
  BY AppendRange
<1>7. Range(seq'[curr]) = Range(seq[curr]) \cup {n}
  BY <1>2, <1>4, <1>6
<1>8. Scope(curr)' = Scope(curr) /\ Reach(curr)' = Reach(curr)
  BY <1>1 DEF Scope, Reach
<1>9. breaks \subseteq Nodes /\ edges \subseteq Edges /\ n \notin breaks /\ need \subseteq {Top}
  <2>1. need \subseteq {Top} /\ P0.breaks = breaks /\ P0.edges = edges
    BY ProgramFields DEF Structure
  <2>2. \A v \in breaks : v \in For .. made
    BY <1>1, <2>1, PlacedFacts, Small DEF WellFormed, StmOK
  <2> QED
    BY <1>1, <2>1, <2>2, Small DEF WellFormed, Program
<1> QED
  BY <1>1, <1>2, <1>4, <1>5, <1>7, <1>8, <1>9

LEMMA AssignStructure ==
  ASSUME Structure, NEW st \in Assigns, MakeAssign(st)
  PROVE  Structure'
<1>1. PICK n : n = made + 1
  OBVIOUS
<1>2. Adding /\ Add(st) /\ InScope(st.to) /\ InScope(st.of) /\ edges' = edges /\ breaks' = breaks /\ need' = need
  BY DEF MakeAssign
<1>3. n \in Nodes /\ n # For /\ stm'[n] = st /\ n \in For .. made' /\ curr' = curr /\ curr \in Blocks
      /\ Scope(curr)' = Scope(curr) /\ Reach(curr)' = Reach(curr)
  BY <1>1, <1>2, AddFacts
<1>4. breaks \subseteq Nodes /\ edges \subseteq Edges /\ n \notin breaks /\ need \subseteq {Top}
  BY <1>1, <1>2, AddFacts
<1>5. /\ st \in Statement /\ st.k \in {"value", "copy"} /\ st.to \in Ptr
      /\ st.k = "value" => st.of \in Target
      /\ st.k = "copy" => st.of \in Ptr
  BY FixpointConstantsOK DEF Statement
<1>6. st.to \in Scope(curr)
  BY <1>2, <1>5 DEF InScope, Scope, Global
<1>7. /\ st.k = "value" => st.of \in Reach(curr)
      /\ st.k = "copy" => st.of \in Scope(curr)
  BY <1>2, <1>5 DEF InScope, Scope, Reach, Global
<1>8. StmOK(n, curr)'
  BY <1>3, <1>5, <1>6, <1>7 DEF StmOK
<1>9. JumpOK(P0, n)'
  BY <1>3, <1>5 DEF JumpOK, IsGoto
<1> QED
  BY <1>1, <1>2, <1>5, <1>8, <1>9, <1>4, AddStructure

LEMMA DerefStructure ==
  ASSUME Structure, NEW p \in Derefs, MakeDeref(p)
  PROVE  Structure'
<1> DEFINE st == [k |-> "deref", of |-> p, to |-> 0]
<1>1. PICK n : n = made + 1
  OBVIOUS
<1>2. Adding /\ Add(st) /\ InScope(p) /\ edges' = edges /\ breaks' = breaks /\ need' = need
  BY DEF MakeDeref
<1>3. /\ st \in Statement /\ st.k = "deref" /\ st.of = p /\ p \in Ptr
  BY FixpointConstantsOK, Small DEF Statement, Top
<1> HIDE DEF st
<1>4. n \in Nodes /\ n # For /\ stm'[n] = st /\ n \in For .. made' /\ curr' = curr /\ curr \in Blocks
      /\ Scope(curr)' = Scope(curr)
  BY <1>1, <1>2, AddFacts
<1>5. breaks \subseteq Nodes /\ edges \subseteq Edges /\ n \notin breaks /\ need \subseteq {Top}
  BY <1>1, <1>2, AddFacts
<1>6. p \in Scope(curr)
  BY <1>2, <1>3 DEF InScope, Scope, Global
<1>7. StmOK(n, curr)'
  BY <1>3, <1>4, <1>6 DEF StmOK
<1>8. JumpOK(P0, n)'
  BY <1>3, <1>4 DEF JumpOK, IsGoto
<1> QED
  BY <1>1, <1>2, <1>3, <1>5, <1>7, <1>8, AddStructure

LEMMA ReturnStructure ==
  ASSUME Structure, MakeReturn
  PROVE  Structure'
<1> DEFINE st == [NoStm EXCEPT !.k = "return"]
<1>1. PICK n : n = made + 1
  OBVIOUS
<1>2. Adding /\ Add(st) /\ edges' = edges /\ breaks' = breaks /\ need' = need
  BY DEF MakeReturn
<1>3. /\ st \in Statement /\ st.k = "return"
  BY Small DEF Statement, NoStm, Top
<1> HIDE DEF st
<1>4. n \in Nodes /\ n # For /\ stm'[n] = st /\ n \in For .. made' /\ curr' = curr /\ curr \in Blocks
  BY <1>1, <1>2, AddFacts
<1>5. breaks \subseteq Nodes /\ edges \subseteq Edges /\ n \notin breaks /\ need \subseteq {Top}
  BY <1>1, <1>2, AddFacts
<1>6. StmOK(n, curr)'
  BY <1>3, <1>4 DEF StmOK
<1>7. JumpOK(P0, n)'
  BY <1>3, <1>4 DEF JumpOK, IsGoto
<1> QED
  BY <1>1, <1>2, <1>3, <1>5, <1>6, <1>7, AddStructure

LEMMA BreakStructure ==
  ASSUME Structure, MakeBreak
  PROVE  Structure'
<1> DEFINE st == [NoStm EXCEPT !.k = "break"]
<1>1. PICK n : n = made + 1
  OBVIOUS
<1>2. /\ Adding /\ Add(st) /\ edges' = edges /\ breaks' = breaks \cup {n} /\ need' = need
      /\ curr = Body
  BY <1>1 DEF MakeBreak
<1>3. /\ st \in Statement /\ st.k = "break"
  BY Small DEF Statement, NoStm, Top
<1> HIDE DEF st
<1>4. n \in Nodes /\ n # For /\ stm'[n] = st /\ n \in For .. made' /\ curr' = curr /\ curr \in Blocks
      /\ \A b \in Blocks : b # curr => seq'[b] = seq[b]
  BY <1>1, <1>2, AddFacts
<1>5. breaks \subseteq Nodes /\ edges \subseteq Edges /\ n \notin breaks /\ need \subseteq {Top}
  BY <1>1, <1>2, AddFacts
<1>6. For \notin Range(seq'[Top])
  BY <1>2, <1>4, Small DEF Structure
<1>7. StmOK(n, curr)'
  BY <1>2, <1>3, <1>4 DEF StmOK
<1>8. JumpOK(P0, n)'
  BY <1>2, <1>3, <1>4, <1>6, Zenon DEF P0, JumpOK, IsGoto
<1> QED
  BY <1>1, <1>2, <1>3, <1>5, <1>7, <1>8, AddStructure

LEMMA ContinueStructure ==
  ASSUME Structure, MakeContinue
  PROVE  Structure'
<1> DEFINE st == [NoStm EXCEPT !.k = "continue"]
           e == Edge(made + 1, Body, FALSE, TRUE)
<1>1. PICK n : n = made + 1
  OBVIOUS
<1>2. /\ Adding /\ Add(st) /\ edges' = edges \cup {e} /\ breaks' = breaks /\ need' = need
      /\ curr = Body
  BY <1>1 DEF MakeContinue
<1>3. /\ st \in Statement /\ st.k = "continue"
  BY Small DEF Statement, NoStm, Top
<1> HIDE DEF st
<1>4. n \in Nodes /\ n # For /\ stm'[n] = st /\ n \in For .. made' /\ curr' = curr /\ curr \in Blocks
      /\ n \in Range(seq'[curr])
  BY <1>1, <1>2, AddFacts
<1>5. breaks \subseteq Nodes /\ edges \subseteq Edges /\ n \notin breaks /\ need \subseteq {Top}
  BY <1>1, <1>2, AddFacts
<1>6. PICK g : g = [src |-> n, dest |-> Body, post |-> FALSE, back |-> TRUE]
  OBVIOUS
<1>7. g = e /\ g \in Edges
  BY <1>1, <1>4, <1>6, Small DEF Edge, Edges
<1> HIDE DEF e
<1>8. P0'.seq = seq' /\ P0'.breaks = breaks' /\ P0'.edges = edges'
  BY DEF P0
<1>9. edges' = edges \cup {g}
  BY <1>2, <1>7
<1>10. EdgeOK(P0, g)'
  BY <1>2, <1>3, <1>4, <1>6, <1>8 DEF EdgeOK
<1>11. StmOK(n, curr)'
  BY <1>2, <1>3, <1>4 DEF StmOK
<1>12. JumpOK(P0, n)'
  BY <1>3, <1>4, <1>6, <1>8, <1>9 DEF JumpOK, IsGoto, Edge
<1>13. \A h \in Edges : h \in edges' => h \in edges \/ EdgeOK(P0, h)'
  BY <1>9, <1>10
<1>14. edges \subseteq edges' /\ edges' \subseteq Edges
  BY <1>5, <1>7, <1>9
<1> QED
  BY <1>1, <1>2, <1>3, <1>5, <1>11, <1>12, <1>13, <1>14, AddStructure

LEMMA GotoBackStructure ==
  ASSUME Structure, NEW d \in Nodes, MakeGotoBack(d)
  PROVE  Structure'
<1> DEFINE st == [NoStm EXCEPT !.k = "goto", !.to = d]
           e == Edge(made + 1, d, FALSE, TRUE)
<1>1. PICK n : n = made + 1
  OBVIOUS
<1>2. /\ Adding /\ Add(st) /\ edges' = edges \cup {e} /\ breaks' = breaks /\ need' = need \cup {Top}
      /\ d \in Range(seq[Top])
  BY <1>1 DEF MakeGotoBack
<1>3. /\ st \in Statement /\ st.k = "goto" /\ st.to = d
  BY Small DEF Statement, NoStm, Top
<1> HIDE DEF st
<1>4. n \in Nodes /\ n # For /\ stm'[n] = st /\ n \in For .. made' /\ curr' = curr /\ curr \in Blocks
      /\ n \in Range(seq'[curr]) /\ d \in Range(seq'[Top])
  BY <1>1, <1>2, AddFacts, Small
<1>5. breaks \subseteq Nodes /\ edges \subseteq Edges /\ n \notin breaks /\ need \subseteq {Top}
  BY <1>1, <1>2, AddFacts
<1>6. PICK g : g = [src |-> n, dest |-> d, post |-> FALSE, back |-> TRUE]
  OBVIOUS
<1>7. g = e /\ g \in Edges
  BY <1>1, <1>4, <1>6, Small DEF Edge, Edges
<1> HIDE DEF e
<1>8. P0'.seq = seq' /\ P0'.breaks = breaks' /\ P0'.edges = edges'
  BY DEF P0
<1>9. edges' = edges \cup {g}
  BY <1>2, <1>7
<1>10. EdgeOK(P0, g)'
  BY <1>3, <1>4, <1>6, <1>8, Small DEF Placed, EdgeOK, IsGoto
<1>11. StmOK(n, curr)'
  BY <1>2, <1>3, <1>4 DEF StmOK
<1>12. JumpOK(P0, n)'
  <2>1. \E h \in edges' : h.src = n /\ h.dest = d /\ ~h.post
    BY <1>6, <1>9
  <2> QED
    BY <1>3, <1>4, <1>8, <2>1 DEF JumpOK, IsGoto
<1>13. \A h \in Edges : h \in edges' => h \in edges \/ EdgeOK(P0, h)'
  BY <1>9, <1>10
<1>14. edges \subseteq edges' /\ edges' \subseteq Edges
  BY <1>5, <1>7, <1>9
<1>15. st.k = "goto" /\ curr = Body => st.to # For
  BY <1>2, <1>3 DEF Structure
<1> QED
  BY <1>1, <1>2, <1>3, <1>5, <1>11, <1>12, <1>13, <1>14, <1>15, AddStructure

LEMMA InsertFacts ==
  ASSUME NEW t \in Seq(Nodes), NEW k \in 1 .. Len(t), NEW n \in Nodes, NEW u, u = InsertAt(t, k + 1, n)
  PROVE  Inserted(u, t, k, n)
<1>1. Len(t) \in Nat /\ k \in Nat /\ k <= Len(t) /\ 1 <= k
  OBVIOUS
<1>2. PICK v : v = SubSeq(t, 1, k)
  OBVIOUS
<1>3. PICK w : w = SubSeq(t, k + 1, Len(t))
  OBVIOUS
<1>4. v \in Seq(Nodes) /\ Len(v) = k /\ \A i \in 1 .. k : v[i] = t[i]
  BY <1>1, <1>2
<1>5. w \in Seq(Nodes) /\ Len(w) = Len(t) - k /\ \A i \in 1 .. Len(t) - k : w[i] = t[k + i]
  BY <1>1, <1>3
<1>6. u = v \o <<n>> \o w
  <2>1. PICK j : j = k + 1
    OBVIOUS
  <2>2. j - 1 = k
    BY <1>1, <2>1
  <2>3. u = SubSeq(t, 1, j - 1) \o <<n>> \o SubSeq(t, j, Len(t))
    BY <2>1, Zenon DEF InsertAt
  <2> QED
    BY <1>2, <1>3, <2>1, <2>2, <2>3, Zenon
<1>7. PICK x : x = v \o <<n>>
  OBVIOUS
<1>8. x \in Seq(Nodes) /\ Len(x) = k + 1 /\ x[k + 1] = n /\ \A i \in 1 .. k : x[i] = t[i]
  BY <1>1, <1>4, <1>7
<1>9. PICK c : c = x \o w
  OBVIOUS
<1>10. /\ c \in Seq(Nodes) /\ Len(c) = Len(x) + Len(w)
       /\ \A i \in 1 .. Len(x) : c[i] = x[i]
       /\ \A i \in 1 .. Len(w) : c[Len(x) + i] = w[i]
  <2>1. x \in Seq(Nodes) /\ w \in Seq(Nodes)
    BY <1>5, <1>8
  <2>2. c \in Seq(Nodes)
    BY <2>1, <1>9
  <2>3. Len(c) = Len(x) + Len(w)
    BY <2>1, <1>9
  <2>4. \A i \in 1 .. Len(x) : c[i] = x[i]
    BY <2>1, <1>9
  <2>5. \A i \in 1 .. Len(w) : c[Len(x) + i] = w[i]
    BY <2>1, <1>9
  <2> QED
    BY <2>2, <2>3, <2>4, <2>5
<1>11. u = c
  BY <1>6, <1>7, <1>9, Zenon
<1>12. u \in Seq(Nodes) /\ Len(u) = Len(t) + 1
  BY <1>1, <1>5, <1>8, <1>10, <1>11
<1>13. u[k + 1] = n /\ k + 1 \in 1 .. Len(u) /\ \A i \in 1 .. k : u[i] = t[i] /\ i \in 1 .. Len(u)
  BY <1>1, <1>5, <1>8, <1>12, <1>10, <1>11
<1>14. ASSUME NEW i \in k + 1 .. Len(t)
       PROVE  u[i + 1] = t[i] /\ i + 1 \in 1 .. Len(u)
  <2>1. i - k \in 1 .. Len(t) - k /\ i + 1 \in 1 .. Len(u) /\ i + 1 = Len(x) + (i - k) /\ i = k + (i - k)
    BY <1>1, <1>8, <1>12
  <2>2. u[Len(x) + (i - k)] = w[i - k]
    BY <1>5, <1>8, <1>10, <1>11, <2>1
  <2> QED
    BY <1>5, <2>1, <2>2
<1>15. ASSUME NEW i \in 1 .. Len(u)
       PROVE  i \in 1 .. k \/ i = k + 1 \/ \E j \in k + 1 .. Len(t) : i = j + 1
  BY <1>12
<1>16. Range(u) = Range(t) \cup {n}
  <2>1. \A i \in 1 .. Len(t) : t[i] \in Range(t)
    BY InRange
  <2>2. \A i \in 1 .. Len(u) : u[i] \in Range(u)
    BY <1>12, InRange
  <2>3. ASSUME NEW y \in Range(u)
        PROVE  y \in Range(t) \cup {n}
    <3>1. PICK i \in 1 .. Len(u) : u[i] = y
      BY <1>12, InRange
    <3>2. CASE i \in 1 .. k
      BY <1>13, <2>1, <3>1, <3>2
    <3>3. CASE \E j \in k + 1 .. Len(t) : i = j + 1
      BY <1>14, <2>1, <3>1, <3>3
    <3> QED
      BY <1>13, <1>15, <3>1, <3>2, <3>3
  <2>4. ASSUME NEW y \in Range(t)
        PROVE  y \in Range(u)
    BY <1>1, <1>13, <1>14, <2>2, InRange
  <2> QED
    BY <1>13, <2>2, <2>3, <2>4
<1>17. Last(u) = IF k = Len(t) THEN n ELSE Last(t)
  <2>1. u # <<>> /\ t # <<>>
    BY <1>1, <1>12
  <2>2. Last(u) = u[Len(u)] /\ Last(t) = t[Len(t)]
    BY <1>12, <2>1, InRange
  <2>3. CASE k = Len(t)
    BY <1>12, <1>13, <2>2, <2>3
  <2>4. CASE k # Len(t)
    BY <1>12, <1>14, <2>2, <2>4
  <2> QED
    BY <2>3, <2>4
<1> QED
  BY <1>12, <1>13, <1>14, <1>16, <1>17 DEF Inserted

LEMMA PositionFacts ==
  ASSUME NEW t \in Seq(Nodes), NEW s \in Range(t)
  PROVE  Position(t, s) \in 1 .. Len(t) /\ t[Position(t, s)] = s
BY InRange DEF Position

\* A new goto n behind other, which is no return.
LEMMA InsertSeqOK ==
  ASSUME NEW b \in Blocks, NEW t \in Seq(Nodes), SeqOK(t, b), NEW k \in 1 .. Len(t), stm[t[k]].k # "return",
         NEW n \in Nodes, \A v \in Range(t) : v # n, NEW u, u = InsertAt(t, k + 1, n),
         \A v : v \in Range(t) => stm'[v] = stm[v], stm'[n].k # "return",
         \A v : v \in Range(t) => StmOK(v, b)', StmOK(n, b)'
  PROVE  SeqOK(u, b)'
<1>1. Inserted(u, t, k, n)
  BY InsertFacts
<1>2. /\ u \in Seq(Nodes) /\ Len(u) = Len(t) + 1 /\ u[k + 1] = n /\ k + 1 \in 1 .. Len(u)
      /\ \A i \in 1 .. k : u[i] = t[i] /\ i \in 1 .. Len(u)
      /\ \A i \in k + 1 .. Len(t) : u[i + 1] = t[i] /\ i + 1 \in 1 .. Len(u)
      /\ Range(u) = Range(t) \cup {n}
  BY <1>1 DEF Inserted
<1>3. \A i \in 1 .. Len(u) : StmOK(u[i], b)'
  <2>1. \A i \in 1 .. Len(u) : u[i] \in Range(t) \cup {n}
    BY <1>2, InRange, SMTT(30)
  <2> QED
    BY <2>1
<1>4. Len(t) \in Nat /\ k \in Nat /\ k <= Len(t) /\ \A i \in 1 .. Len(t) : t[i] \in Range(t) /\ t[i] \in Nodes
  BY InRange
<1>5. ASSUME NEW i \in 1 .. Len(u)
      PROVE  \/ i = k + 1 /\ u[i] = n
             \/ \E j \in 1 .. Len(t) : u[i] = t[j] /\ i = IF j <= k THEN j ELSE j + 1
  <2>1. CASE i <= k
    BY <1>2, <2>1
  <2>2. CASE i > k + 1
    <3>1. i - 1 \in k + 1 .. Len(t) /\ i = (i - 1) + 1 /\ i - 1 \in 1 .. Len(t) /\ ~(i - 1 <= k)
      BY <1>2, <1>4, <2>2
    <3>2. u[i] = t[i - 1]
      BY <1>2, <3>1
    <3> QED
      BY <3>1, <3>2
  <2> QED
    BY <1>2, <1>4, <2>1, <2>2
<1>6. ASSUME NEW i \in 1 .. Len(u), NEW j \in 1 .. Len(u), i < j
      PROVE  u[i] # u[j] /\ stm'[u[i]].k # "return"
  <2>1. CASE i = k + 1
    <3>1. PICK q \in 1 .. Len(t) : u[j] = t[q]
      BY <1>5, <1>6, <2>1
    <3> QED
      BY <1>2, <1>4, <2>1, <3>1
  <2>2. CASE i # k + 1
    <3>1. PICK p \in 1 .. Len(t) : u[i] = t[p] /\ i = IF p <= k THEN p ELSE p + 1
      BY <1>5, <2>2
    <3>2. stm'[u[i]] = stm[t[p]]
      BY <1>4, <3>1
    <3>3. CASE j = k + 1
      BY <1>2, <1>4, <1>6, <3>1, <3>2, <3>3 DEF SeqOK
    <3>4. CASE j # k + 1
      BY <1>5, <1>6, <3>1, <3>2, <3>4 DEF SeqOK
    <3> QED
      BY <3>3, <3>4
  <2> QED
    BY <2>1, <2>2
<1> QED
  BY <1>3, <1>6 DEF SeqOK

\* What a forward goto does to the program.
LEMMA GotoForwardProgram ==
  ASSUME Structure, NEW other \in Nodes, MakeGotoForward(other),
         NEW n, n = made + 1, NEW s, s = Last(seq[Top]),
         NEW b, b = IF other \in Range(seq[Body]) THEN Body ELSE Top,
         NEW st, st = [NoStm EXCEPT !.k = "goto", !.to = s]
  PROVE  /\ Adding /\ curr = Top /\ seq[Top] # <<>> /\ other \in Range(seq[Top]) \cup Range(seq[Body])
         /\ other \in Contents(P0, s) => "around" \in Jumps
         /\ other # s /\ stm[other].k # "return"
         /\ mode' \in {mode, "aborted"}
         /\ seq' = [seq EXCEPT ![b] = InsertAt(@, Position(@, other) + 1, n)]
         /\ stm' = [stm EXCEPT ![n] = st] /\ made' = n /\ edges' = edges \cup {Edge(n, s, FALSE, FALSE)}
         /\ curr' = curr /\ locals' = locals /\ breaks' = breaks /\ need' = need
BY Zenon DEF MakeGotoForward, Outcome

LEMMA GotoForwardStructure ==
  ASSUME Structure, NEW other \in Nodes, MakeGotoForward(other)
  PROVE  Structure'
<1>1. PICK n : n = made + 1
  OBVIOUS
<1>2. PICK s : s = Last(seq[Top])
  OBVIOUS
<1>3. PICK b : b = IF other \in Range(seq[Body]) THEN Body ELSE Top
  OBVIOUS
<1>4. PICK st : st = [NoStm EXCEPT !.k = "goto", !.to = s]
  OBVIOUS
<1>5. /\ Adding /\ curr = Top /\ seq[Top] # <<>> /\ other \in Range(seq[Top]) \cup Range(seq[Body])
      /\ other \in Contents(P0, s) => "around" \in Jumps
      /\ other # s /\ stm[other].k # "return"
      /\ mode' \in {mode, "aborted"}
      /\ seq' = [seq EXCEPT ![b] = InsertAt(@, Position(@, other) + 1, n)]
      /\ stm' = [stm EXCEPT ![n] = st] /\ made' = n /\ edges' = edges \cup {Edge(n, s, FALSE, FALSE)}
      /\ curr' = curr /\ locals' = locals /\ breaks' = breaks /\ need' = need
  BY <1>1, <1>2, <1>3, <1>4, GotoForwardProgram
<1>6. /\ mode = "generate" /\ made < MaxNodes /\ made \in For .. MaxNodes /\ stm \in [Nodes -> Statement]
      /\ WellFormed(P0) /\ P0.seq = seq /\ P0.edges = edges /\ P0.breaks = breaks
      /\ locals \in BOOLEAN /\ need \subseteq {Top} /\ Follows(P0)
      /\ For \notin Range(seq[Top]) => seq[Body] = <<>> /\ ~locals
  BY <1>5, ProgramFields, Small DEF Structure, Adding
<1>7. n \in Nodes /\ n # For /\ n # Top /\ n # Body /\ n \in For .. made' /\ made' \in For .. MaxNodes
  BY <1>1, <1>5, <1>6, FixpointConstantsOK DEF Nodes, For, Top, Body
<1>8. /\ seq \in [Blocks -> Seq(Nodes)] /\ edges \subseteq Edges /\ breaks \subseteq Nodes
      /\ \A c \in Blocks : SeqOK(seq[c], c)
      /\ \A v \in breaks : v \in Range(seq[Body])
  BY <1>6 DEF WellFormed, Program
<1>9. ASSUME NEW c \in Blocks, NEW v \in Range(seq[c])
      PROVE  v \in Nodes /\ v # n /\ StmOK(v, c) /\ stm'[v] = stm[v]
  BY <1>1, <1>5, <1>6, PlacedFacts DEF StmOK
<1>10. b \in Blocks /\ other \in Range(seq[b])
  BY <1>3, <1>5, Small
<1>11. PICK t \in Seq(Nodes) : t = seq[b]
  BY <1>8, <1>10
<1>12. PICK k \in 1 .. Len(t) : k = Position(t, other) /\ t[k] = other
  BY <1>10, <1>11, PositionFacts
<1>13. PICK u : u = InsertAt(t, k + 1, n)
  OBVIOUS
<1>14. Inserted(u, t, k, n)
  BY <1>7, <1>13, InsertFacts
<1>15. u \in Seq(Nodes) /\ Range(u) = Range(t) \cup {n} /\ Last(u) = (IF k = Len(t) THEN n ELSE Last(t)) /\ u # <<>>
  BY <1>14 DEF Inserted
<1>16. seq'[b] = u /\ \A c \in Blocks : c # b => seq'[c] = seq[c]
  BY <1>5, <1>8, <1>10, <1>11, <1>12, <1>13
<1>17. seq' \in [Blocks -> Seq(Nodes)] /\ Range(seq'[b]) = Range(seq[b]) \cup {n}
  BY <1>5, <1>8, <1>10, <1>11, <1>15, <1>16
<1>18. s \in Range(seq[Top]) /\ s \in Nodes /\ st \in Statement /\ st.k = "goto" /\ st.to = s
  BY <1>2, <1>4, <1>5, <1>8, Small, InRange, Zenon DEF NoStm, Statement
<1>19. stm' \in [Nodes -> Statement] /\ stm'[n] = st /\ \A v \in Nodes : v # n => stm'[v] = stm[v]
  BY <1>5, <1>6, <1>7, <1>18
<1>20. StmOK(n, b)'
  BY <1>7, <1>18, <1>19 DEF StmOK
<1>21. SeqOK(seq[b], b)'
  <2>1. \A v : v \in Range(t) => stm'[v] = stm[v] /\ v # n
    BY <1>9, <1>10, <1>11
  <2>2. \A v : v \in Range(t) => StmOK(v, b)'
    BY <1>1, <1>5, <1>6, <1>9, <1>10, <1>11 DEF Scope, StmOK
  <2>3. SeqOK(t, b) /\ stm[t[k]].k # "return" /\ stm'[n].k # "return"
    BY <1>5, <1>8, <1>10, <1>11, <1>12, <1>18, <1>19
  <2>4. SeqOK(u, b)'
    BY <1>7, <1>10, <1>13, <1>20, <2>1, <2>2, <2>3, InsertSeqOK
  <2> QED
    BY <1>16, <2>4 DEF SeqOK
<1>22. PICK g : g = [src |-> n, dest |-> s, post |-> FALSE, back |-> FALSE]
  OBVIOUS
<1>23. edges' = edges \cup {g} /\ g \in Edges
  BY <1>5, <1>7, <1>18, <1>22 DEF Edge, Edges
<1>24. P0'.seq = seq' /\ P0'.breaks = breaks' /\ P0'.edges = edges'
  BY DEF P0
<1>25. s \in Range(seq'[Top]) /\ n \in Range(seq'[b])
  BY <1>16, <1>17, <1>18, Small
<1>26. EdgeOK(P0, g)'
  BY <1>10, <1>18, <1>19, <1>22, <1>24, <1>25, Small DEF Placed, EdgeOK, IsGoto
<1>27. \A h \in Edges : h \in edges' => h \in edges \/ EdgeOK(P0, h)'
  BY <1>23, <1>26
<1>28. JumpOK(P0, n)'
  <2>1. \E h \in edges' : h.src = n /\ h.dest = s /\ ~h.post
    BY <1>22, <1>23
  <2> QED
    BY <1>18, <1>19, <1>24, <1>25, <2>1 DEF JumpOK, IsGoto
<1>29. n \notin breaks /\ edges \subseteq edges' /\ edges' \subseteq Edges /\ breaks \subseteq breaks' /\ breaks' \subseteq breaks \cup {n}
  BY <1>5, <1>8, <1>9, <1>23, Small
<1>30. /\ WellFormed(P0)' /\ Fixed'
       /\ \A c \in Blocks : For \in Range(seq[c]) <=> For \in Range(seq'[c])
  BY <1>1, <1>5, <1>7, <1>10, <1>16, <1>17, <1>19, <1>21, <1>27, <1>28, <1>29, Grow
<1>31. Follows(P0)'
  <2>1. CASE b = Top
    <3>1. seq'[Body] = seq[Body]
      BY <1>16, <2>1, Small
    <3>2. seq[Body] # <<>> => Last(seq[Body]) \in Range(seq[Body])
      BY <1>8, InRange, Small
    <3>3. \A v \in Range(seq[Body]) : stm'[v] = stm[v]
      BY <1>9, Small
    <3> QED
      BY <1>6, <1>23, <1>24, <3>1, <3>2, <3>3 DEF Follows, FromTailToHead, Edge
  <2>2. CASE b = Body
    <3>1. t # <<>> /\ Last(t) = t[Len(t)] /\ Last(t) \in Range(t)
      BY InRange
    <3>2. stm'[Last(u)].k # "return" => stm[Last(t)].k # "return"
      BY <1>5, <1>9, <1>10, <1>11, <1>12, <1>15, <3>1
    <3> QED
      BY <1>6, <1>11, <1>16, <1>23, <1>24, <2>2, <3>1, <3>2 DEF Follows, FromTailToHead, Edge
  <2> QED
    BY <1>10, <2>1, <2>2, Small
<1>32. For \notin Range(seq'[Top]) => seq'[Body] = <<>> /\ ~locals'
  BY <1>5, <1>6, <1>11, <1>30, Small
<1>33. "around" \notin Jumps => \A v \in Range(seq'[Body]) : IsGoto(v)' => stm'[v].to # For
  <2>1. SUFFICES ASSUME "around" \notin Jumps, NEW v \in Range(seq'[Body]), stm'[v].k = "goto", stm'[v].to = For
                 PROVE  FALSE
    BY DEF IsGoto
  <2>2. CASE v \in Range(seq[Body])
    BY <1>9, <2>1, <2>2, Small DEF Structure, IsGoto
  <2>3. CASE v \notin Range(seq[Body])
    BY <1>5, <1>6, <1>10, <1>17, <1>18, <1>19, <2>1, <2>3, Small, Zenon DEF Contents
  <2> QED
    BY <2>2, <2>3
<1> QED
  BY <1>5, <1>6, <1>7, <1>19, <1>30, <1>31, <1>32, <1>33, Small DEF Structure

LEMMA OpenForStructure ==
  ASSUME Structure, NEW loc \in BOOLEAN, OpenFor(loc)
  PROVE  Structure'
BY Small, Carry DEF OpenFor, Adding, Structure, P0, Closed, Fixed, IsGoto

\* What is left of the function when a block is finished.
LEMMA FinishedOK ==
  ASSUME Fixed, NEW b \in Blocks, WellFormed(P0), Deletable(P0, b), NEW r, r = Finished(b)
  PROVE  WellFormed(r.P) /\ Left(r.P, P0) /\ (b = Body => Beside(r.P, P0)) /\ Follows(r.P)
<1> DEFINE loops == b = Body /\ ~MustReturn(P0, Body)
           m == [maps EXCEPT !.vis[b] = TRUE,
                             !.out[b] = OutOfScope(facts, IF b = Body THEN Local ELSE {})]
           y == Settle(m, IF loops THEN WithSelfEdge(P0, b) ELSE P0, b, m.in[b], b \in need)
<1>1. r = IF loops \/ b \in need \/ EdgesIn(P0, b, FALSE, TRUE) # {}
          THEN [maps |-> y.r.maps, P |-> y.P, rounds |-> y.rounds,
                post |-> IF y.r.post = NoFacts THEN facts ELSE y.r.post]
          ELSE [maps |-> m, P |-> P0, rounds |-> 0, post |-> facts]
  BY Zenon DEF Finished, Complete
<1>2. PICK Q : Q = IF loops THEN WithSelfEdge(P0, b) ELSE P0
  OBVIOUS
<1>3. /\ WellFormed(Q) /\ Left(Q, P0) /\ Deletable(Q, b) /\ (b = Body => Beside(Q, P0))
      /\ Follows(Q)
  BY <1>2, Small, LeftSelf, WithSelfEdgeOK, Zenon DEF Deletable, MustReturn, Follows, FromTailToHead
<1>4. y = Settle(m, Q, b, m.in[b], b \in need)
  BY <1>2, Zenon
<1> DEFINE yes == loops \/ b \in need \/ EdgesIn(P0, b, FALSE, TRUE) # {}
<1> HIDE DEF m, y
<1>5. r.P = y.P \/ (r.P = P0 /\ ~loops)
  <2>1. CASE yes
    <3>1. r = [maps |-> y.r.maps, P |-> y.P, rounds |-> y.rounds,
               post |-> IF y.r.post = NoFacts THEN facts ELSE y.r.post]
      BY <1>1, <2>1, Zenon
    <3> QED
      BY <3>1
  <2>2. CASE ~yes
    <3>1. r = [maps |-> m, P |-> P0, rounds |-> 0, post |-> facts]
      BY <1>1, <2>2, Zenon
    <3>2. r.P = P0
      BY <3>1
    <3>3. ~loops
      BY <2>2, Zenon
    <3> QED
      BY <3>2, <3>3
  <2> QED
    BY <2>1, <2>2
<1>6. CASE r.P = P0 /\ ~loops
  BY <1>2, <1>3, <1>6, LeftSelf
<1>7. CASE r.P = y.P
  BY <1>3, <1>4, <1>7, LeftAgain, BesideAgain, SettleOK
<1> QED
  BY <1>5, <1>6, <1>7

\* The loop is added to the function.
LEMMA LoopPlaced ==
  ASSUME Fixed, NEW P, WellFormed(P), For \notin Range(P.seq[Top]), made \in For .. MaxNodes,
         P.seq[Top] = <<>> \/ stm[Last(P.seq[Top])].k # "return",
         NEW Q, Q = [seq |-> [P.seq EXCEPT ![Top] = Append(@, For)],
                     edges |-> P.edges \cup {Edge(s, For, TRUE, FALSE) : s \in P.breaks},
                     breaks |-> P.breaks]
  PROVE  /\ WellFormed(Q) /\ For \in Range(Q.seq[Top]) /\ Q.seq[Body] = P.seq[Body]
         /\ Follows(P) => Follows(Q)
<1>1. /\ P.seq \in [Blocks -> Seq(Nodes)] /\ P.edges \subseteq Edges /\ P.breaks \subseteq Nodes
      /\ \A b \in Blocks : SeqOK(P.seq[b], b)
      /\ For \notin Range(P.seq[Body])
  BY PlacedFacts DEF WellFormed, Program
<1>2. PICK t \in Seq(Nodes) : t = P.seq[Top]
  BY <1>1, Small
<1>3. PICK u : u = Append(t, For)
  OBVIOUS
<1>4. /\ u \in Seq(Nodes) /\ Len(u) = Len(t) + 1 /\ Len(t) \in Nat
      /\ \A i \in 1 .. Len(t) : u[i] = t[i]
      /\ u[Len(u)] = For
      /\ \A i \in 1 .. Len(u) : i \in 1 .. Len(t) \/ i = Len(u)
  BY <1>3, Small
<1>5. Range(u) = Range(t) \cup {For}
  BY <1>3, Small, AppendRange, Zenon
<1>6. /\ Q.seq \in [Blocks -> Seq(Nodes)] /\ Q.seq[Top] = u /\ Q.seq[Body] = P.seq[Body]
      /\ Q.breaks = P.breaks
      /\ Q.edges = P.edges \cup {Edge(s, For, TRUE, FALSE) : s \in P.breaks}
  BY <1>1, <1>2, <1>3, <1>4, Small
<1>7. \A s \in P.breaks : Edge(s, For, TRUE, FALSE) \in Edges
  BY <1>1, Small DEF Edge, Edges
<1>8. Q \in Program
  BY <1>1, <1>6, <1>7 DEF Program
<1>9. SeqOK(u, Top)
  <2>1. SeqOK(t, Top) /\ \A i \in 1 .. Len(t) : t[i] \in Range(t)
    BY <1>1, <1>2, InRange, Small
  <2>2. StmOK(For, Top)
    BY Small DEF StmOK, Fixed
  <2>3. \A i \in 1 .. Len(u) : StmOK(u[i], Top)
    BY <1>4, <2>1, <2>2 DEF SeqOK
  <2>4. ASSUME NEW i \in 1 .. Len(u), NEW j \in 1 .. Len(u), i < j
        PROVE  u[i] # u[j] /\ stm[u[i]].k # "return"
    <3>1. i \in 1 .. Len(t) /\ u[i] = t[i] /\ t[i] \in Range(t)
      BY <1>4, <2>1, <2>4
    <3>2. CASE j \in 1 .. Len(t)
      BY <1>4, <2>1, <2>4, <3>1, <3>2 DEF SeqOK
    <3>3. CASE j = Len(u)
      <4>1. u[i] # u[j]
        BY <1>2, <1>4, <3>1, <3>3
      <4>2. ASSUME stm[t[i]].k = "return"
            PROVE  FALSE
        <5>1. i = Len(t)
          BY <1>4, <2>1, <3>1, <4>2 DEF SeqOK
        <5>2. t # <<>> /\ Last(t) = t[i]
          BY <3>1, <5>1, InRange
        <5> QED
          BY <1>2, <4>2, <5>2
      <4> QED
        BY <3>1, <4>1, <4>2
    <3> QED
      BY <1>4, <3>2, <3>3
  <2> QED
    BY <2>3, <2>4 DEF SeqOK
<1>10. Range(Q.seq[Top]) \cap Range(Q.seq[Body]) = {}
  BY <1>1, <1>2, <1>5, <1>6 DEF WellFormed
<1>11. ASSUME NEW e \in Q.edges
       PROVE  EdgeOK(Q, e)
  <2>1. CASE e \in P.edges
    BY <1>2, <1>5, <1>6, <2>1, Zenon DEF WellFormed, EdgeOK, Placed
  <2>2. CASE \E s \in P.breaks : e = Edge(s, For, TRUE, FALSE)
    <3>1. PICK s \in P.breaks : e = Edge(s, For, TRUE, FALSE)
      BY <2>2
    <3>2. e.src = s /\ e.dest = For /\ e.post /\ ~e.back
      BY <3>1 DEF Edge
    <3> QED
      BY <1>5, <1>6, <3>2 DEF EdgeOK
  <2> QED
    BY <1>6, <2>1, <2>2
<1>12. ASSUME NEW n \in Placed(Q)
       PROVE  JumpOK(Q, n)
  <2>1. CASE n = For
    BY <2>1 DEF JumpOK, IsGoto, Fixed
  <2>2. CASE n # For
    <3>1. n \in Placed(P)
      BY <1>2, <1>5, <1>6, <2>2 DEF Placed
    <3>2. JumpOK(P, n)
      BY <3>1 DEF WellFormed
    <3> QED
      BY <1>2, <1>5, <1>6, <3>2 DEF JumpOK
  <2> QED
    BY <2>1, <2>2
<1>13. \A n \in Q.breaks : n \in Range(Q.seq[Body]) /\ stm[n].k = "break"
  BY <1>6 DEF WellFormed
<1>14. \A b \in Blocks : SeqOK(Q.seq[b], b)
  BY <1>1, <1>6, <1>9, Small
<1>15. WellFormed(Q)
  BY <1>8, <1>10, <1>11, <1>12, <1>13, <1>14 DEF WellFormed
<1>16. Follows(P) => Follows(Q)
  BY <1>6 DEF Follows, FromTailToHead
<1> QED
  BY <1>5, <1>6, <1>15, <1>16

LEMMA CloseForStructure ==
  ASSUME Structure, CloseFor
  PROVE  Structure'
<1>1. PICK r : /\ r = Finished(Body)
               /\ seq' = [r.P.seq EXCEPT ![Top] = Append(@, For)]
               /\ edges' = r.P.edges \cup {Edge(s, For, TRUE, FALSE) : s \in r.P.breaks}
               /\ breaks' = r.P.breaks
               /\ mode' = Outcome(mode, r)
  BY Zenon DEF CloseFor
<1>2. /\ mode = "generate" /\ curr = Body /\ curr' = Top
      /\ stm' = stm /\ made' = made /\ locals' = locals /\ need' = need
  BY DEF CloseFor
<1>3. /\ WellFormed(P0) /\ Fixed /\ For \notin Range(seq[Top]) /\ ~Closed(Top) /\ P0.seq = seq
      /\ made \in For .. MaxNodes
  BY <1>2, ProgramFields DEF Structure
<1>4. Deletable(P0, Body)
  BY <1>3, Small DEF Deletable
<1>5. PICK P : P = r.P
  OBVIOUS
<1>6. WellFormed(P) /\ Left(P, P0) /\ Beside(P, P0) /\ Follows(P)
  BY <1>1, <1>3, <1>4, <1>5, FinishedOK, Small
<1>7. P.seq[Top] = seq[Top] /\ Range(P.seq[Body]) \subseteq Range(seq[Body])
  BY <1>3, <1>6, Small DEF Left, Beside
<1>8. P.seq[Top] = <<>> \/ stm[Last(P.seq[Top])].k # "return"
  BY <1>3, <1>7 DEF Closed
<1>9. PICK Q : Q = [seq |-> [P.seq EXCEPT ![Top] = Append(@, For)],
                    edges |-> P.edges \cup {Edge(s, For, TRUE, FALSE) : s \in P.breaks},
                    breaks |-> P.breaks]
  OBVIOUS
<1>10. P0' = Q
  BY <1>1, <1>5, <1>9, Zenon DEF P0
<1>11. WellFormed(Q) /\ For \in Range(Q.seq[Top]) /\ Q.seq[Body] = P.seq[Body] /\ Follows(Q)
  BY <1>3, <1>6, <1>7, <1>8, <1>9, LoopPlaced
<1>12. WellFormed(P0)'
  BY <1>2, <1>10, <1>11, Carry
<1>13. For \in Range(seq'[Top]) /\ seq'[Body] = P.seq[Body]
  BY <1>10, <1>11 DEF P0
<1>14. Follows(P0)'
  BY <1>2, <1>10, <1>11 DEF FromTailToHead, Edge, Follows
<1>15. "around" \notin Jumps => \A n \in Range(seq'[Body]) : IsGoto(n)' => stm'[n].to # For
  BY <1>2, <1>7, <1>13 DEF Structure, IsGoto
<1>16. mode' \in {mode, "aborted"} /\ Fixed'
  BY <1>1, <1>2, <1>3 DEF Outcome, Fixed
<1> QED
  BY <1>2, <1>12, <1>13, <1>14, <1>15, <1>16, Small DEF Structure

LEMMA CloseFunctionStructure ==
  ASSUME Structure, CloseFunction
  PROVE  Structure'
<1>1. PICK r : /\ r = Finished(Top) /\ seq' = r.P.seq /\ edges' = r.P.edges /\ breaks' = r.P.breaks
               /\ mode' = Outcome("ready", r)
  BY Zenon DEF CloseFunction
<1>2. /\ curr = Top /\ curr' = Top /\ stm' = stm /\ made' = made /\ locals' = locals /\ need' = need
  BY DEF CloseFunction
<1>3. WellFormed(P0) /\ Fixed /\ P0.seq = seq /\ Follows(P0)
  BY <1>2, ProgramFields, Small DEF Structure
<1>4. Deletable(P0, Top)
  BY <1>3 DEF Deletable
<1>5. PICK Q : Q = r.P
  OBVIOUS
<1>6. WellFormed(Q) /\ Left(Q, P0) /\ Follows(Q)
  BY <1>1, <1>3, <1>4, <1>5, FinishedOK, Small
<1>7. P0' = Q
  BY <1>1, <1>5, <1>6 DEF P0, WellFormed, Program
<1>8. WellFormed(P0)'
  BY <1>2, <1>6, <1>7, Carry
<1>9. Follows(P0)'
  BY <1>2, <1>6, <1>7 DEF FromTailToHead, Edge, Follows
<1>10. "around" \notin Jumps => \A n \in Range(seq'[Body]) : IsGoto(n)' => stm'[n].to # For
  BY <1>1, <1>2, <1>3, <1>5, <1>6, Small DEF Left, Structure, IsGoto
<1>11. mode' \in {"ready", "aborted"} /\ Fixed'
  BY <1>1, <1>2, <1>3 DEF Outcome, Fixed
<1> QED
  BY <1>2, <1>8, <1>9, <1>10, <1>11, Small DEF Structure

\* Calls and execution leave the program as it is.
LEMMA SameStructure ==
  ASSUME Structure, UNCHANGED <<curr, program>>, mode' \in {mode, "ready", "execute", "aborted"}
  PROVE  Structure'
BY Carry DEF program, Structure, P0, Follows, FromTailToHead, Edge, Closed, Fixed, IsGoto

LEMMA NextStructure ==
  ASSUME Structure, [Next]_vars
  PROVE  Structure'
<1>1. CASE \E st \in Assigns : MakeAssign(st)
  BY <1>1, AssignStructure
<1>2. CASE \E p \in Derefs : MakeDeref(p)
  BY <1>2, DerefStructure
<1>3. CASE MakeReturn \/ MakeBreak \/ MakeContinue
  BY <1>3, ReturnStructure, BreakStructure, ContinueStructure
<1>4. CASE \E n \in Nodes : MakeGotoBack(n) \/ MakeGotoForward(n)
  BY <1>4, GotoBackStructure, GotoForwardStructure
<1>5. CASE \E loc \in BOOLEAN : OpenFor(loc)
  BY <1>5, OpenForStructure
<1>6. CASE CloseFor \/ CloseFunction
  BY <1>6, CloseForStructure, CloseFunctionStructure
<1>7. CASE FirstCall
  BY <1>7, SameStructure DEF FirstCall
<1>8. CASE \E f \in Entries : Call(f)
  BY <1>8, SameStructure DEF Call, Outcome
<1>9. CASE RunAssign \/ RunJump \/ RunReturn \/ RunLoop
  BY <1>9, SameStructure DEF RunAssign, RunJump, RunReturn, RunLoop, Iterate, Goto
<1>10. CASE UNCHANGED vars
  BY <1>10, SameStructure DEF vars
<1> QED
  BY <1>1, <1>2, <1>3, <1>4, <1>5, <1>6, <1>7, <1>8, <1>9, <1>10 DEF Next

\* The structure of the function under construction and of the finished one.
THEOREM StructureInvariant == Spec => []Structure
<1>1. Init => Structure
  BY InitStructure
<1>2. Structure /\ [Next]_vars => Structure'
  BY NextStructure
<1> QED
  BY <1>1, <1>2, PTL DEF Spec

\* After deletion no jump leads to or from a statement that is gone.
THEOREM WellFormedTheorem == Spec => []GraphWellFormed
<1>1. Structure => GraphWellFormed
  <2>1. SUFFICES ASSUME Structure
                 PROVE  GraphWellFormed
    OBVIOUS
  <2> DEFINE left == Blocks \cup Range(seq[Top]) \cup Range(seq[Body])
  <2>2. WellFormed(P0) /\ P0.seq = seq /\ P0.edges = edges /\ P0.breaks = breaks /\ Fixed
    BY <2>1, ProgramFields DEF Structure
  <2>3. \A n \in breaks : n \in Range(seq[Body])
    BY <2>2 DEF WellFormed
  <2>4. ASSUME NEW e \in edges
        PROVE  e.src \in left /\ e.dest \in left
    BY <2>2, Small DEF WellFormed, EdgeOK, Placed
  <2>5. ASSUME NEW n \in left, IsGoto(n)
        PROVE  stm[n].to \in left /\ \E e \in edges : e.src = n /\ e.dest = stm[n].to
    BY <2>2, <2>5, Small, Zenon DEF IsGoto, Fixed, Placed, WellFormed, JumpOK
  <2> QED
    BY <2>3, <2>4, <2>5 DEF GraphWellFormed
<1> QED
  BY <1>1, StructureInvariant, PTL

----------------------------------------------------------------------------
(* Facts *)

LEMMA FactsSmall ==
  ASSUME NEW b \in Blocks
  PROVE  /\ FactsOf(b) \subseteq Facts /\ NoFacts \in Facts /\ Known(b) \subseteq Facts
         /\ \A f \in FactsOf(b) : DOMAIN f = Scope(b) /\ f # NoFacts /\ \A p \in Scope(b) : f[p] \subseteq Reach(b)
         /\ Global \subseteq Scope(b) /\ Scope(b) \subseteq Ptr /\ Reach(b) \subseteq Target
         /\ Scope(Top) = Global /\ Reach(Top) = Target \ Local
         /\ Scope(b) \ Local = Global /\ Garbage \in Reach(b)
<1>1. /\ Global \subseteq Scope(b) /\ Scope(b) \subseteq Ptr /\ Reach(b) \subseteq Target
      /\ Scope(Top) = Global /\ Reach(Top) = Target \ Local
      /\ Scope(b) \ Local = Global /\ Garbage \in Reach(b)
  BY FixpointConstantsOK, Small DEF Scope, Reach, Global
<1>2. Global # {}
  BY FixpointConstantsOK
<1>3. DOMAIN NoFacts = {} /\ NoFacts \in [{} -> SUBSET Target]
  BY DEF NoFacts
<1>4. NoFacts \in Facts
  BY <1>3 DEF Facts
<1>5. \A f \in FactsOf(b) : DOMAIN f = Scope(b) /\ f # NoFacts /\ \A p \in Scope(b) : f[p] \subseteq Reach(b)
  BY <1>1, <1>2, <1>3 DEF FactsOf
<1>6. FactsOf(b) \subseteq Facts
  BY <1>1 DEF FactsOf, Facts
<1> QED
  BY <1>1, <1>4, <1>5, <1>6 DEF Known

LEMMA OutOfScopeTyped ==
  ASSUME NEW b \in Blocks, NEW f \in FactsOf(b), NEW g, g = OutOfScope(f, Local)
  PROVE  g \in FactsOf(Top)
BY FactsSmall, FixpointConstantsOK DEF OutOfScope, Dead, FactsOf

LEMMA SameScope ==
  ASSUME NEW f \in FactsOf(Top)
  PROVE  OutOfScope(f, {}) = f /\ OutOfScope(f, Local) = f
BY Small, FactsSmall DEF FactsOf, Dead, OutOfScope

LEMMA NothingOutOfScope ==
  ASSUME NEW d
  PROVE  OutOfScope(NoFacts, d) = NoFacts
BY DEF NoFacts, OutOfScope

LEMMA MergeJumpsTyped ==
  ASSUME NEW b \in Blocks, NEW f \in FactsOf(b), NEW G, G \subseteq Known(Top), NEW g, g = MergeJumps(f, G)
  PROVE  /\ g \in FactsOf(b) /\ Below(f, g)
         /\ \A h \in G : \A p \in DOMAIN g : p \in DOMAIN h => h[p] \subseteq g[p]
BY FactsSmall DEF FactsOf, MergeJumps, Known, NoFacts, Reach, Below

LEMMA MergeTyped ==
  ASSUME NEW f \in FactsOf(Top), NEW G, G \subseteq Known(Top), NEW g, g = Merge({f} \cup G)
  PROVE  /\ g \in FactsOf(Top) /\ Below(f, g)
         /\ \A h \in G : h # NoFacts => Below(h, g)
         /\ G \subseteq {NoFacts} => g = f
<1> DEFINE H == {f} \cup G
<1>1. \A h \in H : h \in FactsOf(Top) \/ h = NoFacts
  BY DEF Known
<1>2. \A h \in H : DOMAIN h = Global \/ DOMAIN h = {}
  BY <1>1, FactsSmall, Small DEF NoFacts
<1>3. f \in H /\ DOMAIN f = Global
  BY FactsSmall, Small
<1>4. UNION {DOMAIN h : h \in H} = Global
  BY <1>2, <1>3
<1>5. g = [p \in Global |-> UNION {h[p] : h \in {k \in H : p \in DOMAIN k}}]
  BY <1>4 DEF Merge
<1>6. \A h \in H : h # NoFacts => h \in [Global -> SUBSET (Target \ Local)] /\ DOMAIN h = Global
  BY <1>1, FactsSmall, Small DEF FactsOf
<1>7. ASSUME NEW p \in Global
      PROVE  /\ g[p] \subseteq Target \ Local
             /\ \A h \in H : h # NoFacts => h[p] \subseteq g[p]
             /\ G \subseteq {NoFacts} => g[p] = f[p]
  <2>1. \A h \in H : p \in DOMAIN h <=> h # NoFacts
    BY <1>6 DEF NoFacts
  <2>2. g[p] = UNION {h[p] : h \in {k \in H : p \in DOMAIN k}}
    BY <1>5
  <2>3. \A h \in H : h # NoFacts => h[p] \subseteq Target \ Local /\ h[p] \subseteq g[p]
    BY <1>6, <2>1, <2>2
  <2>4. \A h \in H : p \in DOMAIN h => h[p] \subseteq Target \ Local
    BY <2>1, <2>3
  <2>5. g[p] \subseteq Target \ Local
    BY <2>2, <2>4
  <2>6. ASSUME G \subseteq {NoFacts}
        PROVE  g[p] = f[p]
    BY <1>3, <2>1, <2>2, <2>6, Zenon
  <2> QED
    BY <2>3, <2>5, <2>6
<1>8. DOMAIN g = Global
  BY <1>5
<1>9. g \in FactsOf(Top)
  BY <1>5, <1>7, Small, FactsSmall, Zenon DEF FactsOf
<1>10. \A h \in H : h # NoFacts => Below(h, g)
  BY <1>6, <1>7, <1>8 DEF Below
<1>11. f # NoFacts
  BY FactsSmall, Small
<1>12. G \subseteq {NoFacts} => g = f
  BY <1>3, <1>5, <1>6, <1>7, <1>8, <1>11
<1> QED
  BY <1>9, <1>10, <1>11, <1>12

LEMMA AddLocalsTyped ==
  ASSUME NEW f \in FactsOf(Top)
  PROVE  AddLocals(f) \in FactsOf(Body)
BY FixpointConstantsOK DEF FactsOf, AddLocals, WithLocals, Join, Scope, Reach

LEMMA TransferTyped ==
  ASSUME NEW b \in Blocks, NEW s, StmOK(s, b), NEW f \in FactsOf(b), NEW g, g = Transfer(s, f)
  PROVE  g \in FactsOf(b)
BY DEF FactsOf, Transfer, StmOK

LEMMA FactOutTyped ==
  ASSUME NEW b \in Blocks, NEW s, NEW f \in FactsOf(b), NEW g, g = FactOut(s, f)
  PROVE  g \in FactsOf(OutBlock(s, b))
BY OutOfScopeTyped DEF FactOut, ForDest, IsJump, OutBlock

----------------------------------------------------------------------------
(* Types of the analysis *)

LEMMA TameSelf ==
  ASSUME NEW m, NEW X
  PROVE  Tame(m, m, X)
BY DEF Tame

LEMMA TameAgain ==
  ASSUME NEW m1, NEW m2, NEW m3, NEW X, Tame(m1, m2, X), Tame(m2, m3, X)
  PROVE  Tame(m1, m3, X)
BY DEF Tame

LEMMA TameMore ==
  ASSUME NEW m1, NEW m2, NEW X, NEW Y, X \subseteq Y, Tame(m1, m2, X)
  PROVE  Tame(m1, m2, Y)
BY DEF Tame

\* The maps stay typed if what has changed is typed.
LEMMA TameTyped ==
  ASSUME NEW P, WellFormed(P), NEW m, TypedMaps(m, P), NEW m1 \in Maps, NEW X, Tame(m, m1, X),
         \A b \in Blocks : b \in X => m1.in[b] \in Known(Top) /\ m1.out[b] \in Known(Top),
         \A b \in Blocks : \A s \in Range(P.seq[b]) : s \in X => TypedAt(m1, s, b)
  PROVE  TypedMaps(m1, P)
<1>1. ASSUME NEW b \in Blocks
      PROVE  m1.in[b] \in Known(Top) /\ m1.out[b] \in Known(Top)
  BY <1>1, Small DEF Tame, TypedMaps
<1>2. ASSUME NEW b \in Blocks, NEW s \in Range(P.seq[b]), s \notin X
      PROVE  TypedAt(m1, s, b)
  BY PlacedFacts DEF TypedMaps, Tame, TypedAt, Known
<1> QED
  BY <1>1, <1>2 DEF TypedMaps

LEMMA SaveMaps ==
  ASSUME NEW m \in Maps, NEW s \in Nodes, NEW f \in Facts, NEW g \in Facts,
         NEW m1, m1 = [m EXCEPT !.in[s] = f, !.out[s] = g, !.vis[s] = TRUE]
  PROVE  Saved(m, s, f, g, m1)
BY Zenon DEF Maps, Saved

LEMMA MarkMaps ==
  ASSUME NEW m \in Maps, NEW P, NEW s, NEW m1, m1 = MarkGotos(m, P, s)
  PROVE  Marked(m, P, s, m1)
BY Zenon DEF Maps, MarkGotos, Marked

LEMMA VisitSimpleFrame ==
  ASSUME NEW P, WellFormed(P), NEW s \in Placed(P), NEW m, m \in Maps, NEW f, NEW v, v = VisitSimple(m, s, f)
  PROVE  VisitedSimple(m, s, f, v)
<1>1. s \in Nodes /\ m \in Maps /\ JumpOK(P, s)
  BY PlacedFacts, Small DEF WellFormed, Placed
<1>2. PICK d : d = stm[s].to
  OBVIOUS
<1>3. PICK reset : reset = (IsGoto(s) /\ Shrinks(m, s, f))
  OBVIOUS
<1>4. PICK m1 : m1 = IF reset THEN [m EXCEPT !.in[d] = NoFacts, !.out[d] = NoFacts] ELSE m
  OBVIOUS
<1>5. PICK m2 : m2 = [m1 EXCEPT !.vis[s] = TRUE]
  OBVIOUS
<1>6. v = [ok |-> Valid(s, f), maps |-> m2, facts |-> IF Valid(s, f) THEN Transfer(s, f) ELSE f, rounds |-> 0]
  BY <1>2, <1>3, <1>4, <1>5, Zenon DEF VisitSimple
<1>7. v.ok = Valid(s, f) /\ v.maps = m2 /\ v.rounds = 0 /\ (Valid(s, f) => v.facts = Transfer(s, f))
  BY <1>6
<1>8. reset => d \in Nodes /\ d \notin Blocks
  BY <1>1, <1>2, <1>3, Small, PlacedFacts, Zenon DEF JumpOK
<1>9. /\ m1 \in Maps /\ m1.vis = m.vis
      /\ \A n \in Nodes :
           \/ m1.in[n] = m.in[n] /\ m1.out[n] = m.out[n]
           \/ m1.in[n] = NoFacts /\ m1.out[n] = NoFacts /\ reset /\ n = d
  BY <1>4, Small, FactsSmall, Zenon DEF Maps
<1>10. m2 \in Maps /\ m2.in = m1.in /\ m2.out = m1.out /\ m2.vis = [m.vis EXCEPT ![s] = TRUE]
  BY <1>5, <1>9, Zenon DEF Maps
<1>11. Tame(m, m2, {s})
  <2>1. reset => ~m.vis[d]
    BY <1>2, <1>3 DEF Shrinks
  <2>2. \A n \in Nodes : m.vis[n] => m2.vis[n]
    BY <1>10
  <2> QED
    BY <1>8, <1>9, <1>10, <2>1, <2>2 DEF Tame
<1>12. \E m3, g : v = [ok |-> Valid(s, f), maps |-> m3, facts |-> g, rounds |-> 0]
  BY <1>6
<1>13. \A n \in Nodes : \/ m2.in[n] = m.in[n] /\ m2.out[n] = m.out[n]
                        \/ /\ m2.in[n] = NoFacts /\ m2.out[n] = NoFacts
                           /\ IsGoto(s) /\ Shrinks(m, s, f) /\ n = stm[s].to
  BY <1>2, <1>3, <1>9, <1>10
<1> QED
  BY <1>7, <1>10, <1>11, <1>12, <1>13, Zenon DEF VisitedSimple

LEMMA AnalysedSimple ==
  ASSUME Fixed, NEW P, WellFormed(P), NEW b \in Blocks, NEW s \in Range(P.seq[b]), s # For,
         NEW m, TypedMaps(m, P), NEW f \in FactsOf(b), NEW r, r = Analysed(m, P, s, f, VisitSimple(m, s, f))
  PROVE  StmTyped(m, P, b, s, r) /\ SimpleDone(m, P, s, f, r) /\ SimpleFrame(m, P, s, f, r)
<1>1. /\ StmOK(s, b) /\ s \in Nodes /\ s \notin Blocks /\ s \in Placed(P) /\ m \in Maps /\ TypedAt(m, s, b)
      /\ JumpOK(P, s)
  BY PlacedFacts, Small DEF TypedMaps, WellFormed
<1>2. f # NoFacts /\ f \in Facts
  BY FactsSmall
<1>3. {s} \subseteq Contents(P, s)
  BY <1>1 DEF Contents, Blocks
<1>4. CASE Shortcut(m, P, s, f)
  <2>1. r = [ok |-> TRUE, maps |-> MarkGotos(m, P, s), facts |-> m.out[s], rounds |-> 0]
    BY <1>4, Zenon DEF Analysed
  <2>2. /\ r.ok = TRUE /\ r.maps = MarkGotos(m, P, s) /\ r.facts = m.out[s] /\ r.rounds = 0
        /\ f = m.in[s] /\ ~IsCtrl(s) /\ ~UnfixedGoto(m, P, s)
    BY <1>4, <2>1 DEF Shortcut
  <2>3. r.maps \in Maps /\ r.maps.in = m.in /\ r.maps.out = m.out
    BY <1>1, <2>2, MarkMaps DEF Marked
  <2>4. Tame(m, r.maps, {s})
    <3>1. \A n \in Nodes : m.vis[n] => r.maps.vis[n]
      <4>1. Marked(m, P, s, r.maps)
        BY <1>1, <2>2, MarkMaps
      <4> QED
        BY <4>1 DEF Marked
    <3> QED
      BY <2>3, <3>1 DEF Tame
  <2>5. TypedMaps(r.maps, P)
    BY <2>3 DEF TypedMaps, TypedAt
  <2>6. m.out[s] \in FactsOf(OutBlock(s, b))
    BY <1>1, <1>2, <2>2 DEF TypedAt, Known
  <2>7. r.facts \in FactsOf(b) \/ (stm[s].k = "return" /\ r.facts \in FactsOf(Top))
    BY <2>2, <2>6 DEF OutBlock, IsJump, IsCtrl
  <2>8. StmTyped(m, P, b, s, r)
    <3>1. Tame(m, r.maps, Contents(P, s))
      BY <1>3, <2>4, TameMore
    <3>2. r.ok \in BOOLEAN
      BY <2>2
    <3>3. r.rounds \in Nat
      BY <2>2
    <3>4. TypedMaps(r.maps, P)
      BY <2>5
    <3> QED
      BY <2>7, <3>1, <3>2, <3>3, <3>4, Zenon DEF StmTyped
  <2> QED
    BY <2>2, <2>8 DEF SimpleDone, SimpleFrame
<1>5. CASE ~Shortcut(m, P, s, f)
  <2>1. PICK v : v = VisitSimple(m, s, f)
    OBVIOUS
  <2>2. r = IF v.ok THEN [v EXCEPT !.maps = Save(v.maps, s, f, v.facts)] ELSE v
    BY <1>5, <2>1, Zenon DEF Analysed, Record
  <2>3. VisitedSimple(m, s, f, v)
    BY <1>1, <2>1, VisitSimpleFrame
  <2>4. PICK m2, g0 : v = [ok |-> Valid(s, f), maps |-> m2, facts |-> g0, rounds |-> 0]
    BY <2>3, Zenon DEF VisitedSimple
  <2>5. v.maps = m2
    BY <2>4
  <2>6. v.ok = Valid(s, f) /\ (Valid(s, f) => v.facts = Transfer(s, f))
    BY <2>3, Zenon DEF VisitedSimple
  <2>7. v.ok = Valid(s, f) /\ v.maps = m2 /\ v.rounds = 0 /\ (Valid(s, f) => v.facts = Transfer(s, f))
    BY <2>5, <2>6, <2>4
  <2>8. Valid(s, f) \in BOOLEAN
    BY DEF Valid
  <2>9. \A n \in Nodes : \/ m2.in[n] = m.in[n] /\ m2.out[n] = m.out[n]
                         \/ /\ m2.in[n] = NoFacts /\ m2.out[n] = NoFacts
                            /\ IsGoto(s) /\ Shrinks(m, s, f) /\ n = stm[s].to
    BY <2>3, <2>5, Zenon DEF VisitedSimple
  <2>10. m2 \in Maps /\ m2.vis = [m.vis EXCEPT ![s] = TRUE]
    BY <2>3, <2>5, Zenon DEF VisitedSimple
  <2>11. Tame(m, m2, {s})
    BY <2>3, <2>5, Zenon DEF VisitedSimple
  <2>12. CASE Valid(s, f)
    <3>1. PICK g : g = Transfer(s, f)
      OBVIOUS
    <3>2. PICK h : h = FactOut(s, g)
      OBVIOUS
    <3>3. g \in FactsOf(b) /\ h \in FactsOf(OutBlock(s, b)) /\ h \in Facts /\ h # NoFacts
      BY <1>1, <3>1, <3>2, TransferTyped, FactOutTyped, FactsSmall, Small DEF OutBlock
    <3>4. PICK m3 : m3 = [m2 EXCEPT !.in[s] = f, !.out[s] = h, !.vis[s] = TRUE]
      OBVIOUS
    <3>5. r = [v EXCEPT !.maps = m3]
      BY <2>2, <2>7, <2>12, <3>1, <3>2, <3>4, Zenon DEF Save
    <3>6. r.ok = TRUE /\ r.maps = m3 /\ r.facts = g /\ r.rounds = 0
      BY <2>4, <2>7, <2>12, <3>1, <3>5
    <3>7. /\ m3 \in Maps /\ m3.in[s] = f /\ m3.out[s] = h
          /\ m3.vis = [m2.vis EXCEPT ![s] = TRUE]
          /\ \A n \in Nodes : n # s => m3.in[n] = m2.in[n] /\ m3.out[n] = m2.out[n]
      <4>1. Saved(m2, s, f, h, m3)
        BY <1>1, <1>2, <2>10, <3>3, <3>4, SaveMaps
      <4> QED
        BY <4>1 DEF Saved
    <3>8. Tame(m, m3, {s})
      BY <2>11, <3>7 DEF Tame
    <3>9. TypedAt(m3, s, b)
      BY <3>3, <3>7 DEF TypedAt, Known
    <3>10. \A c \in Blocks : s \in Range(P.seq[c]) => c = b
      BY Small DEF WellFormed
    <3>11. TypedMaps(m3, P)
      BY <1>1, <3>7, <3>8, <3>9, <3>10, TameTyped
    <3>12. SimpleDone(m, P, s, f, r)
      BY <2>12, <3>1, <3>2, <3>6, <3>7 DEF SimpleDone
    <3>13. m3.vis = [m.vis EXCEPT ![s] = TRUE]
      BY <2>10, <3>7, Zenon
    <3>14. SimpleFrame(m, P, s, f, r)
      BY <2>9, <3>6, <3>7, <3>13 DEF SimpleFrame
    <3>15. StmTyped(m, P, b, s, r)
      <4>1. Tame(m, r.maps, Contents(P, s))
        BY <1>3, <3>6, <3>8, TameMore
      <4>2. r.ok \in BOOLEAN /\ r.facts \in FactsOf(b)
        BY <3>3, <3>6
      <4>3. r.rounds \in Nat
        BY <3>6
      <4>4. TypedMaps(r.maps, P)
        BY <3>6, <3>11
      <4> QED
        BY <4>1, <4>2, <4>3, <4>4, Zenon DEF StmTyped
    <3> QED
      BY <3>12, <3>14, <3>15
  <2>13. CASE ~Valid(s, f)
    <3>1. r = v /\ r.ok = FALSE /\ r.maps = m2 /\ r.rounds = 0
      BY <2>2, <2>7, <2>8, <2>13
    <3>2. TypedAt(m2, s, b)
      BY <1>1, <2>9, <2>10 DEF TypedAt, Known
    <3>3. \A c \in Blocks : s \in Range(P.seq[c]) => c = b
      BY Small DEF WellFormed
    <3>4. TypedMaps(m2, P)
      BY <1>1, <2>10, <2>11, <3>2, <3>3, TameTyped
    <3>5. SimpleDone(m, P, s, f, r)
      BY <3>1 DEF SimpleDone
    <3>6. SimpleFrame(m, P, s, f, r)
      BY <2>9, <2>10, <3>1 DEF SimpleFrame
    <3>7. StmTyped(m, P, b, s, r)
      <4>1. Tame(m, r.maps, Contents(P, s))
        BY <1>3, <2>11, <3>1, TameMore
      <4>2. r.ok \in BOOLEAN /\ ~r.ok
        BY <3>1
      <4>3. r.rounds \in Nat
        BY <3>1
      <4>4. TypedMaps(r.maps, P)
        BY <3>1, <3>4
      <4> QED
        BY <4>1, <4>2, <4>3, <4>4, Zenon DEF StmTyped
    <3> QED
      BY <3>5, <3>6, <3>7
  <2> QED
    BY <2>12, <2>13
<1> QED
  BY <1>4, <1>5

\* What comes over an edge to a statement or over a back edge to a block is known.
LEMMA EdgesTyped ==
  ASSUME Fixed, NEW P, WellFormed(P), NEW m, TypedMaps(m, P), NEW e \in P.edges
  PROVE  /\ e.src \in Nodes /\ e.dest \in Nodes
         /\ e.dest # Top
         /\ e.dest \in Placed(P) /\ ~e.post => /\ IsGoto(e.src) /\ e.dest = stm[e.src].to /\ e.src \in Placed(P)
                                               /\ m.out[e.src] \in Known(Top)
         /\ e.dest = Body => m.out[e.src] \in Known(Top) /\ ~IsGoto(e.src)
         /\ e.post => e.src \in P.breaks /\ m.out[e.src] \in Known(Top)
<1>1. EdgeOK(P, e) /\ P.edges \subseteq Edges
  BY DEF WellFormed, Program
<1>2. ASSUME NEW b \in Blocks, NEW s \in Range(P.seq[b]), IsJump(s)
      PROVE  m.out[s] \in Known(Top) /\ s \in Nodes /\ s \in Placed(P)
  BY <1>2, PlacedFacts DEF TypedMaps, TypedAt, OutBlock
<1>3. \A b \in Blocks : \A s \in Range(P.seq[b]) : s # Body /\ s # Top
  BY PlacedFacts
<1>4. \A s \in P.breaks : s \in Range(P.seq[Body]) /\ stm[s].k = "break"
  BY DEF WellFormed
<1>5. e.src \in Nodes /\ e.dest \in Nodes
  BY <1>1 DEF Edges
<1>6. CASE /\ e.src \in Placed(P) /\ IsGoto(e.src)
           /\ e.dest = stm[e.src].to /\ e.dest \in Range(P.seq[Top]) /\ ~e.post
  BY <1>2, <1>3, <1>5, <1>6, Small DEF Placed, IsGoto, IsJump
<1>7. CASE /\ e.src \in Range(P.seq[Body]) /\ stm[e.src].k = "continue"
           /\ e.dest = Body /\ ~e.post /\ e.back
  BY <1>2, <1>3, <1>7, Small DEF IsJump, IsGoto, Placed
<1>8. CASE e.src = Body /\ e.dest = Body /\ ~e.post /\ e.back
  BY <1>3, <1>8, Small DEF Placed, TypedMaps, Fixed, IsGoto
<1>9. CASE e.src \in P.breaks /\ e.dest = For /\ For \in Range(P.seq[Top]) /\ e.post /\ ~e.back
  BY <1>2, <1>4, <1>9, Small DEF IsJump
<1> QED
  BY <1>1, <1>6, <1>7, <1>8, <1>9 DEF EdgeOK

LEMMA FlowTyped ==
  ASSUME Fixed, NEW P, WellFormed(P), NEW m, TypedMaps(m, P), NEW es \in SUBSET P.edges,
         \A e \in es : m.out[e.src] \in Known(Top),
         NEW b \in Blocks, NEW f \in FactsOf(b), NEW g, g = FlowIn(m, es, f)
  PROVE  g \in FactsOf(b) /\ Below(f, g)
BY MergeJumpsTyped DEF FlowIn

LEMMA BelowAgain ==
  ASSUME NEW f, NEW g, NEW h, Below(f, g), Below(g, h)
  PROVE  Below(f, h)
BY DEF Below

LEMMA BelowSelf ==
  ASSUME NEW f
  PROVE  Below(f, f)
BY DEF Below

LEMMA StatementInTyped ==
  ASSUME Fixed, NEW P, WellFormed(P), NEW m, TypedMaps(m, P), NEW b \in Blocks, NEW s \in Range(P.seq[b]),
         NEW f \in FactsOf(b), NEW g, g = StatementIn(m, P, s, f)
  PROVE  g \in FactsOf(b) /\ Below(f, g)
BY PlacedFacts, EdgesTyped, FlowTyped, BelowAgain DEF EdgesIn, StatementIn

\* What comes over the back edges of the loop body; no edge leads to the function's body.
LEMMA BlockInTyped ==
  ASSUME Fixed, NEW P, WellFormed(P), NEW m, TypedMaps(m, P), NEW b \in Blocks,
         NEW f \in FactsOf(Top), NEW g, g = BlockIn(m, P, b, f)
  PROVE  /\ g \in FactsOf(Top) /\ Below(f, g)
         /\ m.vis[b] => \A e \in EdgesIn(P, b, FALSE, TRUE) : m.out[e.src] # NoFacts => Below(m.out[e.src], g)
         /\ b = Top => g = f
<1>1. PICK G : G = {m.out[e.src] : e \in EdgesIn(P, b, FALSE, TRUE)}
  OBVIOUS
<1>2. \A e \in EdgesIn(P, b, FALSE, TRUE) : e \in P.edges /\ e.dest = b
  BY DEF EdgesIn
<1>3. b = Top => G = {}
  BY <1>1, <1>2, EdgesTyped
<1>4. G \subseteq Known(Top)
  BY <1>1, <1>2, <1>3, EdgesTyped, Small
<1>5. CASE m.vis[b]
  <2>1. g = Merge({f} \cup G)
    BY <1>1, <1>5 DEF BlockIn
  <2>2. /\ g \in FactsOf(Top) /\ Below(f, g)
        /\ \A h \in G : h # NoFacts => Below(h, g)
        /\ G \subseteq {NoFacts} => g = f
    BY <1>4, <2>1, MergeTyped
  <2> QED
    BY <1>1, <1>3, <1>5, <2>2
<1>6. CASE ~m.vis[b]
  BY <1>6, BelowSelf, Zenon DEF BlockIn
<1> QED
  BY <1>5, <1>6

LEMMA FactsBefore ==
  ASSUME NEW P, WellFormed(P), NEW b \in Blocks, NEW n \in 1 .. Len(P.seq[b]),
         NEW g, FactsAfter(g, n - 1, P, b)
  PROVE  g \in FactsOf(b)
BY DEF WellFormed, SeqOK, FactsAfter

LEMMA NextTyped ==
  ASSUME NEW P, NEW b, NEW n \in 1 .. Len(P.seq[b]), NEW m, NEW v, NEW X, NEW s, s = P.seq[b][n], NEW r, NEW z,
         TypedWalk(v, n - 1, m, P, b, X), StmTyped(v.maps, P, b, s, r), Contents(P, s) \subseteq X, z = NextStm(v, r)
  PROVE  TypedWalk(z, n, m, P, b, X)
BY TameAgain, TameMore DEF NextStm, StmTyped, TypedWalk, MaxOf, FactsAfter

LEMMA InBodyTyped ==
  ASSUME Fixed, NEW P, WellFormed(P), NEW n \in 1 .. Len(P.seq[Body]), NEW m, NEW v, NEW z,
         TypedWalk(v, n - 1, m, P, Body, Range(P.seq[Body])), z = VisitInBody(P, P.seq[Body][n], v)
  PROVE  TypedWalk(z, n, m, P, Body, Range(P.seq[Body]))
<1>1. CASE ~v.ok
  BY <1>1 DEF VisitInBody, TypedWalk
<1>2. CASE v.ok
  <2>1. PICK s : s = P.seq[Body][n]
    OBVIOUS
  <2>2. s \in Range(P.seq[Body]) /\ s \in Nodes /\ s # For /\ s # Body /\ s # Top
    BY <2>1, Small, InRange, PlacedFacts
  <2>3. PICK f : f = StatementIn(v.maps, P, s, v.facts)
    OBVIOUS
  <2>4. v.facts \in FactsOf(Body) /\ TypedMaps(v.maps, P)
    BY <1>2, FactsBefore, Small DEF TypedWalk
  <2>5. f \in FactsOf(Body)
    BY <2>2, <2>3, <2>4, StatementInTyped, Small
  <2>6. PICK r : r = Analysed(v.maps, P, s, f, VisitSimple(v.maps, s, f))
    OBVIOUS
  <2>7. StmTyped(v.maps, P, Body, s, r)
    BY <2>2, <2>4, <2>5, <2>6, AnalysedSimple, Small
  <2>8. z = NextStm(v, r)
    BY <1>2, <2>1, <2>3, <2>6, Zenon DEF VisitInBody
  <2>9. Contents(P, s) \subseteq Range(P.seq[Body])
    BY <2>2 DEF Contents
  <2> HIDE <2>6
  <2> QED
    BY <2>1, <2>7, <2>8, <2>9, NextTyped
<1> QED
  BY <1>1, <1>2

\* A walk through the loop body.
LEMMA WalkBodyTyped ==
  ASSUME Fixed, NEW P, WellFormed(P), NEW m, TypedMaps(m, P), NEW f \in FactsOf(Body),
         NEW w, w = WalkBody(m, P, f)
  PROVE  TypedWalk(w, Len(P.seq[Body]), m, P, Body, Range(P.seq[Body]))
<1> DEFINE N == Len(P.seq[Body])
           Good(v, n) == TypedWalk(v, n, m, P, Body, Range(P.seq[Body]))
<1>1. P.seq \in [Blocks -> Seq(Nodes)] /\ N \in Nat
  BY PlacedFacts, InRange, Small DEF WellFormed, Program
<1>2. PICK x : /\ x[0] = Walk0(m, f)
               /\ \A i \in 1 .. N : x[i] = VisitInBody(P, P.seq[Body][i], x[i - 1])
               /\ w = x[N]
  BY <1>1, WalkBodyDef
<1> DEFINE A == {n \in 0 .. N : Good(x[n], n)}
<1>3. 0 \in A
  <2>1. PICK v : v = x[0]
    OBVIOUS
  <2>2. v.ok = TRUE /\ v.maps = m /\ v.facts = f /\ v.rounds = 0 /\ v.passed = 0
    BY <1>2, <2>1 DEF Walk0
  <2>3. Good(v, 0)
    <3>1. v.rounds \in Nat /\ v.passed \in Nat
      BY <2>2
    <3>2. v.ok \in BOOLEAN
      BY <2>2
    <3>3. TypedMaps(v.maps, P)
      BY <2>2, Zenon
    <3>4. Tame(m, v.maps, Range(P.seq[Body]))
      BY <2>2, TameSelf
    <3>5. FactsAfter(v.facts, 0, P, Body)
      BY <2>2 DEF FactsAfter
    <3> QED
      BY <3>1, <3>4, <3>5, <3>3, <3>2, Zenon DEF TypedWalk
  <2> HIDE DEF Good
  <2> QED
    BY <1>1, <2>1, <2>3
<1>4. ASSUME NEW n \in 1 .. N, n - 1 \in A
      PROVE  n \in A
  <2>1. PICK v : v = x[n - 1]
    OBVIOUS
  <2>2. Good(v, n - 1)
    BY <1>4, <2>1
  <2>3. PICK z : z = x[n] /\ z = VisitInBody(P, P.seq[Body][n], v)
    BY <1>2, <2>1
  <2>4. Good(z, n)
    BY <2>2, <2>3, InBodyTyped
  <2>5. n \in 0 .. N
    BY <1>1
  <2> HIDE DEF Good
  <2> QED
    BY <2>3, <2>4, <2>5
<1>5. N \in A
  <2>1. \A n \in 1 .. N : n - 1 \in A => n \in A
    BY <1>4
  <2> HIDE DEF A
  <2>2. 0 .. N \subseteq A
    BY <1>1, <1>3, <2>1, UpTo
  <2> QED
    BY <1>1, <2>2
<1>6. Good(x[N], N)
  <2> HIDE DEF Good
  <2> QED
    BY <1>5
<1> QED
  BY <1>2, <1>6

LEMMA StartTyped ==
  ASSUME Fixed, NEW P, WellFormed(P), NEW m, TypedMaps(m, P), NEW b \in Blocks,
         NEW f \in FactsOf(Top), NEW once \in BOOLEAN, NEW X, NEW x, x = Start(m, P, b, f, once)
  PROVE  Started(x, m, P, b, f, once, X)
<1>1. PICK y : y = [maps |-> m, in |-> f, once |-> once, cnt |-> 0,
                    ok |-> TRUE, passed |-> 0, post |-> NoFacts, rounds |-> 0]
  OBVIOUS
<1>2. PICK g : g = BlockIn(m, P, b, f)
  OBVIOUS
<1>3. PICK c : c = IF m.vis[b] THEN 1 ELSE 0
  OBVIOUS
<1>4. x = [y EXCEPT !.in = g, !.cnt = c]
  BY <1>1, <1>2, <1>3 DEF Start, Enter
<1>5. x = [maps |-> m, in |-> g, once |-> once, cnt |-> c,
           ok |-> TRUE, passed |-> 0, post |-> NoFacts, rounds |-> 0]
  BY <1>1, <1>4
<1>6. g \in FactsOf(Top)
  BY <1>2, BlockInTyped
<1>7. c \in Nat /\ c <= 1 /\ m \in Maps /\ g \in Facts /\ NoFacts \in Facts
  BY <1>3, <1>6, FactsSmall, Small DEF TypedMaps
<1>8. x \in Search
  BY <1>5, <1>7 DEF Search
<1>9. /\ x.maps = m /\ x.in = g /\ x.cnt <= 1 /\ x.once = once /\ x.ok = TRUE /\ x.rounds = 0
  BY <1>5, <1>7
<1>10. TypedSearch(x, m, P, X)
  BY <1>6, <1>8, <1>9, TameSelf DEF TypedSearch
<1>11. x.in = BlockIn(m, P, b, f)
  BY <1>2, <1>9, Zenon
<1> QED
  BY <1>9, <1>10, <1>11, Zenon DEF Started

LEMMA AgainOK ==
  ASSUME NEW P, NEW b \in Blocks, NEW x \in Search, NEW w, w.maps \in Maps, w.ok, w.facts \in Facts,
         w.rounds \in Nat, NEW g \in Facts,
         g = OutOfScope(w.facts, IF b = Body THEN Local ELSE {}), NEW z, z = Again(P, b, x, w)
  PROVE  AgainDone(P, b, x, w, g, z)
<1>1. PICK m : m = [w.maps EXCEPT !.in[b] = x.in, !.vis[b] = TRUE, !.out[b] = g]
  OBVIOUS
<1>2. PICK y : y = [x EXCEPT !.rounds = MaxOf(x.rounds, w.rounds)]
  OBVIOUS
<1>3. PICK u : u = [y EXCEPT !.maps = m, !.once = FALSE, !.post = w.facts]
  OBVIOUS
<1>4. z = Enter(P, b, u)
  BY <1>1, <1>2, <1>3, Zenon DEF Again
<1>5. b \in Nodes /\ x.in \in Facts /\ x.cnt \in Nat
  BY Small DEF Search
<1>6. Saved(w.maps, b, x.in, g, m)
  BY <1>1, <1>5, SaveMaps, Zenon DEF Maps
<1>7. x = [maps |-> x.maps, in |-> x.in, once |-> x.once, cnt |-> x.cnt, ok |-> x.ok, passed |-> x.passed,
           post |-> x.post, rounds |-> x.rounds]
  BY DEF Search
<1>8. u = [maps |-> m, in |-> x.in, once |-> FALSE, cnt |-> x.cnt, ok |-> x.ok, passed |-> x.passed,
           post |-> w.facts, rounds |-> MaxOf(x.rounds, w.rounds)]
  BY <1>2, <1>3, <1>7
<1>9. m.vis[b] = TRUE
  BY <1>6 DEF Saved
<1>10. z = [u EXCEPT !.in = BlockIn(m, P, b, x.in), !.cnt = x.cnt + 1]
  BY <1>4, <1>8, <1>9, Zenon DEF Enter
<1>11. PICK i : i = BlockIn(m, P, b, x.in)
  OBVIOUS
<1>12. PICK c \in Nat : c = x.cnt + 1
  BY <1>5
<1>13. z = [maps |-> m, in |-> i, once |-> FALSE, cnt |-> c, ok |-> x.ok, passed |-> x.passed,
            post |-> w.facts, rounds |-> MaxOf(x.rounds, w.rounds)]
  BY <1>8, <1>10, <1>11, <1>12
<1>14. MaxOf(x.rounds, w.rounds) \in Nat /\ m \in Maps /\ x.ok \in BOOLEAN /\ x.passed \in Nat
  BY <1>6 DEF MaxOf, Search, Saved
<1>15. z.in \in Facts => z \in Search
  BY <1>13, <1>14 DEF Search
<1>16. z.maps = m /\ z.in = i /\ z.once = FALSE /\ z.cnt = c /\ z.ok = x.ok /\ z.passed = x.passed
       /\ z.post = w.facts /\ z.rounds = MaxOf(x.rounds, w.rounds)
  BY <1>13
<1> HIDE <1>10, <1>13
<1>17. Saved(w.maps, b, x.in, g, z.maps)
  BY <1>6, <1>16, Zenon
<1>18. z.in = BlockIn(z.maps, P, b, x.in)
  BY <1>11, <1>16, Zenon
<1>19. z.cnt = x.cnt + 1
  BY <1>12, <1>16
<1> QED
  BY <1>15, <1>16, <1>17, <1>18, <1>19, Zenon DEF AgainDone

LEMMA AgainNot ==
  ASSUME NEW P, NEW b, NEW x \in Search, NEW w, w.maps \in Maps, ~w.ok, w.passed \in Nat, w.rounds \in Nat,
         NEW z, z = Again(P, b, x, w)
  PROVE  AgainFailed(x, w, z)
BY Zenon DEF Again, Search, MaxOf, AgainFailed

LEMMA RoundTyped ==
  ASSUME Fixed, NEW P, WellFormed(P), NEW b \in Blocks, NEW m, NEW X, NEW Y, Y \subseteq X, b \in X, b \notin Y,
         NEW x, TypedSearch(x, m, P, X), NEW w, TypedWalk(w, Len(P.seq[b]), x.maps, P, b, Y),
         NEW z, z = Again(P, b, x, w)
  PROVE  RoundDone(x, w, z, m, P, b, X)
<1>1. /\ x \in Search /\ TypedMaps(x.maps, P) /\ Tame(m, x.maps, X) /\ x.in \in FactsOf(Top)
  BY Zenon DEF TypedSearch
<1>2. /\ TypedMaps(w.maps, P) /\ Tame(x.maps, w.maps, Y) /\ w.rounds \in Nat /\ w.passed \in Nat
      /\ w.ok => FactsAfter(w.facts, Len(P.seq[b]), P, b)
  BY Zenon DEF TypedWalk
<1>3. w.maps \in Maps
  BY <1>2 DEF TypedMaps
<1>4. Tame(m, w.maps, X)
  BY <1>1, <1>2, TameAgain, TameMore
<1>5. CASE w.ok
  <2>1. w.facts \in FactsOf(b) \/ w.facts \in FactsOf(Top)
    BY <1>2, <1>5 DEF FactsAfter
  <2>2. PICK g : g = OutOfScope(w.facts, IF b = Body THEN Local ELSE {})
    OBVIOUS
  <2>3. g \in FactsOf(Top)
    BY <2>1, <2>2, Small, OutOfScopeTyped, SameScope
  <2>4. w.facts \in Facts /\ g \in Facts
    BY <2>1, <2>3, FactsSmall, Small
  <2>5. AgainDone(P, b, x, w, g, z)
    BY <1>1, <1>2, <1>3, <1>5, <2>2, <2>4, AgainOK
  <2>6. Saved(w.maps, b, x.in, g, z.maps) /\ z.in = BlockIn(z.maps, P, b, x.in)
        /\ z.once = FALSE /\ z.cnt = x.cnt + 1 /\ (z.in \in Facts => z \in Search)
    BY <2>5, Zenon DEF AgainDone
  <2>7. /\ z.maps \in Maps /\ z.maps.in[b] = x.in /\ z.maps.out[b] = g
        /\ \A n \in Nodes : n # b => z.maps.in[n] = w.maps.in[n] /\ z.maps.out[n] = w.maps.out[n]
        /\ \A n \in Nodes : w.maps.vis[n] => z.maps.vis[n]
    BY <2>6 DEF Saved
  <2>8. Tame(w.maps, z.maps, {b})
    BY <2>7 DEF Tame
  <2>9. TypedMaps(z.maps, P)
    BY <1>1, <1>2, <2>3, <2>7, <2>8, Small, PlacedFacts, TameTyped DEF Known
  <2>10. Tame(m, z.maps, X)
    BY <1>4, <2>8, TameAgain, TameMore
  <2>11. z.in \in FactsOf(Top)
    <3>1. PICK i : i = BlockIn(z.maps, P, b, x.in)
      OBVIOUS
    <3>2. i \in FactsOf(Top)
      BY <1>1, <2>9, <3>1, BlockInTyped
    <3> QED
      BY <2>6, <3>1, <3>2, Zenon
  <2>12. z \in Search
    BY <2>6, <2>11, FactsSmall, Small
  <2>13. TypedSearch(z, m, P, X)
    BY <2>9, <2>10, <2>11, <2>12, Zenon DEF TypedSearch
  <2>14. z.maps.in[b] = x.in /\ z.once = FALSE /\ z.cnt = x.cnt + 1
    BY <2>6, <2>7
  <2> QED
    BY <1>5, <2>13, <2>14, Zenon DEF RoundDone
<1>6. CASE ~w.ok
  <2>1. AgainFailed(x, w, z)
    BY <1>1, <1>2, <1>3, <1>6, AgainNot
  <2>2. z.maps = w.maps /\ z.in = x.in /\ z.ok = FALSE /\ z \in Search
    BY <2>1, Zenon DEF AgainFailed
  <2>3. TypedMaps(z.maps, P) /\ Tame(m, z.maps, X) /\ z.in \in FactsOf(Top)
    BY <1>1, <1>2, <1>4, <2>2
  <2>4. TypedSearch(z, m, P, X)
    BY <2>2, <2>3, Zenon DEF TypedSearch
  <2>5. ~z.ok
    BY <2>2
  <2> QED
    BY <1>6, <2>4, <2>5, Zenon DEF RoundDone
<1> QED
  BY <1>5, <1>6

LEMMA StepTyped ==
  ASSUME Fixed, NEW P, WellFormed(P), NEW b \in Blocks, NEW m, NEW X, NEW Y, Y \subseteq X, b \in X, b \notin Y,
         NEW n \in Nat \ {0}, NEW x, TypedFrom(x, n - 1, m, P, b, X), NEW w, NEW z,
         ~Ended(P, b, x) => TypedWalk(w, Len(P.seq[b]), x.maps, P, b, Y),
         z = IF Ended(P, b, x) THEN x ELSE Again(P, b, x, w)
  PROVE  TypedFrom(z, n, m, P, b, X)
<1>1. TypedSearch(x, m, P, X) /\ x.in \in FactsOf(Top) /\ x \in Search
  BY Zenon DEF TypedFrom, TypedSearch
<1>2. CASE Ended(P, b, x)
  BY <1>1, <1>2, FixpointConstantsOK DEF GaveUp, Search, TypedFrom, Ended, Shortcut
<1>3. CASE ~Ended(P, b, x)
  <2>1. z = Again(P, b, x, w) /\ TypedWalk(w, Len(P.seq[b]), x.maps, P, b, Y)
    BY <1>3
  <2>2. RoundDone(x, w, z, m, P, b, X)
    BY <1>1, <2>1, RoundTyped
  <2>3. /\ TypedSearch(z, m, P, X) /\ (z.ok => w.ok)
        /\ w.ok => z.maps.in[b] = x.in
    BY <2>2, Zenon DEF RoundDone
  <2>4. n # 0
    OBVIOUS
  <2> HIDE <2>1
  <2> QED
    BY <1>1, <2>3, <2>4 DEF TypedFrom
<1> QED
  BY <1>2, <1>3

LEMMA ResultTyped ==
  ASSUME NEW x, NEW m, NEW P, NEW b, NEW X, TypedFrom(x, MaxRounds + 1, m, P, b, X), NEW r, r = Result(x)
  PROVE  TypedResult(r, m, P, b, X)
BY FixpointConstantsOK DEF TypedFrom, TypedSearch, MaxOf, Search, Result, TypedResult

LEMMA SearchBodyTyped ==
  ASSUME Fixed, NEW P, WellFormed(P), NEW m, TypedMaps(m, P), NEW f \in FactsOf(Top), NEW once \in BOOLEAN,
         NEW r, r = FixedPointBody(m, P, f, once)
  PROVE  TypedResult(r, m, P, Body, {Body} \cup Range(P.seq[Body]))
<1>1. PICK X : X = {Body} \cup Range(P.seq[Body])
  OBVIOUS
<1> DEFINE N == MaxRounds + 1
           Good(v, n) == TypedFrom(v, n, m, P, Body, X)
<1>2. N \in Nat /\ MaxRounds \in Nat
  BY FixpointConstantsOK
<1>3. PICK x : /\ x[0] = Start(m, P, Body, f, once)
               /\ \A i \in 1 .. MaxRounds + 1 : x[i] = BodyRound(P, x[i - 1])
               /\ r = Result(x[MaxRounds + 1])
  BY SearchBodyDef
<1> DEFINE A == {n \in 0 .. N : Good(x[n], n)}
<1>4. 0 \in A
  <2>1. PICK z : z = x[0]
    OBVIOUS
  <2>2. z = Start(m, P, Body, f, once)
    BY <1>3, <2>1
  <2>3. Started(z, m, P, Body, f, once, X)
    BY <2>2, StartTyped, Small
  <2>4. TypedSearch(z, m, P, X) /\ z.cnt <= 1
    BY <2>3 DEF Started
  <2>5. Good(z, 0)
    BY <2>4 DEF TypedFrom
  <2> HIDE DEF Good
  <2> QED
    BY <1>2, <2>1, <2>5
<1>5. ASSUME NEW n \in 1 .. N, n - 1 \in A
      PROVE  n \in A
  <2>1. PICK v : v = x[n - 1]
    OBVIOUS
  <2>2. Good(v, n - 1)
    BY <1>5, <2>1
  <2>3. PICK z : z = x[n] /\ z = BodyRound(P, v)
    BY <1>3, <2>1
  <2>4. PICK w : w = WalkBody(v.maps, P, AddLocals(v.in))
    OBVIOUS
  <2>5. z = IF Ended(P, Body, v) THEN v ELSE Again(P, Body, v, w)
    BY <2>3, <2>4, Zenon DEF BodyRound
  <2>6. TypedMaps(v.maps, P) /\ v.in \in FactsOf(Top)
    BY <2>2, Zenon DEF TypedFrom, TypedSearch
  <2>7. PICK g : g = AddLocals(v.in)
    OBVIOUS
  <2>8. g \in FactsOf(Body)
    BY <2>6, <2>7, AddLocalsTyped
  <2>9. TypedWalk(w, Len(P.seq[Body]), v.maps, P, Body, Range(P.seq[Body]))
    <3>1. w = WalkBody(v.maps, P, g)
      BY <2>4, <2>7
    <3> HIDE <2>4, <2>7
    <3> QED
      BY <2>6, <2>8, <3>1, WalkBodyTyped
  <2>10. Body \notin Range(P.seq[Body])
    BY PlacedFacts, Small
  <2>11. Good(z, n)
    <3>1. n \in Nat \ {0}
      BY <1>2
    <3>2. PICK Y : Y = Range(P.seq[Body])
      OBVIOUS
    <3>3. Y \subseteq X /\ Body \in X /\ Body \notin Y
      BY <1>1, <2>10, <3>2
    <3>4. TypedWalk(w, Len(P.seq[Body]), v.maps, P, Body, Y)
      BY <2>9, <3>2
    <3> HIDE <2>3, <2>4
    <3> QED
      BY <2>2, <2>5, <3>1, <3>3, <3>4, StepTyped, Small
  <2>12. n \in 0 .. N
    BY <1>2
  <2> HIDE DEF Good
  <2> QED
    BY <2>3, <2>11, <2>12
<1>6. N \in A
  <2>1. \A n \in 1 .. N : n - 1 \in A => n \in A
    BY <1>5
  <2> HIDE DEF A
  <2>2. 0 .. N \subseteq A
    BY <1>2, <1>4, <2>1, UpTo
  <2> QED
    BY <1>2, <2>2
<1>7. PICK z : z = x[MaxRounds + 1]
  OBVIOUS
<1>8. TypedFrom(z, MaxRounds + 1, m, P, Body, X)
  <2>1. Good(x[N], N)
    <3> HIDE DEF Good
    <3> QED
      BY <1>6
  <2> QED
    BY <1>7, <2>1
<1>9. r = Result(z)
  BY <1>3, <1>7
<1>10. TypedResult(r, m, P, Body, X)
  BY <1>8, <1>9, ResultTyped
<1> QED
  BY <1>1, <1>10, Zenon

LEMMA LeaveLoopTyped ==
  ASSUME Fixed, NEW P, WellFormed(P), NEW m, NEW f \in FactsOf(Top), NEW r,
         TypedResult(r, m, P, Body, {Body} \cup Range(P.seq[Body])), NEW v, v = LeaveLoop(P, f, r)
  PROVE  LoopVisited(m, P, f, r, v)
<1>1. r \in Search /\ TypedMaps(r.maps, P) /\ (r.ok => r.maps.in[Body] \in FactsOf(Top))
  BY Zenon DEF TypedResult
<1>2. Tame(m, r.maps, {Body} \cup Range(P.seq[Body]))
  BY Zenon DEF TypedResult
<1>3. PICK o : o = MergeJumps(IF BodyMustReturn(P) THEN f ELSE r.maps.in[Body],
                              {r.maps.out[e.src] : e \in EdgesIn(P, For, TRUE, FALSE)})
  OBVIOUS
<1>4. PICK m1 : m1 = [r.maps EXCEPT !.vis = [n \in Nodes |-> @[n] \/ n = For \/ (n = Body /\ r.ok)]]
  OBVIOUS
<1>5. v = [ok |-> r.ok, maps |-> m1, facts |-> o, rounds |-> r.rounds]
  BY <1>3, <1>4, Zenon DEF LeaveLoop
<1>6. v.ok = r.ok /\ v.maps = m1 /\ v.facts = o /\ v.rounds = r.rounds
  BY <1>5
<1>7. r.ok \in BOOLEAN /\ r.rounds \in Nat /\ r.maps \in Maps
  BY <1>1 DEF Search
<1>8. /\ m1 \in Maps /\ m1.in = r.maps.in /\ m1.out = r.maps.out
      /\ \A n \in Nodes : m1.vis[n] = (r.maps.vis[n] \/ n = For \/ (n = Body /\ r.ok))
  BY <1>4, <1>7, Zenon DEF Maps
<1>9. TypedMaps(m1, P)
  BY <1>1, <1>8 DEF TypedMaps, TypedAt
<1>10. Tame(m, m1, Contents(P, For))
  <2>1. Tame(m, m1, {Body} \cup Range(P.seq[Body]))
    BY <1>2, <1>8 DEF Tame
  <2>2. {Body} \cup Range(P.seq[Body]) \subseteq Contents(P, For)
    BY Small DEF Contents
  <2> QED
    BY <2>1, <2>2, TameMore
<1>11. ASSUME r.ok
       PROVE  o \in FactsOf(Top)
  <2>1. PICK g : g = IF BodyMustReturn(P) THEN f ELSE r.maps.in[Body]
    OBVIOUS
  <2>2. g \in FactsOf(Top)
    BY <1>1, <1>11, <2>1
  <2>3. PICK G : G = {r.maps.out[e.src] : e \in EdgesIn(P, For, TRUE, FALSE)}
    OBVIOUS
  <2>4. \A e \in EdgesIn(P, For, TRUE, FALSE) : r.maps.out[e.src] \in Known(Top)
    BY <1>1, EdgesTyped DEF EdgesIn
  <2>5. G \subseteq Known(Top)
    BY <2>3, <2>4
  <2>6. o = MergeJumps(g, G)
    BY <1>3, <2>1, <2>3
  <2> HIDE <1>3
  <2> QED
    BY <2>2, <2>5, <2>6, MergeJumpsTyped, Small
<1>12. v.maps.in = r.maps.in /\ v.maps.out = r.maps.out
       /\ \A n \in Nodes : v.maps.vis[n] = (r.maps.vis[n] \/ n = For \/ (n = Body /\ r.ok))
  BY <1>6, <1>8
<1>13. v.ok => v.facts \in FactsOf(Top)
  BY <1>6, <1>11
<1>14. v.facts = MergeJumps(IF BodyMustReturn(P) THEN f ELSE r.maps.in[Body],
                            {r.maps.out[e.src] : e \in EdgesIn(P, For, TRUE, FALSE)})
  BY <1>3, <1>6, Zenon
<1>15. TypedMaps(v.maps, P) /\ Tame(m, v.maps, Contents(P, For)) /\ v.rounds \in Nat /\ v.ok \in BOOLEAN
  BY <1>6, <1>7, <1>9, <1>10
<1> QED
  BY <1>6, <1>12, <1>13, <1>14, <1>15, Zenon DEF LoopVisited

LEMMA VisitLoopTyped ==
  ASSUME Fixed, NEW P, WellFormed(P), NEW m, TypedMaps(m, P), NEW f \in FactsOf(Top),
         NEW v, v = VisitStm(m, P, For, f)
  PROVE  \E r : r = FixedPointBody(m, P, f, FALSE) /\ LoopVisited(m, P, f, r, v)
<1>1. PICK r : r = FixedPointBody(m, P, f, FALSE)
  OBVIOUS
<1>2. TypedResult(r, m, P, Body, {Body} \cup Range(P.seq[Body]))
  BY <1>1, SearchBodyTyped
<1>3. v = LeaveLoop(P, f, r)
  BY <1>1 DEF VisitStm
<1> HIDE <1>1
<1>4. LoopVisited(m, P, f, r, v)
  BY <1>2, <1>3, LeaveLoopTyped
<1> QED
  BY <1>1, <1>4

LEMMA AnalysedLoop ==
  ASSUME Fixed, NEW P, WellFormed(P), For \in Range(P.seq[Top]), NEW m, TypedMaps(m, P),
         NEW f \in FactsOf(Top), NEW r, r = Analysed(m, P, For, f, VisitStm(m, P, For, f))
  PROVE  StmTyped(m, P, Top, For, r) /\ LoopDone(m, P, f, r)
<1>1. /\ m \in Maps /\ TypedAt(m, For, Top) /\ stm[For].k = "for" /\ ~IsCtrl(For) /\ OutBlock(For, Top) = Top
  BY Small DEF TypedMaps, Fixed, IsCtrl, OutBlock, IsJump
<1>2. f # NoFacts /\ f \in Facts
  BY FactsSmall, Small
<1>3. CASE Shortcut(m, P, For, f)
  <2>1. r = [ok |-> TRUE, maps |-> MarkGotos(m, P, For), facts |-> m.out[For], rounds |-> 0]
    BY <1>3, Zenon DEF Analysed
  <2>2. /\ r.ok = TRUE /\ r.maps = MarkGotos(m, P, For) /\ r.facts = m.out[For] /\ r.rounds = 0
        /\ f = m.in[For] /\ ~UnfixedGoto(m, P, For)
    BY <1>3, <2>1 DEF Shortcut
  <2>3. r.maps \in Maps /\ r.maps.in = m.in /\ r.maps.out = m.out
    BY <1>1, <2>2, MarkMaps DEF Marked
  <2>4. Tame(m, r.maps, Contents(P, For))
    <3>1. \A n \in Nodes : m.vis[n] => r.maps.vis[n]
      <4>1. Marked(m, P, For, r.maps)
        BY <1>1, <2>2, MarkMaps
      <4> QED
        BY <4>1 DEF Marked
    <3> QED
      BY <2>3, <3>1 DEF Tame
  <2>5. TypedMaps(r.maps, P)
    BY <2>3 DEF TypedMaps, TypedAt
  <2>6. r.facts \in FactsOf(Top)
    BY <1>1, <1>2, <2>2 DEF TypedAt, Known
  <2>7. StmTyped(m, P, Top, For, r)
    <3>1. r.ok \in BOOLEAN
      BY <2>2
    <3>2. r.rounds \in Nat
      BY <2>2
    <3> QED
      BY <2>4, <2>5, <2>6, <3>1, <3>2, Zenon DEF StmTyped
  <2> QED
    BY <2>2, <2>7 DEF LoopDone
<1>4. CASE ~Shortcut(m, P, For, f)
  <2>1. PICK v : v = VisitStm(m, P, For, f)
    OBVIOUS
  <2>2. PICK x : x = FixedPointBody(m, P, f, FALSE) /\ LoopVisited(m, P, f, x, v)
    BY <2>1, VisitLoopTyped
  <2>3. r = IF v.ok THEN [v EXCEPT !.maps = Save(v.maps, For, f, v.facts)] ELSE v
    BY <1>4, <2>1, Zenon DEF Analysed, Record
  <2>4. /\ TypedMaps(v.maps, P) /\ Tame(m, v.maps, Contents(P, For)) /\ v.rounds \in Nat /\ v.ok \in BOOLEAN
        /\ v.ok = x.ok /\ v.rounds = x.rounds /\ (v.ok => v.facts \in FactsOf(Top))
    BY <2>2, Zenon DEF LoopVisited
  <2>5. v.maps \in Maps
    BY <2>4 DEF TypedMaps
  <2>6. CASE v.ok
    <3>1. PICK m1 : m1 = [v.maps EXCEPT !.in[For] = f, !.out[For] = v.facts, !.vis[For] = TRUE]
      OBVIOUS
    <3>2. v.facts \in Facts /\ v.facts # NoFacts /\ v.facts \in FactsOf(Top)
      BY <2>4, <2>6, FactsSmall, Small
    <3>3. FactOut(For, v.facts) = v.facts
      BY <1>1 DEF FactOut
    <3>4. r = [v EXCEPT !.maps = m1]
      BY <2>3, <2>6, <3>1, <3>3, Zenon DEF Save
    <3>5. Saved(v.maps, For, f, v.facts, m1)
      BY <1>2, <2>5, <3>1, <3>2, SaveMaps, Small
    <3>6. r.ok = TRUE /\ r.maps = m1 /\ r.facts = v.facts /\ r.rounds = v.rounds
      BY <2>6, <3>4
    <3>7. /\ m1 \in Maps /\ m1.in[For] = f /\ m1.out[For] = v.facts
          /\ \A n \in Nodes : n # For => m1.in[n] = v.maps.in[n] /\ m1.out[n] = v.maps.out[n]
          /\ \A n \in Nodes : v.maps.vis[n] => m1.vis[n]
      BY <3>5 DEF Saved
    <3>8. Tame(v.maps, m1, {For})
      BY <3>7 DEF Tame
    <3>9. Tame(m, m1, Contents(P, For))
      BY <2>4, <3>8, TameAgain, TameMore DEF Contents
    <3>10. TypedMaps(m1, P)
      BY <1>1, <2>4, <3>2, <3>7, <3>8, Small, PlacedFacts, TameTyped DEF TypedAt, Known
    <3>11. StmTyped(m, P, Top, For, r)
      BY <2>4, <3>2, <3>6, <3>9, <3>10, Zenon DEF StmTyped
    <3>12. LoopDone(m, P, f, r)
      BY <2>2, <2>4, <2>6, <3>5, <3>6, Zenon DEF LoopDone
    <3> QED
      BY <3>11, <3>12
  <2>7. CASE ~v.ok
    BY <2>2, <2>3, <2>4, <2>7, Zenon DEF StmTyped, LoopDone
  <2> QED
    BY <2>6, <2>7
<1> QED
  BY <1>3, <1>4

LEMMA ContentsSmall ==
  ASSUME NEW P, WellFormed(P), NEW s \in Range(P.seq[Top])
  PROVE  Contents(P, s) \subseteq Nodes \ {Top}
BY Small, PlacedFacts DEF Contents

LEMMA AnalysedTop ==
  ASSUME Fixed, NEW P, WellFormed(P), NEW s \in Range(P.seq[Top]), NEW m, TypedMaps(m, P),
         NEW f \in FactsOf(Top), NEW r, r = Analysed(m, P, s, f, VisitStm(m, P, s, f))
  PROVE  StmTyped(m, P, Top, s, r)
BY Small, AnalysedSimple, AnalysedLoop, Zenon DEF VisitStm

LEMMA InTopTyped ==
  ASSUME Fixed, NEW P, WellFormed(P), NEW n \in 1 .. Len(P.seq[Top]), NEW m, NEW v, NEW z,
         TypedWalk(v, n - 1, m, P, Top, Nodes \ {Top}), z = VisitInTop(P, P.seq[Top][n], v)
  PROVE  TypedWalk(z, n, m, P, Top, Nodes \ {Top})
<1>1. CASE ~v.ok
  BY <1>1 DEF VisitInTop, TypedWalk
<1>2. CASE v.ok
  <2>1. PICK s : s = P.seq[Top][n]
    OBVIOUS
  <2>2. s \in Range(P.seq[Top]) /\ s \in Nodes /\ s # Top
    BY <2>1, PlacedFacts, InRange, Small
  <2>3. PICK f : f = StatementIn(v.maps, P, s, v.facts)
    OBVIOUS
  <2>4. v.facts \in FactsOf(Top) /\ TypedMaps(v.maps, P)
    BY <1>2, FactsBefore, Small DEF TypedWalk
  <2>5. f \in FactsOf(Top)
    BY <2>2, <2>3, <2>4, StatementInTyped, Small
  <2>6. PICK r : r = Analysed(v.maps, P, s, f, VisitStm(v.maps, P, s, f))
    OBVIOUS
  <2>7. StmTyped(v.maps, P, Top, s, r)
    BY <2>2, <2>4, <2>5, <2>6, AnalysedTop
  <2>8. z = NextStm(v, r)
    BY <1>2, <2>1, <2>3, <2>6, Zenon DEF VisitInTop
  <2>9. Contents(P, s) \subseteq Nodes \ {Top}
    BY <2>2, ContentsSmall
  <2> HIDE <2>6
  <2> QED
    BY <2>1, <2>7, <2>8, <2>9, NextTyped
<1> QED
  BY <1>1, <1>2

\* A walk through the function.
LEMMA WalkTopTyped ==
  ASSUME Fixed, NEW P, WellFormed(P), NEW m, TypedMaps(m, P), NEW f \in FactsOf(Top),
         NEW w, w = WalkTop(m, P, f)
  PROVE  TypedWalk(w, Len(P.seq[Top]), m, P, Top, Nodes \ {Top})
<1> DEFINE N == Len(P.seq[Top])
           Good(v, n) == TypedWalk(v, n, m, P, Top, Nodes \ {Top})
<1>1. P.seq \in [Blocks -> Seq(Nodes)] /\ N \in Nat
  BY PlacedFacts, InRange, Small DEF WellFormed, Program
<1>2. PICK x : /\ x[0] = Walk0(m, f)
               /\ \A i \in 1 .. N : x[i] = VisitInTop(P, P.seq[Top][i], x[i - 1])
               /\ w = x[N]
  BY <1>1, WalkTopDef
<1> DEFINE A == {n \in 0 .. N : Good(x[n], n)}
<1>3. 0 \in A
  <2>1. PICK v : v = x[0]
    OBVIOUS
  <2>2. v.ok = TRUE /\ v.maps = m /\ v.facts = f /\ v.rounds = 0 /\ v.passed = 0
    BY <1>2, <2>1 DEF Walk0
  <2>3. Good(v, 0)
    <3>1. v.rounds \in Nat /\ v.passed \in Nat
      BY <2>2
    <3>2. v.ok \in BOOLEAN
      BY <2>2
    <3>3. TypedMaps(v.maps, P)
      BY <2>2, Zenon
    <3>4. Tame(m, v.maps, Nodes \ {Top})
      BY <2>2, TameSelf
    <3>5. FactsAfter(v.facts, 0, P, Top)
      BY <2>2 DEF FactsAfter
    <3> QED
      BY <3>1, <3>4, <3>5, <3>3, <3>2, Zenon DEF TypedWalk
  <2> HIDE DEF Good
  <2> QED
    BY <1>1, <2>1, <2>3
<1>4. ASSUME NEW n \in 1 .. N, n - 1 \in A
      PROVE  n \in A
  <2>1. PICK v : v = x[n - 1]
    OBVIOUS
  <2>2. Good(v, n - 1)
    BY <1>4, <2>1
  <2>3. PICK z : z = x[n] /\ z = VisitInTop(P, P.seq[Top][n], v)
    BY <1>2, <2>1
  <2>4. Good(z, n)
    BY <2>2, <2>3, InTopTyped
  <2>5. n \in 0 .. N
    BY <1>1
  <2> HIDE DEF Good
  <2> QED
    BY <2>3, <2>4, <2>5
<1>5. N \in A
  <2>1. \A n \in 1 .. N : n - 1 \in A => n \in A
    BY <1>4
  <2> HIDE DEF A
  <2>2. 0 .. N \subseteq A
    BY <1>1, <1>3, <2>1, UpTo
  <2> QED
    BY <1>1, <2>2
<1>6. Good(x[N], N)
  <2> HIDE DEF Good
  <2> QED
    BY <1>5
<1> QED
  BY <1>2, <1>6

LEMMA SearchTopTyped ==
  ASSUME Fixed, NEW P, WellFormed(P), NEW m, TypedMaps(m, P), NEW f \in FactsOf(Top), NEW once \in BOOLEAN,
         NEW r, r = FixedPointTop(m, P, f, once)
  PROVE  TypedResult(r, m, P, Top, Nodes)
<1>1. PICK X : X = Nodes
  OBVIOUS
<1> DEFINE N == MaxRounds + 1
           Good(v, n) == TypedFrom(v, n, m, P, Top, X)
<1>2. N \in Nat /\ MaxRounds \in Nat
  BY FixpointConstantsOK
<1>3. PICK x : /\ x[0] = Start(m, P, Top, f, once)
               /\ \A i \in 1 .. MaxRounds + 1 : x[i] = TopRound(P, x[i - 1])
               /\ r = Result(x[MaxRounds + 1])
  BY SearchTopDef
<1> DEFINE A == {n \in 0 .. N : Good(x[n], n)}
<1>4. 0 \in A
  <2>1. PICK z : z = x[0]
    OBVIOUS
  <2>2. z = Start(m, P, Top, f, once)
    BY <1>3, <2>1
  <2>3. Started(z, m, P, Top, f, once, X)
    BY <2>2, StartTyped, Small
  <2>4. TypedSearch(z, m, P, X) /\ z.cnt <= 1
    BY <2>3 DEF Started
  <2>5. Good(z, 0)
    BY <2>4 DEF TypedFrom
  <2> HIDE DEF Good
  <2> QED
    BY <1>2, <2>1, <2>5
<1>5. ASSUME NEW n \in 1 .. N, n - 1 \in A
      PROVE  n \in A
  <2>1. PICK v : v = x[n - 1]
    OBVIOUS
  <2>2. Good(v, n - 1)
    BY <1>5, <2>1
  <2>3. PICK z : z = x[n] /\ z = TopRound(P, v)
    BY <1>3, <2>1
  <2>4. PICK w : w = WalkTop(v.maps, P, v.in)
    OBVIOUS
  <2>5. z = IF Ended(P, Top, v) THEN v ELSE Again(P, Top, v, w)
    BY <2>3, <2>4, Zenon DEF TopRound
  <2>6. TypedMaps(v.maps, P) /\ v.in \in FactsOf(Top)
    BY <2>2, Zenon DEF TypedFrom, TypedSearch
  <2>7. TypedWalk(w, Len(P.seq[Top]), v.maps, P, Top, Nodes \ {Top})
    BY <2>4, <2>6, WalkTopTyped
  <2>8. Top \notin Nodes \ {Top}
    OBVIOUS
  <2>9. Good(z, n)
    <3>1. n \in Nat \ {0}
      BY <1>2
    <3>2. PICK Y : Y = Nodes \ {Top}
      OBVIOUS
    <3>3. Y \subseteq X /\ Top \in X /\ Top \notin Y
      BY <1>1, <2>8, <3>2, Small
    <3>4. TypedWalk(w, Len(P.seq[Top]), v.maps, P, Top, Y)
      BY <2>7, <3>2
    <3> HIDE <2>3, <2>4
    <3> QED
      BY <2>2, <2>5, <3>1, <3>3, <3>4, StepTyped, Small
  <2>10. n \in 0 .. N
    BY <1>2
  <2> HIDE DEF Good
  <2> QED
    BY <2>3, <2>9, <2>10
<1>6. N \in A
  <2>1. \A n \in 1 .. N : n - 1 \in A => n \in A
    BY <1>5
  <2> HIDE DEF A
  <2>2. 0 .. N \subseteq A
    BY <1>2, <1>4, <2>1, UpTo
  <2> QED
    BY <1>2, <2>2
<1>7. PICK z : z = x[MaxRounds + 1]
  OBVIOUS
<1>8. TypedFrom(z, MaxRounds + 1, m, P, Top, X)
  <2>1. Good(x[N], N)
    <3> HIDE DEF Good
    <3> QED
      BY <1>6
  <2> QED
    BY <1>7, <2>1
<1>9. r = Result(z)
  BY <1>3, <1>7
<1>10. TypedResult(r, m, P, Top, X)
  BY <1>8, <1>9, ResultTyped
<1> QED
  BY <1>1, <1>10, Zenon

----------------------------------------------------------------------------
(* Types of deletion *)

LEMMA LeftTyped ==
  ASSUME NEW P, NEW P1, Left(P1, P), NEW m, TypedMaps(m, P)
  PROVE  TypedMaps(m, P1)
BY DEF Left, TypedMaps

LEMMA ResetOK ==
  ASSUME NEW P, NEW b, NEW m \in Maps, NEW m1, m1 = ResetMaps(m, P, b)
  PROVE  Reset(m, P, b, m1)
BY Small, FactsSmall, Zenon DEF ResetMaps, Forgotten, Maps, Reset

LEMMA ResetTyped ==
  ASSUME NEW P, WellFormed(P), NEW b \in Blocks, NEW m, TypedMaps(m, P), NEW m1, Reset(m, P, b, m1)
  PROVE  TypedMaps(m1, P) /\ Tame(m, m1, Whole(P, b))
<1>1. m1 \in Maps /\ m1.vis = m.vis
  BY DEF Reset
<1>2. \A n \in Nodes : \/ m1.in[n] = NoFacts /\ m1.out[n] = NoFacts
                       \/ m1.in[n] = m.in[n] /\ m1.out[n] = m.out[n]
  BY DEF Reset
<1>3. TypedMaps(m1, P)
  <2>1. ASSUME NEW c \in Blocks
        PROVE  m1.in[c] \in Known(Top) /\ m1.out[c] \in Known(Top)
    BY <1>2, Small DEF TypedMaps, Known
  <2>2. ASSUME NEW c \in Blocks, NEW s \in Range(P.seq[c])
        PROVE  TypedAt(m1, s, c)
    BY <1>2, PlacedFacts DEF TypedMaps, TypedAt, Known
  <2> QED
    BY <1>1, <2>1, <2>2 DEF TypedMaps
<1>4. Forgotten(P, b) \cap Nodes \subseteq Whole(P, b)
  BY Small, PlacedFacts DEF Whole, Contents, Forgotten
<1>5. \A n \in Nodes : n \notin Whole(P, b) => m1.in[n] = m.in[n] /\ m1.out[n] = m.out[n]
  BY <1>4 DEF Reset
<1> QED
  BY <1>1, <1>3, <1>5 DEF Tame

LEMMA FixedPointTyped ==
  ASSUME Fixed, NEW P, WellFormed(P), NEW m, TypedMaps(m, P), NEW b \in Blocks, NEW f \in FactsOf(Top),
         NEW once \in BOOLEAN, NEW r, r = FixedPoint(m, P, b, f, once)
  PROVE  TypedResult(r, m, P, b, Whole(P, b))
BY Small, SearchBodyTyped, SearchTopTyped DEF FixedPoint, Whole

LEMMA LeftWhole ==
  ASSUME NEW P, NEW Q, Left(Q, P), NEW b
  PROVE  Whole(Q, b) \subseteq Whole(P, b)
BY DEF Left, Whole, Blocks

LEMMA ResultMore ==
  ASSUME NEW r, NEW m, NEW m1, NEW P, NEW b, NEW X, NEW Y, TypedResult(r, m, P, b, X), X \subseteq Y, Tame(m1, m, Y)
  PROVE  TypedResult(r, m1, P, b, Y)
BY TameAgain, TameMore DEF TypedResult

LEMMA RetryTyped ==
  ASSUME Fixed, NEW P, WellFormed(P), NEW b \in Blocks, NEW m, NEW in \in FactsOf(Top), NEW once, NEW v, NEW z,
         Settled(v, P, m, b, in, once), z = Retry(b, in, v)
  PROVE  Settled(z, P, m, b, in, once)
<1>1. CASE v.r.ok
  BY <1>1 DEF Retry
<1>2. CASE ~v.r.ok
  <2>1. /\ WellFormed(v.P) /\ Left(v.P, P) /\ Deletable(v.P, b)
        /\ TypedResult(v.r, m, v.P, b, Whole(P, b)) /\ v.rounds \in Nat /\ v.r.rounds <= v.rounds
    BY Zenon DEF Settled
  <2>2. v.r \in Search /\ TypedMaps(v.r.maps, v.P) /\ Tame(m, v.r.maps, Whole(P, b))
    BY <2>1, Zenon DEF TypedResult
  <2>3. PICK k \in Nat \ {0} : k = v.r.passed + 1
    BY <2>2 DEF Search
  <2>4. PICK R : R = RemoveFrom(v.P, b, k)
    OBVIOUS
  <2>5. PICK Q : Q = WithSelfEdge(R, b)
    OBVIOUS
  <2>6. PICK m2 : m2 = ResetMaps(v.r.maps, Q, b)
    OBVIOUS
  <2>7. PICK r : r = FixedPoint(m2, Q, b, in, TRUE)
    OBVIOUS
  <2>8. z = [P |-> Q, r |-> r, rounds |-> MaxOf(v.rounds, r.rounds)]
    BY <1>2, <2>3, <2>4, <2>5, <2>6, <2>7, Zenon DEF Retry
  <2>9. z.P = Q /\ z.r = r /\ z.rounds = MaxOf(v.rounds, r.rounds)
    BY <2>8
  <2>10. WellFormed(R) /\ Left(R, v.P) /\ Deletable(R, b)
    BY <2>1, <2>4, RemoveFromOK
  <2>11. WellFormed(Q) /\ Left(Q, R) /\ Deletable(Q, b) /\ Follows(Q)
    BY <2>5, <2>10, WithSelfEdgeOK
  <2>12. Left(Q, v.P) /\ Left(Q, P)
    BY <2>1, <2>10, <2>11, LeftAgain
  <2>13. TypedMaps(v.r.maps, Q) /\ v.r.maps \in Maps
    BY <2>2, <2>12, LeftTyped DEF TypedMaps
  <2>14. Reset(v.r.maps, Q, b, m2)
    BY <2>6, <2>13, ResetOK
  <2>15. TypedMaps(m2, Q) /\ Tame(v.r.maps, m2, Whole(Q, b))
    BY <2>11, <2>13, <2>14, ResetTyped
  <2>16. Whole(Q, b) \subseteq Whole(P, b)
    BY <2>12, LeftWhole
  <2>17. Tame(m, m2, Whole(P, b))
    BY <2>2, <2>15, <2>16, TameAgain, TameMore
  <2>18. TypedResult(r, m2, Q, b, Whole(Q, b))
    BY <2>7, <2>11, <2>15, FixedPointTyped
  <2> HIDE <2>6, <2>8
  <2>19. TypedResult(r, m, Q, b, Whole(P, b))
    BY <2>16, <2>17, <2>18, ResultMore
  <2>20. r.rounds \in Nat
    BY <2>18 DEF TypedResult, Search
  <2>21. z.rounds \in Nat /\ r.rounds <= z.rounds
    BY <2>1, <2>9, <2>20 DEF MaxOf
  <2>22. Searched(r, Q, P, m, b, in, once)
    BY <2>2, <2>7, <2>13, <2>14, Zenon DEF Searched
  <2>23. /\ WellFormed(z.P) /\ Left(z.P, P) /\ Deletable(z.P, b) /\ Follows(z.P)
         /\ TypedResult(z.r, m, z.P, b, Whole(P, b)) /\ z.r.rounds <= z.rounds
         /\ Searched(z.r, z.P, P, m, b, in, once)
    BY <2>9, <2>11, <2>12, <2>19, <2>21, <2>22, Zenon
  <2> QED
    BY <2>21, <2>23, Zenon DEF Settled
<1> QED
  BY <1>1, <1>2

LEMMA SettleTyped ==
  ASSUME Fixed, NEW P, WellFormed(P), NEW b \in Blocks, Deletable(P, b), NEW m, TypedMaps(m, P),
         NEW in \in FactsOf(Top), NEW once \in BOOLEAN, NEW y, y = Settle(m, P, b, in, once)
  PROVE  Settled(y, P, m, b, in, once)
<1> DEFINE N == Len(P.seq[b])
           Good(v) == Settled(v, P, m, b, in, once)
<1>1. P.seq \in [Blocks -> Seq(Nodes)] /\ N \in Nat
  BY PlacedFacts, InRange DEF WellFormed, Program
<1>2. PICK x : /\ x[0] = [P |-> P, r |-> FixedPoint(m, P, b, in, once),
                          rounds |-> FixedPoint(m, P, b, in, once).rounds]
               /\ \A i \in 1 .. N : x[i] = Retry(b, in, x[i - 1])
               /\ y = x[N]
  BY <1>1, SettleDef
<1> DEFINE A == {n \in 0 .. N : Good(x[n])}
<1>3. 0 \in A
  <2>1. PICK r : r = FixedPoint(m, P, b, in, once)
    OBVIOUS
  <2>2. PICK v : v = x[0]
    OBVIOUS
  <2>3. v.P = P /\ v.r = r /\ v.rounds = r.rounds
    BY <1>2, <2>1, <2>2
  <2>4. TypedResult(r, m, P, b, Whole(P, b))
    BY <2>1, FixedPointTyped
  <2>5. r.rounds \in Nat
    BY <2>4 DEF TypedResult, Search
  <2>6. Searched(r, P, P, m, b, in, once)
    BY <2>1, Zenon DEF Searched
  <2>7. Left(P, P)
    BY LeftSelf
  <2>8. v.rounds \in Nat /\ v.r.rounds <= v.rounds
    BY <2>3, <2>5
  <2>9. Good(v)
    BY <2>3, <2>4, <2>6, <2>7, <2>8 DEF Settled
  <2> HIDE DEF Good
  <2> QED
    BY <1>1, <2>2, <2>9
<1>4. ASSUME NEW n \in 1 .. N, n - 1 \in A
      PROVE  n \in A
  <2>1. PICK v : v = x[n - 1]
    OBVIOUS
  <2>2. Good(v)
    BY <1>4, <2>1
  <2>3. PICK z : z = x[n] /\ z = Retry(b, in, v)
    BY <1>2, <2>1
  <2>4. Good(z)
    BY <2>2, <2>3, RetryTyped
  <2>5. n \in 0 .. N
    BY <1>1
  <2> HIDE DEF Good
  <2> QED
    BY <2>3, <2>4, <2>5
<1>5. N \in A
  <2>1. \A n \in 1 .. N : n - 1 \in A => n \in A
    BY <1>4
  <2> HIDE DEF A
  <2>2. 0 .. N \subseteq A
    BY <1>1, <1>3, <2>1, UpTo
  <2> QED
    BY <1>1, <2>2
<1>6. Good(x[N])
  <2> HIDE DEF Good
  <2> QED
    BY <1>5
<1> QED
  BY <1>2, <1>6

LEMMA MapsFields ==
  ASSUME NEW i \in [Nodes -> Facts], NEW o \in [Nodes -> Facts], NEW v \in [Nodes -> BOOLEAN],
         NEW m, m = [in |-> i, out |-> o, vis |-> v]
  PROVE  m \in Maps /\ m.in = i /\ m.out = o /\ m.vis = v
BY DEF Maps

LEMMA EndingOK ==
  ASSUME maps \in Maps, NEW b \in Blocks, NEW o \in Facts,
         NEW m, m = [maps EXCEPT !.vis[b] = TRUE, !.out[b] = o]
  PROVE  Ending(m, b, o)
<1>1. maps \in [in : [Nodes -> Facts], out : [Nodes -> Facts], vis : [Nodes -> BOOLEAN]] /\ b \in Nodes
  BY Small DEF Maps
<1>2. PICK v : v = [maps.vis EXCEPT ![b] = TRUE]
  OBVIOUS
<1>3. PICK w : w = [maps.out EXCEPT ![b] = o]
  OBVIOUS
<1>4. m = [in |-> maps.in, out |-> w, vis |-> v]
  BY <1>1, <1>2, <1>3
<1>5. v \in [Nodes -> BOOLEAN] /\ w \in [Nodes -> Facts] /\ maps.in \in [Nodes -> Facts]
  BY <1>1, <1>2, <1>3
<1>6. w[b] = o /\ v[b] = TRUE /\ \A n \in Nodes : n # b => w[n] = maps.out[n] /\ v[n] = maps.vis[n]
  BY <1>1, <1>2, <1>3
<1>7. ASSUME NEW z, z = [in |-> maps.in, out |-> w, vis |-> v]
      PROVE  Ending(z, b, o)
  <2>1. z \in Maps /\ z.in = maps.in /\ z.out = w /\ z.vis = v
    BY ONLY <1>5, <1>7, MapsFields
  <2> QED
    BY <1>2, <1>3, <1>6, <2>1 DEF Ending
<1> QED
  BY ONLY <1>4, <1>7

LEMMA EndingTyped ==
  ASSUME NEW P, WellFormed(P), TypedMaps(maps, P), NEW b \in Blocks, NEW o \in FactsOf(Top), NEW m, Ending(m, b, o)
  PROVE  TypedMaps(m, P) /\ Tame(maps, m, {b})
<1>1. m \in Maps /\ m.in = maps.in /\ m.out[b] = o /\ m.vis[b] = TRUE
      /\ \A n \in Nodes : n # b => m.out[n] = maps.out[n] /\ m.vis[n] = maps.vis[n]
  BY Zenon DEF Ending
<1>2. Tame(maps, m, {b})
  BY <1>1 DEF Tame
<1>3. m.in[b] \in Known(Top) /\ m.out[b] \in Known(Top)
  BY <1>1 DEF TypedMaps, Known
<1>4. \A c \in Blocks : \A s \in Range(P.seq[c]) : s \notin Blocks
  BY PlacedFacts, Small
<1> QED
  BY <1>1, <1>2, <1>3, <1>4, TameTyped

LEMMA FinishedTyped ==
  ASSUME Fixed, NEW b \in Blocks, WellFormed(P0), Deletable(P0, b), TypedMaps(maps, P0), maps.in[b] \in FactsOf(Top),
         facts \in FactsOf(b), NEW r, r = Finished(b)
  PROVE  /\ TypedMaps(r.maps, r.P) /\ r.maps.in[b] \in FactsOf(Top) /\ r.rounds \in Nat /\ r.post \in Facts
         /\ Tame(maps, r.maps, Whole(P0, b))
         /\ \E m, o : /\ o = OutOfScope(facts, IF b = Body THEN Local ELSE {}) /\ o \in FactsOf(Top)
                      /\ Ending(m, b, o) /\ FinishedDone(b, m, r)
<1> DEFINE loops == b = Body /\ ~MustReturn(P0, Body)
           m == [maps EXCEPT !.vis[b] = TRUE,
                             !.out[b] = OutOfScope(facts, IF b = Body THEN Local ELSE {})]
           y == Settle(m, IF loops THEN WithSelfEdge(P0, b) ELSE P0, b, m.in[b], b \in need)
           yes == loops \/ b \in need \/ EdgesIn(P0, b, FALSE, TRUE) # {}
<1>1. r = IF yes
          THEN [maps |-> y.r.maps, P |-> y.P, rounds |-> y.rounds,
                post |-> IF y.r.post = NoFacts THEN facts ELSE y.r.post]
          ELSE [maps |-> m, P |-> P0, rounds |-> 0, post |-> facts]
  BY Zenon DEF Finished, Complete
<1>2. PICK o : o = OutOfScope(facts, IF b = Body THEN Local ELSE {})
  OBVIOUS
<1>3. o \in FactsOf(Top)
  BY <1>2, Small, OutOfScopeTyped, SameScope
<1>4. m = [maps EXCEPT !.vis[b] = TRUE, !.out[b] = o]
  BY <1>2
<1>5. maps \in Maps /\ o \in Facts /\ facts \in Facts
  BY <1>3, FactsSmall, Small DEF TypedMaps
<1> HIDE DEF m
<1>6. Ending(m, b, o)
  BY <1>4, <1>5, EndingOK
<1>7. TypedMaps(m, P0) /\ Tame(maps, m, {b}) /\ m.in = maps.in
  BY <1>3, <1>6, EndingTyped DEF Ending
<1>8. PICK Q : Q = IF loops THEN WithSelfEdge(P0, b) ELSE P0
  OBVIOUS
<1>9. WellFormed(Q) /\ Left(Q, P0) /\ Deletable(Q, b) /\ Q.seq = P0.seq
  BY <1>8, LeftSelf, WithSelfEdgeOK
<1>10. (b \in need) \in BOOLEAN
  OBVIOUS
<1>11. y = Settle(m, Q, b, maps.in[b], b \in need)
  BY <1>7, <1>8, Zenon
<1>12. TypedMaps(m, Q)
  BY <1>7, <1>9, LeftTyped
<1> HIDE DEF y
<1>13. Settled(y, Q, m, b, maps.in[b], b \in need)
  BY <1>9, <1>10, <1>11, <1>12, SettleTyped
<1>14. y.r.ok
  BY <1>9, <1>10, <1>11, SettleOK
<1>15. Loops(b) = loops
  BY DEF Loops
<1>16. Whole(Q, b) \subseteq Whole(P0, b) /\ b \in Whole(P0, b)
  BY <1>9, LeftWhole, Small DEF Whole
<1> HIDE DEF loops
<1>17. CASE yes
  <2>1. r = [maps |-> y.r.maps, P |-> y.P, rounds |-> y.rounds,
             post |-> IF y.r.post = NoFacts THEN facts ELSE y.r.post]
    BY <1>1, <1>17, Zenon
  <2>2. r.maps = y.r.maps /\ r.P = y.P /\ r.rounds = y.rounds /\ (r.post = facts \/ r.post = y.r.post)
    BY <2>1
  <2>3. TypedResult(y.r, m, y.P, b, Whole(Q, b)) /\ y.rounds \in Nat
    BY <1>13, Zenon DEF Settled
  <2>4. /\ y.r \in Search /\ TypedMaps(y.r.maps, y.P) /\ Tame(m, y.r.maps, Whole(Q, b))
        /\ y.r.maps.in[b] \in FactsOf(Top)
    BY <1>14, <2>3, Zenon DEF TypedResult
  <2>5. r.post \in Facts
    BY <1>5, <2>2, <2>4 DEF Search
  <2>6. Tame(maps, r.maps, Whole(P0, b))
    BY <1>7, <1>16, <2>2, <2>4, TameAgain, TameMore
  <2>7. FinishedDone(b, m, r)
    BY <1>8, <1>13, <1>14, <1>15, <2>2, Zenon DEF FinishedDone
  <2>8. TypedMaps(r.maps, r.P) /\ r.maps.in[b] \in FactsOf(Top) /\ r.rounds \in Nat
    BY <2>2, <2>3, <2>4
  <2> QED
    BY <1>2, <1>3, <1>6, <2>5, <2>6, <2>7, <2>8
<1>18. CASE ~yes
  <2>1. r = [maps |-> m, P |-> P0, rounds |-> 0, post |-> facts]
    BY <1>1, <1>18, Zenon
  <2>2. r.maps = m /\ r.P = P0 /\ r.rounds = 0 /\ r.post = facts
    BY <2>1
  <2>3. r.rounds \in Nat /\ r.post \in Facts
    BY <1>5, <2>2
  <2>4. TypedMaps(r.maps, r.P) /\ r.maps.in[b] \in FactsOf(Top)
    BY <1>7, <2>2
  <2>5. Tame(maps, r.maps, Whole(P0, b))
    BY <1>7, <1>16, <2>2, TameMore
  <2>6. FinishedDone(b, m, r)
    BY <1>15, <1>18, <2>2, Zenon DEF FinishedDone
  <2> QED
    BY <1>2, <1>3, <1>6, <2>3, <2>4, <2>5, <2>6
<1> QED
  BY <1>17, <1>18

----------------------------------------------------------------------------
(* The types of the facts while the program is generated *)

LEMMA VisitTyped ==
  ASSUME Fixed, NEW P, WellFormed(P), NEW s \in Range(P.seq[Top]), NEW m, TypedMaps(m, P),
         NEW f \in FactsOf(Top), NEW v, v = VisitStm(m, P, s, f)
  PROVE  StmTyped(m, P, Top, s, v)
<1>1. s \in Nodes /\ s \notin Blocks /\ s \in Placed(P) /\ m \in Maps /\ TypedAt(m, s, Top) /\ StmOK(s, Top)
  BY PlacedFacts, Small DEF TypedMaps, WellFormed
<1>2. CASE s = For
  <2>1. PICK r : LoopVisited(m, P, f, r, v)
    BY <1>2, VisitLoopTyped
  <2> QED
    BY <1>2, <2>1, Zenon DEF LoopVisited, StmTyped
<1>3. CASE s # For
  <2>1. v = VisitSimple(m, s, f)
    BY <1>3, Zenon DEF VisitStm
  <2>2. VisitedSimple(m, s, f, v)
    BY <1>1, <2>1, VisitSimpleFrame
  <2>3. PICK m2, g0 : v = [ok |-> Valid(s, f), maps |-> m2, facts |-> g0, rounds |-> 0]
    BY <2>2, Zenon DEF VisitedSimple
  <2>4. v.ok = Valid(s, f) /\ v.maps = m2 /\ v.rounds = 0
    BY <2>3
  <2>5. /\ m2 \in Maps /\ Tame(m, m2, {s})
        /\ \/ m2.in[s] = m.in[s] /\ m2.out[s] = m.out[s]
           \/ m2.in[s] = NoFacts /\ m2.out[s] = NoFacts
    BY <1>1, <2>2, <2>4 DEF VisitedSimple
  <2>6. TypedAt(m2, s, Top)
    BY <1>1, <2>5 DEF TypedAt, Known
  <2>7. \A c \in Blocks : s \in Range(P.seq[c]) => c = Top
    BY Small DEF WellFormed
  <2>8. TypedMaps(m2, P)
    BY <1>1, <2>5, <2>6, <2>7, TameTyped
  <2>9. v.ok => v.facts \in FactsOf(Top)
    BY <1>1, <2>2, <2>4, TransferTyped, Small DEF VisitedSimple
  <2>10. v.ok \in BOOLEAN
    BY <2>4 DEF Valid
  <2>11. Tame(m, m2, Contents(P, s))
    BY <1>1, <2>5, TameMore DEF Contents
  <2>12. v.rounds \in Nat
    BY <2>4
  <2> QED
    BY <2>4, <2>8, <2>9, <2>10, <2>11, <2>12, Zenon DEF StmTyped
<1> QED
  BY <1>2, <1>3

LEMMA WriteMaps ==
  ASSUME NEW m, m \in Maps, NEW s \in Nodes, NEW f \in Facts, NEW g \in Facts,
         NEW m1, m1 = [m EXCEPT !.in[s] = f, !.out[s] = g]
  PROVE  Written(m, s, f, g, m1)
BY Zenon DEF Maps, Written

\* Facts stay typed where neither the statement nor its scope changes.
LEMMA CarryTyped ==
  ASSUME maps' \in Maps,
         \A b \in Blocks : maps'.in[b] \in Known(Top) /\ maps'.out[b] \in Known(Top),
         \A b \in Blocks : \A s \in Range(seq'[b]) :
            \/ TypedAt(maps', s, b) /\ stm'[s] = stm[s] /\ Scope(b)' = Scope(b)
            \/ TypedAt(maps, s, b)'
  PROVE  TypedMaps(maps, P0)'
<1>1. Maps' = Maps /\ (Facts)' = Facts
  BY DEF Maps, Facts
<1>2. Known(Top)' = Known(Top) /\ \A b : Reach(b)' = Reach(b)
  BY Small DEF Known, FactsOf, Scope, Reach, NoFacts
<1>3. ASSUME NEW b \in Blocks, NEW s \in Range(seq'[b]), TypedAt(maps', s, b), stm'[s] = stm[s], Scope(b)' = Scope(b)
      PROVE  TypedAt(maps, s, b)'
  BY <1>2 DEF Known, FactsOf, IsJump, IsCtrl, OutBlock, TypedAt
<1>4. \A b \in Blocks : \A s \in Range(seq'[b]) : TypedAt(maps, s, b)'
  BY <1>3
<1>5. P0'.seq = seq'
  BY DEF P0
<1> QED
  BY <1>1, <1>2, <1>4, <1>5 DEF TypedMaps

LEMMA InitTypes ==
  ASSUME Init
  PROVE  Types
<1>1. /\ facts \in Entries /\ pre = facts /\ rounds = 0 /\ pc = End /\ env = NoFacts
      /\ seq = [b \in Blocks |-> <<>>] /\ mode = "generate" /\ curr = Top
      /\ maps = [in |-> [n \in Nodes |-> IF n = Top THEN facts ELSE NoFacts],
                 out |-> [n \in Nodes |-> NoFacts], vis |-> [n \in Nodes |-> FALSE]]
  BY DEF Init
<1>2. facts \in FactsOf(Top)
  BY <1>1, FixpointConstantsOK, FactsSmall, Small DEF FactsOf
<1>3. facts \in Facts /\ NoFacts \in Facts
  BY <1>2, FactsSmall, Small
<1>4. PICK i : i = [n \in Nodes |-> IF n = Top THEN facts ELSE NoFacts]
  OBVIOUS
<1>5. PICK o : o = [n \in Nodes |-> NoFacts]
  OBVIOUS
<1>6. PICK v : v = [n \in Nodes |-> FALSE]
  OBVIOUS
<1>7. /\ i \in [Nodes -> Facts] /\ o \in [Nodes -> Facts] /\ v \in [Nodes -> BOOLEAN]
      /\ i[Top] = facts /\ i[Body] = NoFacts /\ o[Top] = NoFacts /\ o[Body] = NoFacts
  BY <1>3, <1>4, <1>5, <1>6, Small
<1>8. maps = [in |-> i, out |-> o, vis |-> v]
  BY <1>1, <1>4, <1>5, <1>6
<1>9. maps \in Maps /\ maps.in = i /\ maps.out = o
  BY <1>7, <1>8, MapsFields
<1>10. \A b \in Blocks : Range(seq[b]) = {}
  BY <1>1 DEF Range
<1>11. TypedMaps(maps, P0)
  BY <1>2, <1>7, <1>9, <1>10, ProgramFields, Small DEF TypedMaps, Known
<1>12. DOMAIN env \subseteq Ptr /\ Range(env) \subseteq Target
  BY <1>1 DEF NoFacts, Range
<1>13. seq[Top] = <<>>
  BY <1>1, Small
<1>14. rounds \in Nat /\ pc \in Nodes \cup {End} /\ mode # "execute"
  BY <1>1
<1>15. /\ mode = "generate" /\ curr = Body => maps.in[Body] \in FactsOf(Top)
       /\ mode = "generate" => facts \in FactsOf(curr)
       /\ maps.in[Top] \in FactsOf(Top) /\ pre \in FactsOf(Top)
  BY <1>1, <1>2, <1>7, <1>9, Small
<1> QED
  BY <1>3, <1>11, <1>12, <1>13, <1>14, <1>15, Zenon DEF Types

\* The new statement has the facts before it and those it makes of them.
LEMMA AddTypes ==
  ASSUME Structure, Structure', Types, Adding, NEW st, Add(st),
         \/ facts' = facts /\ st.k \notin {"value", "copy"}
         \/ /\ facts' = [facts EXCEPT ![st.to] = IF st.k = "value" THEN {st.of} ELSE facts[st.of]]
            /\ st.k \in {"value", "copy"}
  PROVE  Types'
<1>1. PICK n : n = made + 1
  OBVIOUS
<1>2. /\ n \in Nodes /\ n \notin Blocks /\ stm'[n] = st
      /\ seq'[curr] = Append(seq[curr], n) /\ n \in Range(seq'[curr]) /\ seq[curr] \in Seq(Nodes)
      /\ \A b \in Blocks : b # curr => seq'[b] = seq[b]
      /\ locals' = locals /\ curr' = curr /\ curr \in Blocks
  BY <1>1, AddFacts, Small
<1>3. /\ mode = "generate" /\ mode' = mode /\ pre' = pre /\ rounds' = rounds /\ pc' = pc /\ env' = env
  BY DEF Adding, Add
<1>4. facts \in FactsOf(curr) /\ facts \in Facts /\ maps \in Maps /\ TypedMaps(maps, P0)
  BY <1>3, Zenon DEF Types, TypedMaps
<1>5. Scope(curr)' = Scope(curr) /\ Reach(curr)' = Reach(curr) /\ (\A b : Scope(b)' = Scope(b) /\ Reach(b)' = Reach(b))
  BY <1>2 DEF Scope, Reach
<1>6. StmOK(n, curr)'
  BY <1>2, InRange DEF Structure, P0, WellFormed, SeqOK, StmOK
<1>7. /\ st.k = "value" => st.to \in Scope(curr) /\ st.of \in Reach(curr)
      /\ st.k = "copy" => st.to \in Scope(curr) /\ st.of \in Scope(curr)
  BY <1>2, <1>5, <1>6 DEF StmOK
<1>8. PICK g : g = CASE st.k = "value" -> [facts EXCEPT ![st.to] = {st.of}]
                     [] st.k = "copy" -> [facts EXCEPT ![st.to] = facts[st.of]]
                     [] OTHER -> facts
  OBVIOUS
<1>9. g \in FactsOf(curr) /\ facts' = g
  BY <1>4, <1>7, <1>8 DEF FactsOf
<1>10. PICK h : h = IF st.k \in {"break", "continue", "return", "goto"} THEN OutOfScope(g, Local) ELSE g
  OBVIOUS
<1>11. h \in FactsOf(IF st.k \in {"break", "continue", "return", "goto"} THEN Top ELSE curr) /\ h # NoFacts /\ h \in Facts
  BY <1>2, <1>9, <1>10, Small, FactsSmall, OutOfScopeTyped
<1>12. maps' = [maps EXCEPT !.in[n] = facts, !.out[n] = h, !.vis[n] = TRUE]
  BY <1>1, <1>8, <1>10, Zenon DEF Add
<1>13. Saved(maps, n, facts, h, maps')
  BY <1>2, <1>4, <1>11, <1>12, SaveMaps
<1>14. /\ maps' \in Maps /\ maps'.in[n] = facts /\ maps'.out[n] = h
       /\ \A v \in Nodes : v # n => maps'.in[v] = maps.in[v] /\ maps'.out[v] = maps.out[v]
  BY <1>13, Zenon DEF Saved
<1>15. TypedAt(maps, n, curr)'
  BY <1>2, <1>4, <1>5, <1>11, <1>14 DEF IsJump, OutBlock, Known, FactsOf, TypedAt
<1>16. ASSUME NEW b \in Blocks, NEW s \in Range(seq'[b])
       PROVE  \/ TypedAt(maps', s, b) /\ stm'[s] = stm[s] /\ Scope(b)' = Scope(b)
              \/ TypedAt(maps, s, b)'
  <2>1. s \in Range(seq[b]) \/ (s = n /\ b = curr)
    BY <1>2, AppendRange
  <2>2. CASE s \in Range(seq[b]) /\ s # n
    BY <1>1, <1>4, <1>5, <2>2, ProgramFields DEF TypedMaps, TypedAt, Add
  <2>3. CASE s = n /\ b = curr
    BY <1>2, <1>15, <2>3
  <2>4. CASE s = n /\ s \in Range(seq[b])
    BY <1>1, <2>4, PlacedFacts, ProgramFields DEF Structure, StmOK
  <2> QED
    BY <2>1, <2>2, <2>3, <2>4
<1>17. \A b \in Blocks : maps'.in[b] = maps.in[b] /\ maps'.out[b] = maps.out[b]
  BY <1>2, <1>14, Small
<1>18. TypedMaps(maps, P0)'
  BY <1>4, <1>14, <1>16, <1>17, CarryTyped DEF TypedMaps
<1>19. FactsOf(curr)' = FactsOf(curr) /\ FactsOf(Top)' = FactsOf(Top)
  BY <1>2, <1>5 DEF FactsOf
<1>20. facts' \in FactsOf(curr)' /\ facts' \in (Facts)'
  BY <1>2, <1>9, <1>19, FactsSmall
<1>21. /\ maps'.in[Top] \in FactsOf(Top)' /\ pre' \in FactsOf(Top)'
       /\ curr' = Body => maps'.in[Body] \in FactsOf(Top)'
  BY <1>2, <1>3, <1>17, <1>19, Small DEF Types
<1>22. curr' = Top /\ seq'[Top] # <<>> => maps'.in[Last(seq'[Top])] # NoFacts
  BY <1>2, <1>4, <1>14, AppendRange, FactsSmall
<1>23. rounds' \in Nat /\ pc' \in (Nodes \cup {End})' /\ DOMAIN env' \subseteq Ptr /\ Range(env') \subseteq Target
  BY <1>3 DEF Types, Nodes, End
<1> QED
  BY <1>3, <1>18, <1>20, <1>21, <1>22, <1>23 DEF Types, NoFacts

LEMMA AddedTypes ==
  ASSUME Structure, Structure', Types,
         \/ \E st \in Assigns : MakeAssign(st)
         \/ \E p \in Derefs : MakeDeref(p)
         \/ MakeReturn \/ MakeBreak \/ MakeContinue
         \/ \E d \in Nodes : MakeGotoBack(d)
  PROVE  Types'
BY AddTypes, FixpointConstantsOK, Zenon DEF MakeAssign, MakeDeref, NoStm, MakeReturn, MakeBreak,
   MakeContinue, MakeGotoBack

LEMMA WithLocalsTyped ==
  ASSUME NEW f \in FactsOf(Top), NEW any
  PROVE  WithLocals(f, any) \in [Global \cup {q \in Ptr \cap Local : any} -> SUBSET Target]
BY Small, FactsSmall, FixpointConstantsOK DEF WithLocals, Join

LEMMA OpenForTypes ==
  ASSUME Structure, Structure', Types, NEW loc \in BOOLEAN, OpenFor(loc)
  PROVE  Types'
<1>1. /\ mode = "generate" /\ curr = Top /\ For \notin Range(seq[Top]) /\ curr' = Body /\ locals' = loc /\ pre' = facts
      /\ facts' = WithLocals(facts, loc)
      /\ mode' = mode /\ stm' = stm /\ seq' = seq /\ rounds' = rounds /\ pc' = pc /\ env' = env
  BY DEF OpenFor, Adding
<1>2. maps' = [maps EXCEPT !.in[Body] = facts]
  BY DEF OpenFor
<1>3. /\ facts \in FactsOf(Top) /\ maps \in Maps /\ TypedMaps(maps, P0) /\ WellFormed(P0) /\ P0.seq = seq
      /\ maps.in[Top] \in FactsOf(Top)
  BY <1>1, ProgramFields DEF Types, TypedMaps, Structure
<1>4. facts \in Facts /\ facts # NoFacts
  BY <1>3, FactsSmall, Small
<1>5. /\ maps' \in Maps /\ maps'.in[Body] = facts /\ maps'.out = maps.out
      /\ \A n \in Nodes : n # Body => maps'.in[n] = maps.in[n]
  BY <1>2, <1>3, <1>4, Small DEF Maps
<1>6. Scope(Top)' = Scope(Top) /\ (\A b : Reach(b)' = Reach(b))
  BY Small DEF Scope, Reach
<1>7. seq[Body] = <<>>
  BY <1>1, Small DEF Structure
<1>8. ASSUME NEW b \in Blocks, NEW s \in Range(seq'[b])
      PROVE  TypedAt(maps', s, b) /\ stm'[s] = stm[s] /\ Scope(b)' = Scope(b)
  <2>1. b = Top
    BY <1>1, <1>7, Small DEF Range
  <2>2. s \in Nodes /\ s # Body /\ TypedAt(maps, s, b)
    BY <1>1, <1>3, PlacedFacts DEF TypedMaps
  <2> QED
    BY <1>1, <1>5, <1>6, <2>1, <2>2 DEF TypedAt
<1>9. TypedMaps(maps, P0)'
  BY <1>3, <1>5, <1>8, Small, CarryTyped DEF TypedMaps, Known
<1>10. FactsOf(Top)' = FactsOf(Top) /\ Facts' = Facts
  BY <1>6 DEF FactsOf, Facts
<1>11. facts' \in FactsOf(Body)'
  <2>1. facts' \in [Global \cup {q \in Ptr \cap Local : loc} -> SUBSET Target]
    BY <1>1, <1>3, WithLocalsTyped
  <2>2. Scope(Body)' = Global \cup {q \in Ptr \cap Local : loc} /\ Reach(Body)' = Target
    BY <1>1 DEF Scope, Reach
  <2> QED
    BY <2>1, <2>2 DEF FactsOf
<1>12. facts' \in (Facts)'
  BY <1>1, <1>3, WithLocalsTyped, Zenon DEF Global, Facts
<1>13. rounds' \in Nat /\ pc' \in (Nodes \cup {End})' /\ DOMAIN env' \subseteq Ptr /\ Range(env') \subseteq Target
  BY <1>1 DEF Types, Nodes, End
<1>14. maps'.in[Top] \in FactsOf(Top)' /\ maps'.in[Body] \in FactsOf(Top)' /\ pre' \in FactsOf(Top)'
  BY <1>1, <1>3, <1>5, <1>10, Small
<1> QED
  BY <1>1, <1>9, <1>11, <1>12, <1>13, <1>14, Small DEF Types

LEMMA MergeKnown ==
  ASSUME NEW f \in Known(Top), NEW g \in Known(Top), NEW h, h = Merge({f, g})
  PROVE  h \in Known(Top)
<1>1. CASE f \in FactsOf(Top)
  BY <1>1, MergeTyped DEF Known
<1>2. CASE g \in FactsOf(Top)
  BY <1>2, MergeTyped DEF Known
<1>3. CASE f = NoFacts /\ g = NoFacts
  BY <1>3 DEF NoFacts, Merge
<1> QED
  BY <1>1, <1>2, <1>3 DEF Known

LEMMA BehindTyped ==
  ASSUME NEW m, NEW s, NEW b \in Blocks, TypedAt(m, s, b), stm[s].k # "return"
  PROVE  BehindOf(m, s) \in Known(b) /\ (m.in[s] # NoFacts => BehindOf(m, s) # NoFacts)
BY DEF TypedAt, BehindOf, IsCtrl, OutBlock, IsJump

LEMMA ForDestTyped ==
  ASSUME NEW b \in Blocks, NEW f \in Known(b)
  PROVE  ForDest(f) \in Known(Top)
BY OutOfScopeTyped, NothingOutOfScope DEF ForDest, Known

\* The facts behind the new goto, behind its target, and in the maps.
LEMMA GotoForwardFacts ==
  ASSUME Structure, Types, NEW other \in Nodes, MakeGotoForward(other)
  PROVE  LET n == made + 1
             s == Last(seq[Top])
             b == IF other \in Range(seq[Body]) THEN Body ELSE Top
         IN  \E m, f, g : /\ TypedMaps(m, P0) /\ f \in Known(b) /\ g \in Known(Top)
                          /\ Saved(m, n, f, g, maps')
                          /\ m.in[s] # NoFacts /\ m.in[Top] = maps.in[Top]
                          /\ facts' = IF IsCtrl(s) THEN maps'.in[s] ELSE maps'.out[s]
                          /\ rounds' \in Nat
<1> DEFINE n == made + 1
           s == Last(seq[Top])
           b == IF other \in Range(seq[Body]) THEN Body ELSE Top
<1> DEFINE before == IF IsCtrl(other) THEN maps.in[other] ELSE maps.out[other]
           merged == MergeJumps(maps.in[s], {ForDest(before)})
           new == merged # maps.in[s]
<1>1. /\ mode = "generate" /\ curr = Top /\ seq[Top] # <<>> /\ other \in Range(seq[Top]) \cup Range(seq[Body])
      /\ stm[other].k # "return"
  BY Zenon DEF MakeGotoForward, Adding
<1>2. Adding
  BY Zenon DEF MakeGotoForward
<1>3. PICK r : /\ r = VisitStm(maps, P0, s, merged)
               /\ LET after == IF IsCtrl(other) THEN r.maps.in[other] ELSE r.maps.out[other]
                      jump == IF new /\ other \in Contents(P0, s)
                              THEN Merge({ForDest(before), ForDest(after)}) ELSE ForDest(before)
                      m == IF new THEN [r.maps EXCEPT !.in[s] = merged, !.out[s] = FactOut(s, r.facts)]
                           ELSE maps
                  IN  /\ new => r.ok
                      /\ maps' = [m EXCEPT !.in[n] = IF new THEN after ELSE before,
                                           !.out[n] = jump, !.vis[n] = TRUE]
                      /\ facts' = IF IsCtrl(s) THEN maps'.in[s] ELSE maps'.out[s]
                      /\ rounds' = MaxOf(rounds, r.rounds)
  BY Zenon DEF MakeGotoForward
<1> DEFINE after == IF IsCtrl(other) THEN r.maps.in[other] ELSE r.maps.out[other]
           jump == IF new /\ other \in Contents(P0, s)
                   THEN Merge({ForDest(before), ForDest(after)}) ELSE ForDest(before)
           m == IF new THEN [r.maps EXCEPT !.in[s] = merged, !.out[s] = FactOut(s, r.facts)] ELSE maps
<1>4. /\ WellFormed(P0) /\ Fixed /\ P0.seq = seq /\ TypedMaps(maps, P0) /\ maps.in[s] # NoFacts /\ rounds \in Nat
      /\ maps \in Maps
  BY <1>1, ProgramFields DEF Structure, Types, TypedMaps
<1>5. /\ s \in Range(seq[Top]) /\ s \in Nodes /\ s \notin Blocks /\ other \in Range(seq[b]) /\ b \in Blocks
      /\ TypedAt(maps, s, Top) /\ TypedAt(maps, other, b) /\ StmOK(s, Top)
  <2>1. seq[Top] \in Seq(Nodes)
    BY <1>4, PlacedFacts, Small
  <2>2. s \in Range(seq[Top])
    BY <1>1, <2>1, InRange
  <2> QED
    BY <1>1, <1>4, <2>2, PlacedFacts, Small DEF TypedMaps
<1>6. before \in Known(b) /\ ForDest(before) \in Known(Top)
  BY <1>1, <1>5, BehindTyped, ForDestTyped DEF BehindOf
<1>7. maps.in[s] \in FactsOf(Top)
  BY <1>4, <1>5 DEF TypedAt, Known
<1> HIDE DEF before, n, s, b
<1>8. merged \in FactsOf(Top) /\ merged # NoFacts /\ merged \in Facts
  BY <1>6, <1>7, Small, FactsSmall, MergeJumpsTyped
<1> HIDE DEF merged
<1>9. StmTyped(maps, P0, Top, s, r)
  BY <1>3, <1>4, <1>5, <1>8, VisitTyped
<1>10. /\ TypedMaps(r.maps, P0) /\ Tame(maps, r.maps, Contents(P0, s)) /\ r.rounds \in Nat
       /\ r.ok => r.facts \in FactsOf(Top)
  BY <1>9, Zenon DEF StmTyped
<1>11. after \in Known(b) /\ ForDest(after) \in Known(Top)
  BY <1>1, <1>4, <1>5, <1>10, BehindTyped, ForDestTyped DEF BehindOf, TypedMaps
<1>12. /\ new => r.ok
       /\ maps' = [m EXCEPT !.in[n] = IF new THEN after ELSE before, !.out[n] = jump, !.vis[n] = TRUE]
       /\ facts' = IF IsCtrl(s) THEN maps'.in[s] ELSE maps'.out[s]
       /\ rounds' = MaxOf(rounds, r.rounds)
  BY <1>3, Zenon
<1> HIDE DEF after
<1>13. jump \in Known(Top)
  BY <1>6, <1>11, MergeKnown
<1> HIDE DEF jump
<1>14. TypedMaps(m, P0) /\ m.in[s] # NoFacts /\ m.in[Top] = maps.in[Top]
  <2>1. CASE ~new
    BY <1>4, <2>1
  <2>2. CASE new
    <3>1. PICK g : g = FactOut(s, r.facts)
      OBVIOUS
    <3>2. m = [r.maps EXCEPT !.in[s] = merged, !.out[s] = g]
      BY <2>2, <3>1
    <3>3. g \in FactsOf(Top) /\ g # NoFacts /\ g \in Facts
      BY <1>10, <1>12, <2>2, <3>1, Small, FactsSmall, FactOutTyped DEF OutBlock
    <3>4. r.maps \in Maps
      BY <1>10 DEF TypedMaps
    <3> HIDE DEF m
    <3>5. Written(r.maps, s, merged, g, m)
      BY <1>5, <1>8, <3>2, <3>3, <3>4, WriteMaps
    <3>6. /\ m \in Maps /\ m.vis = r.maps.vis /\ m.in[s] = merged /\ m.out[s] = g
          /\ \A v \in Nodes : v # s => m.in[v] = r.maps.in[v] /\ m.out[v] = r.maps.out[v]
      BY <3>5, Zenon DEF Written
    <3>7. Tame(r.maps, m, {s})
      BY <3>6 DEF Tame
    <3>8. TypedAt(m, s, Top)
      BY <1>8, <3>3, <3>6 DEF TypedAt, Known, OutBlock
    <3>9. \A c \in Blocks : s \in Range(P0.seq[c]) => c = Top
      BY <1>4, <1>5, Small DEF WellFormed
    <3>10. TypedMaps(m, P0)
      BY <1>4, <1>5, <1>10, <3>6, <3>7, <3>8, <3>9, TameTyped
    <3>11. m.in[Top] = maps.in[Top]
      BY <1>4, <1>5, <1>10, <3>6, Small, ContentsSmall DEF Tame
    <3> QED
      BY <1>8, <3>6, <3>10, <3>11
  <2> QED
    BY <2>1, <2>2
<1> HIDE DEF m
<1>15. PICK f : f = IF new THEN after ELSE before
  OBVIOUS
<1>16. f \in Known(b)
  BY <1>6, <1>11, <1>15
<1> HIDE DEF new
<1>17. maps' = [m EXCEPT !.in[n] = f, !.out[n] = jump, !.vis[n] = TRUE]
  BY <1>12, <1>15, Zenon
<1>18. rounds' \in Nat
  BY <1>4, <1>10, <1>12 DEF MaxOf
<1>19. Saved(m, n, f, jump, maps')
  <2>1. f \in Facts /\ jump \in Facts /\ m \in Maps
    BY <1>5, <1>13, <1>14, <1>16, FactsSmall, Small DEF TypedMaps
  <2>2. n \in Nodes
    BY <1>2, FixpointConstantsOK DEF Adding, Structure, Nodes, For, n
  <2> QED
    BY <1>17, <2>1, <2>2, SaveMaps
<1>20. \E m1, f1, g1 : /\ TypedMaps(m1, P0) /\ f1 \in Known(b) /\ g1 \in Known(Top)
                       /\ Saved(m1, n, f1, g1, maps')
                       /\ m1.in[s] # NoFacts /\ m1.in[Top] = maps.in[Top]
                       /\ facts' = IF IsCtrl(s) THEN maps'.in[s] ELSE maps'.out[s]
                       /\ rounds' \in Nat
  BY <1>12, <1>13, <1>14, <1>16, <1>18, <1>19, Zenon
<1> QED
  BY <1>20, Zenon DEF n, s, b

LEMMA GotoForwardTypes ==
  ASSUME Structure, Structure', Types, NEW other \in Nodes, MakeGotoForward(other)
  PROVE  Types'
<1>1. PICK n : n = made + 1
  OBVIOUS
<1>2. PICK s : s = Last(seq[Top])
  OBVIOUS
<1>3. PICK b : b = IF other \in Range(seq[Body]) THEN Body ELSE Top
  OBVIOUS
<1>4. PICK st : st = [NoStm EXCEPT !.k = "goto", !.to = s]
  OBVIOUS
<1>5. /\ Adding /\ curr = Top /\ seq[Top] # <<>> /\ other \in Range(seq[Top]) \cup Range(seq[Body])
      /\ other # s /\ mode' \in {mode, "aborted"}
      /\ seq' = [seq EXCEPT ![b] = InsertAt(@, Position(@, other) + 1, n)]
      /\ stm' = [stm EXCEPT ![n] = st] /\ made' = n /\ curr' = curr /\ locals' = locals
  BY <1>1, <1>2, <1>3, <1>4, GotoForwardProgram, Zenon
<1>6. pre' = pre /\ pc' = pc /\ env' = env
  BY Zenon DEF MakeGotoForward
<1>7. PICK m, f, g : /\ TypedMaps(m, P0) /\ f \in Known(b) /\ g \in Known(Top)
                     /\ Saved(m, n, f, g, maps')
                     /\ m.in[s] # NoFacts /\ m.in[Top] = maps.in[Top]
                     /\ facts' = IF IsCtrl(s) THEN maps'.in[s] ELSE maps'.out[s]
                     /\ rounds' \in Nat
  BY <1>1, <1>2, <1>3, GotoForwardFacts
<1>8. /\ n \in Nodes /\ n > made /\ made \in Nat /\ n \notin Blocks /\ WellFormed(P0) /\ P0.seq = seq /\ stm \in [Nodes -> Statement]
      /\ mode = "generate" /\ b \in Blocks
  BY <1>1, <1>3, <1>5, Small, ProgramFields DEF Adding, Structure
<1>9. \A c \in Blocks : \A v \in Range(seq[c]) : v \in Nodes /\ v # n /\ stm'[v] = stm[v] /\ TypedAt(m, v, c)
  BY <1>5, <1>7, <1>8, PlacedFacts DEF TypedMaps, StmOK
<1>10. /\ \A c \in Blocks : c # b => seq'[c] = seq[c]
       /\ Range(seq'[b]) = Range(seq[b]) \cup {n}
       /\ Last(seq'[Top]) = s
  <2>1. seq \in [Blocks -> Seq(Nodes)]
    BY <1>8 DEF WellFormed, Program
  <2>2. PICK t : t = seq[b]
    OBVIOUS
  <2>3. t \in Seq(Nodes) /\ other \in Range(t)
    BY <1>3, <1>5, <1>8, <2>1, <2>2
  <2>4. PICK k : k = Position(t, other)
    OBVIOUS
  <2>5. k \in 1 .. Len(t) /\ t[k] = other
    BY <2>3, <2>4, PositionFacts
  <2>6. PICK u : u = InsertAt(t, k + 1, n)
    OBVIOUS
  <2>7. Inserted(u, t, k, n)
    BY <1>8, <2>3, <2>5, <2>6, InsertFacts
  <2>8. seq' = [seq EXCEPT ![b] = u]
    BY <1>5, <2>2, <2>4, <2>6
  <2>9. seq'[b] = u /\ \A c \in Blocks : c # b => seq'[c] = seq[c]
    BY <1>8, <2>1, <2>8
  <2>10. b = Top => Last(u) = s
    <3>1. ASSUME b = Top
          PROVE  Last(u) = s
      <4>1. Last(t) = t[Len(t)]
        BY <2>3, <2>5, InRange
      <4>2. k # Len(t)
        BY <1>2, <1>5, <2>2, <2>5, <3>1, <4>1
      <4> QED
        BY <1>2, <2>2, <2>7, <3>1, <4>2 DEF Inserted
    <3> QED
      BY <3>1
  <2>11. Range(u) = Range(t) \cup {n}
    BY <2>7 DEF Inserted
  <2> QED
    BY <1>2, <1>8, <2>2, <2>9, <2>10, <2>11, Small
<1>11. /\ s \in Range(seq[Top]) /\ s \in Nodes /\ s # n
  BY <1>2, <1>5, <1>8, <1>9, Small, InRange, PlacedFacts
<1>12. /\ maps' \in Maps /\ maps'.in[n] = f /\ maps'.out[n] = g
       /\ \A v \in Nodes : v # n => maps'.in[v] = m.in[v] /\ maps'.out[v] = m.out[v]
  BY <1>7, Zenon DEF Saved
<1>13. \A c : Scope(c)' = Scope(c) /\ Reach(c)' = Reach(c)
  BY <1>5 DEF Scope, Reach
<1>14. TypedAt(maps, n, b)'
  <2>1. stm'[n].k = "goto"
    BY <1>4, <1>5, <1>8 DEF NoStm
  <2>2. IsJump(n)' /\ IsCtrl(n)'
    BY <2>1 DEF IsJump, IsCtrl
  <2>3. f \in Known(b)' /\ g \in Known(Top)'
    BY <1>7, <1>13 DEF Known, FactsOf, NoFacts
  <2> QED
    BY <1>12, <2>2, <2>3 DEF TypedAt, OutBlock
<1>15. ASSUME NEW c \in Blocks, NEW v \in Range(seq'[c])
       PROVE  \/ TypedAt(maps', v, c) /\ stm'[v] = stm[v] /\ Scope(c)' = Scope(c)
              \/ TypedAt(maps, v, c)'
  BY <1>9, <1>10, <1>12, <1>13, <1>14 DEF TypedAt
<1>16. TypedMaps(maps, P0)'
  BY <1>7, <1>8, <1>12, <1>15, Small, CarryTyped DEF TypedMaps
<1>17. FactsOf(Top)' = FactsOf(Top) /\ (Facts)' = Facts
  BY <1>13 DEF FactsOf, Facts
<1>18. maps'.in[s] = m.in[s] /\ maps'.out[s] = m.out[s] /\ maps'.in[Top] = maps.in[Top] /\ TypedAt(m, s, Top)
  BY <1>7, <1>8, <1>9, <1>11, <1>12, Small
<1>19. facts' \in FactsOf(Top) /\ facts' \in Facts
  BY <1>7, <1>18, Small, FactsSmall DEF TypedAt, Known, OutBlock
<1>20. maps.in[Top] \in FactsOf(Top) /\ pre \in FactsOf(Top) /\ pc \in Nodes \cup {End}
       /\ DOMAIN env \subseteq Ptr /\ Range(env) \subseteq Target
  BY <1>8 DEF Types
<1>21. mode' # "execute" /\ mode' # "ready" /\ curr' = Top /\ Top # Body
  BY <1>5, <1>8, Small
<1>22. maps'.in[Last(seq'[Top])] # NoFacts'
  BY <1>7, <1>10, <1>18 DEF NoFacts
<1> QED
  BY <1>6, <1>7, <1>16, <1>17, <1>18, <1>19, <1>20, <1>21, <1>22 DEF Types, Nodes, End

LEMMA CloseForTypes ==
  ASSUME Structure, Structure', Types, CloseFor
  PROVE  Types'
<1>1. PICK r : /\ r = Finished(Body)
               /\ LET g == IF BodyMustReturn(r.P) THEN pre ELSE r.maps.in[Body]
                      out == MergeJumps(g, {r.maps.out[s] : s \in r.P.breaks})
                  IN  /\ seq' = [r.P.seq EXCEPT ![Top] = Append(@, For)]
                      /\ maps' = [r.maps EXCEPT !.in[For] = pre, !.out[For] = out, !.vis[For] = TRUE]
                      /\ facts' = out
                      /\ rounds' = MaxOf(rounds, r.rounds)
                      /\ mode' = Outcome(mode, r)
  BY Zenon DEF CloseFor
<1>2. /\ mode = "generate" /\ curr = Body /\ curr' = Top
      /\ stm' = stm /\ made' = made /\ locals' = locals /\ pre' = pre /\ pc' = pc /\ env' = env
  BY DEF CloseFor
<1>3. /\ WellFormed(P0) /\ Fixed /\ For \notin Range(seq[Top]) /\ P0.seq = seq
      /\ TypedMaps(maps, P0) /\ pre \in FactsOf(Top) /\ facts \in FactsOf(Body) /\ maps.in[Body] \in FactsOf(Top)
      /\ maps.in[Top] \in FactsOf(Top) /\ rounds \in Nat
  BY <1>2, ProgramFields DEF Structure, Types
<1>4. Deletable(P0, Body)
  BY <1>3, Small DEF Deletable
<1>5. /\ TypedMaps(r.maps, r.P) /\ r.maps.in[Body] \in FactsOf(Top) /\ r.rounds \in Nat
      /\ Tame(maps, r.maps, Whole(P0, Body)) /\ WellFormed(r.P) /\ Left(r.P, P0) /\ Beside(r.P, P0)
  BY <1>1, <1>3, <1>4, FinishedTyped, FinishedOK, Small
<1>6. PICK g : g = IF BodyMustReturn(r.P) THEN pre ELSE r.maps.in[Body]
  OBVIOUS
<1>7. PICK G : G = {r.maps.out[s] : s \in r.P.breaks}
  OBVIOUS
<1>8. PICK out : out = MergeJumps(g, G)
  OBVIOUS
<1>9. /\ seq' = [r.P.seq EXCEPT ![Top] = Append(@, For)]
      /\ maps' = [r.maps EXCEPT !.in[For] = pre, !.out[For] = out, !.vis[For] = TRUE]
      /\ facts' = out /\ rounds' = MaxOf(rounds, r.rounds) /\ mode' = Outcome(mode, r)
  BY <1>1, <1>6, <1>7, <1>8, Zenon
<1>10. out \in FactsOf(Top) /\ out # NoFacts /\ out \in Facts /\ pre # NoFacts /\ pre \in Facts
  BY <1>3, <1>5, <1>6, <1>7, <1>8, Small, FactsSmall, MergeJumpsTyped DEF WellFormed, TypedMaps,
     TypedAt, OutBlock, IsJump
<1>11. Saved(r.maps, For, pre, out, maps')
  BY <1>5, <1>9, <1>10, Small, SaveMaps, Zenon DEF TypedMaps
<1>12. /\ maps' \in Maps /\ maps'.in[For] = pre /\ maps'.out[For] = out
       /\ \A v \in Nodes : v # For => maps'.in[v] = r.maps.in[v] /\ maps'.out[v] = r.maps.out[v]
  BY <1>11, Zenon DEF Saved
<1>13. \A c : Scope(c)' = Scope(c) /\ Reach(c)' = Reach(c)
  BY <1>2 DEF Scope, Reach
<1>14. /\ seq'[Body] = r.P.seq[Body] /\ Range(seq'[Top]) = Range(r.P.seq[Top]) \cup {For} /\ Last(seq'[Top]) = For
       /\ For \notin Range(r.P.seq[Top])
  <2>1. r.P.seq \in [Blocks -> Seq(Nodes)]
    BY <1>5 DEF WellFormed, Program
  <2>2. seq'[Body] = r.P.seq[Body] /\ seq'[Top] = Append(r.P.seq[Top], For)
    BY <1>9, <2>1, Small
  <2>3. Range(seq'[Top]) = Range(r.P.seq[Top]) \cup {For} /\ Last(seq'[Top]) = For
    <3>1. PICK t : t = r.P.seq[Top]
      OBVIOUS
    <3>2. t \in Seq(Nodes) /\ For \in Nodes
      BY <2>1, <3>1, Small
    <3>3. PICK u : u = Append(t, For)
      OBVIOUS
    <3>4. Range(u) = Range(t) \cup {For} /\ Last(u) = For
      BY <3>2, <3>3, AppendRange
    <3>5. seq'[Top] = u
      BY <2>2, <3>1, <3>3
    <3> QED
      BY <3>1, <3>4, <3>5
  <2>4. For \notin Range(r.P.seq[Top])
    BY <1>3, <1>5, Small DEF Left
  <2> QED
    BY <2>2, <2>3, <2>4
<1>15. TypedAt(maps, For, Top)'
  BY <1>3, <1>10, <1>12, <1>13 DEF Known, FactsOf, OutBlock, TypedAt
<1>16. ASSUME NEW c \in Blocks, NEW v \in Range(seq'[c])
       PROVE  \/ TypedAt(maps', v, c) /\ stm'[v] = stm[v] /\ Scope(c)' = Scope(c)
              \/ TypedAt(maps, v, c)'
  <2>1. v \in Range(r.P.seq[c]) \/ (v = For /\ c = Top)
    BY <1>14, Small
  <2>2. CASE v \in Range(r.P.seq[c])
    <3>1. v \in Nodes /\ v # For /\ TypedAt(r.maps, v, c)
      BY <1>5, <1>14, <2>2, PlacedFacts, Small DEF TypedMaps
    <3>2. TypedAt(maps', v, c)
      BY <1>12, <3>1 DEF TypedAt
    <3> QED
      BY <1>2, <1>13, <3>2
  <2>3. CASE v = For /\ c = Top
    BY <1>15, <2>3
  <2> QED
    BY <2>1, <2>2, <2>3
<1>17. TypedMaps(maps, P0)'
  BY <1>5, <1>12, <1>16, Small, CarryTyped DEF TypedMaps
<1>18. FactsOf(Top)' = FactsOf(Top) /\ (Facts)' = Facts
  BY <1>13 DEF FactsOf, Facts
<1>19. maps'.in[Top] = maps.in[Top]
  BY <1>3, <1>5, <1>12, Small, PlacedFacts DEF Whole, Tame
<1>20. mode' \in {"generate", "aborted"} /\ rounds' \in Nat /\ Top # Body
  BY <1>2, <1>3, <1>5, <1>9, Small DEF Outcome, MaxOf
<1>21. pc \in Nodes \cup {End} /\ DOMAIN env \subseteq Ptr /\ Range(env) \subseteq Target
  BY DEF Types
<1>22. maps'.in[Last(seq'[Top])] # NoFacts'
  BY <1>10, <1>12, <1>14 DEF NoFacts
<1> QED
  BY <1>2, <1>3, <1>9, <1>10, <1>17, <1>18, <1>19, <1>20, <1>21, <1>22 DEF Types, Nodes, End

LEMMA CloseFunctionTypes ==
  ASSUME Structure, Structure', Types, CloseFunction
  PROVE  Types'
<1>1. PICK r : /\ r = Finished(Top) /\ seq' = r.P.seq /\ maps' = r.maps /\ facts' = r.post
               /\ rounds' = MaxOf(rounds, r.rounds) /\ mode' = Outcome("ready", r)
  BY Zenon DEF CloseFunction
<1>2. /\ mode = "generate" /\ curr = Top /\ curr' = Top
      /\ stm' = stm /\ locals' = locals /\ pre' = pre /\ pc' = pc /\ env' = env
  BY DEF CloseFunction
<1>3. /\ WellFormed(P0) /\ Fixed /\ P0.seq = seq /\ Follows(P0)
      /\ TypedMaps(maps, P0) /\ pre \in FactsOf(Top) /\ facts \in FactsOf(Top)
      /\ maps.in[Top] \in FactsOf(Top) /\ rounds \in Nat
  BY <1>2, ProgramFields, Small DEF Structure, Types
<1>4. Deletable(P0, Top)
  BY <1>3 DEF Deletable
<1>5. /\ TypedMaps(r.maps, r.P) /\ r.maps.in[Top] \in FactsOf(Top) /\ r.rounds \in Nat /\ r.post \in Facts
  BY <1>1, <1>3, <1>4, FinishedTyped, Small
<1>6. \A c : Scope(c)' = Scope(c) /\ Reach(c)' = Reach(c)
  BY <1>2 DEF Scope, Reach
<1>7. TypedMaps(maps, P0)'
  BY <1>1, <1>2, <1>5, <1>6, CarryTyped DEF TypedMaps
<1>8. FactsOf(Top)' = FactsOf(Top) /\ (Facts)' = Facts
  BY <1>6 DEF FactsOf, Facts
<1>9. mode' \in {"ready", "aborted"} /\ rounds' \in Nat
  BY <1>1, <1>3, <1>5 DEF Outcome, MaxOf
<1>10. pc \in Nodes \cup {End} /\ DOMAIN env \subseteq Ptr /\ Range(env) \subseteq Target
  BY DEF Types
<1> QED
  BY <1>1, <1>2, <1>3, <1>5, <1>7, <1>8, <1>9, <1>10 DEF Types, Nodes, End

----------------------------------------------------------------------------
(* The types of the facts and of the pointers while the program is executed *)

LEMMA KeepTypedMaps ==
  ASSUME Structure, UNCHANGED <<curr, program>>, TypedMaps(maps', P0)
  PROVE  TypedMaps(maps, P0)'
BY ProgramFields, CarryTyped DEF program, TypedMaps, Scope

LEMMA BeginTyped ==
  ASSUME Structure, UNCHANGED <<curr, program>>, Begin, maps'.in[Top] \in Known(Top)
  PROVE  /\ pc' \in Nodes \cup {End} /\ DOMAIN env' \subseteq Ptr /\ Range(env') \subseteq Target
         /\ maps'.in[Top] \in FactsOf(Top) => env' \in EnvOf(Top)
         /\ pc' # End => pc' \in Range(seq[Top])
<1>1. stm' = stm /\ seq' = seq /\ WellFormed(P0) /\ P0.seq = seq
  BY ProgramFields DEF program, Structure
<1>2. PICK f : f = maps'.in[Top]
  OBVIOUS
<1>3. PICK d : d = env'
  OBVIOUS
<1>4. d \in [DOMAIN f -> UNION Range(f)] /\ \A p \in DOMAIN d : d[p] \in f[p]
  BY <1>2, <1>3, Zenon DEF Begin
<1>5. DOMAIN d \subseteq Ptr /\ Range(d) \subseteq Target /\ (f \in FactsOf(Top) => d \in EnvOf(Top))
  BY <1>2, <1>4, Small, FactsSmall DEF Known, NoFacts, EnvOf, Range
<1>6. pc' = End \/ pc' \in Range(seq[Top])
  BY <1>1, Small, InRange, PlacedFacts DEF Begin, First
<1>7. pc' \in Nodes \cup {End}
  BY <1>1, <1>6, PlacedFacts, Small
<1> QED
  BY <1>2, <1>3, <1>5, <1>6, <1>7

LEMMA CallTypes ==
  ASSUME Structure, Types, FirstCall \/ \E f \in Entries : Call(f)
  PROVE  Types'
<1>1. mode = "ready" /\ UNCHANGED <<curr, program>> /\ facts' = facts /\ pre' = pre /\ Begin
  BY Zenon DEF FirstCall, Call
<1>2. /\ stm' = stm /\ seq' = seq /\ locals' = locals /\ curr' = curr /\ WellFormed(P0) /\ Fixed /\ P0.seq = seq
      /\ P0'.seq = seq' /\ TypedMaps(maps, P0) /\ maps.in[Top] \in FactsOf(Top) /\ rounds \in Nat
  BY <1>1, ProgramFields DEF program, Structure, Types, P0
<1>3. /\ TypedMaps(maps', P0) /\ rounds' \in Nat /\ mode' \in {"execute", "aborted"}
      /\ mode' = "execute" => maps'.in[Top] \in FactsOf(Top)
  <2>1. CASE FirstCall
    BY <1>2, <2>1 DEF FirstCall
  <2>2. CASE \E f \in Entries : Call(f)
    <3>1. PICK f \in Entries : Call(f)
      BY <2>2
    <3>2. PICK m : m = [maps EXCEPT !.vis = [n \in Nodes |-> FALSE]]
      OBVIOUS
    <3>3. PICK r : /\ r = FixedPoint(m, P0, Top, f, FALSE)
                   /\ r.ok \/ r.rounds > MaxRounds
                   /\ mode' = Outcome("execute", r) /\ maps' = r.maps /\ rounds' = MaxOf(rounds, r.rounds)
      BY <3>1, <3>2, Zenon DEF Call
    <3>4. TypedMaps(m, P0)
      <4>1. maps \in [in : [Nodes -> Facts], out : [Nodes -> Facts], vis : [Nodes -> BOOLEAN]]
        BY <1>2 DEF TypedMaps, Maps
      <4>2. PICK v : v = [n \in Nodes |-> FALSE]
        OBVIOUS
      <4>3. m = [in |-> maps.in, out |-> maps.out, vis |-> v]
        BY <3>2, <4>1, <4>2
      <4>4. v \in [Nodes -> BOOLEAN] /\ maps.in \in [Nodes -> Facts] /\ maps.out \in [Nodes -> Facts]
        BY <4>1, <4>2
      <4>5. m \in Maps /\ m.in = maps.in /\ m.out = maps.out
        BY <4>3, <4>4, MapsFields
      <4> QED
        BY <1>2, <4>5 DEF TypedMaps, TypedAt
    <3>5. f \in FactsOf(Top)
      BY FixpointConstantsOK, FactsSmall, Small DEF FactsOf
    <3>6. TypedResult(r, m, P0, Top, Whole(P0, Top))
      BY <1>2, <3>3, <3>4, <3>5, FixedPointTyped, Small
    <3>7. r \in Search /\ TypedMaps(r.maps, P0) /\ (r.ok => r.maps.in[Top] \in FactsOf(Top))
      BY <3>6, Zenon DEF TypedResult
    <3>8. r.rounds \in Nat
      BY <3>7 DEF Search
    <3> QED
      BY <1>2, <3>3, <3>7, <3>8 DEF Outcome, MaxOf
  <2> QED
    BY <2>1, <2>2
<1>4. /\ pc' \in Nodes \cup {End} /\ DOMAIN env' \subseteq Ptr /\ Range(env') \subseteq Target
      /\ maps'.in[Top] \in FactsOf(Top) => env' \in EnvOf(Top)
      /\ pc' # End => pc' \in Range(seq[Top])
  BY <1>1, <1>3, Small, BeginTyped DEF TypedMaps
<1>5. TypedMaps(maps, P0)'
  BY <1>1, <1>3, KeepTypedMaps
<1>6. FactsOf(Top)' = FactsOf(Top) /\ (Facts)' = Facts /\ EnvOf(Top)' = EnvOf(Top)
  BY <1>2 DEF FactsOf, Facts, EnvOf, Scope, Reach
<1>7. pc' # End => /\ pc' \in Placed(P0)' /\ ScopeAt(pc)' = Top
                   /\ pc' \notin {Body} \cup Range(seq'[Body])
  BY <1>2, <1>4, Small, PlacedFacts DEF WellFormed, Placed, ScopeAt
<1>8. facts \in Facts /\ pre \in FactsOf(Top)
  BY DEF Types
<1>9. End \notin {Body} \cup Range(seq'[Body])
  BY <1>2, PlacedFacts, Small
<1> QED
  BY <1>1, <1>2, <1>3, <1>4, <1>5, <1>6, <1>7, <1>8, <1>9 DEF Types, Nodes, End

LEMMA LeaveScopeTyped ==
  ASSUME NEW c \in Blocks, NEW e \in EnvOf(c)
  PROVE  LeaveScope(e) \in EnvOf(Top)
BY FactsSmall, FixpointConstantsOK DEF EnvOf, LeaveScope

\* A step of the execution, to n.
LEMMA GotoTypes ==
  ASSUME Structure, Types, mode = "execute", NEW n \in {End, Body} \cup Placed(P0), NEW c \in Blocks,
         NEW e \in EnvOf(c), n \in Range(seq[Body]) => c = Body,
         n \in {Body} \cup Range(seq[Body]) => For \in Range(seq[Top]), Goto(n, e)
  PROVE  Types'
<1>1. /\ UNCHANGED <<curr, program>> /\ mode' = mode /\ maps' = maps /\ facts' = facts /\ pre' = pre /\ rounds' = rounds
      /\ pc' = n
  BY DEF Goto
<1>2. /\ stm' = stm /\ seq' = seq /\ locals' = locals /\ curr' = curr /\ WellFormed(P0) /\ P0.seq = seq
      /\ P0'.seq = seq' /\ TypedMaps(maps, P0)
  BY <1>1, ProgramFields DEF program, Structure, Types, P0
<1>3. PICK b \in Blocks : b = IF n \in Range(seq[Body]) THEN Body ELSE Top
  BY Small
<1>4. env' \in EnvOf(b)
  BY <1>3, LeaveScopeTyped DEF Goto
<1>5. DOMAIN env' \subseteq Ptr /\ Range(env') \subseteq Target
  BY <1>4, FactsSmall DEF EnvOf, Range
<1>6. FactsOf(Top)' = FactsOf(Top) /\ (Facts)' = Facts /\ EnvOf(b)' = EnvOf(b)
  BY <1>2 DEF FactsOf, Facts, EnvOf, Scope, Reach
<1>7. n # End => n \in {Body} \cup Placed(P0)' /\ ScopeAt(pc)' = b
  BY <1>1, <1>2, <1>3 DEF Placed, ScopeAt
<1>8. n \in Nodes \cup {End}
  BY <1>2, PlacedFacts, Small
<1>9. TypedMaps(maps, P0)'
  BY <1>1, <1>2, KeepTypedMaps
<1>10. facts \in Facts /\ pre \in FactsOf(Top) /\ rounds \in Nat /\ maps.in[Top] \in FactsOf(Top)
  BY DEF Types
<1> QED
  BY <1>1, <1>2, <1>4, <1>5, <1>6, <1>7, <1>8, <1>9, <1>10 DEF Types, Nodes, End

LEMMA AfterFacts ==
  ASSUME Structure, NEW s \in Placed(P0)
  PROVE  /\ After(s) \in {End, Body} \cup Placed(P0)
         /\ After(s) \in {Body} \cup Range(seq[Body]) => s \in Range(seq[Body])
<1>1. WellFormed(P0) /\ P0.seq = seq
  BY ProgramFields DEF Structure
<1>2. PICK b : b = IF s \in Range(seq[Body]) THEN Body ELSE Top
  OBVIOUS
<1>3. b \in Blocks /\ s \in Range(seq[b]) /\ (b = Body => s \in Range(seq[Body]))
  BY <1>1, <1>2, Small DEF Placed
<1>4. PICK t : t = seq[b]
  OBVIOUS
<1>5. t \in Seq(Nodes) /\ s \in Range(t)
  BY <1>1, <1>3, <1>4, PlacedFacts
<1>6. PICK i : i = Position(t, s)
  OBVIOUS
<1>7. i \in 1 .. Len(t)
  BY <1>5, <1>6, PositionFacts
<1>8. After(s) = IF i < Len(t) THEN t[i + 1] ELSE IF b = Body THEN Body ELSE End
  BY <1>2, <1>4, <1>6, Zenon DEF After
<1>9. CASE i < Len(t)
  <2>1. i + 1 \in 1 .. Len(t)
    BY <1>5, <1>7, <1>9
  <2>2. After(s) \in Range(t)
    BY <1>5, <1>8, <1>9, <2>1, InRange
  <2>3. After(s) \in Placed(P0)
    BY <1>1, <1>3, <1>4, <2>2, PlacedFacts
  <2>4. b = Top => After(s) \notin {Body} \cup Range(seq[Body])
    BY <1>1, <1>4, <2>2, PlacedFacts, Small DEF WellFormed
  <2> QED
    BY <1>3, <2>3, <2>4, Small
<1>10. CASE ~(i < Len(t))
  BY <1>1, <1>3, <1>8, <1>10, Small, PlacedFacts
<1> QED
  BY <1>9, <1>10

\* What a statement that is executed refers to.
LEMMA RunningFacts ==
  ASSUME Structure, Types, NEW kinds, Running(kinds)
  PROVE  /\ mode = "execute" /\ pc \in Placed(P0) /\ stm[pc].k \in kinds
         /\ ScopeAt(pc) \in Blocks /\ env \in EnvOf(ScopeAt(pc)) /\ StmOK(pc, ScopeAt(pc))
         /\ pc \in Range(seq[Body]) => ScopeAt(pc) = Body
         /\ pc \in Range(seq[Body]) => For \in Range(seq[Top])
         /\ IsGoto(pc) => stm[pc].to \in Range(seq[Top])
BY Small, PlacedFacts, ProgramFields, Zenon DEF Structure, Running, Types, ScopeAt, Placed, WellFormed,
   JumpOK

LEMMA RunAssignTypes ==
  ASSUME Structure, Types, RunAssign
  PROVE  Types'
<1>1. Running({"value", "copy", "deref"})
  BY DEF RunAssign
<1>2. PICK c : c = ScopeAt(pc)
  OBVIOUS
<1>3. /\ mode = "execute" /\ pc \in Placed(P0) /\ c \in Blocks /\ env \in EnvOf(c) /\ StmOK(pc, c)
      /\ pc \in Range(seq[Body]) => c = Body /\ For \in Range(seq[Top])
  BY <1>1, <1>2, RunningFacts
<1>4. PICK e : e = CASE stm[pc].k = "value" -> [env EXCEPT ![stm[pc].to] = stm[pc].of]
                     [] stm[pc].k = "copy" -> [env EXCEPT ![stm[pc].to] = env[stm[pc].of]]
                     [] OTHER -> env
  OBVIOUS
<1>5. Goto(After(pc), e)
  BY <1>4, Zenon DEF RunAssign
<1>6. e \in EnvOf(c)
  BY <1>3, <1>4 DEF EnvOf, StmOK
<1>7. /\ After(pc) \in {End, Body} \cup Placed(P0)
      /\ After(pc) \in {Body} \cup Range(seq[Body]) => pc \in Range(seq[Body])
  BY <1>3, AfterFacts
<1> QED
  BY <1>3, <1>5, <1>6, <1>7, GotoTypes

LEMMA RunJumpTypes ==
  ASSUME Structure, Types, RunJump \/ RunReturn
  PROVE  Types'
<1>1. Running({"break", "continue", "goto"}) \/ Running({"return"})
  BY DEF RunJump, RunReturn
<1>2. PICK c : c = ScopeAt(pc)
  OBVIOUS
<1>3. /\ mode = "execute" /\ pc \in Placed(P0) /\ c \in Blocks /\ env \in EnvOf(c) /\ StmOK(pc, c)
      /\ pc \in Range(seq[Body]) => c = Body /\ For \in Range(seq[Top])
      /\ IsGoto(pc) => stm[pc].to \in Range(seq[Top])
  BY <1>1, <1>2, RunningFacts
<1>4. WellFormed(P0) /\ P0.seq = seq
  BY ProgramFields DEF Structure
<1>5. \A n \in {End} \cup Range(seq[Top]) : n \in {End, Body} \cup Placed(P0) /\ n \notin {Body} \cup Range(seq[Body])
  BY <1>4, PlacedFacts, Small DEF WellFormed
<1>6. CASE Goto(After(pc), env)
  BY <1>3, <1>6, GotoTypes, AfterFacts
<1>7. CASE stm[pc].k = "goto" /\ Goto(stm[pc].to, env)
  BY <1>3, <1>5, <1>7, GotoTypes DEF IsGoto
<1>8. stm[pc].k \in {"continue", "break"} => For \in Range(seq[Top])
  BY <1>2, <1>3, Small DEF StmOK, ScopeAt
<1>9. CASE stm[pc].k = "continue" /\ Goto(Body, env)
  BY <1>3, <1>4, <1>8, <1>9, Small, PlacedFacts, GotoTypes, Zenon
<1>10. CASE stm[pc].k = "break" /\ Goto(After(For), env)
  BY <1>3, <1>4, <1>8, <1>10, Small, PlacedFacts, GotoTypes, AfterFacts
<1>11. CASE Goto(End, env)
  BY <1>3, <1>5, <1>11, GotoTypes
<1> QED
  BY <1>6, <1>7, <1>9, <1>10, <1>11 DEF RunJump, RunReturn

LEMMA RunLoopTypes ==
  ASSUME Structure, Types, RunLoop
  PROVE  Types'
<1>1. WellFormed(P0) /\ P0.seq = seq
  BY ProgramFields DEF Structure
<1>2. mode = "execute" /\ pc \in {For, Body} /\ For \in Range(seq[Top]) /\ env \in EnvOf(Top)
  BY <1>1, Small, PlacedFacts, RunningFacts, SMTT(30) DEF StmOK, ScopeAt, Placed, Types, RunLoop
<1>3. For \in Placed(P0) /\ For \notin Range(seq[Body])
  BY <1>1, <1>2, PlacedFacts, Small
<1>4. After(For) \in {End, Body} \cup Placed(P0) /\ After(For) \notin {Body} \cup Range(seq[Body])
  BY <1>3, AfterFacts
<1>5. CASE Goto(After(For), env)
  BY <1>2, <1>4, <1>5, GotoTypes, Small
<1>6. CASE /\ seq[Body] # <<>>
           /\ \E e \in [{q \in Ptr \cap Local : locals} -> UNION Range(InitOf)] :
                /\ \A p \in DOMAIN e : e[p] \in InitOf[p]
                /\ Goto(First(Body), Join(LeaveScope(env), e))
  <2>1. PICK L : L = {q \in Ptr \cap Local : locals}
    OBVIOUS
  <2>2. PICK e : /\ e \in [L -> UNION Range(InitOf)] /\ \A p \in DOMAIN e : e[p] \in InitOf[p]
                 /\ Goto(First(Body), Join(LeaveScope(env), e))
    BY <1>6, <2>1
  <2>3. PICK d : d = LeaveScope(env)
    OBVIOUS
  <2>4. d \in [Global -> Target \ Local]
    BY <1>2, <2>3, Small, FactsSmall, LeaveScopeTyped DEF EnvOf
  <2>5. \A p \in L : e[p] \in Target
    BY <2>1, <2>2, FixpointConstantsOK
  <2>6. Join(d, e) = [p \in Global \cup L |-> IF p \in Global THEN d[p] ELSE e[p]]
    BY <2>2, <2>4 DEF Join
  <2>7. Scope(Body) = Global \cup L /\ Reach(Body) = Target
    BY <2>1 DEF Scope, Reach
  <2>8. Join(d, e) \in EnvOf(Body)
    BY <2>4, <2>5, <2>6, <2>7 DEF EnvOf
  <2>9. First(Body) \in Range(seq[Body])
    BY <1>1, <1>6, Small, InRange, PlacedFacts DEF First
  <2>10. First(Body) \in Placed(P0)
    BY <1>1, <2>9, PlacedFacts, Small
  <2> QED
    BY <1>2, <2>2, <2>3, <2>8, <2>10, GotoTypes, Small
<1> QED
  BY <1>5, <1>6 DEF RunLoop, Iterate

LEMMA StutterTypes ==
  ASSUME Structure, Types, UNCHANGED vars
  PROVE  Types'
<1>1. UNCHANGED <<mode, curr, program, maps, facts, pre, rounds, pc, env>>
  BY DEF vars
<1>2. stm' = stm /\ seq' = seq /\ locals' = locals /\ edges' = edges /\ breaks' = breaks /\ curr' = curr
  BY <1>1 DEF program
<1>3. TypedMaps(maps, P0)'
  BY <1>1, KeepTypedMaps DEF Types
<1>4. /\ (Facts)' = Facts /\ \A b : FactsOf(b)' = FactsOf(b) /\ EnvOf(b)' = EnvOf(b)
      /\ ScopeAt(pc)' = ScopeAt(pc) /\ Placed(P0)' = Placed(P0)
  BY <1>1, <1>2 DEF FactsOf, Facts, EnvOf, Scope, Reach, ScopeAt, Placed, P0
<1> QED
  BY <1>1, <1>2, <1>3, <1>4 DEF Types, Nodes, End, NoFacts

LEMMA NextTypes ==
  ASSUME Structure, Structure', Types, [Next]_vars
  PROVE  Types'
BY AddedTypes, OpenForTypes, GotoForwardTypes, CloseForTypes, CloseFunctionTypes, CallTypes,
   RunAssignTypes, RunJumpTypes, RunLoopTypes, StutterTypes DEF Next

LEMMA TypesGive ==
  ASSUME Structure, Types
  PROVE  TypeOK
BY Small, ProgramFields, FactsSmall DEF Structure, WellFormed, Program, Edges, Types, TypedMaps, TypeOK

\* Throughout generation, analysis and execution the maps have facts about the
\* pointers in scope only, and every variable has its type.
THEOREM TypeTheorem == Spec => []TypeOK
<1>1. Init => Structure /\ Types
  BY InitStructure, InitTypes
<1>2. (Structure /\ Types) /\ [Next]_vars => (Structure /\ Types)'
  BY NextStructure, NextTypes
<1>3. Structure /\ Types => TypeOK
  BY TypesGive
<1> QED
  BY <1>1, <1>2, <1>3, PTL DEF Spec

----------------------------------------------------------------------------
(* What the analysis finds *)

LEMMA GotoEdge ==
  ASSUME Fixed, NEW P, WellFormed(P), NEW e \in P.edges, IsGoto(e.src)
  PROVE  /\ e.src \in Placed(P) /\ e.src \in Nodes /\ e.dest \in Nodes /\ e.dest = stm[e.src].to /\ ~e.post
         /\ e.dest \in Range(P.seq[Top]) /\ e.dest \notin Range(P.seq[Body]) /\ e.dest # Body /\ e.dest # Top
BY Small, PlacedFacts DEF Fixed, IsGoto, WellFormed, EdgeOK

\* No goto leads into the loop body.
LEMMA NoneInBody ==
  ASSUME Fixed, NEW P, WellFormed(P), NEW s \in Range(P.seq[Body]), NEW m
  PROVE  ~Pending(m, P, s)
BY GotoEdge DEF Pending

----------------------------------------------------------------------------
(* A search for the fixed point of the loop body *)

LEMMA OrderlySelf ==
  ASSUME NEW m, NEW P, NEW X
  PROVE  Orderly(m, m, P, X)
BY DEF Orderly

LEMMA PendingStays ==
  ASSUME Fixed, NEW P, WellFormed(P), NEW m, NEW m1, NEW X, Orderly(m, m1, P, X), NEW n, Pending(m, P, n)
  PROVE  Pending(m1, P, n)
BY GotoEdge DEF Pending, Orderly

LEMMA OrderlyAgain ==
  ASSUME Fixed, NEW P, WellFormed(P), NEW m1, NEW m2, NEW m3, NEW X, Orderly(m1, m2, P, X), Orderly(m2, m3, P, X)
  PROVE  Orderly(m1, m3, P, X)
BY PendingStays DEF Orderly

LEMMA OrderlyMore ==
  ASSUME NEW m, NEW m1, NEW P, NEW X, NEW Y, Orderly(m, m1, P, X), X \subseteq Y
  PROVE  Orderly(m, m1, P, Y)
BY DEF Orderly

LEMMA RecordedStays ==
  ASSUME NEW m, NEW m1, NEW P, NEW X, Orderly(m, m1, P, X), NEW S, S \subseteq Nodes,
         \A s \in S : s \notin X \/ s = For \/ RecordedAt(m1, s), Recorded(m, S)
  PROVE  Recorded(m1, S)
BY DEF Orderly, Recorded, RecordedAt

LEMMA WeakStays ==
  ASSUME Fixed, NEW P, WellFormed(P), NEW m, NEW m1, NEW X, Orderly(m, m1, P, X),
         NEW t \in Seq(Nodes), NEW n \in Nat, n <= Len(t), NEW f, Weak(m, P, t, n, f),
         \A j \in 1 .. n : t[j] \notin X
  PROVE  Weak(m1, P, t, n, f)
<1>1. ASSUME NEW j \in 1 .. n
      PROVE  \/ m1.in[t[j]] = m.in[t[j]] /\ m1.out[t[j]] = m.out[t[j]]
             \/ m1.in[t[j]] = NoFacts /\ Pending(m1, P, t[j])
  BY DEF Orderly
<1>2. ASSUME NEW j \in 1 .. n
      PROVE  m1.in[t[j]] # NoFacts \/ Pending(m1, P, t[j])
  BY <1>1, PendingStays DEF Weak
<1>3. n >= 1 /\ m1.in[t[1]] # NoFacts => Below(f, m1.in[t[1]])
  BY <1>1 DEF Weak
<1>4. ASSUME NEW j \in 2 .. n, m1.in[t[j - 1]] # NoFacts, m1.in[t[j]] # NoFacts
      PROVE  Below(BehindOf(m1, t[j - 1]), m1.in[t[j]])
  BY <1>1, <1>4 DEF BehindOf, Weak
<1> QED
  BY <1>2, <1>3, <1>4 DEF Weak

LEMMA SimpleContents ==
  ASSUME NEW P, WellFormed(P), NEW s \in Placed(P), s # For
  PROVE  Contents(P, s) = {s} /\ s \in Nodes
BY Small, PlacedFacts DEF Placed, Contents

LEMMA VisitRecorded ==
  ASSUME NEW m, NEW s, NEW f, Valid(s, f), m.in[s] = f, m.out[s] = FactOut(s, Transfer(s, f))
  PROVE  RecordedAt(m, s) /\ (stm[s].k # "return" => Transfer(s, f) = BehindOf(m, s))
BY DEF RecordedAt, IsCtrl, Transfer, BehindOf, FactOut

LEMMA SimpleAnalysis ==
  ASSUME Fixed, NEW P, WellFormed(P), NEW b \in Blocks, NEW s \in Range(P.seq[b]), s # For,
         NEW m, TypedMaps(m, P), RecordedAt(m, s), NEW f \in FactsOf(b), NEW r,
         r = Analysed(m, P, s, f, VisitSimple(m, s, f)), r.ok
  PROVE  Analysis(m, P, s, f, r)
<1>1. SimpleDone(m, P, s, f, r) /\ SimpleFrame(m, P, s, f, r)
  BY AnalysedSimple
<1>2. s \in Placed(P) /\ s \in Nodes /\ Contents(P, s) = {s} /\ StmOK(s, b)
  BY PlacedFacts, SimpleContents
<1>3. m \in Maps /\ f # NoFacts
  BY FactsSmall DEF TypedMaps
<1>4. r.maps = MarkGotos(m, P, s) => Marked(m, P, s, r.maps)
  BY <1>3, MarkMaps
<1>5. CASE r.ok = TRUE /\ f = m.in[s] /\ ~IsCtrl(s) /\ r.facts = m.out[s] /\ r.maps = MarkGotos(m, P, s)
  <2>1. Marked(m, P, s, r.maps)
    BY <1>4, <1>5
  <2>2. r.maps.in = m.in /\ r.maps.out = m.out /\ \A n \in Nodes : m.vis[n] => r.maps.vis[n]
    BY <2>1 DEF Marked
  <2>3. Orderly(m, r.maps, P, Contents(P, s))
    BY <2>2 DEF Orderly
  <2>4. VisitedGotos(r.maps, P, Contents(P, s))
    BY <1>2, <2>1 DEF Marked, VisitedGotos
  <2>5. RecordedAt(r.maps, s)
    BY <2>2 DEF RecordedAt
  <2>6. r.facts = BehindOf(r.maps, s)
    BY <1>5, <2>2 DEF BehindOf
  <2> QED
    BY <1>5, <2>2, <2>3, <2>4, <2>5, <2>6 DEF Analysis
<1>6. CASE /\ Valid(s, f) /\ r.facts = Transfer(s, f)
           /\ r.maps.in[s] = f /\ r.maps.out[s] = FactOut(s, Transfer(s, f))
  <2>1. RecordedAt(r.maps, s) /\ (stm[s].k # "return" => r.facts = BehindOf(r.maps, s))
    BY <1>6, VisitRecorded
  <2>2. r.maps.out[s] # NoFacts
    BY <1>2, <1>6, Small, FactsSmall, TransferTyped, FactOutTyped DEF OutBlock
  <2>3. CASE r.maps = MarkGotos(m, P, s)
    BY <1>2, <1>4, <1>6, <2>1, <2>3, Zenon DEF Marked, Orderly, VisitedGotos, Analysis
  <2>4. CASE /\ r.maps.vis = [m.vis EXCEPT ![s] = TRUE]
             /\ \A n \in Nodes \ {s} :
                  \/ r.maps.in[n] = m.in[n] /\ r.maps.out[n] = m.out[n]
                  \/ /\ r.maps.in[n] = NoFacts /\ r.maps.out[n] = NoFacts
                     /\ IsGoto(s) /\ Shrinks(m, s, f) /\ n = stm[s].to
    <3>1. m.vis \in [Nodes -> BOOLEAN]
      BY <1>3 DEF Maps
    <3>2. r.maps.vis[s] = TRUE /\ \A n \in Nodes : m.vis[n] => r.maps.vis[n]
      BY <1>2, <2>4, <3>1
    <3>3. ASSUME IsGoto(s)
          PROVE  Pending(r.maps, P, stm[s].to)
      <4>1. PICK e \in P.edges : e.src = s /\ e.dest = stm[s].to
        BY <1>2, <3>3 DEF WellFormed, JumpOK
      <4> QED
        BY <2>2, <3>2, <3>3, <4>1 DEF Pending
    <3>4. ASSUME Shrinks(m, s, f)
          PROVE  ~m.vis[stm[s].to]
      BY <3>4 DEF Shrinks
    <3>5. Orderly(m, r.maps, P, Contents(P, s))
      BY <1>2, <2>2, <2>4, <3>2, <3>3, <3>4 DEF Orderly
    <3>6. VisitedGotos(r.maps, P, Contents(P, s))
      BY <1>2, <3>2 DEF VisitedGotos
    <3> QED
      BY <1>6, <2>1, <3>5, <3>6 DEF Analysis
  <2> QED
    BY <1>1, <2>3, <2>4 DEF SimpleFrame
<1> QED
  BY <1>1, <1>5, <1>6 DEF SimpleDone

LEMMA ContentsApart ==
  ASSUME Fixed, NEW P, WellFormed(P), NEW b \in Blocks, NEW i \in 1 .. Len(P.seq[b]), NEW j \in 1 .. Len(P.seq[b]), i # j
  PROVE  P.seq[b][i] \notin Contents(P, P.seq[b][j])
<1>1. PICK t \in Seq(Nodes) : t = P.seq[b]
  BY PlacedFacts
<1>2. t[i] # t[j]
  BY <1>1 DEF WellFormed, SeqOK
<1>3. t[i] \in Range(t) /\ t[j] \in Range(t)
  BY <1>1, InRange
<1>4. t[i] # Top /\ t[i] # Body /\ t[j] # Top /\ t[j] # Body /\ t[i] \in Placed(P) /\ t[j] \in Placed(P)
  BY <1>1, <1>3, PlacedFacts
<1>5. CASE t[j] = For
  BY <1>1, <1>2, <1>3, <1>5, Small, PlacedFacts, Zenon DEF WellFormed, Contents
<1>6. CASE t[j] # For
  BY <1>1, <1>2, <1>4, <1>6, SimpleContents
<1> QED
  BY <1>5, <1>6

LEMMA VisitedStays ==
  ASSUME Fixed, NEW P, WellFormed(P), NEW m, NEW m1, NEW X, Orderly(m, m1, P, X), NEW S, VisitedGotos(m, P, S)
  PROVE  VisitedGotos(m1, P, S)
BY GotoEdge DEF VisitedGotos, Orderly

LEMMA NextWalked ==
  ASSUME Fixed, NEW P, WellFormed(P), NEW b \in Blocks, NEW n \in 1 .. Len(P.seq[b]), NEW s, s = P.seq[b][n],
         NEW v, NEW m, NEW f, NEW X, Walked(v, n - 1, m, P, b, f, X), v.ok, v.rounds \in Nat,
         NEW g \in FactsOf(b), Below(v.facts, g), NEW r, r.rounds \in Nat, NextWalkedOK(P, b, s, v, g, r),
         Contents(P, s) \subseteq X, NEW z, z = NextStm(v, r)
  PROVE  Walked(z, n, m, P, b, f, X)
<1>1. /\ z.ok = r.ok /\ z.maps = r.maps /\ z.facts = r.facts /\ z.rounds = MaxOf(v.rounds, r.rounds)
  BY DEF NextStm
<1> SUFFICES ASSUME z.ok, z.rounds <= MaxRounds
             PROVE  WalkedOK(z, n, m, P, b, f, X)
  BY DEF Walked
<1>2. v.rounds <= MaxRounds /\ r.rounds <= MaxRounds
  BY <1>1, FixpointConstantsOK DEF MaxOf
<1>3. WalkedOK(v, n - 1, m, P, b, f, X)
  BY <1>2 DEF Walked
<1>4. Analysis(v.maps, P, s, g, r) /\ Hold(r.maps, P, b)
  BY <1>1, <1>2, <1>3 DEF WalkedOK, NextWalkedOK
<1>5. PICK t \in Seq(Nodes) : t = P.seq[b]
  BY PlacedFacts
<1>6. Orderly(v.maps, r.maps, P, Contents(P, s)) /\ r.maps.in[s] = g
  BY <1>4 DEF Analysis
<1>7. Orderly(m, r.maps, P, X)
  BY <1>3, <1>6, OrderlyAgain, OrderlyMore, Zenon DEF WalkedOK
<1>8. \A j \in 1 .. n - 1 : t[j] \notin Contents(P, s)
  BY <1>5, ContentsApart
<1>9. n - 1 \in Nat /\ n - 1 <= Len(t) /\ Len(t) \in Nat /\ n \in 1 .. Len(t)
  BY <1>5
<1>10. Weak(r.maps, P, t, n - 1, f)
  BY <1>3, <1>5, <1>6, <1>8, <1>9, WeakStays, Zenon DEF WalkedOK
<1>11. g # NoFacts
  BY FactsSmall
<1>12. Weak(r.maps, P, t, n, f)
  <2>1. \A j \in 1 .. n : j \in 1 .. n - 1 \/ j = n
    OBVIOUS
  <2>2. \A j \in 1 .. n : r.maps.in[t[j]] # NoFacts \/ Pending(r.maps, P, t[j])
    BY <1>5, <1>6, <1>10, <1>11, <2>1 DEF Weak
  <2>3. n >= 1 /\ r.maps.in[t[1]] # NoFacts => Below(f, r.maps.in[t[1]])
    BY <1>3, <1>5, <1>6, <1>10 DEF WalkedOK, Weak
  <2>4. ASSUME n # 1, r.maps.in[t[n - 1]] # NoFacts
        PROVE  Below(BehindOf(r.maps, t[n - 1]), r.maps.in[t[n]])
    <3>1. n - 1 >= 1 /\ n - 1 \in 1 .. n - 1 /\ n - 1 \in 1 .. Len(t) /\ n - 1 < n
      BY <1>9, <2>4
    <3>2. t[n - 1] \in Nodes /\ t[n - 1] \notin Contents(P, s)
      BY <1>8, <3>1
    <3>3. r.maps.in[t[n - 1]] = v.maps.in[t[n - 1]] /\ r.maps.out[t[n - 1]] = v.maps.out[t[n - 1]]
      BY <1>6, <2>4, <3>2 DEF Orderly
    <3>4. stm[t[n - 1]].k # "return"
      BY <1>5, <1>9, <3>1 DEF WellFormed, SeqOK
    <3>5. v.facts = BehindOf(v.maps, t[n - 1])
      BY <1>3, <1>5, <3>1, <3>4 DEF WalkedOK
    <3>6. BehindOf(r.maps, t[n - 1]) = v.facts
      BY <3>3, <3>5 DEF BehindOf
    <3> QED
      BY <1>5, <1>6, <3>6
  <2>5. \A j \in 2 .. n : r.maps.in[t[j - 1]] # NoFacts /\ r.maps.in[t[j]] # NoFacts =>
                            Below(BehindOf(r.maps, t[j - 1]), r.maps.in[t[j]])
    BY <1>10, <2>4 DEF Weak
  <2> QED
    BY <2>2, <2>3, <2>5 DEF Weak
<1>13. \A j \in 1 .. n : VisitedGotos(r.maps, P, Contents(P, t[j]))
  BY <1>3, <1>4, <1>5, VisitedStays DEF Analysis, WalkedOK
<1>14. stm[s].k # "return" => r.facts = BehindOf(r.maps, s)
  BY <1>4 DEF Analysis
<1> QED
  BY <1>1, <1>4, <1>5, <1>6, <1>7, <1>9, <1>11, <1>12, <1>13, <1>14 DEF WalkedOK

LEMMA InBodyWalked ==
  ASSUME Fixed, NEW P, WellFormed(P), NEW n \in 1 .. Len(P.seq[Body]), NEW m, NEW v, NEW z, NEW f,
         NEW X, X = Range(P.seq[Body]), TypedWalk(v, n - 1, m, P, Body, X), Walked(v, n - 1, m, P, Body, f, X),
         z = VisitInBody(P, P.seq[Body][n], v)
  PROVE  Walked(z, n, m, P, Body, f, X)
<1>1. CASE ~v.ok
  BY <1>1 DEF VisitInBody, Walked
<1>2. CASE v.ok
  <2>1. PICK s : s = P.seq[Body][n]
    OBVIOUS
  <2>2. s \in Range(P.seq[Body]) /\ s \in Nodes /\ s # For /\ s # Body /\ s # Top /\ s \in Placed(P)
    BY <2>1, PlacedFacts, InRange, Small
  <2>3. PICK g : g = StatementIn(v.maps, P, s, v.facts)
    OBVIOUS
  <2>4. v.facts \in FactsOf(Body) /\ TypedMaps(v.maps, P) /\ v.rounds \in Nat
    BY <1>2, FactsBefore, Small DEF TypedWalk
  <2>5. g \in FactsOf(Body) /\ Below(v.facts, g)
    BY <2>2, <2>3, <2>4, StatementInTyped, Small
  <2>6. PICK r : r = Analysed(v.maps, P, s, g, VisitSimple(v.maps, s, g))
    OBVIOUS
  <2>7. StmTyped(v.maps, P, Body, s, r)
    BY <2>2, <2>4, <2>5, <2>6, AnalysedSimple, Small
  <2>8. z = NextStm(v, r)
    BY <1>2, <2>1, <2>3, <2>6, Zenon DEF VisitInBody
  <2>9. Contents(P, s) = {s}
    BY <2>2, SimpleContents
  <2>10. r.rounds \in Nat
    BY <2>7 DEF StmTyped
  <2>11. NextWalkedOK(P, Body, s, v, g, r)
    <3> SUFFICES ASSUME r.ok, Hold(v.maps, P, Body)
                 PROVE  Analysis(v.maps, P, s, g, r) /\ Hold(r.maps, P, Body)
      BY DEF NextWalkedOK
    <3>1. Recorded(v.maps, Range(P.seq[Body]))
      BY DEF Hold
    <3>2. RecordedAt(v.maps, s)
      BY <2>2, <3>1 DEF Recorded
    <3>3. Analysis(v.maps, P, s, g, r)
      <4> HIDE <2>3
      <4> QED
        BY <2>2, <2>4, <2>5, <2>6, <3>2, SimpleAnalysis, Small
    <3>4. Orderly(v.maps, r.maps, P, {s}) /\ RecordedAt(r.maps, s)
      BY <2>2, <2>9, <3>3 DEF Analysis
    <3>5. Range(P.seq[Body]) \subseteq Nodes
      BY PlacedFacts, Small
    <3>6. Recorded(r.maps, Range(P.seq[Body]))
      BY <3>1, <3>4, <3>5, RecordedStays
    <3> QED
      BY <3>3, <3>6 DEF Hold
  <2> HIDE <2>3, <2>6
  <2> QED
    BY <1>2, <2>1, <2>2, <2>4, <2>5, <2>8, <2>9, <2>10, <2>11, NextWalked, Small
<1> QED
  BY <1>1, <1>2

LEMMA Walk0OK ==
  ASSUME NEW P, NEW b, NEW m, Hold(m, P, b), NEW f, NEW X, NEW v, v = Walk0(m, f)
  PROVE  Walked(v, 0, m, P, b, f, X)
BY OrderlySelf DEF Walk0, Weak, Walked, WalkedOK

\* A walk through the loop body.
LEMMA WalkBodySound ==
  ASSUME Fixed, NEW P, WellFormed(P), NEW m, TypedMaps(m, P), Recorded(m, Range(P.seq[Body])),
         NEW f \in FactsOf(Body), NEW w, w = WalkBody(m, P, f), NEW X, X = Range(P.seq[Body])
  PROVE  TypedWalk(w, Len(P.seq[Body]), m, P, Body, X) /\ Walked(w, Len(P.seq[Body]), m, P, Body, f, X)
<1>1. \E x : /\ x[0] = Walk0(m, f)
             /\ \A i \in 1 .. Len(P.seq[Body]) : x[i] = VisitInBody(P, P.seq[Body][i], x[i - 1])
             /\ WalkBody(m, P, f) = x[Len(P.seq[Body])]
  <2>1. P.seq \in [Blocks -> Seq(Nodes)]
    BY DEF WellFormed, Program
  <2> QED
    BY ONLY <2>1, WalkBodyDef
<1> DEFINE N == Len(P.seq[Body])
           Good(v, n) == TypedWalk(v, n, m, P, Body, X) /\ Walked(v, n, m, P, Body, f, X)
<1>2. P.seq \in [Blocks -> Seq(Nodes)] /\ N \in Nat
  BY PlacedFacts, InRange, Small DEF WellFormed, Program
<1>3. PICK x : /\ x[0] = Walk0(m, f)
               /\ \A i \in 1 .. N : x[i] = VisitInBody(P, P.seq[Body][i], x[i - 1])
               /\ w = x[N]
  BY <1>1
<1> DEFINE A == {n \in 0 .. N : Good(x[n], n)}
<1>4. 0 \in A
  <2>1. PICK v : v = x[0]
    OBVIOUS
  <2>2. v.ok = TRUE /\ v.maps = m /\ v.facts = f /\ v.rounds = 0 /\ v.passed = 0
    BY <1>3, <2>1 DEF Walk0
  <2>3. TypedWalk(v, 0, m, P, Body, X)
    <3>1. v.rounds \in Nat /\ v.passed \in Nat
      BY <2>2
    <3>2. v.ok \in BOOLEAN
      BY <2>2
    <3>3. TypedMaps(v.maps, P)
      BY <2>2, Zenon
    <3>4. Tame(m, v.maps, X)
      BY <2>2, TameSelf
    <3>5. FactsAfter(v.facts, 0, P, Body)
      BY <2>2 DEF FactsAfter
    <3> QED
      BY <3>1, <3>4, <3>5, <3>3, <3>2, Zenon DEF TypedWalk
  <2>4. Hold(m, P, Body)
    BY DEF Hold
  <2>5. Walked(v, 0, m, P, Body, f, X)
    BY <1>3, <2>1, <2>4, Walk0OK
  <2>6. Good(v, 0)
    BY <2>3, <2>5
  <2> HIDE DEF Good
  <2> QED
    BY <1>2, <2>1, <2>6
<1>5. ASSUME NEW n \in 1 .. N, n - 1 \in A
      PROVE  n \in A
  <2>1. PICK v : v = x[n - 1]
    OBVIOUS
  <2>2. Good(v, n - 1)
    BY <1>5, <2>1
  <2>3. PICK z : z = x[n] /\ z = VisitInBody(P, P.seq[Body][n], v)
    BY <1>3, <2>1
  <2>4. TypedWalk(z, n, m, P, Body, X)
    BY <2>2, <2>3, InBodyTyped
  <2>5. Walked(z, n, m, P, Body, f, X)
    BY <2>2, <2>3, InBodyWalked
  <2>6. Good(z, n)
    BY <2>4, <2>5
  <2>7. n \in 0 .. N
    BY <1>2
  <2> HIDE DEF Good
  <2> QED
    BY <2>3, <2>6, <2>7
<1>6. N \in A
  <2>1. \A n \in 1 .. N : n - 1 \in A => n \in A
    BY <1>5
  <2> HIDE DEF A
  <2>2. 0 .. N \subseteq A
    BY <1>2, <1>4, <2>1, UpTo
  <2> QED
    BY <1>2, <2>2
<1>7. Good(x[N], N)
  <2> HIDE DEF Good
  <2> QED
    BY <1>6
<1> QED
  BY <1>3, <1>7

LEMMA AgainFacts ==
  ASSUME Fixed, NEW P, WellFormed(P), NEW b \in Blocks, NEW m, NEW X, NEW Y,
         NEW x, TypedSearch(x, m, P, X), NEW w, TypedWalk(w, Len(P.seq[b]), x.maps, P, b, Y), w.ok,
         NEW z, z = Again(P, b, x, w)
  PROVE  \E g \in FactsOf(Top) : /\ g = OutOfScope(w.facts, IF b = Body THEN Local ELSE {})
                                 /\ AgainDone(P, b, x, w, g, z)
BY Small, FactsSmall, OutOfScopeTyped, SameScope, AgainOK, Zenon DEF TypedSearch, TypedWalk, TypedMaps,
   FactsAfter

LEMMA FailedFacts ==
  ASSUME NEW P, NEW b \in Blocks, NEW m, NEW X, NEW Y,
         NEW x, TypedSearch(x, m, P, X), NEW w, TypedWalk(w, Len(P.seq[b]), x.maps, P, b, Y), ~w.ok,
         NEW z, z = Again(P, b, x, w)
  PROVE  AgainFailed(x, w, z)
BY AgainNot DEF TypedSearch, TypedWalk, TypedMaps

\* Once the walk has come to the end of the loop body its facts are chained.
LEMMA BodyChainAfter ==
  ASSUME Fixed, NEW P, WellFormed(P), NEW w, NEW N, N = Len(P.seq[Body]), NEW m, NEW h, NEW X,
         WalkedOK(w, N, m, P, Body, AddLocals(h), X), NEW g, g = OutOfScope(w.facts, Local),
         NEW m1, Saved(w.maps, Body, h, g, m1)
  PROVE  BodyChain(m1, P)
<1>1. PICK t \in Seq(Nodes) : t = P.seq[Body]
  BY PlacedFacts, Small
<1>2. N \in Nat /\ N = Len(t)
  BY <1>1
<1>3. ASSUME NEW j \in 1 .. N
      PROVE  /\ t[j] \in Range(P.seq[Body]) /\ t[j] \in Nodes /\ t[j] # Body
             /\ m1.in[t[j]] = w.maps.in[t[j]] /\ m1.out[t[j]] = w.maps.out[t[j]]
             /\ m1.in[t[j]] # NoFacts /\ BehindOf(m1, t[j]) = BehindOf(w.maps, t[j])
  <2>1. t[j] \in Range(P.seq[Body]) /\ t[j] \in Nodes /\ t[j] # Body
    BY <1>1, <1>2, InRange, PlacedFacts, Small
  <2>2. m1.in[t[j]] = w.maps.in[t[j]] /\ m1.out[t[j]] = w.maps.out[t[j]]
    BY <2>1 DEF Saved
  <2>3. ~Pending(w.maps, P, t[j])
    BY <2>1, NoneInBody
  <2>4. w.maps.in[t[j]] # NoFacts
    BY <1>1, <2>3 DEF WalkedOK, Weak
  <2> QED
    BY <2>1, <2>2, <2>4 DEF BehindOf
<1>4. m1.in[Body] = h /\ m1.out[Body] = g
  BY DEF Saved
<1>5. Weak(w.maps, P, t, N, AddLocals(h))
  BY <1>1 DEF WalkedOK
<1>6. Chain(m1, t, AddLocals(h))
  BY <1>2, <1>3, <1>5 DEF Weak, Chain
<1>7. ASSUME t # <<>>, stm[Last(t)].k # "return"
      PROVE  g = OutOfScope(BehindOf(m1, Last(t)), Local)
  <2>1. N >= 1 /\ N \in 1 .. N /\ Last(t) = t[N]
    BY <1>2, <1>7, InRange
  <2>2. w.facts = BehindOf(w.maps, t[N])
    BY <1>1, <1>7, <2>1 DEF WalkedOK
  <2>3. BehindOf(m1, t[N]) = BehindOf(w.maps, t[N])
    BY <1>3, <2>1
  <2> QED
    BY <2>1, <2>2, <2>3
<1> QED
  BY <1>1, <1>4, <1>6, <1>7 DEF BodyChain

LEMMA BodyStart ==
  ASSUME Fixed, NEW P, WellFormed(P), NEW m, TypedMaps(m, P), NEW f \in FactsOf(Top), NEW once \in BOOLEAN,
         Recorded(m, Range(P.seq[Body])), once \/ BodyReady(m, P), NEW x, x = Start(m, P, Body, f, once)
  PROVE  BodySearch(x, 0, m, P, f)
<1>1. Started(x, m, P, Body, f, once, {})
  BY StartTyped, Small
<1>2. /\ x \in Search /\ x.maps = m /\ x.cnt <= 1 /\ x.once = once /\ x.ok = TRUE
      /\ x.in = BlockIn(m, P, Body, f)
  BY <1>1, Zenon DEF Started, TypedSearch
<1>3. PICK g : g = BlockIn(m, P, Body, f)
  OBVIOUS
<1>4. Below(f, g) /\ (m.vis[Body] => Enclosed(m, P, g))
  BY <1>3, BlockInTyped, Small DEF Enclosed
<1>5. x.cnt >= 0
  BY <1>2 DEF Search
<1>6. Orderly(m, m, P, Whole(P, Body))
  BY OrderlySelf
<1>7. once \/ (m.in[Body] # NoFacts => BodyChain(m, P) /\ (m.vis[Body] \/ Enclosed(m, P, m.in[Body])))
  BY DEF BodyReady
<1> QED
  BY <1>2, <1>3, <1>4, <1>5, <1>6, <1>7, Zenon DEF BodySearch

LEMMA BlockInBody ==
  ASSUME Fixed, NEW P, WellFormed(P), NEW m, TypedMaps(m, P), NEW f \in FactsOf(Top)
  PROVE  /\ Below(f, BlockIn(m, P, Body, f))
         /\ m.vis[Body] = TRUE => Enclosed(m, P, BlockIn(m, P, Body, f))
BY Small, BlockInTyped, Zenon DEF Enclosed

LEMMA BodyStep ==
  ASSUME Fixed, NEW P, WellFormed(P), NEW m, NEW f, NEW n \in Nat \ {0}, NEW x,
         TypedSearch(x, m, P, Whole(P, Body)), BodySearch(x, n - 1, m, P, f), ~Ended(P, Body, x),
         NEW h, h = AddLocals(x.in), NEW w, w = WalkBody(x.maps, P, h),
         NEW z, z = Again(P, Body, x, w), TypedSearch(z, m, P, Whole(P, Body))
  PROVE  BodySearch(z, n, m, P, f)
<1>1. PICK Y : Y = Range(P.seq[Body])
  OBVIOUS
<1>2. x.ok /\ ~GaveUp(x)
  BY DEF Ended
<1>3. /\ x \in Search /\ TypedMaps(x.maps, P) /\ x.in \in FactsOf(Top) /\ z.in \in FactsOf(Top) /\ z \in Search
      /\ TypedMaps(z.maps, P)
  BY Zenon DEF TypedSearch
<1>4. h \in FactsOf(Body)
  BY <1>3, AddLocalsTyped
<1>5. TypedWalk(w, Len(P.seq[Body]), x.maps, P, Body, Y)
  BY <1>1, <1>3, <1>4, WalkBodyTyped
<1>6. x.cnt >= n - 1
  BY DEF BodySearch
<1>7. CASE w.ok
  <2>1. PICK g \in FactsOf(Top) : g = OutOfScope(w.facts, Local) /\ AgainDone(P, Body, x, w, g, z)
    BY <1>5, <1>7, AgainFacts, Small
  <2>2. /\ Saved(w.maps, Body, x.in, g, z.maps)
        /\ z.in = BlockIn(z.maps, P, Body, x.in) /\ z.once = FALSE /\ z.cnt = x.cnt + 1 /\ z.ok = x.ok
        /\ z.rounds = MaxOf(x.rounds, w.rounds)
    BY <2>1, Zenon DEF AgainDone
  <2>3. z.cnt >= n
    BY <1>3, <1>6, <2>2 DEF Search
  <2>4. z.maps.vis[Body] = TRUE /\ z.maps.in[Body] = x.in /\ z.maps.out[Body] = g
    BY <2>2 DEF Saved
  <2>5. Below(x.in, z.in) /\ Enclosed(z.maps, P, z.in)
    <3>1. Below(x.in, BlockIn(z.maps, P, Body, x.in)) /\ Enclosed(z.maps, P, BlockIn(z.maps, P, Body, x.in))
      BY <1>3, <2>4, BlockInBody, Zenon
    <3> QED
      BY <2>2, <3>1, Zenon
  <2>6. Below(f, z.in)
    BY <2>5, BelowAgain DEF BodySearch
  <2>7. ASSUME z.ok, z.rounds <= MaxRounds
        PROVE  /\ Orderly(m, z.maps, P, Whole(P, Body)) /\ Recorded(z.maps, Range(P.seq[Body]))
               /\ BodyChain(z.maps, P)
    <3>1. x.rounds <= MaxRounds /\ w.rounds <= MaxRounds
      BY <1>3, <1>5, <2>2, <2>7, FixpointConstantsOK DEF MaxOf, Search, TypedWalk
    <3>2. Orderly(m, x.maps, P, Whole(P, Body)) /\ Recorded(x.maps, Range(P.seq[Body]))
      BY <1>2, <3>1 DEF BodySearch
    <3>3. Walked(w, Len(P.seq[Body]), x.maps, P, Body, h, Y)
      BY <1>1, <1>3, <1>4, <3>2, WalkBodySound
    <3>4. WalkedOK(w, Len(P.seq[Body]), x.maps, P, Body, h, Y)
      BY <1>7, <3>1, <3>3 DEF Walked
    <3>5. BodyChain(z.maps, P)
      <4>1. WalkedOK(w, Len(P.seq[Body]), x.maps, P, Body, AddLocals(x.in), Y)
        BY <3>4
      <4> QED
        BY <2>1, <2>2, <4>1, BodyChainAfter
    <3>6. Orderly(x.maps, w.maps, P, Y) /\ Recorded(w.maps, Range(P.seq[Body]))
      BY <3>4 DEF WalkedOK, Hold
    <3>7. Orderly(w.maps, z.maps, P, {Body})
      <4>1. g # NoFacts
        BY FactsSmall, Small
      <4>2. /\ z.maps.out[Body] = g /\ z.maps.vis[Body] = TRUE
            /\ \A k \in Nodes : k # Body => z.maps.in[k] = w.maps.in[k] /\ z.maps.out[k] = w.maps.out[k] /\ z.maps.vis[k] = w.maps.vis[k]
        BY <2>2 DEF Saved
      <4> QED
        BY <4>1, <4>2 DEF Orderly
    <3>8. Y \subseteq Whole(P, Body) /\ {Body} \subseteq Whole(P, Body)
      BY <1>1 DEF Whole
    <3>9. Orderly(m, z.maps, P, Whole(P, Body))
      BY <3>2, <3>6, <3>7, <3>8, OrderlyMore, OrderlyAgain
    <3>10. Recorded(z.maps, Range(P.seq[Body]))
      <4>1. Range(P.seq[Body]) \subseteq Nodes /\ \A s \in Range(P.seq[Body]) : s \notin {Body}
        BY PlacedFacts, Small
      <4> QED
        BY <3>6, <3>7, <4>1, RecordedStays
    <3> QED
      BY <3>5, <3>9, <3>10
  <2> QED
    BY <2>3, <2>4, <2>5, <2>6, <2>7 DEF BodySearch
<1>8. CASE ~w.ok
  <2>1. AgainFailed(x, w, z)
    BY <1>5, <1>8, FailedFacts, Small
  <2>2. z.in = x.in /\ z.ok = FALSE
    BY <2>1, Zenon DEF AgainFailed
  <2> QED
    BY <2>2 DEF BodySearch, Ended
<1> QED
  BY <1>7, <1>8

LEMMA BodyResult ==
  ASSUME Fixed, NEW P, WellFormed(P), NEW m, NEW f, NEW x, TypedSearch(x, m, P, Whole(P, Body)),
         BodySearch(x, MaxRounds + 1, m, P, f), NEW r, r = Result(x), r.ok, r.rounds <= MaxRounds
  PROVE  BodySearched(m, P, f, r)
<1>1. x \in Search /\ x.in \in FactsOf(Top)
  BY Zenon DEF TypedSearch
<1>2. r.maps = x.maps /\ r.ok = x.ok /\ r.rounds = MaxOf(x.rounds, x.cnt)
  BY <1>1 DEF Result, Search
<1>3. x.rounds <= MaxRounds /\ x.cnt <= MaxRounds
  BY <1>1, <1>2, FixpointConstantsOK DEF MaxOf, Search
<1>4. x.ok /\ ~GaveUp(x) /\ Ended(P, Body, x)
  BY <1>1, <1>2, <1>3, FixpointConstantsOK DEF GaveUp, Search, BodySearch
<1>5. ~x.once /\ x.in = x.maps.in[Body] /\ ~UnfixedGoto(x.maps, P, Body)
  BY <1>4 DEF Ended, Shortcut
<1>6. x.in # NoFacts
  BY <1>1, FactsSmall, Small
<1>7. /\ Orderly(m, x.maps, P, Whole(P, Body)) /\ Recorded(x.maps, Range(P.seq[Body])) /\ Below(f, x.in)
      /\ BodyChain(x.maps, P) /\ Enclosed(x.maps, P, x.in)
  BY <1>3, <1>4, <1>5, <1>6 DEF BodySearch
<1>8. VisitedGotos(x.maps, P, Contents(P, For))
  BY <1>5, GotoEdge DEF VisitedGotos, Contents, Fixed, IsGoto, UnfixedGoto
<1> QED
  BY <1>2, <1>5, <1>6, <1>7, <1>8, Zenon DEF BodySearched

\* A search for the fixed point of the loop body that does not give up finds one.
LEMMA SearchBodySound ==
  ASSUME Fixed, NEW P, WellFormed(P), NEW m, TypedMaps(m, P), NEW f \in FactsOf(Top), NEW once \in BOOLEAN,
         Recorded(m, Range(P.seq[Body])), once \/ BodyReady(m, P),
         NEW r, r = FixedPointBody(m, P, f, once), r.ok, r.rounds <= MaxRounds
  PROVE  BodySearched(m, P, f, r)
<1>1. PICK X : X = Whole(P, Body)
  OBVIOUS
<1>2. X = {Body} \cup Range(P.seq[Body])
  BY <1>1 DEF Whole
<1> DEFINE N == MaxRounds + 1
           Good(v, n) == TypedFrom(v, n, m, P, Body, X) /\ BodySearch(v, n, m, P, f)
<1>3. N \in Nat /\ MaxRounds \in Nat
  BY FixpointConstantsOK
<1>4. PICK x : /\ x[0] = Start(m, P, Body, f, once)
               /\ \A i \in 1 .. MaxRounds + 1 : x[i] = BodyRound(P, x[i - 1])
               /\ FixedPointBody(m, P, f, once) = Result(x[MaxRounds + 1])
  BY SearchBodyDef
<1> DEFINE A == {n \in 0 .. N : Good(x[n], n)}
<1>5. 0 \in A
  <2>1. PICK z : z = x[0]
    OBVIOUS
  <2>2. z = Start(m, P, Body, f, once)
    BY <1>4, <2>1
  <2>3. Started(z, m, P, Body, f, once, X)
    BY <2>2, StartTyped, Small
  <2>4. TypedSearch(z, m, P, X) /\ z.cnt <= 1
    BY <2>3 DEF Started
  <2>5. BodySearch(z, 0, m, P, f)
    BY <2>2, BodyStart
  <2>6. Good(z, 0)
    BY <2>4, <2>5 DEF TypedFrom
  <2> HIDE DEF Good
  <2> QED
    BY <1>3, <2>1, <2>6
<1>6. ASSUME NEW n \in 1 .. N, n - 1 \in A
      PROVE  n \in A
  <2>1. PICK v : v = x[n - 1]
    OBVIOUS
  <2>2. Good(v, n - 1)
    BY <1>6, <2>1
  <2>3. PICK z : z = x[n] /\ z = BodyRound(P, v)
    BY <1>4, <2>1
  <2>4. PICK w : w = WalkBody(v.maps, P, AddLocals(v.in))
    OBVIOUS
  <2>5. z = IF Ended(P, Body, v) THEN v ELSE Again(P, Body, v, w)
    BY <2>3, <2>4, Zenon DEF BodyRound
  <2>6. TypedMaps(v.maps, P) /\ v.in \in FactsOf(Top) /\ TypedSearch(v, m, P, X)
    BY <2>2, Zenon DEF TypedFrom, TypedSearch
  <2>7. PICK g : g = AddLocals(v.in)
    OBVIOUS
  <2>8. g \in FactsOf(Body)
    BY <2>6, <2>7, AddLocalsTyped
  <2>9. w = WalkBody(v.maps, P, g)
    BY <2>4, <2>7
  <2>10. n \in Nat \ {0}
    BY <1>3
  <2>11. BodySearch(v, n - 1, m, P, f)
    BY <2>2
  <2>12. TypedWalk(w, Len(P.seq[Body]), v.maps, P, Body, Range(P.seq[Body]))
    <3> HIDE <2>4, <2>7
    <3> QED
      BY <2>6, <2>8, <2>9, WalkBodyTyped
  <2>13. Body \notin Range(P.seq[Body])
    BY PlacedFacts, Small
  <2>14. TypedFrom(z, n, m, P, Body, X)
    <3>1. PICK Y : Y = Range(P.seq[Body])
      OBVIOUS
    <3>2. Y \subseteq X /\ Body \in X /\ Body \notin Y
      BY <1>2, <2>13, <3>1
    <3>3. TypedWalk(w, Len(P.seq[Body]), v.maps, P, Body, Y)
      BY <2>12, <3>1
    <3> HIDE <2>3, <2>4
    <3> QED
      BY <2>2, <2>5, <2>10, <3>2, <3>3, StepTyped, Small
  <2>15. TypedSearch(z, m, P, X)
    BY <2>14, Zenon DEF TypedFrom
  <2>16. BodySearch(z, n, m, P, f)
    <3>1. CASE Ended(P, Body, v)
      BY <2>5, <2>11, <3>1 DEF BodySearch
    <3>2. CASE ~Ended(P, Body, v)
      <4>1. z = Again(P, Body, v, w)
        BY <2>5, <3>2
      <4>2. TypedSearch(z, m, P, Whole(P, Body)) /\ TypedSearch(v, m, P, Whole(P, Body))
        BY <1>1, <2>6, <2>15
      <4> HIDE <2>3, <2>4
      <4> QED
        BY <2>7, <2>9, <2>10, <2>11, <3>2, <4>1, <4>2, BodyStep
    <3> QED
      BY <3>1, <3>2
  <2>17. Good(z, n)
    BY <2>14, <2>16
  <2>18. n \in 0 .. N
    BY <1>3
  <2> HIDE DEF Good
  <2> QED
    BY <2>3, <2>17, <2>18
<1>7. N \in A
  <2>1. \A n \in 1 .. N : n - 1 \in A => n \in A
    BY <1>6
  <2> HIDE DEF A
  <2>2. 0 .. N \subseteq A
    BY <1>3, <1>5, <2>1, UpTo
  <2> QED
    BY <1>3, <2>2
<1>8. PICK z : z = x[MaxRounds + 1]
  OBVIOUS
<1>9. TypedFrom(z, MaxRounds + 1, m, P, Body, X) /\ BodySearch(z, MaxRounds + 1, m, P, f)
  <2>1. Good(x[N], N)
    <3> HIDE DEF Good
    <3> QED
      BY <1>7
  <2> QED
    BY <1>8, <2>1
<1>10. r = Result(z)
  BY <1>4, <1>8
<1>11. TypedSearch(z, m, P, Whole(P, Body))
  BY <1>9, <1>1, Zenon DEF TypedFrom
<1> HIDE <1>8
<1> QED
  BY <1>9, <1>10, <1>11, BodyResult

----------------------------------------------------------------------------
(* The loop as a statement *)

LEMMA BackSource ==
  ASSUME Fixed, NEW P, WellFormed(P), NEW e \in EdgesIn(P, Body, FALSE, TRUE)
  PROVE  e.src \in {Body} \cup Range(P.seq[Body]) /\ e.src \in Nodes /\ ~IsGoto(e.src)
BY Small, PlacedFacts, GotoEdge DEF EdgesIn, WellFormed, EdgeOK

\* What the loop body has recorded does not depend on anything else.
LEMMA BodyFrame ==
  ASSUME Fixed, NEW P, WellFormed(P), NEW m, NEW m1,
         \A n \in {Body} \cup Range(P.seq[Body]) : m1.in[n] = m.in[n] /\ m1.out[n] = m.out[n]
  PROVE  /\ Recorded(m, Range(P.seq[Body])) => Recorded(m1, Range(P.seq[Body]))
         /\ BodyChain(m, P) => BodyChain(m1, P)
         /\ \A g : Enclosed(m, P, g) => Enclosed(m1, P, g)
         /\ BodyStable(m, P) => BodyStable(m1, P)
<1>1. Recorded(m, Range(P.seq[Body])) => Recorded(m1, Range(P.seq[Body]))
  BY DEF Recorded, RecordedAt
<1>2. BodyChain(m, P) => BodyChain(m1, P)
  <2> SUFFICES ASSUME BodyChain(m, P)
               PROVE  BodyChain(m1, P)
    OBVIOUS
  <2>1. PICK t \in Seq(Nodes) : t = P.seq[Body]
    BY PlacedFacts, Small
  <2>2. ASSUME NEW j \in 1 .. Len(t)
        PROVE  m1.in[t[j]] = m.in[t[j]] /\ m1.out[t[j]] = m.out[t[j]] /\ BehindOf(m1, t[j]) = BehindOf(m, t[j])
    BY <2>1, InRange, Zenon DEF BehindOf
  <2>3. Chain(m, t, AddLocals(m.in[Body]))
    BY <2>1 DEF BodyChain
  <2>4. \A j \in 1 .. Len(t) : m1.in[t[j]] # NoFacts
    BY <2>2, <2>3 DEF Chain
  <2>5. t # <<>> => Below(AddLocals(m1.in[Body]), m1.in[t[1]])
    BY <2>2, <2>3 DEF Chain
  <2>6. ASSUME NEW j \in 2 .. Len(t)
        PROVE  Below(BehindOf(m1, t[j - 1]), m1.in[t[j]])
    BY <2>2, <2>3 DEF Chain
  <2>7. ASSUME t # <<>>, stm[Last(t)].k # "return"
        PROVE  m1.out[Body] = OutOfScope(BehindOf(m1, Last(t)), Local)
    BY <2>1, <2>2, <2>7, InRange DEF BodyChain
  <2> QED
    BY <2>1, <2>4, <2>5, <2>6, <2>7 DEF BodyChain, Chain
<1>3. ASSUME NEW g, Enclosed(m, P, g)
      PROVE  Enclosed(m1, P, g)
  BY <1>3, BackSource DEF Enclosed
<1>4. BodyStable(m, P) => BodyStable(m1, P)
  BY <1>2, <1>3 DEF BodyStable
<1> QED
  BY <1>1, <1>2, <1>3, <1>4

LEMMA KnownBelow ==
  ASSUME NEW h \in Known(Top), h # NoFacts, NEW g \in FactsOf(Top),
         \A p \in DOMAIN g : p \in DOMAIN h => h[p] \subseteq g[p]
  PROVE  Below(h, g)
BY Small, FactsSmall DEF Known, Below

LEMMA LoopVisit ==
  ASSUME Fixed, NEW P, WellFormed(P), For \in Range(P.seq[Top]), NEW m, TypedMaps(m, P), Kept(m, P),
         NEW f \in FactsOf(Top), NEW x, x = FixedPointBody(m, P, f, FALSE), x.ok, x.rounds <= MaxRounds,
         NEW v, LoopVisited(m, P, f, x, v), NEW m1, m1.in[For] = f, m1.out[For] = v.facts,
         \A n \in Nodes : n # For => m1.in[n] = v.maps.in[n] /\ m1.out[n] = v.maps.out[n],
         \A n \in Nodes : v.maps.vis[n] => m1.vis[n]
  PROVE  LoopAfter(m, P, f, m1)
<1>1. BodySearched(m, P, f, x)
  BY SearchBodySound, Zenon DEF Kept, BodyStable, BodyReady
<1>2. /\ Orderly(m, x.maps, P, Whole(P, Body)) /\ Recorded(x.maps, Range(P.seq[Body]))
      /\ x.maps.in[Body] # NoFacts /\ Below(f, x.maps.in[Body])
      /\ BodyChain(x.maps, P) /\ Enclosed(x.maps, P, x.maps.in[Body])
      /\ VisitedGotos(x.maps, P, Contents(P, For))
  BY <1>1, Zenon DEF BodySearched
<1>3. /\ v.maps.in = x.maps.in /\ v.maps.out = x.maps.out /\ TypedMaps(v.maps, P) /\ v.ok
      /\ \A n \in Nodes : x.maps.vis[n] => v.maps.vis[n]
      /\ v.facts \in FactsOf(Top)
      /\ v.facts = MergeJumps(IF BodyMustReturn(P) THEN f ELSE x.maps.in[Body],
                              {x.maps.out[e.src] : e \in EdgesIn(P, For, TRUE, FALSE)})
  BY DEF LoopVisited
<1>4. \A n \in Nodes : n # For => m1.in[n] = x.maps.in[n] /\ m1.out[n] = x.maps.out[n]
  BY <1>3
<1>5. /\ Range(P.seq[Body]) \subseteq Nodes /\ For \notin Range(P.seq[Body])
      /\ \A n \in {Body} \cup Range(P.seq[Body]) : n \in Nodes /\ n # For
  <2>1. \A n \in Range(P.seq[Body]) : n \in Nodes
    BY PlacedFacts, Small
  <2>2. For \notin Range(P.seq[Body])
    BY PlacedFacts
  <2> QED
    BY <2>1, <2>2, Small
<1>6. Contents(P, For) = {For, Body} \cup Range(P.seq[Body]) /\ Whole(P, Body) = {Body} \cup Range(P.seq[Body])
  BY Small DEF Contents, Whole
<1>7. Orderly(m, m1, P, Contents(P, For))
  <2>1. v.facts # NoFacts
    BY <1>3, FactsSmall, Small
  <2>2. Orderly(x.maps, m1, P, {For})
    BY <1>3, <1>4, <2>1 DEF Orderly
  <2>3. PICK C : C = Contents(P, For)
    OBVIOUS
  <2>4. Whole(P, Body) \subseteq C /\ {For} \subseteq C
    BY <1>6, <2>3
  <2>5. Orderly(m, x.maps, P, C)
    BY <1>2, <2>4, OrderlyMore
  <2>6. Orderly(x.maps, m1, P, C)
    BY <2>2, <2>4, OrderlyMore
  <2>7. Orderly(m, m1, P, C)
    BY <2>5, <2>6, OrderlyAgain
  <2> QED
    BY <2>3, <2>7
<1>8. VisitedGotos(m1, P, Contents(P, For))
  BY <1>2, <1>3, GotoEdge, Zenon DEF VisitedGotos
<1>9. Recorded(m1, Range(P.seq[Top]))
  <2>1. PICK X : X = Contents(P, For)
    OBVIOUS
  <2>2. PICK S : S = Range(P.seq[Top])
    OBVIOUS
  <2>3. ASSUME NEW s \in S
        PROVE  s \in Nodes /\ (s \notin X \/ s = For)
    BY <1>6, <2>1, <2>2, Small, PlacedFacts DEF WellFormed
  <2>4. Recorded(m, S)
    BY <2>2 DEF Kept
  <2>5. Orderly(m, m1, P, X)
    BY <1>7, <2>1
  <2>6. Recorded(m1, S)
    BY <2>3, <2>4, <2>5, RecordedStays
  <2> QED
    BY <2>2, <2>6
<1>10. Recorded(m1, Range(P.seq[Body])) /\ BodyChain(m1, P) /\ Enclosed(m1, P, x.maps.in[Body])
  <2>1. PICK y : y = x.maps
    OBVIOUS
  <2>2. \A n \in {Body} \cup Range(P.seq[Body]) : m1.in[n] = y.in[n] /\ m1.out[n] = y.out[n]
    BY <1>4, <1>5, <2>1
  <2>3. Recorded(y, Range(P.seq[Body])) /\ BodyChain(y, P) /\ Enclosed(y, P, x.maps.in[Body])
    BY <1>2, <2>1
  <2> QED
    BY <2>2, <2>3, BodyFrame
<1>11. m1.in[Body] = x.maps.in[Body]
  BY <1>4, Small
<1>12. BodyStable(m1, P)
  BY <1>10, <1>11 DEF BodyStable
<1>13. LoopKept(m1, P)
  <2>1. PICK h : h = IF BodyMustReturn(P) THEN f ELSE x.maps.in[Body]
    OBVIOUS
  <2>2. PICK G : G = {x.maps.out[e.src] : e \in EdgesIn(P, For, TRUE, FALSE)}
    OBVIOUS
  <2>3. x.maps.in[Body] \in FactsOf(Top)
    BY <1>2, <1>3, Small DEF TypedMaps, Known
  <2>4. h \in FactsOf(Top)
    BY <2>1, <2>3
  <2>5. G \subseteq Known(Top)
    <3> SUFFICES ASSUME NEW e \in EdgesIn(P, For, TRUE, FALSE)
                 PROVE  x.maps.out[e.src] \in Known(Top)
      BY <2>2
    <3>1. e \in P.edges /\ e.post
      BY DEF EdgesIn
    <3> QED
      BY <1>3, <3>1, EdgesTyped
  <2>6. PICK g : g = MergeJumps(h, G) /\ g = v.facts
    BY <1>3, <2>1, <2>2
  <2>7. Below(h, g) /\ \A o \in G : \A p \in DOMAIN g : p \in DOMAIN o => o[p] \subseteq g[p]
    BY <2>4, <2>5, <2>6, MergeJumpsTyped, Small
  <2>8. Below(f, g)
    BY <1>2, <2>1, <2>7, BelowAgain
  <2>9. ~BodyMustReturn(P) => Below(x.maps.in[Body], g)
    BY <2>1, <2>7
  <2>10. ASSUME NEW s \in P.breaks, m1.out[s] # NoFacts
         PROVE  Below(m1.out[s], g)
    <3>1. s \in Range(P.seq[Body]) /\ stm[s].k = "break" /\ s \in Nodes /\ s # For
      BY <1>5 DEF WellFormed
    <3>2. Edge(s, For, TRUE, FALSE) \in P.edges
      BY <3>1 DEF WellFormed, JumpOK, Placed
    <3>3. Edge(s, For, TRUE, FALSE) \in EdgesIn(P, For, TRUE, FALSE) /\ Edge(s, For, TRUE, FALSE).src = s
      BY <3>2 DEF EdgesIn, Edge
    <3>4. x.maps.out[s] \in G
      BY <2>2, <3>3
    <3>5. m1.out[s] = x.maps.out[s]
      BY <1>4, <3>1
    <3>6. PICK o : o = x.maps.out[s]
      OBVIOUS
    <3>7. o \in Known(Top) /\ o # NoFacts /\ \A p \in DOMAIN g : p \in DOMAIN o => o[p] \subseteq g[p]
      BY <2>5, <2>7, <2>10, <3>4, <3>5, <3>6
    <3>8. g \in FactsOf(Top)
      BY <1>3, <2>6
    <3>9. Below(o, g)
      BY <3>7, <3>8, KnownBelow
    <3> QED
      BY <3>5, <3>6, <3>9
  <2> QED
    BY <1>2, <1>11, <2>6, <2>8, <2>9, <2>10 DEF LoopKept
<1> QED
  BY <1>7, <1>8, <1>9, <1>10, <1>12, <1>13 DEF LoopAfter, Kept

\* The facts of the loop stay if only statements around it are analysed.
LEMMA KeptStays ==
  ASSUME Fixed, NEW P, WellFormed(P), NEW m, Kept(m, P), NEW m1, NEW X, Orderly(m, m1, P, X),
         For \notin X, Body \notin X, X \cap Range(P.seq[Body]) = {},
         \A s \in X \cap Range(P.seq[Top]) : RecordedAt(m1, s)
  PROVE  Kept(m1, P)
<1>1. Recorded(m1, Range(P.seq[Top]))
  BY Small, PlacedFacts, RecordedStays DEF Kept
<1>2. ASSUME For \in Range(P.seq[Top])
      PROVE  Recorded(m1, Range(P.seq[Body])) /\ BodyStable(m1, P) /\ LoopKept(m1, P)
  <2>1. Recorded(m, Range(P.seq[Body])) /\ BodyStable(m, P) /\ LoopKept(m, P)
    BY <1>2 DEF Kept
  <2>2. ASSUME NEW n \in {Body} \cup Range(P.seq[Body])
        PROVE  m1.in[n] = m.in[n] /\ m1.out[n] = m.out[n]
    BY Small, PlacedFacts, GotoEdge DEF Pending, Orderly
  <2>3. Recorded(m1, Range(P.seq[Body])) /\ BodyStable(m1, P)
    BY <2>1, <2>2, BodyFrame
  <2>4. m1.in[For] = NoFacts \/ (m1.in[For] = m.in[For] /\ m1.out[For] = m.out[For])
    BY Small DEF Orderly
  <2>5. \A s \in P.breaks : m1.out[s] = m.out[s]
    BY <2>2 DEF WellFormed
  <2>6. m1.in[Body] = m.in[Body]
    BY <2>2
  <2>7. LoopKept(m1, P)
    BY <2>1, <2>4, <2>5, <2>6 DEF LoopKept
  <2> QED
    BY <2>3, <2>7
<1> QED
  BY <1>1, <1>2 DEF Kept

LEMMA KeptSame ==
  ASSUME Fixed, NEW P, WellFormed(P), NEW m, Kept(m, P), NEW m1, m1.in = m.in, m1.out = m.out
  PROVE  Kept(m1, P)
BY BodyFrame DEF Kept, Recorded, RecordedAt, LoopKept

LEMMA LoopAnalysis ==
  ASSUME Fixed, NEW P, WellFormed(P), For \in Range(P.seq[Top]), NEW m, TypedMaps(m, P), Kept(m, P),
         NEW f \in FactsOf(Top), NEW r, r = Analysed(m, P, For, f, VisitStm(m, P, For, f)),
         r.ok, r.rounds <= MaxRounds
  PROVE  Analysis(m, P, For, f, r) /\ Kept(r.maps, P)
<1>1. LoopDone(m, P, f, r)
  BY AnalysedLoop
<1>2. ~IsCtrl(For) /\ For \in Nodes
  BY Small DEF Fixed, IsCtrl
<1>3. CASE /\ f = m.in[For] /\ ~UnfixedGoto(m, P, For)
           /\ r.facts = m.out[For] /\ r.maps = MarkGotos(m, P, For)
  <2>1. Marked(m, P, For, r.maps)
    BY <1>3, MarkMaps DEF TypedMaps
  <2>2. r.maps.in = m.in /\ r.maps.out = m.out /\ \A n \in Nodes : m.vis[n] => r.maps.vis[n]
    BY <2>1 DEF Marked
  <2>3. Orderly(m, r.maps, P, Contents(P, For))
    BY <2>2 DEF Orderly
  <2>4. VisitedGotos(r.maps, P, Contents(P, For))
    BY <2>1, GotoEdge DEF Marked, VisitedGotos
  <2>5. Kept(r.maps, P)
    BY <2>2, KeptSame
  <2>6. r.facts = BehindOf(r.maps, For)
    BY <1>2, <1>3, <2>2 DEF BehindOf
  <2> QED
    BY <1>3, <2>2, <2>3, <2>4, <2>5, <2>6 DEF Analysis
<1>4. CASE \E x, v : /\ x = FixedPointBody(m, P, f, FALSE) /\ LoopVisited(m, P, f, x, v)
                     /\ r.ok = x.ok /\ r.rounds = x.rounds
                     /\ x.ok => r.facts = v.facts /\ Saved(v.maps, For, f, v.facts, r.maps)
  <2>1. PICK x, v : /\ x = FixedPointBody(m, P, f, FALSE) /\ LoopVisited(m, P, f, x, v)
                    /\ r.ok = x.ok /\ r.rounds = x.rounds
                    /\ x.ok => r.facts = v.facts /\ Saved(v.maps, For, f, v.facts, r.maps)
    BY <1>4
  <2>2. x.ok /\ x.rounds <= MaxRounds /\ r.facts = v.facts /\ Saved(v.maps, For, f, v.facts, r.maps)
    BY <2>1
  <2>3. PICK m1 : m1 = r.maps
    OBVIOUS
  <2>4. /\ m1.in[For] = f /\ m1.out[For] = v.facts
        /\ \A n \in Nodes : n # For => m1.in[n] = v.maps.in[n] /\ m1.out[n] = v.maps.out[n]
    BY <2>2, <2>3 DEF Saved
  <2>5. \A n \in Nodes : v.maps.vis[n] => m1.vis[n]
    BY <2>2, <2>3 DEF Saved
  <2>6. LoopAfter(m, P, f, m1)
    BY <2>1, <2>2, <2>4, <2>5, LoopVisit
  <2>7. r.facts = BehindOf(m1, For)
    BY <1>2, <2>2, <2>4 DEF BehindOf
  <2> QED
    BY <2>3, <2>4, <2>6, <2>7 DEF LoopAfter, Analysis
<1> QED
  BY <1>1, <1>3, <1>4 DEF LoopDone

LEMMA TopAnalysis ==
  ASSUME Fixed, NEW P, WellFormed(P), NEW s \in Range(P.seq[Top]), NEW m, TypedMaps(m, P), Kept(m, P),
         NEW f \in FactsOf(Top), NEW r, r = Analysed(m, P, s, f, VisitStm(m, P, s, f)),
         r.ok, r.rounds <= MaxRounds
  PROVE  Analysis(m, P, s, f, r) /\ Kept(r.maps, P)
<1>1. CASE s = For
  BY <1>1, LoopAnalysis
<1>2. CASE s # For
  <2>1. r = Analysed(m, P, s, f, VisitSimple(m, s, f))
    BY <1>2 DEF VisitStm
  <2>2. RecordedAt(m, s)
    BY <1>2 DEF Kept, Recorded
  <2>3. Analysis(m, P, s, f, r)
    BY <1>2, <2>1, <2>2, SimpleAnalysis, Small
  <2>4. Contents(P, s) = {s}
    BY <1>2, PlacedFacts, SimpleContents, Small
  <2>5. Orderly(m, r.maps, P, {s}) /\ RecordedAt(r.maps, s)
    BY <1>2, <2>3, <2>4 DEF Analysis
  <2>6. s # Body /\ s \notin Range(P.seq[Body])
    BY PlacedFacts, Small DEF WellFormed
  <2>7. PICK X : X = {s}
    OBVIOUS
  <2>8. PICK m1 : m1 = r.maps
    OBVIOUS
  <2>9. /\ For \notin X /\ Body \notin X /\ X \cap Range(P.seq[Body]) = {}
        /\ \A n \in X \cap Range(P.seq[Top]) : RecordedAt(m1, n)
    BY <1>2, <2>5, <2>6, <2>7, <2>8
  <2>10. Orderly(m, m1, P, X)
    BY <2>5, <2>7, <2>8
  <2>11. Kept(m1, P)
    BY <2>9, <2>10, KeptStays
  <2> QED
    BY <2>3, <2>8, <2>11
<1> QED
  BY <1>1, <1>2

LEMMA InTopWalked ==
  ASSUME Fixed, NEW P, WellFormed(P), NEW n \in 1 .. Len(P.seq[Top]), NEW m, NEW v, NEW z, NEW f,
         NEW X, X = Nodes \ {Top}, TypedWalk(v, n - 1, m, P, Top, X), Walked(v, n - 1, m, P, Top, f, X),
         z = VisitInTop(P, P.seq[Top][n], v)
  PROVE  Walked(z, n, m, P, Top, f, X)
<1>1. CASE ~v.ok
  BY <1>1 DEF VisitInTop, Walked
<1>2. CASE v.ok
  <2>1. PICK s : s = P.seq[Top][n]
    OBVIOUS
  <2>2. s \in Range(P.seq[Top])
    BY <2>1, PlacedFacts, InRange, Small
  <2>3. PICK g : g = StatementIn(v.maps, P, s, v.facts)
    OBVIOUS
  <2>4. v.facts \in FactsOf(Top) /\ TypedMaps(v.maps, P) /\ v.rounds \in Nat
    BY <1>2, FactsBefore, Small DEF TypedWalk
  <2>5. g \in FactsOf(Top) /\ Below(v.facts, g)
    BY <2>2, <2>3, <2>4, StatementInTyped, Small
  <2>6. PICK r : r = Analysed(v.maps, P, s, g, VisitStm(v.maps, P, s, g))
    OBVIOUS
  <2>7. StmTyped(v.maps, P, Top, s, r)
    BY <2>2, <2>4, <2>5, <2>6, AnalysedTop
  <2>8. z = NextStm(v, r)
    BY <1>2, <2>1, <2>3, <2>6, Zenon DEF VisitInTop
  <2>9. Contents(P, s) \subseteq X
    BY <2>2, ContentsSmall
  <2>10. r.rounds \in Nat
    BY <2>7 DEF StmTyped
  <2>11. NextWalkedOK(P, Top, s, v, g, r)
    <3> SUFFICES ASSUME r.ok, r.rounds <= MaxRounds, Hold(v.maps, P, Top)
                 PROVE  Analysis(v.maps, P, s, g, r) /\ Hold(r.maps, P, Top)
      BY DEF NextWalkedOK
    <3>1. Kept(v.maps, P)
      BY Small DEF Hold
    <3>2. Analysis(v.maps, P, s, g, r) /\ Kept(r.maps, P)
      <4> HIDE <2>3
      <4> QED
        BY <2>2, <2>4, <2>5, <2>6, <3>1, TopAnalysis
    <3> QED
      BY <3>2, Small DEF Hold
  <2> HIDE <2>3, <2>6
  <2> QED
    BY <1>2, <2>1, <2>2, <2>4, <2>5, <2>8, <2>9, <2>10, <2>11, NextWalked, Small
<1> QED
  BY <1>1, <1>2

\* A walk through the function.
LEMMA WalkTopSound ==
  ASSUME Fixed, NEW P, WellFormed(P), NEW m, TypedMaps(m, P), Kept(m, P),
         NEW f \in FactsOf(Top), NEW w, w = WalkTop(m, P, f), NEW X, X = Nodes \ {Top}
  PROVE  TypedWalk(w, Len(P.seq[Top]), m, P, Top, X) /\ Walked(w, Len(P.seq[Top]), m, P, Top, f, X)
<1>1. \E x : /\ x[0] = Walk0(m, f)
             /\ \A i \in 1 .. Len(P.seq[Top]) : x[i] = VisitInTop(P, P.seq[Top][i], x[i - 1])
             /\ WalkTop(m, P, f) = x[Len(P.seq[Top])]
  <2>1. P.seq \in [Blocks -> Seq(Nodes)]
    BY DEF WellFormed, Program
  <2> QED
    BY ONLY <2>1, WalkTopDef
<1> DEFINE N == Len(P.seq[Top])
           Good(v, n) == TypedWalk(v, n, m, P, Top, X) /\ Walked(v, n, m, P, Top, f, X)
<1>2. P.seq \in [Blocks -> Seq(Nodes)] /\ N \in Nat
  BY PlacedFacts, InRange, Small DEF WellFormed, Program
<1>3. PICK x : /\ x[0] = Walk0(m, f)
               /\ \A i \in 1 .. N : x[i] = VisitInTop(P, P.seq[Top][i], x[i - 1])
               /\ w = x[N]
  BY <1>1
<1> DEFINE A == {n \in 0 .. N : Good(x[n], n)}
<1>4. 0 \in A
  <2>1. PICK v : v = x[0]
    OBVIOUS
  <2>2. v.ok = TRUE /\ v.maps = m /\ v.facts = f /\ v.rounds = 0 /\ v.passed = 0
    BY <1>3, <2>1 DEF Walk0
  <2>3. TypedWalk(v, 0, m, P, Top, X)
    <3>1. v.rounds \in Nat /\ v.passed \in Nat
      BY <2>2
    <3>2. v.ok \in BOOLEAN
      BY <2>2
    <3>3. TypedMaps(v.maps, P)
      BY <2>2, Zenon
    <3>4. Tame(m, v.maps, X)
      BY <2>2, TameSelf
    <3>5. FactsAfter(v.facts, 0, P, Top)
      BY <2>2 DEF FactsAfter
    <3> QED
      BY <3>1, <3>4, <3>5, <3>3, <3>2, Zenon DEF TypedWalk
  <2>4. Hold(m, P, Top)
    BY Small DEF Hold
  <2>5. Walked(v, 0, m, P, Top, f, X)
    BY <1>3, <2>1, <2>4, Walk0OK
  <2>6. Good(v, 0)
    BY <2>3, <2>5
  <2> HIDE DEF Good
  <2> QED
    BY <1>2, <2>1, <2>6
<1>5. ASSUME NEW n \in 1 .. N, n - 1 \in A
      PROVE  n \in A
  <2>1. PICK v : v = x[n - 1]
    OBVIOUS
  <2>2. Good(v, n - 1)
    BY <1>5, <2>1
  <2>3. PICK z : z = x[n] /\ z = VisitInTop(P, P.seq[Top][n], v)
    BY <1>3, <2>1
  <2>4. TypedWalk(z, n, m, P, Top, X)
    BY <2>2, <2>3, InTopTyped
  <2>5. Walked(z, n, m, P, Top, f, X)
    BY <2>2, <2>3, InTopWalked
  <2>6. Good(z, n)
    BY <2>4, <2>5
  <2>7. n \in 0 .. N
    BY <1>2
  <2> HIDE DEF Good
  <2> QED
    BY <2>3, <2>6, <2>7
<1>6. N \in A
  <2>1. \A n \in 1 .. N : n - 1 \in A => n \in A
    BY <1>5
  <2> HIDE DEF A
  <2>2. 0 .. N \subseteq A
    BY <1>2, <1>4, <2>1, UpTo
  <2> QED
    BY <1>2, <2>2
<1>7. Good(x[N], N)
  <2> HIDE DEF Good
  <2> QED
    BY <1>6
<1> QED
  BY <1>3, <1>7

----------------------------------------------------------------------------
(* A fixed point of the function *)

\* Where no goto brings anything new, what has been analysed is a fixed point.
LEMMA FixedIsStable ==
  ASSUME Fixed, NEW P, WellFormed(P), NEW m, TypedMaps(m, P), Kept(m, P), NEW f \in FactsOf(Top),
         TopWalked(m, P, f), ~UnfixedGoto(m, P, Top)
  PROVE  Stable(m, P)
<1>1. PICK t \in Seq(Nodes) : t = P.seq[Top]
  BY PlacedFacts, Small
<1>2. PICK N \in Nat : N = Len(t)
  BY <1>1
<1>3. Contents(P, Top) = Nodes
  BY Small DEF Contents
<1>4. ASSUME NEW e \in P.edges, IsGoto(e.src), m.vis[e.src], m.out[e.src] # NoFacts
      PROVE  m.in[e.dest] # NoFacts /\ Below(m.out[e.src], m.in[e.dest])
  <2>1. e.dest \in Nodes /\ e.dest \in Range(P.seq[Top]) /\ e.dest \in Placed(P) /\ ~e.post
    BY <1>4, GotoEdge DEF Placed
  <2>2. ~NotCovered(m, e)
    BY <1>3, <1>4, <2>1 DEF UnfixedGoto
  <2>3. m.in[e.dest] # NoFacts
    BY <1>4, <2>2 DEF NotCovered
  <2>4. m.in[e.dest] \in FactsOf(Top)
    BY <2>1, <2>3, Small DEF TypedMaps, TypedAt, Known
  <2>5. m.out[e.src] \in Known(Top)
    BY <2>1, EdgesTyped
  <2>6. PICK h, g : h = m.out[e.src] /\ g = m.in[e.dest]
    OBVIOUS
  <2>7. \A p \in DOMAIN g : p \in DOMAIN h => h[p] \subseteq g[p]
    BY <2>2, <2>6 DEF NotCovered, Imply
  <2>8. Below(h, g)
    BY <1>4, <2>4, <2>5, <2>6, <2>7, KnownBelow
  <2> QED
    BY <2>3, <2>6, <2>8
<1>5. Weak(m, P, t, N, f) /\ m.in[Top] = f
  BY <1>1, <1>2 DEF TopWalked
<1>6. \A j \in 1 .. N : m.in[t[j]] # NoFacts
  BY <1>4, <1>5 DEF Weak, Pending
<1>7. Chain(m, t, f)
  BY <1>2, <1>5, <1>6 DEF Weak, Chain
<1>8. ASSUME NEW e \in P.edges, IsGoto(e.src), e.src \in Live(P)
      PROVE  Covered(m, e)
  <2>1. \E j \in 1 .. N : e.src \in Contents(P, t[j])
    <3>1. CASE e.src \in Range(P.seq[Top])
      BY <1>1, <1>2, <1>8, <3>1, InRange, SimpleContents DEF Fixed, IsGoto, Placed
    <3>2. CASE e.src \in Range(P.seq[Body]) /\ For \in Range(P.seq[Top])
      <4>1. PICK j \in 1 .. N : t[j] = For
        BY <1>1, <1>2, <3>2, InRange
      <4>2. Contents(P, For) = {For, Body} \cup Range(P.seq[Body])
        BY Small DEF Contents
      <4> QED
        BY <3>2, <4>1, <4>2
    <3> QED
      BY <1>8, <3>1, <3>2 DEF Live
  <2>2. m.vis[e.src]
    BY <1>1, <1>2, <1>8, <2>1 DEF TopWalked, VisitedGotos
  <2> QED
    BY <1>4, <1>8, <2>2 DEF Covered
<1>9. f # NoFacts
  BY FactsSmall, Small
<1> QED
  BY <1>1, <1>5, <1>7, <1>8, <1>9 DEF Stable

LEMMA BlockInTop ==
  ASSUME Fixed, NEW P, WellFormed(P), NEW m, TypedMaps(m, P), NEW f \in FactsOf(Top)
  PROVE  BlockIn(m, P, Top, f) = f
<1>1. PICK g : g = BlockIn(m, P, Top, f)
  OBVIOUS
<1>2. g = f
  BY <1>1, BlockInTyped, Small, ZenonT(30)
<1> QED
  BY <1>1, <1>2, Zenon

LEMMA TopStart ==
  ASSUME Fixed, NEW P, WellFormed(P), NEW m, TypedMaps(m, P), NEW f \in FactsOf(Top), NEW once \in BOOLEAN,
         Kept(m, P), once \/ Stable(m, P), NEW x, x = Start(m, P, Top, f, once)
  PROVE  TopSearch(x, 0, P, f)
<1>1. Started(x, m, P, Top, f, once, {})
  BY StartTyped, Small
<1>2. /\ x \in Search /\ x.maps = m /\ x.cnt <= 1 /\ x.once = once /\ x.ok = TRUE
      /\ x.in = BlockIn(m, P, Top, f)
  BY <1>1, Zenon DEF Started, TypedSearch
<1>3. x.in = f
  BY <1>2, BlockInTop, Zenon
<1>4. x.cnt >= 0
  BY <1>2 DEF Search
<1> QED
  BY <1>2, <1>3, <1>4, Zenon DEF TopSearch

LEMMA TopStep ==
  ASSUME Fixed, NEW P, WellFormed(P), NEW m, NEW f, NEW n \in Nat \ {0}, NEW x,
         TypedSearch(x, m, P, Whole(P, Top)), TopSearch(x, n - 1, P, f), ~Ended(P, Top, x),
         NEW w, w = WalkTop(x.maps, P, f),
         NEW z, z = Again(P, Top, x, w), TypedSearch(z, m, P, Whole(P, Top))
  PROVE  TopSearch(z, n, P, f)
<1>1. PICK Y : Y = Nodes \ {Top}
  OBVIOUS
<1>2. x.ok /\ ~GaveUp(x) /\ x.in = f
  BY DEF Ended, TopSearch
<1>3. /\ x \in Search /\ TypedMaps(x.maps, P) /\ x.in \in FactsOf(Top) /\ z.in \in FactsOf(Top) /\ z \in Search
      /\ TypedMaps(z.maps, P)
  BY Zenon DEF TypedSearch
<1>4. f \in FactsOf(Top)
  BY <1>2, <1>3
<1>5. TypedWalk(w, Len(P.seq[Top]), x.maps, P, Top, Y)
  BY <1>1, <1>3, <1>4, WalkTopTyped
<1>6. x.cnt >= n - 1
  BY DEF TopSearch
<1>7. CASE w.ok
  <2>1. PICK g \in FactsOf(Top) : AgainDone(P, Top, x, w, g, z)
    BY <1>5, <1>7, AgainFacts, Small
  <2>2. /\ Saved(w.maps, Top, x.in, g, z.maps)
        /\ z.in = BlockIn(z.maps, P, Top, x.in) /\ z.once = FALSE /\ z.cnt = x.cnt + 1 /\ z.ok = x.ok
        /\ z.rounds = MaxOf(x.rounds, w.rounds)
    BY <2>1, Zenon DEF AgainDone
  <2>3. z.cnt >= n
    BY <1>3, <1>6, <2>2 DEF Search
  <2>4. z.in = f
    BY <1>2, <1>3, <2>2, BlockInTop
  <2>5. ASSUME z.ok, z.rounds <= MaxRounds
        PROVE  Kept(z.maps, P) /\ TopWalked(z.maps, P, f)
    <3>1. x.rounds <= MaxRounds /\ w.rounds <= MaxRounds
      BY <1>3, <1>5, <2>2, <2>5, FixpointConstantsOK DEF MaxOf, Search, TypedWalk
    <3>2. Kept(x.maps, P)
      BY <1>2, <3>1 DEF TopSearch
    <3>3. Walked(w, Len(P.seq[Top]), x.maps, P, Top, f, Y)
      BY <1>1, <1>3, <1>4, <3>2, WalkTopSound
    <3>4. WalkedOK(w, Len(P.seq[Top]), x.maps, P, Top, f, Y)
      BY <1>7, <3>1, <3>3 DEF Walked
    <3>5. PICK m1 : m1 = z.maps
      OBVIOUS
    <3>6. PICK m2 : m2 = w.maps
      OBVIOUS
    <3>7. PICK X : X = {Top}
      OBVIOUS
    <3>8. Orderly(m2, m1, P, X) /\ m1.in[Top] = f
      <4>1. g # NoFacts
        BY FactsSmall, Small
      <4>2. /\ m1.out[Top] = g /\ m1.vis[Top] = TRUE /\ m1.in[Top] = f
            /\ \A k \in Nodes : k # Top => m1.in[k] = m2.in[k] /\ m1.out[k] = m2.out[k] /\ m1.vis[k] = m2.vis[k]
        BY <1>2, <2>2, <3>5, <3>6 DEF Saved
      <4> QED
        BY <3>7, <4>1, <4>2 DEF Orderly
    <3>9. Kept(m2, P) /\ Weak(m2, P, P.seq[Top], Len(P.seq[Top]), f)
      BY <3>4, <3>6, Small DEF WalkedOK, Hold
    <3>10. Kept(m1, P)
      BY <3>7, <3>8, <3>9, Small, PlacedFacts, KeptStays
    <3>11. Weak(m1, P, P.seq[Top], Len(P.seq[Top]), f)
      <4>1. PICK t \in Seq(Nodes) : t = P.seq[Top]
        BY PlacedFacts, Small
      <4>2. PICK k \in Nat : k = Len(t)
        BY <4>1
      <4>3. \A j \in 1 .. k : t[j] \notin X
        BY <3>7, <4>1, <4>2, Small, InRange, PlacedFacts
      <4>4. Weak(m2, P, t, k, f)
        BY <3>9, <4>1, <4>2
      <4>5. Weak(m1, P, t, k, f)
        BY <3>8, <4>2, <4>3, <4>4, WeakStays
      <4> QED
        BY <4>1, <4>2, <4>5
    <3>12. \A j \in 1 .. Len(P.seq[Top]) : VisitedGotos(m1, P, Contents(P, P.seq[Top][j]))
      BY <3>4, <3>6, <3>8, VisitedStays DEF WalkedOK
    <3> QED
      BY <3>5, <3>8, <3>10, <3>11, <3>12 DEF TopWalked
  <2> QED
    BY <2>3, <2>4, <2>5 DEF TopSearch
<1>8. CASE ~w.ok
  <2>1. AgainFailed(x, w, z)
    BY <1>5, <1>8, FailedFacts, Small
  <2>2. z.in = x.in /\ z.ok = FALSE
    BY <2>1, Zenon DEF AgainFailed
  <2> QED
    BY <1>2, <2>2 DEF TopSearch, Ended
<1> QED
  BY <1>7, <1>8

LEMMA TopResult ==
  ASSUME Fixed, NEW P, WellFormed(P), NEW m, NEW f, NEW x, TypedSearch(x, m, P, Whole(P, Top)),
         TopSearch(x, MaxRounds + 1, P, f), NEW r, r = Result(x), r.ok, r.rounds <= MaxRounds
  PROVE  Stable(r.maps, P)
BY FixedIsStable, FixpointConstantsOK DEF TypedSearch, Result, Search, MaxOf, GaveUp, TopSearch, Ended,
   Shortcut

\* A search for the fixed point of the function that does not give up finds one.
LEMMA SearchTopSound ==
  ASSUME Fixed, NEW P, WellFormed(P), NEW m, TypedMaps(m, P), NEW f \in FactsOf(Top), NEW once \in BOOLEAN,
         Kept(m, P), once \/ Stable(m, P),
         NEW r, r = FixedPointTop(m, P, f, once), r.ok, r.rounds <= MaxRounds
  PROVE  Stable(r.maps, P)
<1>1. PICK X : X = Whole(P, Top)
  OBVIOUS
<1>2. X = Nodes
  BY <1>1, Small DEF Whole
<1> DEFINE N == MaxRounds + 1
           Good(v, n) == TypedFrom(v, n, m, P, Top, X) /\ TopSearch(v, n, P, f)
<1>3. N \in Nat /\ MaxRounds \in Nat
  BY FixpointConstantsOK
<1>4. PICK x : /\ x[0] = Start(m, P, Top, f, once)
               /\ \A i \in 1 .. MaxRounds + 1 : x[i] = TopRound(P, x[i - 1])
               /\ FixedPointTop(m, P, f, once) = Result(x[MaxRounds + 1])
  BY SearchTopDef
<1> DEFINE A == {n \in 0 .. N : Good(x[n], n)}
<1>5. 0 \in A
  <2>1. PICK z : z = x[0]
    OBVIOUS
  <2>2. z = Start(m, P, Top, f, once)
    BY <1>4, <2>1
  <2>3. Started(z, m, P, Top, f, once, X)
    BY <2>2, StartTyped, Small
  <2>4. TypedSearch(z, m, P, X) /\ z.cnt <= 1
    BY <2>3 DEF Started
  <2>5. TopSearch(z, 0, P, f)
    BY <2>2, TopStart
  <2>6. Good(z, 0)
    BY <2>4, <2>5 DEF TypedFrom
  <2> HIDE DEF Good
  <2> QED
    BY <1>3, <2>1, <2>6
<1>6. ASSUME NEW n \in 1 .. N, n - 1 \in A
      PROVE  n \in A
  <2>1. PICK v : v = x[n - 1]
    OBVIOUS
  <2>2. Good(v, n - 1)
    BY <1>6, <2>1
  <2>3. PICK z : z = x[n] /\ z = TopRound(P, v)
    BY <1>4, <2>1
  <2>4. PICK w : w = WalkTop(v.maps, P, v.in)
    OBVIOUS
  <2>5. z = IF Ended(P, Top, v) THEN v ELSE Again(P, Top, v, w)
    BY <2>3, <2>4, Zenon DEF TopRound
  <2>6. TypedMaps(v.maps, P) /\ v.in \in FactsOf(Top) /\ TypedSearch(v, m, P, X)
    BY <2>2, Zenon DEF TypedFrom, TypedSearch
  <2>7. TopSearch(v, n - 1, P, f)
    BY <2>2
  <2>8. v.in = f
    BY <2>7, Zenon DEF TopSearch
  <2>9. w = WalkTop(v.maps, P, f)
    BY <2>4, <2>8
  <2>10. n \in Nat \ {0}
    BY <1>3
  <2>11. TypedWalk(w, Len(P.seq[Top]), v.maps, P, Top, Nodes \ {Top})
    <3> HIDE <2>4, <2>8
    <3> QED
      BY <2>6, <2>9, WalkTopTyped
  <2>12. TypedFrom(z, n, m, P, Top, X)
    <3>1. PICK Y : Y = Nodes \ {Top}
      OBVIOUS
    <3>2. Y \subseteq X /\ Top \in X /\ Top \notin Y
      BY <1>2, <3>1, Small
    <3>3. TypedWalk(w, Len(P.seq[Top]), v.maps, P, Top, Y)
      BY <2>11, <3>1
    <3> HIDE <2>3, <2>4
    <3> QED
      BY <2>2, <2>5, <2>10, <3>2, <3>3, StepTyped, Small
  <2>13. TypedSearch(z, m, P, X)
    BY <2>12, Zenon DEF TypedFrom
  <2>14. TopSearch(z, n, P, f)
    <3>1. CASE Ended(P, Top, v)
      BY <2>5, <2>7, <3>1 DEF TopSearch
    <3>2. CASE ~Ended(P, Top, v)
      <4>1. z = Again(P, Top, v, w)
        BY <2>5, <3>2
      <4>2. TypedSearch(z, m, P, Whole(P, Top)) /\ TypedSearch(v, m, P, Whole(P, Top))
        BY <1>1, <2>6, <2>13
      <4> HIDE <2>3, <2>4
      <4> QED
        BY <2>9, <2>10, <2>7, <3>2, <4>1, <4>2, TopStep
    <3> QED
      BY <3>1, <3>2
  <2>15. Good(z, n)
    BY <2>12, <2>14
  <2>16. n \in 0 .. N
    BY <1>3
  <2> HIDE DEF Good
  <2> QED
    BY <2>3, <2>15, <2>16
<1>7. N \in A
  <2>1. \A n \in 1 .. N : n - 1 \in A => n \in A
    BY <1>6
  <2> HIDE DEF A
  <2>2. 0 .. N \subseteq A
    BY <1>3, <1>5, <2>1, UpTo
  <2> QED
    BY <1>3, <2>2
<1>8. PICK z : z = x[MaxRounds + 1]
  OBVIOUS
<1>9. TypedFrom(z, MaxRounds + 1, m, P, Top, X) /\ TopSearch(z, MaxRounds + 1, P, f)
  <2>1. Good(x[N], N)
    <3> HIDE DEF Good
    <3> QED
      BY <1>7
  <2> QED
    BY <1>8, <2>1
<1>10. r = Result(z)
  BY <1>4, <1>8
<1>11. TypedSearch(z, m, P, Whole(P, Top))
  BY <1>9, <1>1, Zenon DEF TypedFrom
<1> HIDE <1>8
<1> QED
  BY <1>9, <1>10, <1>11, TopResult

----------------------------------------------------------------------------
(* A fixed point after deletion *)

LEMMA ResetTopKept ==
  ASSUME Fixed, NEW P, WellFormed(P), NEW m, NEW m1, Reset(m, P, Top, m1)
  PROVE  Kept(m1, P)
<1>1. ASSUME NEW s \in Range(P.seq[Top])
      PROVE  Contents(P, s) \subseteq Forgotten(P, Top) /\ (s = For \/ s \in Contents(P, s))
  BY <1>1, PlacedFacts, SimpleContents, Small DEF Forgotten
<1>2. \A s \in Range(P.seq[Top]) : s # For => m1.in[s] = NoFacts
  BY <1>1, PlacedFacts, Small DEF Reset
<1>3. ASSUME For \in Range(P.seq[Top])
      PROVE  /\ m1.in[For] = NoFacts /\ m1.in[Body] = NoFacts
             /\ \A s \in Range(P.seq[Body]) : m1.in[s] = NoFacts
  BY <1>1, <1>3, Small, PlacedFacts DEF Contents, Reset
<1> QED
  BY <1>2, <1>3 DEF Kept, Recorded, RecordedAt, BodyStable, LoopKept

LEMMA SettleTop ==
  ASSUME Fixed, NEW P, WellFormed(P), NEW m, TypedMaps(m, P), Kept(m, P), NEW in \in FactsOf(Top),
         NEW once \in BOOLEAN, once \/ Stable(m, P), NEW y, Settled(y, P, m, Top, in, once),
         y.r.ok, y.rounds <= MaxRounds
  PROVE  Stable(y.r.maps, y.P)
<1>1. PICK Q, r : Q = y.P /\ r = y.r
  OBVIOUS
<1>2. WellFormed(Q) /\ r.ok /\ r.rounds <= MaxRounds
  BY <1>1, FixpointConstantsOK DEF Settled, TypedResult, Search
<1>3. Searched(r, Q, P, m, Top, in, once)
  BY <1>1 DEF Settled
<1>4. \A m1, o : FixedPoint(m1, Q, Top, in, o) = FixedPointTop(m1, Q, in, o)
  BY Small DEF FixedPoint
<1>5. CASE Q = P /\ r = FixedPoint(m, P, Top, in, once)
  BY <1>1, <1>2, <1>4, <1>5, SearchTopSound
<1>6. CASE \E m1, m2 : /\ TypedMaps(m1, Q) /\ Reset(m1, Q, Top, m2)
                       /\ r = FixedPoint(m2, Q, Top, in, TRUE)
  <2>1. PICK m1, m2 : /\ TypedMaps(m1, Q) /\ Reset(m1, Q, Top, m2)
                      /\ r = FixedPoint(m2, Q, Top, in, TRUE)
    BY <1>6
  <2>2. TypedMaps(m2, Q)
    BY <1>2, <2>1, ResetTyped, Small
  <2>3. Kept(m2, Q)
    BY <1>2, <2>1, ResetTopKept
  <2>4. r = FixedPointTop(m2, Q, in, TRUE)
    BY <1>4, <2>1
  <2>5. Stable(r.maps, Q)
    BY <1>2, <2>2, <2>3, <2>4, SearchTopSound
  <2> QED
    BY <1>1, <2>5
<1> QED
  BY <1>3, <1>5, <1>6 DEF Searched

LEMMA SettleBody ==
  ASSUME Fixed, NEW P, WellFormed(P), NEW m, TypedMaps(m, P), Recorded(m, Range(P.seq[Body])),
         NEW in \in FactsOf(Top), NEW once \in BOOLEAN, once \/ BodyReady(m, P),
         NEW y, Settled(y, P, m, Body, in, once), y.r.ok, y.rounds <= MaxRounds
  PROVE  \E m1 : BodySearched(m1, y.P, in, y.r)
<1>1. PICK Q, r : Q = y.P /\ r = y.r
  OBVIOUS
<1>2. WellFormed(Q) /\ r.ok /\ r.rounds <= MaxRounds
  BY <1>1, FixpointConstantsOK DEF Settled, TypedResult, Search
<1>3. Searched(r, Q, P, m, Body, in, once)
  BY <1>1 DEF Settled
<1>4. \A m1, o : FixedPoint(m1, Q, Body, in, o) = FixedPointBody(m1, Q, in, o)
  BY DEF FixedPoint
<1>5. CASE Q = P /\ r = FixedPoint(m, P, Body, in, once)
  BY <1>1, <1>2, <1>4, <1>5, SearchBodySound
<1>6. CASE \E m1, m2 : /\ TypedMaps(m1, Q) /\ Reset(m1, Q, Body, m2)
                       /\ r = FixedPoint(m2, Q, Body, in, TRUE)
  <2>1. PICK m1, m2 : /\ TypedMaps(m1, Q) /\ Reset(m1, Q, Body, m2)
                      /\ r = FixedPoint(m2, Q, Body, in, TRUE)
    BY <1>6
  <2>2. TypedMaps(m2, Q)
    BY <1>2, <2>1, ResetTyped, Small
  <2>3. Recorded(m2, Range(Q.seq[Body]))
    <3>1. ASSUME NEW s \in Range(Q.seq[Body])
          PROVE  m2.in[s] = NoFacts
      <4>1. s \in Nodes /\ s \in Placed(Q) /\ s # For
        BY <1>2, PlacedFacts, Small
      <4>2. s \in Contents(Q, s)
        BY <1>2, <4>1, SimpleContents
      <4> QED
        BY <2>1, <4>1, <4>2 DEF Reset, Forgotten
    <3> QED
      BY <3>1 DEF Recorded, RecordedAt
  <2>4. r = FixedPointBody(m2, Q, in, TRUE)
    BY <1>4, <2>1
  <2>5. BodySearched(m2, Q, in, r)
    BY <1>2, <2>2, <2>3, <2>4, SearchBodySound
  <2> QED
    BY <1>1, <2>5
<1> QED
  BY <1>3, <1>5, <1>6 DEF Searched

----------------------------------------------------------------------------
(* Execution stays within the facts *)

LEMMA ConcBelow ==
  ASSUME NEW f, NEW g, Below(f, g), NEW e \in Conc(f)
  PROVE  e \in Conc(g)
BY DEF Below, Conc

LEMMA ConcLeave ==
  ASSUME NEW b \in Blocks, NEW f \in FactsOf(b), NEW e \in Conc(f)
  PROVE  LeaveScope(e) \in Conc(OutOfScope(f, Local))
BY FixpointConstantsOK DEF Conc, LeaveScope, OutOfScope, Dead

LEMMA LeaveTop ==
  ASSUME NEW e \in EnvOf(Top)
  PROVE  LeaveScope(e) = e
BY Small, FactsSmall DEF EnvOf, LeaveScope

LEMMA ConcTransfer ==
  ASSUME NEW b \in Blocks, NEW s, StmOK(s, b), stm[s].k \in {"value", "copy", "deref"},
         NEW f \in FactsOf(b), NEW e \in Conc(f)
  PROVE  Executed(s, e) \in Conc(Transfer(s, f))
BY FactsSmall DEF Conc, StmOK, Executed, Transfer

\* A fixed point has facts at every statement that may be executed, found by a visit.
LEMMA LiveFacts ==
  ASSUME Structure, NEW m, TypedMaps(m, P0), Stable(m, P0), NEW s \in Live(P0)
  PROVE  /\ m.in[s] \in FactsOf(ScopeAt(s)) /\ ScopeAt(s) \in Blocks /\ StmOK(s, ScopeAt(s))
         /\ s \in Nodes /\ s \in Placed(P0)
         /\ s # For => Valid(s, m.in[s]) /\ m.out[s] = FactOut(s, Transfer(s, m.in[s]))
<1>1. WellFormed(P0) /\ P0.seq = seq /\ Fixed
  BY ProgramFields DEF Structure
<1>2. Kept(m, P0) /\ Chain(m, seq[Top], m.in[Top])
  BY <1>1 DEF Stable
<1>3. ASSUME NEW b \in Blocks, NEW n \in Range(seq[b]), Chain(m, seq[b], AddLocals(m.in[Body])) \/ Chain(m, seq[b], m.in[Top])
      PROVE  m.in[n] # NoFacts
  BY <1>1, <1>3, InRange, PlacedFacts DEF Chain
<1>4. CASE s \in Range(seq[Top])
  <2>1. s \notin Range(seq[Body])
    BY <1>1, <1>4 DEF WellFormed
  <2>2. ScopeAt(s) = Top
    BY <2>1 DEF ScopeAt
  <2>3. m.in[s] # NoFacts
    BY <1>2, <1>3, <1>4, Small
  <2>4. StmOK(s, Top) /\ s \in Nodes /\ s \in Placed(P0)
    BY <1>1, <1>4, PlacedFacts, Small
  <2>5. m.in[s] \in Known(Top)
    BY <1>1, <1>4, Small DEF TypedMaps, TypedAt
  <2>6. s # For => RecordedAt(m, s)
    BY <1>1, <1>2, <1>4 DEF Kept, Recorded
  <2> QED
    BY <2>2, <2>3, <2>4, <2>5, <2>6, Small DEF Known, RecordedAt
<1>5. CASE s \in Range(seq[Body]) /\ For \in Range(seq[Top])
  <2>1. ScopeAt(s) = Body
    BY <1>5 DEF ScopeAt
  <2>2. m.in[For] # NoFacts
    BY <1>2, <1>3, <1>5, Small
  <2>3. Recorded(m, Range(seq[Body])) /\ BodyStable(m, P0) /\ LoopKept(m, P0)
    BY <1>1, <1>2, <1>5 DEF Kept
  <2>4. m.in[Body] # NoFacts
    BY <2>2, <2>3 DEF LoopKept
  <2>5. Chain(m, seq[Body], AddLocals(m.in[Body]))
    BY <1>1, <2>3, <2>4 DEF BodyStable, BodyChain
  <2>6. m.in[s] # NoFacts
    BY <1>3, <1>5, <2>5, Small
  <2>7. StmOK(s, Body) /\ s \in Nodes /\ s \in Placed(P0)
    BY <1>1, <1>5, PlacedFacts, Small
  <2>8. m.in[s] \in Known(Body)
    BY <1>1, <1>5, Small DEF TypedMaps, TypedAt
  <2>9. s # For => RecordedAt(m, s)
    BY <1>5, <2>3 DEF Recorded
  <2> QED
    BY <2>1, <2>6, <2>7, <2>8, <2>9, Small DEF Known, RecordedAt
<1> QED
  BY <1>1, <1>4, <1>5 DEF Live

\* What a fixed point says of the loop.
LEMMA LoopFacts ==
  ASSUME Structure, NEW m, TypedMaps(m, P0), Stable(m, P0), For \in Range(seq[Top])
  PROVE  /\ m.in[For] \in FactsOf(Top) /\ m.in[Body] \in FactsOf(Top)
         /\ Below(m.in[For], m.in[Body]) /\ Below(m.in[For], m.out[For])
         /\ ~BodyMustReturn(P0) => Below(m.in[Body], m.out[For])
         /\ \A s \in breaks : m.out[s] # NoFacts => Below(m.out[s], m.out[For])
         /\ BodyChain(m, P0) /\ Enclosed(m, P0, m.in[Body]) /\ Follows(P0)
<1>1. WellFormed(P0) /\ P0.seq = seq /\ Fixed /\ P0.breaks = breaks
  BY ProgramFields DEF Structure
<1>2. For \in Live(P0) /\ ScopeAt(For) = Top
  BY <1>1, PlacedFacts DEF Live, ScopeAt
<1>3. m.in[For] \in FactsOf(Top)
  BY <1>2, LiveFacts
<1>4. m.in[For] # NoFacts
  BY <1>3, FactsSmall, Small
<1>5. BodyStable(m, P0) /\ LoopKept(m, P0)
  BY <1>1 DEF Stable, Kept
<1>6. m.in[Body] # NoFacts
  BY <1>4, <1>5 DEF LoopKept
<1>7. m.in[Body] \in FactsOf(Top)
  BY <1>6, Small DEF TypedMaps, Known
<1>8. curr # Body
  BY DEF Structure
<1> QED
  BY <1>1, <1>3, <1>4, <1>5, <1>6, <1>7, <1>8 DEF LoopKept, BodyStable, Structure

LEMMA AfterSound ==
  ASSUME Structure, Types, Stable(maps, P0), NEW s \in Live(P0), stm[s].k # "return",
         NEW e \in EnvOf(ScopeAt(s)), e \in Conc(BehindOf(maps, s))
  PROVE  StepOK(After(s), e)
<1>1. WellFormed(P0) /\ P0.seq = seq /\ Fixed /\ TypedMaps(maps, P0) /\ P0.edges = edges
  BY ProgramFields DEF Structure, Types
<1>2. PICK b : b = IF s \in Range(seq[Body]) THEN Body ELSE Top
  OBVIOUS
<1>3. b \in Blocks /\ s \in Range(seq[b]) /\ (b = Body => s \in Range(seq[Body]) /\ For \in Range(seq[Top])) /\ b = ScopeAt(s)
  BY <1>1, <1>2, Small DEF WellFormed, Live, ScopeAt
<1>4. PICK t : t = seq[b]
  OBVIOUS
<1>5. t \in Seq(Nodes) /\ s \in Range(t)
  BY <1>1, <1>3, <1>4, PlacedFacts
<1>6. PICK i : i = Position(t, s)
  OBVIOUS
<1>7. i \in 1 .. Len(t) /\ t[i] = s
  BY <1>5, <1>6, PositionFacts
<1>8. After(s) = IF i < Len(t) THEN t[i + 1] ELSE IF b = Body THEN Body ELSE End
  BY <1>2, <1>4, <1>6, Zenon DEF After
<1>9. CASE i < Len(t)
  <2>1. PICK n : n = t[i + 1]
    OBVIOUS
  <2>2. i + 1 \in 2 .. Len(t) /\ i + 1 \in 1 .. Len(t) /\ (i + 1) - 1 = i
    BY <1>5, <1>7, <1>9
  <2>3. n \in Range(t)
    BY <1>5, <2>1, <2>2, InRange
  <2>4. Chain(maps, t, maps.in[Top]) \/ Chain(maps, t, AddLocals(maps.in[Body]))
    BY <1>1, <1>3, <1>4, Small, LoopFacts DEF Stable, BodyChain
  <2>5. Below(BehindOf(maps, s), maps.in[n])
    BY <1>7, <2>1, <2>2, <2>4 DEF Chain
  <2>6. e \in Conc(maps.in[n])
    BY <2>5, ConcBelow
  <2>7. n # Body /\ (n \in Range(seq[Body]) \/ LeaveScope(e) = e)
    BY <1>1, <1>3, <1>4, <2>3, Small, PlacedFacts, LeaveTop
  <2>8. After(s) = n
    BY <1>8, <1>9, <2>1
  <2> QED
    BY <2>6, <2>7, <2>8 DEF StepOK
<1>10. CASE ~(i < Len(t)) /\ b = Body
  <2>1. After(s) = Body
    BY <1>8, <1>10
  <2>2. i = Len(t) /\ t # <<>> /\ Last(t) = s
    BY <1>5, <1>7, <1>10, InRange
  <2>3. For \in Range(seq[Top])
    BY <1>3, <1>10
  <2>4. BodyChain(maps, P0) /\ Enclosed(maps, P0, maps.in[Body]) /\ Follows(P0)
    BY <1>1, <2>3, LoopFacts
  <2>5. maps.out[Body] = OutOfScope(BehindOf(maps, s), Local)
    BY <1>1, <1>4, <1>10, <2>2, <2>4 DEF BodyChain
  <2>6. BehindOf(maps, s) \in FactsOf(Body)
    BY <1>1, <1>3, <1>10, FactsSmall, BehindTyped, LiveFacts DEF TypedMaps, Known
  <2>7. maps.out[Body] \in FactsOf(Top)
    BY <2>5, <2>6, OutOfScopeTyped, Small
  <2>8. maps.out[Body] # NoFacts
    BY <2>7, FactsSmall, Small
  <2>9. PICK d : d = Edge(Body, Body, FALSE, TRUE)
    OBVIOUS
  <2>10. d \in P0.edges
    BY <1>1, <1>4, <1>10, <2>2, <2>4, <2>9 DEF Follows, FromTailToHead
  <2>11. d \in EdgesIn(P0, Body, FALSE, TRUE) /\ d.src = Body
    BY <2>9, <2>10 DEF EdgesIn, Edge
  <2>12. Below(maps.out[Body], maps.in[Body])
    BY <2>4, <2>8, <2>11 DEF Enclosed
  <2>13. LeaveScope(e) \in Conc(maps.out[Body])
    BY <2>5, <2>6, ConcLeave, Small
  <2>14. LeaveScope(e) \in Conc(maps.in[Body])
    BY <2>12, <2>13, ConcBelow
  <2>15. ~BodyMustReturn(P0)
    BY <1>1, <1>4, <1>10, <2>2 DEF BodyMustReturn, MustReturn
  <2>16. Body \notin Range(seq[Body])
    BY <1>1, PlacedFacts, Small
  <2> QED
    BY <2>1, <2>14, <2>15, <2>16 DEF StepOK
<1>11. CASE ~(i < Len(t)) /\ b # Body
  BY <1>8, <1>11 DEF StepOK
<1> QED
  BY <1>9, <1>10, <1>11

LEMMA GotoSound ==
  ASSUME Structure, mode = "execute", NEW n, NEW e, Goto(n, e), StepOK(n, e)
  PROVE  ExecInv'
BY DEF Goto, program, BodyMustReturn, MustReturn, EdgesIn, P0, ExecInv, StepOK

LEMMA RunAssignSound ==
  ASSUME Structure, Types, Stable(maps, P0), ExecInv, RunAssign
  PROVE  ExecInv'
<1>1. /\ mode = "execute" /\ pc \in Placed(P0) /\ stm[pc].k \in {"value", "copy", "deref"} /\ pc # End
      /\ env \in EnvOf(ScopeAt(pc)) /\ pc \in Live(P0) /\ TypedMaps(maps, P0) /\ pc # Body
  BY ProgramFields DEF RunAssign, Live, Placed, Running, Types
<1>2. PICK b : b = ScopeAt(pc)
  OBVIOUS
<1>3. PICK f : f = maps.in[pc]
  OBVIOUS
<1>4. f \in FactsOf(b) /\ b \in Blocks /\ StmOK(pc, b) /\ maps.out[pc] = FactOut(pc, Transfer(pc, f))
  BY <1>1, <1>2, <1>3, LiveFacts DEF StmOK
<1>5. env \in Conc(f)
  BY <1>1, <1>3 DEF ExecInv
<1>6. PICK e : e = Executed(pc, env)
  OBVIOUS
<1>7. e \in Conc(Transfer(pc, f))
  BY <1>1, <1>4, <1>5, <1>6, ConcTransfer
<1>8. BehindOf(maps, pc) = Transfer(pc, f)
  BY <1>1, <1>4 DEF BehindOf, IsCtrl, FactOut
<1>9. e \in EnvOf(b)
  BY <1>4, <1>7, FactsSmall, TransferTyped DEF Conc, EnvOf
<1>10. StepOK(After(pc), e)
  BY <1>1, <1>2, <1>7, <1>8, <1>9, AfterSound
<1>11. Goto(After(pc), e)
  BY <1>6, Zenon DEF RunAssign, Executed
<1> QED
  BY <1>1, <1>10, <1>11, GotoSound

LEMMA RunLoopSound ==
  ASSUME Structure, Types, Stable(maps, P0), ExecInv, RunLoop
  PROVE  ExecInv'
<1>1. WellFormed(P0) /\ P0.seq = seq /\ TypedMaps(maps, P0) /\ Fixed
  BY ProgramFields DEF Structure, Types
<1>2. mode = "execute" /\ pc \in {For, Body} /\ For \in Range(seq[Top]) /\ env \in EnvOf(Top) /\ pc # End
  BY <1>1, Small, PlacedFacts, RunningFacts, SMTT(30) DEF StmOK, ScopeAt, Placed, Types, RunLoop
<1>3. /\ Below(maps.in[For], maps.in[Body]) /\ Below(maps.in[For], maps.out[For])
      /\ ~BodyMustReturn(P0) => Below(maps.in[Body], maps.out[For])
      /\ BodyChain(maps, P0) /\ maps.in[Body] \in FactsOf(Top)
  BY <1>1, <1>2, LoopFacts
<1>4. env \in Conc(maps.in[pc]) /\ (pc = Body => ~BodyMustReturn(P0))
  BY <1>2 DEF ExecInv
<1>5. env \in Conc(maps.in[Body]) /\ env \in Conc(maps.out[For])
  BY <1>2, <1>3, <1>4, ConcBelow
<1>6. CASE Goto(After(For), env)
  BY <1>1, <1>2, <1>5, <1>6, PlacedFacts, AfterSound, GotoSound DEF Live, ScopeAt, Fixed, BehindOf,
     IsCtrl
<1>7. CASE /\ seq[Body] # <<>>
           /\ \E e \in [{q \in Ptr \cap Local : locals} -> UNION Range(InitOf)] :
                /\ \A p \in DOMAIN e : e[p] \in InitOf[p]
                /\ Goto(First(Body), Join(LeaveScope(env), e))
  <2>1. PICK L : L = {q \in Ptr \cap Local : locals}
    OBVIOUS
  <2>2. PICK e : /\ e \in [L -> UNION Range(InitOf)] /\ \A p \in DOMAIN e : e[p] \in InitOf[p]
                 /\ Goto(First(Body), Join(LeaveScope(env), e))
    BY <1>7, <2>1
  <2>3. LeaveScope(env) = env
    BY <1>2, LeaveTop
  <2>4. PICK f : f = maps.in[Body]
    OBVIOUS
  <2>5. f \in [Global -> SUBSET Target] /\ env \in [Global -> Target] /\ \A p \in Global : env[p] \in f[p]
    BY <1>3, <1>5, <2>4, FactsSmall, Small DEF FactsOf, Conc
  <2>6. AddLocals(f) = [p \in Global \cup L |-> IF p \in Global THEN f[p] ELSE InitOf[p]]
    BY <2>1, <2>5 DEF AddLocals, WithLocals, Join
  <2>7. Join(env, e) = [p \in Global \cup L |-> IF p \in Global THEN env[p] ELSE e[p]]
    BY <2>2, <2>5 DEF Join
  <2>8. Join(env, e) \in Conc(AddLocals(f))
    BY <2>1, <2>2, <2>5, <2>6, <2>7, FixpointConstantsOK DEF Conc
  <2>9. PICK t \in Seq(Nodes) : t = seq[Body]
    BY <1>1, PlacedFacts, Small
  <2>10. t # <<>> /\ First(Body) = t[1] /\ t[1] \in Range(seq[Body])
    BY <1>7, <2>9, InRange DEF First
  <2>11. Below(AddLocals(f), maps.in[t[1]])
    BY <1>1, <1>3, <2>4, <2>9, <2>10 DEF BodyChain, Chain
  <2>12. Join(env, e) \in Conc(maps.in[t[1]])
    BY <2>8, <2>11, ConcBelow
  <2>13. t[1] # Body
    BY <1>1, <2>10, PlacedFacts, Small
  <2>14. StepOK(t[1], Join(env, e))
    BY <2>10, <2>12, <2>13 DEF StepOK
  <2>15. Goto(t[1], Join(env, e))
    BY <2>2, <2>3, <2>10
  <2> QED
    BY <1>2, <2>14, <2>15, GotoSound
<1> QED
  BY <1>6, <1>7 DEF RunLoop, Iterate

LEMMA RunJumpSound ==
  ASSUME Structure, Types, Stable(maps, P0), ExecInv, RunJump
  PROVE  ExecInv'
<1>1. /\ mode = "execute" /\ pc \in Placed(P0) /\ stm[pc].k \in {"break", "continue", "goto"} /\ pc # End
      /\ env \in EnvOf(ScopeAt(pc)) /\ pc \in Live(P0) /\ TypedMaps(maps, P0) /\ pc # Body
      /\ pc \in Range(seq[Body]) => For \in Range(seq[Top])
  BY ProgramFields DEF RunJump, Live, Placed, Running, Types
<1>2. WellFormed(P0) /\ P0.seq = seq /\ Fixed /\ P0.breaks = breaks
  BY ProgramFields DEF Structure
<1>3. PICK b : b = ScopeAt(pc)
  OBVIOUS
<1>4. PICK f : f = maps.in[pc]
  OBVIOUS
<1>5. f \in FactsOf(b) /\ b \in Blocks /\ StmOK(pc, b) /\ maps.out[pc] = FactOut(pc, Transfer(pc, f)) /\ pc \in Nodes
  BY <1>1, <1>3, <1>4, LiveFacts DEF StmOK
<1>6. env \in Conc(f)
  BY <1>1, <1>4 DEF ExecInv
<1>7. maps.out[pc] = OutOfScope(f, Local)
  BY <1>1, <1>5 DEF FactOut, Transfer, ForDest
<1>8. LeaveScope(env) \in Conc(maps.out[pc])
  BY <1>5, <1>6, <1>7, ConcLeave
<1>9. maps.out[pc] \in FactsOf(Top) /\ maps.out[pc] # NoFacts
  BY <1>5, <1>7, Small, FactsSmall, OutOfScopeTyped
<1>10. Body \notin Range(seq[Body]) /\ Range(seq[Top]) \cap Range(seq[Body]) = {} /\ Body \notin Range(seq[Top])
  BY <1>2, PlacedFacts, Small DEF WellFormed
<1>11. CASE Goto(After(pc), env)
  BY <1>1, <1>4, <1>6, <1>11, AfterSound, GotoSound DEF BehindOf, IsCtrl
<1>12. CASE stm[pc].k = "goto" /\ Goto(stm[pc].to, env)
  <2>1. PICK n : n = stm[pc].to
    OBVIOUS
  <2>2. PICK e \in P0.edges : e.src = pc /\ e.dest = n /\ IsGoto(pc) /\ n \in Range(seq[Top])
    BY <1>1, <1>2, <1>12, <2>1 DEF WellFormed, JumpOK, IsGoto
  <2>3. Covered(maps, e)
    BY <1>1, <2>2 DEF Stable
  <2>4. Below(maps.out[pc], maps.in[n])
    BY <1>9, <2>2, <2>3 DEF Covered
  <2>5. LeaveScope(env) \in Conc(maps.in[n])
    BY <1>8, <2>4, ConcBelow
  <2>6. n \notin Range(seq[Body]) /\ n # Body
    BY <1>10, <2>2
  <2>7. StepOK(n, env)
    BY <2>5, <2>6 DEF StepOK
  <2> QED
    BY <1>1, <1>12, <2>1, <2>7, GotoSound
<1>13. CASE stm[pc].k = "continue" /\ Goto(Body, env)
  <2>1. pc \in Range(seq[Body]) /\ For \in Range(seq[Top])
    BY <1>1, <1>3, <1>5, <1>13, Small DEF StmOK, ScopeAt
  <2>2. PICK e : e = Edge(pc, Body, FALSE, TRUE)
    OBVIOUS
  <2>3. e \in P0.edges
    BY <1>1, <1>2, <1>13, <2>2 DEF WellFormed, JumpOK
  <2>4. e \in EdgesIn(P0, Body, FALSE, TRUE) /\ e.src = pc
    BY <2>2, <2>3 DEF EdgesIn, Edge
  <2>5. Enclosed(maps, P0, maps.in[Body])
    BY <1>1, <2>1, LoopFacts
  <2>6. Below(maps.out[pc], maps.in[Body])
    BY <1>9, <2>4, <2>5 DEF Enclosed
  <2>7. LeaveScope(env) \in Conc(maps.in[Body])
    BY <1>8, <2>6, ConcBelow
  <2>8. ~BodyMustReturn(P0)
    BY <1>1, <2>4 DEF BodyMustReturn, MustReturn
  <2>9. StepOK(Body, env)
    BY <1>10, <2>7, <2>8 DEF StepOK
  <2> QED
    BY <1>1, <1>13, <2>9, GotoSound
<1>14. CASE stm[pc].k = "break" /\ Goto(After(For), env)
  <2>1. pc \in Range(seq[Body]) /\ For \in Range(seq[Top])
    BY <1>1, <1>3, <1>5, <1>14, Small DEF StmOK, ScopeAt
  <2>2. pc \in breaks
    BY <1>1, <1>2, <1>14 DEF WellFormed, JumpOK
  <2>3. Below(maps.out[pc], maps.out[For])
    BY <1>1, <1>9, <2>1, <2>2, LoopFacts
  <2>4. LeaveScope(env) \in Conc(maps.out[For])
    BY <1>8, <2>3, ConcBelow
  <2>5. For \in Live(P0) /\ ScopeAt(For) = Top /\ stm[For].k # "return"
    BY <1>2, <2>1, PlacedFacts DEF Live, ScopeAt, Fixed
  <2>6. BehindOf(maps, For) = maps.out[For]
    BY <1>2 DEF BehindOf, IsCtrl, Fixed
  <2>7. PICK e : e = LeaveScope(env)
    OBVIOUS
  <2>8. e \in EnvOf(Top)
    BY <1>1, <1>3, <1>5, <2>7, LeaveScopeTyped
  <2>9. StepOK(After(For), e)
    BY <2>4, <2>5, <2>6, <2>7, <2>8, AfterSound
  <2>10. LeaveScope(e) = e
    BY <2>8, LeaveTop
  <2>11. After(For) \notin Range(seq[Body])
    BY <1>2, <2>1, Small, PlacedFacts, AfterFacts
  <2>12. StepOK(After(For), env)
    BY <2>7, <2>9, <2>10, <2>11 DEF StepOK
  <2> QED
    BY <1>1, <1>14, <2>12, GotoSound
<1> QED
  BY <1>11, <1>12, <1>13, <1>14 DEF RunJump

LEMMA RunReturnSound ==
  ASSUME Structure, RunReturn
  PROVE  ExecInv'
BY GotoSound DEF RunReturn, Running, StepOK

----------------------------------------------------------------------------
(* Calls *)

LEMMA ChainSame ==
  ASSUME stm' = stm, NEW m, NEW t, NEW f, Chain(m, t, f)
  PROVE  Chain(m, t, f)'
BY DEF Chain, BehindOf, IsCtrl

LEMMA StatementSame ==
  ASSUME NEW s, stm'[s] = stm[s]
  PROVE  /\ \A f : Valid(s, f)' = Valid(s, f) /\ Transfer(s, f)' = Transfer(s, f) /\ FactOut(s, f)' = FactOut(s, f)
         /\ \A m : BehindOf(m, s)' = BehindOf(m, s)
         /\ IsGoto(s)' = IsGoto(s) /\ IsCtrl(s)' = IsCtrl(s)
BY DEF Valid, Transfer, FactOut, ForDest, BehindOf, IsGoto, IsCtrl

LEMMA RecordedSame ==
  ASSUME NEW s, stm'[s] = stm[s], NEW m, NEW m1, m1.in[s] = m.in[s], m1.out[s] = m.out[s], RecordedAt(m, s)
  PROVE  RecordedAt(m1, s)'
BY StatementSame DEF RecordedAt

LEMMA KeptSameProgram ==
  ASSUME stm' = stm, locals' = locals, NEW m, NEW P, Kept(m, P)
  PROVE  Kept(m, P)'
<1>1. \A S : Recorded(m, S) => Recorded(m, S)'
  BY RecordedSame DEF Recorded
<1>2. BodyMustReturn(P)' = BodyMustReturn(P)
  BY DEF BodyMustReturn, MustReturn, EdgesIn
<1>3. LoopKept(m, P) => LoopKept(m, P)'
  BY <1>2 DEF LoopKept
<1>4. BodyChain(m, P) => BodyChain(m, P)'
  BY ChainSame, StatementSame, Zenon DEF AddLocals, BodyChain
<1>5. BodyStable(m, P) => BodyStable(m, P)'
  BY <1>4 DEF BodyStable, Enclosed
<1> QED
  BY <1>1, <1>3, <1>5 DEF Kept

LEMMA StableSame ==
  ASSUME stm' = stm, locals' = locals, NEW m, NEW P, Stable(m, P)
  PROVE  Stable(m, P)'
BY ChainSame, KeptSameProgram DEF Stable, IsGoto

LEMMA BeginSound ==
  ASSUME Structure, UNCHANGED <<curr, program>>, Begin, NEW m, m = maps', Stable(m, P0), TypedMaps(m, P0)
  PROVE  ReadyInv' /\ ExecInv'
<1>1. WellFormed(P0) /\ P0.seq = seq
  BY ProgramFields DEF Structure
<1>2. PICK t \in Seq(Nodes) : t = seq[Top]
  BY <1>1, PlacedFacts, Small
<1>3. seq' = seq /\ stm' = stm /\ locals' = locals
  BY DEF program
<1>4. PICK f : f = m.in[Top]
  OBVIOUS
<1>5. env' \in [DOMAIN f -> UNION Range(f)] /\ \A p \in DOMAIN env' : env'[p] \in f[p]
  BY <1>4 DEF Begin
<1>6. f \in FactsOf(Top)
  BY <1>4, Small DEF Stable, TypedMaps, Known
<1>7. env' \in Conc(f)
  BY <1>5, <1>6, Small, FactsSmall DEF Conc
<1>8. pc' = IF t = <<>> THEN End ELSE t[1]
  BY <1>2, <1>3 DEF Begin, First
<1>9. ASSUME t # <<>>
      PROVE  env' \in Conc(m.in[t[1]]) /\ t[1] # Body
  BY <1>1, <1>2, <1>4, <1>7, <1>9, Small, InRange, PlacedFacts, ConcBelow DEF Stable, Chain
<1>10. ExecInv'
  BY <1>8, <1>9 DEF ExecInv
<1>11. Stable(maps, P0)'
  BY StableSame DEF program, P0
<1> QED
  BY <1>10, <1>11 DEF ReadyInv

\* A call starts from facts that the analysis has found to be a fixed point.
LEMMA CallSound ==
  ASSUME Structure, Types, Sound, FirstCall \/ \E f \in Entries : Call(f)
  PROVE  Sound'
<1>1. WellFormed(P0) /\ P0.seq = seq /\ Fixed /\ mode = "ready" /\ TypedMaps(maps, P0) /\ Stable(maps, P0)
  BY ProgramFields DEF Structure, Types, Sound, ReadyInv, FirstCall, Call
<1>2. CASE FirstCall
  BY <1>1, <1>2, BeginSound DEF FirstCall, Sound, GenInv
<1>3. CASE \E f \in Entries : Call(f)
  <2>1. PICK f \in Entries : Call(f)
    BY <1>3
  <2>2. PICK r : /\ r = FixedPoint([maps EXCEPT !.vis = [n \in Nodes |-> FALSE]], P0, Top, f, FALSE)
                 /\ r.ok \/ r.rounds > MaxRounds
                 /\ mode' = Outcome("execute", r) /\ maps' = r.maps
    BY <2>1, Zenon DEF Call
  <2>3. Begin /\ UNCHANGED <<curr, program>>
    BY <2>1, Zenon DEF Call
  <2>4. PICK m : m = [maps EXCEPT !.vis = [n \in Nodes |-> FALSE]]
    OBVIOUS
  <2>5. m \in Maps /\ m.in = maps.in /\ m.out = maps.out
    BY <1>1, <2>4, Zenon DEF TypedMaps, Maps
  <2>6. TypedMaps(m, P0)
    BY <1>1, <2>5 DEF TypedMaps, TypedAt
  <2>7. f \in FactsOf(Top)
    BY FixpointConstantsOK, FactsSmall, Small DEF FactsOf
  <2>8. r = FixedPoint(m, P0, Top, f, FALSE)
    BY <2>2, <2>4
  <2>9. r = FixedPointTop(m, P0, f, FALSE)
    BY <2>8, Small DEF FixedPoint
  <2>10. Stable(m, P0)
    BY <1>1, <2>5, KeptSame DEF Stable, Chain, BehindOf, Covered
  <2>11. TypedMaps(r.maps, P0) /\ r.rounds \in Nat
    <3>1. TypedResult(r, m, P0, Top, Nodes)
      BY <1>1, <2>6, <2>7, <2>9, SearchTopTyped
    <3> QED
      BY <3>1 DEF TypedResult, Search
  <2>12. mode' = IF r.rounds <= MaxRounds THEN "execute" ELSE "aborted"
    <3>1. mode' = Outcome("execute", r)
      BY <2>2
    <3>2. MaxRounds \in Nat /\ r.rounds \in Nat
      BY <2>11, FixpointConstantsOK
    <3> QED
      BY ONLY <3>1, <3>2 DEF Outcome
  <2>13. r.ok \/ ~(r.rounds <= MaxRounds)
    <3>1. r.ok \/ r.rounds > MaxRounds
      BY <2>2
    <3>2. MaxRounds \in Nat /\ r.rounds \in Nat
      BY <2>11, FixpointConstantsOK
    <3> QED
      BY ONLY <3>1, <3>2
  <2> HIDE <2>4
  <2>14. CASE r.ok /\ r.rounds <= MaxRounds
    <3>1. Kept(m, P0)
      BY <2>10 DEF Stable
    <3>2. Stable(r.maps, P0)
      BY <1>1, <2>6, <2>7, <2>9, <2>10, <2>14, <3>1, SearchTopSound
    <3>3. PICK m1 : m1 = maps'
      OBVIOUS
    <3>4. ReadyInv' /\ ExecInv'
      BY <2>2, <2>3, <2>11, <3>2, <3>3, BeginSound
    <3>5. mode' = "execute"
      BY <2>14, <2>12, <2>13
    <3> QED
      BY <3>4, <3>5 DEF Sound, GenInv
  <2>15. CASE ~(r.ok /\ r.rounds <= MaxRounds)
    BY <2>12, <2>13, <2>15 DEF Sound, GenInv, ReadyInv, ExecInv
  <2> QED
    BY <2>14, <2>15
<1> QED
  BY <1>2, <1>3

\* Execution does not change the facts.
LEMMA RunSound ==
  ASSUME Structure, Types, Sound, RunAssign \/ RunJump \/ RunReturn \/ RunLoop
  PROVE  Sound'
<1>1. mode = "execute" /\ UNCHANGED <<mode, curr, program, maps>>
  BY Zenon DEF RunAssign, RunJump, RunReturn, RunLoop, Running, Iterate, Goto
<1>2. Stable(maps, P0) /\ ExecInv
  BY <1>1 DEF Sound, ReadyInv
<1>3. ExecInv'
  BY <1>2, RunAssignSound, RunJumpSound, RunReturnSound, RunLoopSound
<1>4. Stable(maps, P0)'
  BY <1>1, <1>2, StableSame DEF program, P0
<1> QED
  BY <1>1, <1>3, <1>4 DEF Sound, GenInv, ReadyInv

----------------------------------------------------------------------------
(* What the generation keeps *)

LEMMA InitSound ==
  ASSUME Init
  PROVE  Sound
BY Small DEF Init, Range, Kept, Recorded, P0, Chain, AtEnd, Sound, GenInv, ReadyInv, ExecInv

LEMMA AppendInserted ==
  ASSUME NEW t \in Seq(Nodes), NEW n \in Nodes, NEW u, u = Append(t, n)
  PROVE  Inserted(u, t, Len(t), n)
<1>1. Len(t) \in Nat
  OBVIOUS
<1>2. u \in Seq(Nodes) /\ Len(u) = Len(t) + 1 /\ \A i \in 1 .. Len(t) : u[i] = t[i]
  OBVIOUS
<1>3. Range(u) = Range(t) \cup {n} /\ Last(u) = n
  BY AppendRange
<1>4. /\ u \in Seq(Nodes) /\ Range(u) = Range(t) \cup {n} /\ Len(u) = Len(t) + 1 /\ Last(u) = n
      /\ \A i \in 1 .. Len(t) : u[i] = t[i]
  BY <1>2, <1>3
<1>5. PICK k \in Nat : k = Len(t)
  BY <1>1
<1>6. u[k + 1] = n /\ k + 1 \in 1 .. Len(u) /\ Last(u) = IF k = Len(t) THEN n ELSE Last(t)
  BY <1>4, <1>5
<1>7. \A i \in 1 .. k : u[i] = t[i] /\ i \in 1 .. Len(u)
  BY <1>4, <1>5
<1>8. \A i \in k + 1 .. Len(t) : u[i + 1] = t[i] /\ i + 1 \in 1 .. Len(u)
  BY <1>5
<1> QED
  BY <1>4, <1>5, <1>6, <1>7, <1>8 DEF Inserted

\* The new statement is not one of those that are there.
LEMMA Fresh ==
  ASSUME Structure, NEW n, n = made + 1
  PROVE  n \notin Placed(P0) /\ \A e \in edges : e.src # n /\ e.dest # n
BY Small DEF Structure, For

LEMMA ChainFrame ==
  ASSUME NEW t \in Seq(Nodes), NEW m, NEW m1,
         \A v \in Range(t) : stm'[v] = stm[v] /\ m1.in[v] = m.in[v] /\ m1.out[v] = m.out[v],
         NEW f, Chain(m, t, f)
  PROVE  Chain(m1, t, f)'
<1>1. \A v \in Range(t) : BehindOf(m1, v)' = BehindOf(m, v) /\ m1.in[v] = m.in[v]
  BY DEF BehindOf, IsCtrl
<1>2. \A i \in 1 .. Len(t) : t[i] \in Range(t)
  BY InRange
<1>3. \A j \in 2 .. Len(t) : j - 1 \in 1 .. Len(t) /\ j \in 1 .. Len(t)
  OBVIOUS
<1>4. t # <<>> => 1 \in 1 .. Len(t)
  OBVIOUS
<1> QED
  BY <1>1, <1>2, <1>3, <1>4 DEF Chain

\* A new statement n behind the k-th; if others follow, it changes nothing.
LEMMA ChainInsert ==
  ASSUME NEW t \in Seq(Nodes), NEW k \in 0 .. Len(t), NEW n, NEW u, Inserted(u, t, k, n), NEW m, NEW m1,
         \A v \in Range(t) : stm'[v] = stm[v] /\ m1.in[v] = m.in[v] /\ m1.out[v] = m.out[v],
         NEW f, Chain(m, t, f), m1.in[n] # NoFacts,
         k = 0 => Below(f, m1.in[n]), k >= 1 => Below(BehindOf(m, t[k]), m1.in[n]),
         k < Len(t) => k >= 1 /\ BehindOf(m1, n)' = BehindOf(m, t[k])
  PROVE  Chain(m1, u, f)'
<1>1. \A v \in Range(t) : BehindOf(m1, v)' = BehindOf(m, v) /\ m1.in[v] = m.in[v]
  BY DEF BehindOf, IsCtrl
<1>2. \A i \in 1 .. Len(t) : t[i] \in Range(t)
  BY InRange
<1>3. /\ u \in Seq(Nodes) /\ Len(u) = Len(t) + 1 /\ u[k + 1] = n /\ Len(t) \in Nat /\ k \in Nat
      /\ \A i \in 1 .. k : u[i] = t[i]
      /\ \A i \in k + 1 .. Len(t) : u[i + 1] = t[i]
  BY DEF Inserted
<1>4. \A i \in k + 2 .. Len(u) : u[i] = t[i - 1] /\ i - 1 \in k + 1 .. Len(t) /\ i - 1 \in 1 .. Len(t)
  BY <1>3
<1>5. \A i \in 1 .. k : u[i] = t[i] /\ i \in 1 .. Len(t)
  BY <1>3
<1>6. \A i \in 1 .. Len(u) : i \in 1 .. k \/ i = k + 1 \/ i \in k + 2 .. Len(u)
  BY <1>3
<1>7. /\ \A j \in 1 .. Len(t) : m.in[t[j]] # NoFacts
      /\ t # <<>> => Below(f, m.in[t[1]])
      /\ \A j \in 2 .. Len(t) : Below(BehindOf(m, t[j - 1]), m.in[t[j]])
  BY DEF Chain
<1>8. ASSUME NEW j \in 1 .. Len(u)
      PROVE  m1.in[u[j]] # NoFacts
  <2>1. CASE j \in 1 .. k
    BY <1>2, <1>5, <1>7, <2>1, Zenon
  <2>2. CASE j = k + 1
    BY <1>3, <2>2
  <2>3. CASE j \in k + 2 .. Len(u)
    <3>1. PICK l \in 1 .. Len(t) : u[j] = t[l]
      BY <1>4, <2>3
    <3> QED
      BY <1>1, <1>2, <1>7, <3>1
  <2> QED
    BY <1>6, <2>1, <2>2, <2>3
<1>9. Below(f, m1.in[u[1]])
  BY <1>2, <1>3, <1>7
<1>10. ASSUME NEW j \in 2 .. Len(u)
       PROVE  Below(BehindOf(m1, u[j - 1])', m1.in[u[j]])
  <2>1. CASE j <= k
    <3>1. j \in 1 .. k /\ j - 1 \in 1 .. k /\ j \in 2 .. Len(t)
      BY <1>3, <2>1
    <3> QED
      BY <1>1, <1>2, <1>5, <1>7, <3>1, SMTT(30)
  <2>2. CASE j = k + 1
    BY <1>1, <1>2, <1>3, <2>2
  <2>3. CASE j = k + 2
    <3>1. k < Len(t) /\ j - 1 = k + 1 /\ k + 1 \in 2 .. Len(t) /\ j \in k + 2 .. Len(u) /\ k + 1 - 1 = k
      BY <1>3, <2>3
    <3>2. u[j - 1] = n /\ u[j] = t[k + 1] /\ t[k + 1] \in Range(t)
      BY <1>2, <1>3, <1>4, <2>3, <3>1
    <3>3. Below(BehindOf(m, t[k]), m.in[t[k + 1]])
      BY <1>7, <3>1
    <3> QED
      BY <1>1, <3>1, <3>2, <3>3
  <2>4. CASE j > k + 2
    <3>1. j \in k + 2 .. Len(u) /\ j - 1 \in k + 2 .. Len(u) /\ j - 1 \in 2 .. Len(t) /\ j - 1 - 1 \in 1 .. Len(t)
      BY <1>3, <2>4
    <3>2. PICK l \in 2 .. Len(t) : l = j - 1
      BY <3>1
    <3>3. u[j] = t[l] /\ u[j - 1] = t[l - 1] /\ l - 1 \in 1 .. Len(t) /\ l \in 1 .. Len(t)
      BY <1>4, <3>1, <3>2
    <3>4. Below(BehindOf(m, t[l - 1]), m.in[t[l]])
      BY <1>7
    <3> QED
      BY <1>1, <1>2, <3>3, <3>4
  <2> QED
    BY <1>3, <2>1, <2>2, <2>3, <2>4
<1> QED
  BY <1>8, <1>9, <1>10 DEF Chain

LEMMA PlacingFacts ==
  ASSUME Structure, NEW n, NEW b, NEW k, Placing(n, b, k)
  PROVE  /\ \A c \in Blocks : seq[c] \in Seq(Nodes) /\ Range(seq[c]) \subseteq Nodes \ {n}
         /\ \A c \in Blocks : \A v \in Range(seq[c]) : stm'[v] = stm[v] /\ v \in Nodes /\ v # n /\ v \in Placed(P0)
         /\ Range(seq'[b]) = Range(seq[b]) \cup {n}
         /\ For \in Range(seq'[Top]) <=> For \in Range(seq[Top])
         /\ n \notin Range(seq[Top]) /\ n \notin Range(seq[Body])
<1>1. WellFormed(P0) /\ P0.seq = seq
  BY ProgramFields DEF Structure
<1>2. \A c \in Blocks : seq[c] \in Seq(Nodes) /\ Range(seq[c]) \subseteq Placed(P0)
  BY <1>1, PlacedFacts, Small DEF Placed
<1>3. Placed(P0) \subseteq Nodes
  BY <1>1, PlacedFacts
<1>4. /\ n \in Nodes \ Placed(P0) /\ b \in Blocks /\ Inserted(seq'[b], seq[b], k, n) /\ n # For
      /\ \A c \in Blocks : c # b => seq'[c] = seq[c]
      /\ \A v \in Nodes : v # n => stm'[v] = stm[v]
  BY DEF Placing
<1>5. Range(seq'[b]) = Range(seq[b]) \cup {n}
  BY <1>4 DEF Inserted
<1>6. For \in Range(seq'[Top]) <=> For \in Range(seq[Top])
  BY <1>4, <1>5, Small
<1> QED
  BY <1>2, <1>3, <1>4, <1>5, <1>6, Small

LEMMA ChainPlacing ==
  ASSUME Structure, NEW n, NEW b, NEW k, Placing(n, b, k), NEW m, NEW m1, Beyond(n, m, m1),
         NEW c \in Blocks, NEW f, Chain(m, seq[c], f),
         c = b => Fits(m, m1, n, seq[b], k, f)
  PROVE  Chain(m1, seq[c], f)'
<1>1. /\ n \in Nodes /\ b \in Blocks /\ k \in 0 .. Len(seq[b]) /\ Inserted(seq'[b], seq[b], k, n)
      /\ \A d \in Blocks : d # b => seq'[d] = seq[d]
  BY DEF Placing
<1>2. PICK t : t = seq[c]
  OBVIOUS
<1>3. PICK u : u = seq'[c]
  OBVIOUS
<1>4. t \in Seq(Nodes) /\ \A v \in Range(t) : stm'[v] = stm[v] /\ m1.in[v] = m.in[v] /\ m1.out[v] = m.out[v]
  BY <1>2, PlacingFacts DEF Beyond
<1>5. Chain(m1, u, f)'
  <2>1. CASE c # b
    BY <1>1, <1>2, <1>3, <1>4, <2>1, ChainFrame, Zenon
  <2>2. CASE c = b
    BY <1>1, <1>2, <1>3, <1>4, <2>2, ChainInsert, Zenon DEF Fits
  <2> QED
    BY <2>1, <2>2
<1>6. (seq[c])' = u
  BY <1>3
<1> QED
  BY <1>5, <1>6 DEF Chain

LEMMA RecordedPlacing ==
  ASSUME Structure, NEW n, NEW b, NEW k, Placing(n, b, k), NEW m, NEW m1, Beyond(n, m, m1),
         NEW c \in Blocks, Recorded(m, Range(seq[c])), c = b => RecordedAt(m1, n)'
  PROVE  Recorded(m1, Range(seq[c]))'
<1>1. b \in Blocks /\ \A d \in Blocks : d # b => seq'[d] = seq[d]
  BY DEF Placing
<1>2. Range(seq'[b]) = Range(seq[b]) \cup {n}
  BY PlacingFacts
<1>3. \A s \in Range(seq'[c]) : s \in Range(seq[c]) \/ (s = n /\ c = b)
  BY <1>1, <1>2
<1>4. ASSUME NEW s \in Range(seq'[c]), s # For
      PROVE  RecordedAt(m1, s)'
  BY <1>3, <1>4, RecordedSame, PlacingFacts DEF Recorded, Beyond
<1> QED
  BY <1>4 DEF Recorded

\* A new statement in the function, or a goto in the loop body.
LEMMA KeptPlacing ==
  ASSUME Structure, NEW n, NEW b, NEW k, Placing(n, b, k), NEW m, NEW m1,
         \A v \in Nodes : v # n => m1.in[v] = m.in[v] /\ m1.out[v] = m.out[v],
         Kept(m, P0), RecordedAt(m1, n)',
         For \in Range(seq[Top]) => breaks' = breaks /\ \A e \in edges' : e \in edges \/ e.dest # Body,
         For \in Range(seq[Top]) /\ b = Body =>
           /\ k >= 1 /\ stm[seq[Body][k]].k # "return" /\ stm'[n].k # "return"
           /\ m1.in[n] # NoFacts /\ m1.in[n] = BehindOf(m, seq[Body][k]) /\ BehindOf(m1, n)' = m1.in[n]
  PROVE  Kept(m1, P0)'
<1>1. WellFormed(P0) /\ P0.seq = seq /\ P0.edges = edges /\ P0.breaks = breaks /\ Fixed
  BY ProgramFields DEF Structure
<1>2. PICK Q : Q = P0'
  OBVIOUS
<1>3. Q.seq = seq' /\ Q.edges = edges' /\ Q.breaks = breaks'
  BY <1>2 DEF P0
<1>4. /\ n # Top /\ n # Body /\ n # For /\ b \in Blocks /\ k \in 0 .. Len(seq[b]) /\ Inserted(seq'[b], seq[b], k, n)
      /\ \A c \in Blocks : c # b => seq'[c] = seq[c]
      /\ locals' = locals /\ edges \subseteq edges'
  BY DEF Placing
<1>5. Recorded(m, Range(seq[Top]))
  BY <1>1 DEF Kept
<1>6. Beyond(n, m, m1)
  BY DEF Beyond
<1>7. Recorded(m1, Range(seq[Top]))'
  BY <1>5, <1>6, RecordedPlacing, Small
<1>8. ASSUME For \in Range(seq[Top])
      PROVE  Recorded(m1, Range(seq[Body]))' /\ BodyStable(m1, Q)' /\ LoopKept(m1, Q)'
  <2>1. Recorded(m, Range(seq[Body])) /\ BodyStable(m, P0) /\ LoopKept(m, P0)
    BY <1>1, <1>8 DEF Kept
  <2>2. Recorded(m1, Range(seq[Body]))'
    BY <1>6, <2>1, RecordedPlacing, Small
  <2>3. breaks' = breaks /\ EdgesIn(Q, Body, FALSE, TRUE) = EdgesIn(P0, Body, FALSE, TRUE)
    BY <1>1, <1>3, <1>4, <1>8 DEF EdgesIn
  <2>4. m1.in[For] = m.in[For] /\ m1.out[For] = m.out[For] /\ m1.in[Body] = m.in[Body] /\ m1.out[Body] = m.out[Body]
    BY <1>4, Small
  <2>5. seq[Body] # <<>> => Last(seq[Body]) \in Range(seq[Body])
    BY PlacingFacts, InRange, Small
  <2>6. PICK o, l : o = Last(seq[Body]) /\ l = Last(seq'[Body])
    OBVIOUS
  <2>7. /\ seq'[Body] # <<>> <=> seq[Body] # <<>>
        /\ seq[Body] # <<>> => /\ stm'[l].k = "return" <=> stm[o].k = "return"
                               /\ stm[o].k # "return" => BehindOf(m1, l)' = BehindOf(m, o)
    <3>1. CASE b # Body
      <4>1. seq'[Body] = seq[Body] /\ l = o
        BY <1>4, <2>6, <3>1, Small
      <4>2. ASSUME seq[Body] # <<>>
            PROVE  stm'[o] = stm[o] /\ m1.in[o] = m.in[o] /\ m1.out[o] = m.out[o]
        BY <2>5, <2>6, <4>2, PlacingFacts, Small
      <4>3. seq[Body] # <<>> => BehindOf(m1, o)' = BehindOf(m, o)
        BY <4>2 DEF BehindOf, IsCtrl
      <4> QED
        BY <4>1, <4>2, <4>3
    <3>2. CASE b = Body
      <4>1. PICK t \in Seq(Nodes) : t = seq[Body]
        BY PlacingFacts, Small
      <4>2. PICK u : u = seq'[Body]
        OBVIOUS
      <4>3. /\ k \in 1 .. Len(t) /\ stm[t[k]].k # "return" /\ stm'[n].k # "return"
            /\ m1.in[n] = BehindOf(m, t[k]) /\ BehindOf(m1, n)' = m1.in[n]
        BY <1>4, <1>8, <3>2, <4>1
      <4>4. u \in Seq(Nodes) /\ Len(u) = Len(t) + 1 /\ l = IF k = Len(t) THEN n ELSE o
        BY <1>4, <2>6, <3>2, <4>1, <4>2 DEF Inserted
      <4>5. u # <<>> /\ t # <<>> /\ o = t[Len(t)]
        BY <2>6, <4>1, <4>3, <4>4, InRange
      <4>6. CASE k = Len(t)
        BY <4>1, <4>2, <4>3, <4>4, <4>5, <4>6
      <4>7. CASE k # Len(t)
        <5>1. l = o /\ o \in Range(seq[Body])
          BY <2>5, <2>6, <4>1, <4>4, <4>5, <4>7
        <5>2. stm'[o] = stm[o] /\ m1.in[o] = m.in[o] /\ m1.out[o] = m.out[o]
          BY <5>1, PlacingFacts, Small
        <5>3. BehindOf(m1, o)' = BehindOf(m, o)
          BY <5>2 DEF BehindOf, IsCtrl
        <5> QED
          BY <4>1, <4>2, <4>5, <5>1, <5>2, <5>3
      <4> QED
        BY <4>6, <4>7
    <3> QED
      BY <3>1, <3>2
  <2>8. BodyMustReturn(Q)' <=> BodyMustReturn(P0)
    BY <1>1, <1>3, <2>3, <2>7, <2>6 DEF BodyMustReturn, MustReturn
  <2>9. \A e \in EdgesIn(P0, Body, FALSE, TRUE) : m1.out[e.src] = m.out[e.src]
    <3>1. \A e \in EdgesIn(P0, Body, FALSE, TRUE) : e.src \in {Body} \cup Range(seq[Body]) /\ e.src \in Nodes
      BY <1>1, BackSource
    <3>2. n \notin Range(seq[Body])
      BY PlacingFacts
    <3> QED
      BY <1>4, <3>1, <3>2
  <2>10. \A s \in breaks : m1.out[s] = m.out[s]
    <3>1. breaks \subseteq Range(seq[Body])
      BY <1>1 DEF WellFormed
    <3>2. Range(seq[Body]) \subseteq Nodes \ {n}
      BY PlacingFacts, Small
    <3> QED
      BY <3>1, <3>2
  <2>11. LoopKept(m1, Q)'
    BY <1>1, <1>3, <2>1, <2>3, <2>4, <2>8, <2>10 DEF LoopKept
  <2>12. ASSUME BodyChain(m, P0)
         PROVE  BodyChain(m1, Q)'
    <3>1. PICK f : f = AddLocals(m.in[Body])
      OBVIOUS
    <3>2. AddLocals(m1.in[Body])' = f
      BY <1>4, <2>4, <3>1 DEF AddLocals, WithLocals
    <3>3. Chain(m, seq[Body], f)
      BY <1>1, <2>12, <3>1 DEF BodyChain
    <3>4. b = Body => m1.in[n] # NoFacts /\ k >= 1 /\ m1.in[n] = BehindOf(m, seq[b][k]) /\ BehindOf(m1, n)' = m1.in[n]
      BY <1>8
    <3>5. k \in Nat
      BY <1>4
    <3>6. Body = b => Fits(m, m1, n, seq[b], k, f)
      BY <3>4, <3>5, BelowSelf DEF Fits
    <3>7. Chain(m1, seq[Body], f)'
      BY <1>6, <3>3, <3>6, ChainPlacing, Small
    <3>8. Chain(m1, Q.seq[Body], AddLocals(m1.in[Body]))'
      BY <1>3, <3>2, <3>7
    <3>9. seq[Body] # <<>> /\ stm[Last(seq[Body])].k # "return" =>
            m.out[Body] = OutOfScope(BehindOf(m, Last(seq[Body])), Local)
      BY <1>1, <2>12 DEF BodyChain
    <3>10. seq'[Body] # <<>> /\ stm'[l].k # "return" => m1.out[Body] = OutOfScope(BehindOf(m1, l)', Local)
      BY <2>4, <2>7, <2>6, <3>9
    <3>11. Q.seq[Body] = seq'[Body] /\ l = Last(Q.seq[Body])
      BY <1>3, <2>6
    <3> QED
      BY <3>8, <3>10, <3>11 DEF BodyChain
  <2>13. Enclosed(m, P0, m.in[Body]) => Enclosed(m1, Q, m1.in[Body])'
    BY <2>3, <2>4, <2>9 DEF Enclosed
  <2>14. BodyStable(m1, Q)'
    BY <2>1, <2>4, <2>12, <2>13 DEF BodyStable
  <2> QED
    BY <2>2, <2>11, <2>14
<1>9. For \in Range(seq'[Top]) <=> For \in Range(seq[Top])
  BY PlacingFacts
<1>10. Kept(m1, Q)'
  BY <1>3, <1>7, <1>8, <1>9 DEF Kept
<1> QED
  BY <1>2, <1>10

LEMMA GenGives ==
  ASSUME GenInv, mode = "generate"
  PROVE  /\ Kept(maps, P0) /\ Chain(maps, seq[Top], maps.in[Top])
         /\ \A s \in Range(seq[Top]) : maps.vis[s]
         /\ ~Closed(curr) => facts = AtEnd(maps, curr, Before(curr))
         /\ curr = Body => /\ pre = AtEnd(maps, Top, maps.in[Top]) /\ maps.in[Body] = pre
                           /\ Chain(maps, seq[Body], AddLocals(pre)) /\ Recorded(maps, Range(seq[Body]))
         /\ \A e \in edges : EdgeSound(e)
BY DEF GenInv, Before, EdgeSound

LEMMA AtEndFacts ==
  ASSUME Structure, NEW b \in Blocks
  PROVE  /\ seq[b] \in Seq(Nodes) /\ Len(seq[b]) \in Nat /\ Len(seq[b]) \in 0 .. Len(seq[b])
         /\ \A m, f : Len(seq[b]) = 0 => AtEnd(m, b, f) = f
         /\ \A m, f : Len(seq[b]) >= 1 => AtEnd(m, b, f) = BehindOf(m, seq[b][Len(seq[b])])
         /\ seq[b] # <<>> => Last(seq[b]) \in Range(seq[b]) /\ Len(seq[b]) >= 1 /\ Last(seq[b]) = seq[b][Len(seq[b])]
BY InRange, PlacedFacts, ProgramFields DEF Structure, AtEnd

\* A new statement at the end is recorded with the facts before it and those it makes of them.
LEMMA AddMaps ==
  ASSUME Structure, Types, Types', Adding, NEW st, Add(st), NEW n, n = made + 1, st.k # "for",
         NEW f, f = facts, NEW g, g = facts', g = Transfer(n, f)', NEW h, h = FactOut(n, g)'
  PROVE  Saved(maps, n, f, h, maps')
<1>1. n \in Nodes /\ stm'[n] = st
  BY AddFacts
<1>2. PICK g1 : g1 = CASE st.k = "value" -> [f EXCEPT ![st.to] = {st.of}]
                       [] st.k = "copy" -> [f EXCEPT ![st.to] = f[st.of]]
                       [] OTHER -> f
  OBVIOUS
<1>3. PICK o : o = IF st.k \in {"break", "continue", "return", "goto"} THEN OutOfScope(g1, Local) ELSE g1
  OBVIOUS
<1>4. maps' = [maps EXCEPT !.in[n] = f, !.out[n] = o, !.vis[n] = TRUE]
  BY <1>2, <1>3, Zenon DEF Add
<1>5. g = g1
  BY <1>1, <1>2 DEF Transfer
<1>6. h = o
  BY <1>1, <1>3, <1>5 DEF FactOut, ForDest
<1>7. mode = "generate" /\ mode' = "generate" /\ curr' = curr
  BY DEF Adding, Add
<1>8. maps \in Maps /\ f \in Facts
  BY DEF Types, TypedMaps
<1>9. g \in Facts /\ o \in Facts
  BY <1>3, <1>5, <1>7, Small, AddFacts, FactsSmall, OutOfScopeTyped DEF Types, FactsOf
<1> QED
  BY <1>1, <1>4, <1>6, <1>8, <1>9, SaveMaps

\* One more statement at the end of the block under construction.
LEMMA AddSound ==
  ASSUME Structure, Structure', Types, Types', Sound, Adding, NEW st, Add(st), NEW n, n = made + 1, st.k # "for",
         NEW f, f = facts, NEW g, g = facts', g = Transfer(n, f)', Valid(n, f)',
         edges \subseteq edges', need \subseteq need', curr = Top => breaks' = breaks,
         \A e \in edges' :
           e \in edges \/ ((curr = Top => e.dest # Body) /\ (IsGoto(e.src)' => e.back /\ Top \in need'))
  PROVE  Sound'
<1>1. /\ n \in Nodes /\ n # For /\ n # Top /\ n # Body /\ stm'[n] = st /\ seq'[curr] = Append(seq[curr], n)
      /\ \A b \in Blocks : b # curr => seq'[b] = seq[b]
      /\ locals' = locals /\ curr' = curr /\ curr \in Blocks
  BY AddFacts
<1>2. mode = "generate" /\ mode' = mode /\ pre' = pre /\ GenInv /\ ~Closed(curr)
  BY DEF Adding, Add, Sound
<1>3. WellFormed(P0) /\ P0.seq = seq /\ P0.edges = edges /\ P0.breaks = breaks /\ Fixed
  BY ProgramFields DEF Structure
<1>4. n \notin Placed(P0) /\ \A e \in edges : e.src # n /\ e.dest # n
  BY Fresh
<1>5. PICK m, m1 : m = maps /\ m1 = maps'
  OBVIOUS
<1>6. PICK h : h = FactOut(n, g)'
  OBVIOUS
<1>7. /\ m1.in[n] = f /\ m1.out[n] = h /\ m1.vis[n] = TRUE
      /\ \A v \in Nodes : v # n => m1.in[v] = m.in[v] /\ m1.out[v] = m.out[v] /\ m1.vis[v] = m.vis[v]
  <2>1. Saved(maps, n, f, h, maps')
    BY <1>6, AddMaps
  <2> QED
    BY <1>5, <2>1 DEF Saved
<1>8. f \in FactsOf(curr) /\ f # NoFacts
  BY <1>1, <1>2, FactsSmall DEF Types
<1>9. PICK t \in Seq(Nodes) : t = seq[curr]
  BY <1>1, AtEndFacts
<1>10. PICK k \in Nat : k = Len(t)
  OBVIOUS
<1>11. Placing(n, curr, k)
  <2>1. \A v \in Nodes : v # n => stm'[v] = stm[v]
    BY <1>1, <1>3 DEF Add, Structure
  <2>2. Inserted(seq'[curr], seq[curr], k, n)
    BY <1>1, <1>9, <1>10, AppendInserted
  <2>3. k \in 0 .. Len(seq[curr])
    BY <1>9, <1>10
  <2> QED
    BY <1>1, <1>4, <2>1, <2>2, <2>3 DEF Placing
<1>12. RecordedAt(m1, n)'
  BY <1>6, <1>7 DEF RecordedAt
<1>13. stm'[n].k # "return" => BehindOf(m1, n)' = g
  BY <1>6, <1>7 DEF IsCtrl, Transfer, BehindOf, FactOut
<1>14. Kept(m, P0) /\ Chain(m, seq[Top], m.in[Top]) /\ \A s \in Range(seq[Top]) : m.vis[s]
  BY <1>2, <1>5, GenGives
<1>15. PICK f0 : f0 = Before(curr)
  OBVIOUS
<1>16. Fits(m, m1, n, seq[curr], k, f0)
  BY <1>1, <1>2, <1>5, <1>7, <1>8, <1>9, <1>10, <1>15, BelowSelf, GenGives, AtEndFacts DEF Fits
<1>17. For \in Range(seq[Top]) => curr = Top
  BY <1>1, Small DEF Structure
<1>18. Kept(m1, P0)'
  BY <1>7, <1>11, <1>12, <1>14, <1>17, Small, KeptPlacing
<1>19. Chain(m1, seq[Top], m1.in[Top])'
  <2>1. PICK f1 : f1 = m.in[Top]
    OBVIOUS
  <2>2. Top = curr => Fits(m, m1, n, seq[curr], k, f1)
    BY <1>5, <1>15, <1>16, <2>1 DEF Before
  <2>3. Chain(m, seq[Top], f1)
    BY <1>14, <2>1
  <2>4. Chain(m1, seq[Top], f1)'
    <3>1. PICK b \in Blocks : b = Top
      BY Small
    <3>2. b = curr => Fits(m, m1, n, seq[curr], k, f1)
      BY <2>2, <3>1
    <3>3. Chain(m, seq[b], f1) /\ Beyond(n, m, m1)
      BY <1>7, <2>3, <3>1 DEF Beyond
    <3>4. Chain(m1, seq[b], f1)'
      BY <1>11, <3>2, <3>3, ChainPlacing
    <3> QED
      BY <3>1, <3>4
  <2>5. m1.in[Top] = f1
    BY <1>1, <1>7, <2>1, Small
  <2> QED
    BY <2>4, <2>5
<1>20. \A s \in Range(seq'[Top]) : m1.vis[s]
  <2>1. Range(seq'[curr]) = Range(seq[curr]) \cup {n}
    BY <1>11, PlacingFacts
  <2>2. \A s \in Range(seq[Top]) : s \in Nodes /\ s # n
    BY <1>11, PlacingFacts, Small
  <2>3. \A s \in Range(seq'[Top]) : s = n \/ s \in Range(seq[Top])
    BY <1>1, <2>1, Small
  <2> QED
    BY <1>7, <1>14, <2>2, <2>3
<1>21. ~Closed(curr)' => facts' = AtEnd(m1, curr, f0)'
  <2>1. seq'[curr] # <<>> /\ Last(seq'[curr]) = n
    BY <1>9, <1>10, <1>11 DEF Placing, Inserted
  <2> QED
    BY <1>1, <1>13, <2>1 DEF Closed, AtEnd
<1>22. Before(curr)' = f0
  BY <1>1, <1>2, <1>5, <1>7, <1>15, Small DEF Before, AddLocals
<1>23. ASSUME curr = Body
       PROVE  /\ pre' = AtEnd(m1, Top, m1.in[Top])' /\ m1.in[Body] = pre'
              /\ Chain(m1, seq[Body], AddLocals(pre))' /\ Recorded(m1, Range(seq[Body]))'
  <2>1. /\ pre = AtEnd(m, Top, m.in[Top]) /\ m.in[Body] = pre
        /\ Chain(m, seq[Body], AddLocals(pre)) /\ Recorded(m, Range(seq[Body]))
    BY <1>2, <1>5, <1>23, GenGives
  <2>2. m1.in[Top] = m.in[Top] /\ m1.in[Body] = m.in[Body]
    BY <1>1, <1>7, Small
  <2>3. AtEnd(m1, Top, m1.in[Top])' = AtEnd(m, Top, m.in[Top])
    <3>1. seq'[Top] = seq[Top]
      BY <1>1, <1>23, Small
    <3>2. PICK o : o = Last(seq[Top])
      OBVIOUS
    <3>3. seq[Top] # <<>> => stm'[o] = stm[o] /\ m1.in[o] = m.in[o] /\ m1.out[o] = m.out[o]
      <4>1. ASSUME seq[Top] # <<>>
            PROVE  o \in Range(seq[Top])
        BY <3>2, <4>1, AtEndFacts, Small
      <4>2. \A v \in Range(seq[Top]) : stm'[v] = stm[v] /\ v \in Nodes /\ v # n
        BY <1>11, PlacingFacts, Small
      <4> QED
        BY <1>7, <4>1, <4>2
    <3>4. seq[Top] # <<>> => BehindOf(m1, o)' = BehindOf(m, o)
      BY <3>3 DEF BehindOf, IsCtrl
    <3> QED
      BY <2>2, <3>1, <3>2, <3>4 DEF AtEnd
  <2>4. f0 = AddLocals(pre) /\ AddLocals(pre)' = f0
    BY <1>1, <1>2, <1>15, <1>23, Small DEF Before, AddLocals, WithLocals
  <2>5. Chain(m1, seq[Body], f0)'
    <3>1. Body = curr => Fits(m, m1, n, seq[curr], k, f0)
      BY <1>16
    <3>2. Chain(m, seq[Body], f0) /\ Body \in Blocks
      BY <2>1, <2>4, Small
    <3>3. Beyond(n, m, m1)
      BY <1>7 DEF Beyond
    <3> QED
      BY <1>11, <3>1, <3>2, <3>3, ChainPlacing
  <2>6. Recorded(m1, Range(seq[Body]))'
    BY <1>7, <1>11, <1>12, <2>1, Small, RecordedPlacing DEF Beyond
  <2> QED
    BY <1>2, <2>1, <2>2, <2>3, <2>4, <2>5, <2>6
<1>24. ASSUME NEW e \in edges'
       PROVE  EdgeSound(e)'
  <2>1. CASE e \notin edges
    BY <2>1 DEF EdgeSound
  <2>2. CASE e \in edges /\ IsGoto(e.src)'
    <3>1. e.src \in Nodes /\ e.src # n
      BY <1>3, <1>4, <2>2, EdgesTyped DEF Types
    <3>2. IsGoto(e.src)
      BY <1>11, <2>2, <3>1 DEF Placing, IsGoto
    <3>3. e.src \in Placed(P0) /\ e.dest \in Nodes /\ e.dest # n
      BY <1>3, <1>4, <2>2, <3>2, GotoEdge
    <3>4. EdgeSound(e)
      BY <1>2, <2>2, GenGives
    <3>5. CASE e.back
      BY <3>2, <3>4, <3>5 DEF EdgeSound
    <3>6. CASE ~e.back
      <4>1. Covered(m, e) /\ (For \notin Range(seq[Top]) => e.src \in Range(seq[Top]))
        BY <1>5, <3>2, <3>4, <3>6 DEF EdgeSound
      <4>2. Covered(m1, e)
        BY <1>7, <3>1, <3>3, <4>1 DEF Covered
      <4>3. For \notin Range(seq'[Top]) => e.src \in Range(seq'[Top])
        BY <4>1, Small, AddFacts
      <4>4. curr = Top => e.src \notin Contents(P0, Last(seq[Top]))'
        BY <1>1, <1>9, <3>1, AppendRange DEF Contents
      <4> QED
        BY <1>1, <1>5, <3>6, <4>2, <4>3, <4>4 DEF EdgeSound, Covered
    <3> QED
      BY <3>5, <3>6
  <2>3. CASE ~IsGoto(e.src)'
    BY <2>3 DEF EdgeSound
  <2> QED
    BY <2>1, <2>2, <2>3
<1>25. GenInv'
  BY <1>1, <1>5, <1>18, <1>19, <1>20, <1>21, <1>22, <1>23, <1>24 DEF GenInv, Before, EdgeSound
<1> QED
  BY <1>2, <1>25 DEF Sound, ReadyInv, ExecInv

LEMMA AddedSound ==
  ASSUME Structure, Structure', Types, Types', Sound,
         \/ \E st \in Assigns : MakeAssign(st)
         \/ \E p \in Derefs : MakeDeref(p)
         \/ MakeReturn \/ MakeBreak \/ MakeContinue
         \/ \E d \in Nodes : MakeGotoBack(d)
  PROVE  Sound'
<1>1. PICK f, g, n : f = facts /\ g = facts' /\ n = made + 1
  OBVIOUS
<1>2. CASE \E st \in Assigns : MakeAssign(st)
  <2>1. PICK st \in Assigns : MakeAssign(st)
    BY <1>2
  <2>2. Adding /\ Add(st) /\ UNCHANGED <<edges, breaks, need>>
    BY <2>1 DEF MakeAssign
  <2>3. st.k \in {"value", "copy"}
    BY FixpointConstantsOK
  <2>4. stm'[n] = st
    BY <1>1, <2>2, AddFacts
  <2>5. g = Transfer(n, f)'
    BY <1>1, <2>1, <2>3, <2>4, Zenon DEF MakeAssign, Transfer
  <2>6. Valid(n, f)' /\ st.k # "for"
    BY <2>3, <2>4 DEF Valid
  <2> QED
    BY <1>1, <2>2, <2>5, <2>6, AddSound
<1>3. CASE \E p \in Derefs : MakeDeref(p)
  BY <1>1, <1>3, AddFacts, AddSound DEF MakeDeref, Transfer, Valid
<1>4. ASSUME NEW st, Adding, Add(st), st.k \in {"return", "break", "continue", "goto"}, facts' = facts,
             edges \subseteq edges', need \subseteq need', curr = Top => breaks' = breaks,
             \A e \in edges' :
               e \in edges \/ ((curr = Top => e.dest # Body) /\ (IsGoto(e.src)' => e.back /\ Top \in need'))
      PROVE  Sound'
  BY <1>4, AddFacts, AddSound DEF Transfer, Valid
<1>5. CASE MakeReturn
  BY <1>4, <1>5 DEF MakeReturn, NoStm
<1>6. CASE MakeBreak
  BY <1>4, <1>6, Small DEF MakeBreak, NoStm
<1>7. CASE MakeContinue
  BY <1>4, <1>7, Small, AddFacts DEF MakeContinue, NoStm, Edge, IsGoto
<1>8. CASE \E d \in Nodes : MakeGotoBack(d)
  <2>1. PICK d \in Nodes : MakeGotoBack(d)
    BY <1>8
  <2>2. PICK st : st = [NoStm EXCEPT !.k = "goto", !.to = d]
    OBVIOUS
  <2>3. /\ Adding /\ Add(st) /\ UNCHANGED <<facts, breaks>> /\ st.k = "goto" /\ need' = need \cup {Top}
        /\ edges' = edges \cup {Edge(made + 1, d, FALSE, TRUE)} /\ d \in Range(seq[Top])
    BY <2>1, <2>2 DEF MakeGotoBack, NoStm
  <2>4. d # Body
    BY <2>3, PlacedFacts, ProgramFields, Small DEF Structure
  <2>5. \A e \in edges' : e \in edges \/ ((curr = Top => e.dest # Body) /\ (IsGoto(e.src)' => e.back /\ Top \in need'))
    BY <2>3, <2>4 DEF Edge
  <2> QED
    BY <1>4, <2>3, <2>5
<1> QED
  BY <1>2, <1>3, <1>5, <1>6, <1>7, <1>8

\* The body of the loop begins with what is known before the loop.
LEMMA OpenForSound ==
  ASSUME Structure, Structure', Types, Sound, NEW loc \in BOOLEAN, OpenFor(loc)
  PROVE  Sound'
<1>1. /\ mode = "generate" /\ curr = Top /\ For \notin Range(seq[Top]) /\ curr' = Body /\ locals' = loc /\ pre' = facts
      /\ facts' = WithLocals(facts, loc) /\ maps' = [maps EXCEPT !.in[Body] = facts] /\ ~Closed(Top)
      /\ mode' = mode /\ stm' = stm /\ seq' = seq /\ edges' = edges /\ breaks' = breaks /\ need' = need
  BY DEF OpenFor, Adding
<1>2. PICK m, m1, f : m = maps /\ m1 = maps' /\ f = facts
  OBVIOUS
<1>3. WellFormed(P0) /\ P0.seq = seq /\ P0.edges = edges /\ Fixed /\ m \in Maps /\ f \in Facts
  BY <1>2, ProgramFields DEF Structure, Types, TypedMaps
<1>4. m1.in[Body] = f /\ m1.out = m.out /\ m1.vis = m.vis /\ \A n \in Nodes : n # Body => m1.in[n] = m.in[n]
  BY <1>1, <1>2, <1>3, Small DEF Maps
<1>5. seq[Body] = <<>> /\ Range(seq[Body]) = {}
  BY <1>1, Small DEF Structure, Range
<1>6. GenInv
  BY DEF Sound
<1>7. Kept(m, P0) /\ Chain(m, seq[Top], m.in[Top]) /\ f = AtEnd(m, Top, m.in[Top])
  BY <1>1, <1>2, <1>6, GenGives DEF Before
<1>8. seq[Top] \in Seq(Nodes) /\ \A s \in Range(seq[Top]) : s \in Nodes /\ s # Body
  BY <1>3, PlacedFacts, Small
<1>9. \A s \in Range(seq[Top]) : stm'[s] = stm[s] /\ m1.in[s] = m.in[s] /\ m1.out[s] = m.out[s]
  BY <1>1, <1>4, <1>8
<1>10. Kept(m1, P0)'
  BY <1>1, <1>7, <1>9, RecordedSame DEF Kept, Recorded, P0
<1>11. Chain(m1, seq[Top], m1.in[Top])'
  BY <1>1, <1>4, <1>7, <1>8, Small, ChainFrame, Zenon
<1>12. \A s \in Range(seq'[Top]) : m1.vis[s]
  BY <1>1, <1>2, <1>4, <1>6, GenGives
<1>13. facts' = AtEnd(m1, Body, AddLocals(pre))'
  BY <1>1, <1>5 DEF AtEnd, AddLocals
<1>14. f = AtEnd(m1, Top, m1.in[Top])'
  <2>1. PICK o : o = Last(seq[Top])
    OBVIOUS
  <2>2. seq[Top] # <<>> => o \in Range(seq[Top])
    BY <2>1, AtEndFacts, Small
  <2>3. seq[Top] # <<>> => BehindOf(m1, o)' = BehindOf(m, o)
    BY <1>9, <2>2 DEF BehindOf, IsCtrl
  <2>4. m1.in[Top] = m.in[Top]
    BY <1>4, Small
  <2> QED
    BY <1>1, <1>7, <2>1, <2>3, <2>4 DEF AtEnd
<1>15. Chain(m1, seq[Body], AddLocals(pre))' /\ Recorded(m1, Range(seq[Body]))'
  BY <1>1, <1>5 DEF Chain, Recorded
<1>16. ASSUME NEW e \in edges'
       PROVE  EdgeSound(e)'
  BY <1>1, <1>3, <1>6, GotoEdge, GenGives DEF IsGoto, EdgeSound, Covered
<1>17. GenInv'
  <2>1. Kept(maps, P0)' /\ Chain(maps, seq[Top], maps.in[Top])' /\ \A s \in Range(seq'[Top]) : maps'.vis[s]
    BY <1>2, <1>10, <1>11, <1>12
  <2>2. facts' = AtEnd(maps, curr, Before(curr))'
    BY <1>1, <1>2, <1>13, Small DEF Before
  <2>3. /\ pre' = AtEnd(maps, Top, maps.in[Top])' /\ maps'.in[Body] = pre'
        /\ Chain(maps, seq[Body], AddLocals(pre))' /\ Recorded(maps, Range(seq[Body]))'
    BY <1>1, <1>2, <1>4, <1>14, <1>15
  <2> QED
    BY <1>16, <2>1, <2>2, <2>3 DEF GenInv, Before, EdgeSound
<1> QED
  BY <1>1, <1>17 DEF Sound, ReadyInv, ExecInv

\* The facts at the end of the body are what is behind its last statement.
LEMMA EndingChain ==
  ASSUME Structure, Types, GenInv, mode = "generate", curr = Body, NEW m, NEW o, Ending(m, Body, o),
         o = OutOfScope(facts, Local), NEW Q, Q.seq = seq
  PROVE  /\ m.in[Body] = pre /\ m.vis[Body] = TRUE /\ BodyChain(m, Q) /\ Recorded(m, Range(seq[Body]))
         /\ pre \in FactsOf(Top) /\ pre # NoFacts
<1>1. /\ Chain(maps, seq[Body], AddLocals(pre)) /\ Recorded(maps, Range(seq[Body])) /\ maps.in[Body] = pre
      /\ ~Closed(Body) => facts = AtEnd(maps, Body, AddLocals(pre))
  BY Small, GenGives DEF Before
<1>2. m.in = maps.in /\ m.out[Body] = o /\ m.vis[Body] = TRUE /\ \A n \in Nodes : n # Body => m.out[n] = maps.out[n]
  BY DEF Ending
<1>3. WellFormed(P0) /\ P0.seq = seq
  BY ProgramFields DEF Structure
<1>4. \A s \in Range(seq[Body]) : s \in Nodes /\ s # Body
  BY <1>3, PlacedFacts, Small
<1>5. Recorded(m, Range(seq[Body]))
  BY <1>1, <1>2, <1>4 DEF Recorded, RecordedAt
<1>6. \A s \in Range(seq[Body]) : BehindOf(m, s) = BehindOf(maps, s)
  BY <1>2, <1>4 DEF BehindOf
<1>7. seq[Body] \in Seq(Nodes) /\ (seq[Body] # <<>> => Last(seq[Body]) \in Range(seq[Body]))
  BY AtEndFacts, Small
<1>8. Chain(m, seq[Body], AddLocals(pre))
  <2>1. PICK t \in Seq(Nodes) : t = seq[Body]
    BY <1>7
  <2>2. \A j \in 1 .. Len(t) : t[j] \in Range(t)
    BY InRange
  <2>3. \A j \in 2 .. Len(t) : j - 1 \in 1 .. Len(t)
    OBVIOUS
  <2>4. \A j \in 2 .. Len(t) : BehindOf(m, t[j - 1]) = BehindOf(maps, t[j - 1])
    BY <1>6, <2>1, <2>2, <2>3
  <2> QED
    BY <1>1, <1>2, <2>1, <2>4 DEF Chain
<1>9. ASSUME seq[Body] # <<>>, stm[Last(seq[Body])].k # "return"
      PROVE  m.out[Body] = OutOfScope(BehindOf(m, Last(seq[Body])), Local)
  BY <1>1, <1>2, <1>6, <1>7, <1>9 DEF Closed, AtEnd
<1>10. BodyChain(m, Q)
  BY <1>1, <1>2, <1>8, <1>9 DEF BodyChain
<1>11. pre \in FactsOf(Top) /\ pre # NoFacts
  BY FactsSmall, Small DEF Types
<1> QED
  BY <1>1, <1>2, <1>5, <1>10, <1>11

LEMMA BodyFinished ==
  ASSUME Structure, Types, GenInv, mode = "generate", curr = Body, NEW r, r = Finished(Body),
         r.rounds <= MaxRounds
  PROVE  BodyFinal(r.maps, r.P)
<1>1. /\ WellFormed(P0) /\ Fixed /\ For \notin Range(seq[Top]) /\ P0.seq = seq /\ need \subseteq {Top}
      /\ TypedMaps(maps, P0) /\ facts \in FactsOf(Body) /\ maps.in[Body] \in FactsOf(Top)
  BY ProgramFields, Small DEF Structure, Types
<1>2. Deletable(P0, Body)
  BY <1>1, Small DEF Deletable
<1>3. PICK m, o : /\ o = OutOfScope(facts, IF Body = Body THEN Local ELSE {}) /\ o \in FactsOf(Top)
                  /\ Ending(m, Body, o) /\ FinishedDone(Body, m, r)
  BY <1>1, <1>2, FinishedTyped, Small
<1>4. TypedMaps(m, P0)
  BY <1>1, <1>3, EndingTyped, Small
<1>5. CASE EdgesIn(P0, Body, FALSE, TRUE) = {} /\ r.P = P0 /\ r.maps = m
  BY <1>1, <1>3, <1>5, BelowSelf, EndingChain, Zenon DEF BodyFinal, Enclosed
<1>6. ASSUME NEW y, NEW Q, Q = (IF Loops(Body) THEN WithSelfEdge(P0, Body) ELSE P0),
             Settled(y, Q, m, Body, maps.in[Body], Body \in need), y.r.ok,
             r.P = y.P, r.maps = y.r.maps, r.rounds = y.rounds
      PROVE  BodyFinal(r.maps, r.P)
  <2>1. WellFormed(Q) /\ Q.seq = seq /\ Left(Q, P0)
    BY <1>1, <1>2, <1>6, WithSelfEdgeOK, LeftSelf, Small
  <2>2. TypedMaps(m, Q)
    BY <1>4, <2>1, LeftTyped
  <2>3. m.in[Body] = pre /\ m.vis[Body] = TRUE /\ BodyChain(m, Q) /\ Recorded(m, Range(seq[Body]))
    BY <1>3, <2>1, EndingChain, Zenon
  <2>4. maps.in[Body] = pre /\ pre \in FactsOf(Top)
    BY <1>1, <1>3, <2>3 DEF Ending
  <2>5. BodyReady(m, Q)
    BY <2>3 DEF BodyReady
  <2>6. (Body \in need) \in BOOLEAN
    OBVIOUS
  <2>7. PICK once \in BOOLEAN : once = (Body \in need)
    BY <2>6
  <2>8. Settled(y, Q, m, Body, pre, once) /\ pre \in FactsOf(Top) /\ y.rounds <= MaxRounds
    BY <1>6, <2>7, <2>4
  <2>9. Recorded(m, Range(Q.seq[Body]))
    BY <2>1, <2>3
  <2>10. PICK m1 : BodySearched(m1, y.P, pre, y.r)
    BY <1>1, <1>6, <2>1, <2>2, <2>5, <2>8, <2>9, SettleBody
  <2> QED
    BY <1>6, <2>10 DEF BodySearched, BodyFinal
<1> QED
  BY <1>3, <1>5, <1>6, Zenon DEF FinishedDone

\* What the loop leaves is what its body and its breaks leave.
LEMMA ClosedLoop ==
  ASSUME Fixed, NEW R, WellFormed(R), NEW y, TypedMaps(y, R), y.in[Body] \in FactsOf(Top), pre \in FactsOf(Top),
         BodyFinal(y, R), NEW o, NEW Q, NEW m, LoopClosed(R, y, o, Q, m)
  PROVE  Recorded(m, Range(Q.seq[Body])) /\ BodyStable(m, Q) /\ LoopKept(m, Q)
<1>1. /\ o = MergeJumps(IF BodyMustReturn(R) THEN pre ELSE y.in[Body], {y.out[s] : s \in R.breaks})
       /\ Q.seq[Body] = R.seq[Body] /\ Q.breaks = R.breaks
       /\ EdgesIn(Q, Body, FALSE, TRUE) = EdgesIn(R, Body, FALSE, TRUE)
       /\ m.in[For] = pre /\ m.out[For] = o
       /\ \A n \in Nodes : n # For => m.in[n] = y.in[n] /\ m.out[n] = y.out[n]
  BY Zenon DEF LoopClosed
<1>2. PICK g : g = IF BodyMustReturn(R) THEN pre ELSE y.in[Body]
  OBVIOUS
<1>3. PICK G : G = {y.out[s] : s \in R.breaks}
  OBVIOUS
<1>4. Recorded(y, Range(R.seq[Body])) /\ Below(pre, y.in[Body]) /\ BodyChain(y, R) /\ Enclosed(y, R, y.in[Body])
  BY DEF BodyFinal
<1>5. \A n \in {Body} \cup Range(R.seq[Body]) : m.in[n] = y.in[n] /\ m.out[n] = y.out[n]
  BY <1>1, PlacedFacts, Small
<1>6. PICK f : f = y.in[Body]
  OBVIOUS
<1>7. Recorded(m, Range(R.seq[Body])) /\ BodyChain(m, R) /\ Enclosed(m, R, f)
  BY <1>4, <1>5, <1>6, BodyFrame
<1>8. m.in[Body] = f
  BY <1>5, <1>6
<1>9. BodyStable(m, Q)
  BY <1>7, <1>8, <1>1 DEF BodyStable, BodyChain, Enclosed
<1>10. G \subseteq Known(Top)
  BY <1>3, Small DEF WellFormed, TypedMaps, TypedAt, OutBlock, IsJump
<1>11. g \in FactsOf(Top)
  BY <1>2
<1>12. o \in FactsOf(Top) /\ Below(g, o) /\ \A h \in G : \A p \in DOMAIN o : p \in DOMAIN h => h[p] \subseteq o[p]
  <2>1. PICK x : x = MergeJumps(g, G)
    OBVIOUS
  <2>2. x = o
    BY <1>1, <1>2, <1>3, <2>1, Zenon
  <2>3. x \in FactsOf(Top) /\ Below(g, x) /\ \A h \in G : \A p \in DOMAIN x : p \in DOMAIN h => h[p] \subseteq x[p]
    BY ONLY <1>10, <1>11, <2>1, MergeJumpsTyped, Small
  <2> QED
    BY <2>2, <2>3
<1>13. Below(pre, o)
  BY <1>4, <1>12, <1>2, BelowAgain, BelowSelf
<1>14. BodyMustReturn(Q) <=> BodyMustReturn(R)
  BY <1>1 DEF BodyMustReturn, MustReturn
<1>15. ASSUME NEW s \in R.breaks, m.out[s] # NoFacts
       PROVE  Below(m.out[s], o)
  <2>1. m.out[s] = y.out[s]
    BY <1>5, <1>15 DEF WellFormed
  <2>2. PICK h : h = y.out[s]
    OBVIOUS
  <2>3. h \in Known(Top) /\ h # NoFacts /\ \A p \in DOMAIN o : p \in DOMAIN h => h[p] \subseteq o[p]
    BY <1>10, <1>12, <1>15, <1>3, <2>1, <2>2
  <2>4. Below(h, o)
    BY <1>12, <2>3, KnownBelow
  <2> QED
    BY <2>1, <2>2, <2>4
<1>16. LoopKept(m, Q)
  BY <1>1, <1>2, <1>6, <1>8, <1>12, <1>13, <1>14, <1>15, Zenon DEF BodyFinal, LoopKept
<1> QED
  BY <1>7, <1>9, <1>16, <1>1

LEMMA CloseForSound ==
  ASSUME Structure, Structure', Types, Sound, CloseFor
  PROVE  Sound'
<1>1. PICK r : /\ r = Finished(Body)
               /\ LET g == IF BodyMustReturn(r.P) THEN pre ELSE r.maps.in[Body]
                      out == MergeJumps(g, {r.maps.out[s] : s \in r.P.breaks})
                  IN  /\ seq' = [r.P.seq EXCEPT ![Top] = Append(@, For)]
                      /\ edges' = r.P.edges \cup {Edge(s, For, TRUE, FALSE) : s \in r.P.breaks}
                      /\ breaks' = r.P.breaks
                      /\ maps' = [r.maps EXCEPT !.in[For] = pre, !.out[For] = out, !.vis[For] = TRUE]
                      /\ facts' = out
                      /\ mode' = Outcome(mode, r)
  BY Zenon DEF CloseFor
<1>2. /\ mode = "generate" /\ curr = Body /\ curr' = Top /\ GenInv
      /\ stm' = stm /\ locals' = locals /\ need' = need
  BY DEF CloseFor, Sound
<1>3. /\ WellFormed(P0) /\ Fixed /\ For \notin Range(seq[Top]) /\ P0.seq = seq /\ P0.edges = edges
      /\ TypedMaps(maps, P0) /\ pre \in FactsOf(Top) /\ facts \in FactsOf(Body) /\ maps.in[Body] \in FactsOf(Top)
      /\ ~Closed(Top)
  BY <1>2, ProgramFields DEF Structure, Types
<1>4. Deletable(P0, Body)
  BY <1>3, Small DEF Deletable
<1>5. PICK R, y : R = r.P /\ y = r.maps
  OBVIOUS
<1>6. /\ TypedMaps(y, R) /\ y.in[Body] \in FactsOf(Top) /\ r.rounds \in Nat
      /\ Tame(maps, y, Whole(P0, Body)) /\ WellFormed(R) /\ Left(R, P0) /\ Beside(R, P0)
  BY <1>1, <1>3, <1>4, <1>5, FinishedTyped, FinishedOK, Small
<1>7. PICK g : g = IF BodyMustReturn(R) THEN pre ELSE y.in[Body]
  OBVIOUS
<1>8. PICK G : G = {y.out[s] : s \in R.breaks}
  OBVIOUS
<1>9. PICK o : o = MergeJumps(g, G)
  OBVIOUS
<1>10. /\ seq' = [R.seq EXCEPT ![Top] = Append(@, For)]
       /\ edges' = R.edges \cup {Edge(s, For, TRUE, FALSE) : s \in R.breaks} /\ breaks' = R.breaks
       /\ maps' = [y EXCEPT !.in[For] = pre, !.out[For] = o, !.vis[For] = TRUE]
       /\ facts' = o /\ mode' = Outcome(mode, r)
  BY <1>1, <1>5, <1>7, <1>8, <1>9, Zenon
<1>11. CASE ~(r.rounds <= MaxRounds)
  <2>1. mode' = "aborted"
    BY <1>6, <1>10, <1>11, FixpointConstantsOK DEF Outcome
  <2> QED
    BY <2>1 DEF Sound, GenInv, ReadyInv, ExecInv
<1>12. CASE r.rounds <= MaxRounds
  <2>1. BodyFinal(y, R)
    BY <1>1, <1>2, <1>5, <1>12, BodyFinished
  <2>2. PICK m, m1 : m = maps /\ m1 = maps'
    OBVIOUS
  <2>3. m1.in[For] = pre /\ m1.out[For] = o /\ m1.vis[For] = TRUE
        /\ \A n \in Nodes : n # For => m1.in[n] = y.in[n] /\ m1.out[n] = y.out[n] /\ m1.vis[n] = y.vis[n]
    BY <1>6, <1>10, <2>2, Small DEF TypedMaps, Maps
  <2>4. PICK Q : Q = P0'
    OBVIOUS
  <2>5. PICK t \in Seq(Nodes) : t = seq[Top]
    BY AtEndFacts, Small
  <2>6. PICK u : u = Append(t, For)
    OBVIOUS
  <2>7. R.seq[Top] = t /\ Range(R.seq[Body]) \subseteq Range(seq[Body])
    BY <1>3, <1>6, <2>5, Small DEF Beside, Left
  <2>8. /\ Q.seq = seq' /\ Q.edges = edges' /\ Q.breaks = breaks' /\ seq'[Top] = u
        /\ Q.seq[Top] = u /\ Q.seq[Body] = R.seq[Body]
    BY <1>6, <1>10, <2>4, <2>6, <2>7, Small DEF WellFormed, Program, P0
  <2>9. PICK k \in Nat : k = Len(t)
    OBVIOUS
  <2>10. Inserted(u, t, k, For)
    BY <2>5, <2>6, <2>9, AppendInserted, Small
  <2>11. Range(u) = Range(t) \cup {For} /\ Last(u) = For /\ u # <<>>
    BY <2>9, <2>10 DEF Inserted
  <2>12. \A s \in Range(t) : s \in Nodes /\ s # For /\ s \notin Whole(P0, Body) /\ m.vis[s] /\ s \notin Range(seq[Body])
    BY <1>2, <1>3, <2>2, <2>5, Small, PlacedFacts, GenGives DEF WellFormed, Whole
  <2>13. \A s \in Range(t) \cup {Top} : m1.in[s] = m.in[s] /\ m1.out[s] = m.out[s]
    <3>1. Top \notin Whole(P0, Body)
      BY <1>3, PlacedFacts, Small DEF Whole
    <3> QED
      BY <1>6, <2>2, <2>3, <2>12, <3>1, Small DEF Tame
  <2>14. /\ Kept(m, P0) /\ Chain(m, t, m.in[Top]) /\ pre = AtEnd(m, Top, m.in[Top])
         /\ \A e \in edges : EdgeSound(e)
    BY <1>2, <2>2, <2>5, GenGives
  <2>15. pre # NoFacts
    BY <1>3, FactsSmall, Small
  <2>16. EdgesIn(Q, Body, FALSE, TRUE) = EdgesIn(R, Body, FALSE, TRUE)
    BY <1>10, <2>8 DEF EdgesIn, Edge
  <2>17. Kept(m1, Q)
    <3>1. Recorded(m1, Range(Q.seq[Body])) /\ BodyStable(m1, Q) /\ LoopKept(m1, Q)
      <4>1. Q.breaks = R.breaks /\ Q.seq[Body] = R.seq[Body]
        BY <1>10, <2>8
      <4>2. LoopClosed(R, y, o, Q, m1)
        BY <1>7, <1>8, <1>9, <2>3, <2>16, <4>1 DEF LoopClosed
      <4> QED
        BY <1>3, <1>6, <2>1, <4>2, ClosedLoop
    <3>2. Recorded(m1, Range(Q.seq[Top]))
      BY <1>3, <2>5, <2>8, <2>11, <2>13, <2>14 DEF Kept, Recorded, RecordedAt
    <3> QED
      BY <3>1, <3>2 DEF Kept
  <2>18. Kept(m1, Q)'
    BY <1>2, <2>17, KeptSameProgram
  <2>19. Chain(m1, u, m1.in[Top])'
    <3>1. PICK f : f = m.in[Top]
      OBVIOUS
    <3>2. k = 0 => Below(f, m1.in[For])
      <4>1. k = 0 => pre = f
        BY <2>5, <2>9, <2>14, <3>1, AtEndFacts, Small
      <4> QED
        BY <2>3, <4>1, BelowSelf
    <3>3. k >= 1 => Below(BehindOf(m, t[k]), m1.in[For])
      BY <2>3, <2>5, <2>9, <2>14, Small, BelowSelf, AtEndFacts
    <3>4. ~(k < Len(t)) /\ k \in 0 .. Len(t)
      BY <2>9
    <3>5. Chain(m, t, f)
      BY <2>14, <3>1
    <3>6. \A s \in Range(t) : stm'[s] = stm[s] /\ m1.in[s] = m.in[s] /\ m1.out[s] = m.out[s]
      BY <1>2, <2>13
    <3>7. m1.in[For] # NoFacts
      BY <2>3, <2>15
    <3>8. Chain(m1, u, f)'
      BY <2>10, <3>2, <3>3, <3>4, <3>5, <3>6, <3>7, ChainInsert
    <3>9. m1.in[Top] = f
      BY <2>13, <3>1
    <3> QED
      BY <3>8, <3>9
  <2>20. \A s \in Range(u) : m1.vis[s]
    BY <1>6, <2>2, <2>3, <2>11, <2>12 DEF Tame
  <2>21. facts' = AtEnd(m1, Top, m1.in[Top])'
    BY <1>2, <1>3, <1>10, <2>3, <2>8, <2>11, Zenon DEF Fixed, BehindOf, IsCtrl, AtEnd
  <2>22. ASSUME NEW e \in edges'
         PROVE  EdgeSound(e)'
    <3>1. ASSUME IsGoto(e.src)'
          PROVE  e \in edges /\ IsGoto(e.src)
      BY <1>2, <1>3, <1>6, <1>10, <3>1 DEF IsGoto, WellFormed, Edge, Fixed, Beside
    <3>2. ASSUME IsGoto(e.src)', ~e.back
          PROVE  Covered(m1, e) /\ e.src \notin Contents(Q, For)
      <4>1. e \in edges /\ IsGoto(e.src)
        BY <3>1, <3>2
      <4>2. EdgeSound(e)
        BY <2>14, <4>1
      <4>3. Covered(m, e) /\ e.src \in Range(t)
        BY <1>3, <2>2, <2>5, <3>2, <4>1, <4>2 DEF EdgeSound
      <4>4. e.dest \in Range(t)
        BY <1>3, <2>5, <4>1, GotoEdge
      <4>5. Covered(m1, e)
        BY <2>13, <4>3, <4>4 DEF Covered
      <4>6. e.src \notin Range(Q.seq[Body]) /\ e.src # For /\ e.src # Body
        BY <1>3, <2>5, <2>7, <2>8, <2>12, <4>3, PlacedFacts, Small
      <4>7. Contents(Q, For) = {For, Body} \cup Range(Q.seq[Body])
        BY Small DEF Contents
      <4> QED
        BY <4>5, <4>6, <4>7
    <3>3. e \in edges /\ IsGoto(e.src) /\ e.back => Top \in need
      BY <2>14 DEF EdgeSound
    <3>4. For \in Range(seq'[Top]) /\ Last(seq'[Top]) = For
      BY <2>8, <2>11
    <3> QED
      BY <1>2, <2>2, <2>4, <3>1, <3>2, <3>3, <3>4 DEF EdgeSound, Covered
  <2>23. GenInv'
    BY <1>2, <2>2, <2>4, <2>8, <2>18, <2>19, <2>20, <2>21, <2>22, Small DEF GenInv, EdgeSound
  <2>24. mode' \notin {"ready", "execute"}
    BY <1>2, <1>10 DEF Outcome
  <2> QED
    BY <2>23, <2>24 DEF Sound, ReadyInv, ExecInv
<1> QED
  BY <1>11, <1>12

----------------------------------------------------------------------------
(* A goto to the last statement, which is analysed again *)

LEMMA SimpleForward ==
  ASSUME Structure, Types, GenInv, mode = "generate", NEW s \in Range(seq[Top]), s # For,
         NEW g \in FactsOf(Top), NEW v, v = VisitStm(maps, P0, s, g), v.ok,
         NEW o, o = FactOut(s, v.facts), NEW m, Written(v.maps, s, g, o, m)
  PROVE  Advanced(m, s, g)
<1>1. /\ WellFormed(P0) /\ Fixed /\ P0.seq = seq /\ TypedMaps(maps, P0) /\ maps \in Maps
      /\ Kept(maps, P0) /\ maps.vis[s]
  BY ProgramFields, GenGives DEF Structure, Types, TypedMaps
<1>2. s \in Placed(P0) /\ s \in Nodes /\ s # Body /\ s \notin Range(seq[Body]) /\ s # Top
  BY <1>1, PlacedFacts, Small DEF WellFormed
<1>3. Contents(P0, s) = {s}
  BY <1>1, <1>2, SimpleContents
<1>4. v = VisitSimple(maps, s, g)
  BY DEF VisitStm
<1>5. VisitedSimple(maps, s, g, v)
  BY <1>1, <1>2, <1>4, VisitSimpleFrame
<1>6. /\ Valid(s, g) /\ v.facts = Transfer(s, g) /\ v.maps.vis = [maps.vis EXCEPT ![s] = TRUE]
      /\ \A n \in Nodes : v.maps.in[n] = maps.in[n] /\ v.maps.out[n] = maps.out[n]
  BY <1>1, <1>5 DEF Shrinks, VisitedSimple
<1>7. m.vis = v.maps.vis /\ m.in[s] = g /\ m.out[s] = o
      /\ \A n \in Nodes : n # s => m.in[n] = maps.in[n] /\ m.out[n] = maps.out[n]
  BY <1>6 DEF Written
<1>8. RecordedAt(m, s)
  BY <1>6, <1>7, VisitRecorded
<1>9. o # NoFacts
  <2>1. StmOK(s, Top)
    BY <1>1, PlacedFacts, Small
  <2>2. v.facts \in FactsOf(Top)
    BY <1>6, <2>1, TransferTyped, Small
  <2>3. o \in FactsOf(OutBlock(s, Top))
    BY <2>2, FactOutTyped, Small
  <2>4. OutBlock(s, Top) = Top
    BY DEF OutBlock
  <2> QED
    BY <2>3, <2>4, FactsSmall, Small
<1>10. \A n \in Nodes : maps.vis[n] => m.vis[n]
  BY <1>6, <1>7
<1>11. PICK X : X = {s}
  OBVIOUS
<1>12. Orderly(maps, m, P0, X)
  BY <1>7, <1>9, <1>10, <1>11 DEF Orderly
<1>13. /\ For \notin X /\ Body \notin X /\ X \cap Range(P0.seq[Body]) = {}
       /\ \A n \in X \cap Range(P0.seq[Top]) : RecordedAt(m, n)
  BY <1>1, <1>2, <1>8, <1>11
<1>14. Kept(m, P0)
  BY <1>1, <1>12, <1>13, KeptStays
<1>15. \A n \in Placed(P0) \cup {Top} : n \in Nodes
  BY <1>1, PlacedFacts, Small
<1> QED
  BY <1>3, <1>7, <1>10, <1>14, <1>15 DEF Advanced

LEMMA LoopForward ==
  ASSUME Structure, Types, GenInv, mode = "generate", For \in Range(seq[Top]),
         NEW g \in FactsOf(Top), NEW v, v = VisitStm(maps, P0, For, g), v.ok, v.rounds <= MaxRounds,
         NEW o, o = FactOut(For, v.facts), NEW m, Written(v.maps, For, g, o, m)
  PROVE  Advanced(m, For, g)
<1>1. /\ WellFormed(P0) /\ Fixed /\ P0.seq = seq /\ TypedMaps(maps, P0) /\ Kept(maps, P0)
      /\ \A s \in Range(seq[Top]) : maps.vis[s]
  BY ProgramFields, GenGives DEF Structure, Types
<1>2. PICK x : x = FixedPointBody(maps, P0, g, FALSE) /\ LoopVisited(maps, P0, g, x, v)
  BY <1>1, VisitLoopTyped
<1>3. x.ok /\ x.rounds <= MaxRounds /\ Tame(maps, v.maps, Contents(P0, For))
  BY <1>2 DEF LoopVisited
<1>4. o = v.facts
  BY <1>1 DEF Fixed, FactOut
<1>5. m.vis = v.maps.vis /\ m.in[For] = g /\ m.out[For] = v.facts
      /\ \A n \in Nodes : n # For => m.in[n] = v.maps.in[n] /\ m.out[n] = v.maps.out[n]
  BY <1>4 DEF Written
<1>6. LoopAfter(maps, P0, g, m)
  <2>1. \A n \in Nodes : v.maps.vis[n] => m.vis[n]
    BY <1>5
  <2>2. For \in Range(P0.seq[Top])
    BY <1>1
  <2> QED
    BY <1>1, <1>2, <1>3, <1>5, <2>1, <2>2, LoopVisit
<1>7. Kept(m, P0) /\ \A n \in Nodes : maps.vis[n] => m.vis[n]
  BY <1>3, <1>5, <1>6 DEF LoopAfter, Tame
<1>8. ASSUME NEW n \in Placed(P0) \cup {Top}, n \notin Contents(P0, For)
      PROVE  m.in[n] = maps.in[n] /\ m.out[n] = maps.out[n]
  <2>1. Contents(P0, For) = {For, Body} \cup Range(seq[Body])
    BY <1>1, Small DEF Contents
  <2>2. n \in Nodes /\ n # For /\ (n = Top \/ maps.vis[n])
    BY <1>1, <1>8, <2>1, PlacedFacts, Small DEF Placed
  <2>3. v.maps.in[n] = maps.in[n] /\ v.maps.out[n] = maps.out[n]
    BY <1>3, <1>8, <2>2, Small DEF Tame
  <2> QED
    BY <1>5, <2>2, <2>3
<1> QED
  BY <1>5, <1>7, <1>8 DEF Advanced

\* What leads to s is still part of what is before it.
LEMMA AdvancedSound ==
  ASSUME Structure, Types, GenInv, mode = "generate", curr = Top, seq[Top] # <<>>, NEW s, s = Last(seq[Top]),
         NEW g, g # NoFacts, Below(maps.in[s], g), NEW m, Advanced(m, s, g)
  PROVE  /\ Chain(m, seq[Top], m.in[Top]) /\ m.in[Top] = maps.in[Top]
         /\ \A v \in Range(seq[Top]) : v # s => m.in[v] = maps.in[v] /\ m.out[v] = maps.out[v]
         /\ \A e \in edges : IsGoto(e.src) /\ ~e.back => Covered(m, e)
<1>1. /\ WellFormed(P0) /\ Fixed /\ P0.seq = seq /\ P0.edges = edges /\ Chain(maps, seq[Top], maps.in[Top])
      /\ \A e \in edges : EdgeSound(e)
  BY ProgramFields, GenGives DEF Structure
<1>2. PICK t \in Seq(Nodes) : t = seq[Top]
  BY AtEndFacts, Small
<1>3. PICK N \in Nat : N = Len(t)
  OBVIOUS
<1>4. N >= 1 /\ s = t[N] /\ N \in 1 .. Len(t) /\ s \in Range(seq[Top])
  BY <1>2, <1>3, AtEndFacts, Small
<1>5. m.in[s] = g /\ \A v \in Placed(P0) \cup {Top} : v \notin Contents(P0, s) => m.in[v] = maps.in[v] /\ m.out[v] = maps.out[v]
  BY DEF Advanced
<1>6. ASSUME NEW j \in 1 .. Len(t), j # N
      PROVE  m.in[t[j]] = maps.in[t[j]] /\ m.out[t[j]] = maps.out[t[j]]
  <2>1. t[j] \notin Contents(P0, s)
    BY <1>1, <1>2, <1>3, <1>4, <1>6, ContentsApart, Small
  <2>2. t[j] \in Placed(P0)
    BY <1>1, <1>2, <1>6, InRange, PlacedFacts, Small
  <2> QED
    BY <1>5, <2>1, <2>2
<1>7. ASSUME NEW v \in Range(seq[Top]), v # s
      PROVE  m.in[v] = maps.in[v] /\ m.out[v] = maps.out[v]
  BY <1>2, <1>4, <1>6, <1>7, InRange, SMTT(30)
<1>8. m.in[Top] = maps.in[Top]
  BY <1>1, <1>4, <1>5, ContentsSmall
<1>9. PICK f : f = maps.in[Top]
  OBVIOUS
<1>10. Chain(maps, t, f)
  BY <1>1, <1>2, <1>9
<1>11. \A j \in 1 .. Len(t) : m.in[t[j]] # NoFacts /\ Below(maps.in[t[j]], m.in[t[j]])
  BY <1>4, <1>5, <1>6, <1>10, BelowSelf DEF Chain
<1>12. t # <<>> => Below(f, m.in[t[1]])
  BY <1>10, <1>11, BelowAgain DEF Chain
<1>13. ASSUME NEW j \in 2 .. Len(t)
       PROVE  Below(BehindOf(m, t[j - 1]), m.in[t[j]])
  BY <1>3, <1>6, <1>10, <1>11, BelowAgain DEF BehindOf, Chain
<1>14. Chain(m, t, f)
  BY <1>11, <1>12, <1>13 DEF Chain
<1>15. ASSUME NEW e \in edges, IsGoto(e.src), ~e.back
       PROVE  Covered(m, e)
  <2>1. Covered(maps, e) /\ e.src \notin Contents(P0, s)
    BY <1>1, <1>15 DEF EdgeSound
  <2>2. e.src \in Placed(P0) /\ e.dest \in Range(seq[Top])
    BY <1>1, <1>15, GotoEdge
  <2>3. m.out[e.src] = maps.out[e.src]
    BY <1>5, <2>1, <2>2
  <2>4. Below(maps.in[e.dest], m.in[e.dest])
    BY <1>2, <1>11, <2>2, InRange
  <2> QED
    BY <2>1, <2>3, <2>4, BelowAgain DEF Covered
<1> QED
  BY <1>2, <1>7, <1>8, <1>9, <1>14, <1>15

LEMMA ForwardMaps ==
  ASSUME "around" \notin Jumps, Structure, Types, GenInv, NEW other \in Nodes, MakeGotoForward(other),
         mode' # "aborted"
  PROVE  \E m, g : ForwardDone(m, g, Last(seq[Top]), made + 1, other)
<1> DEFINE n == made + 1
           s == Last(seq[Top])
           before == IF IsCtrl(other) THEN maps.in[other] ELSE maps.out[other]
           g == MergeJumps(maps.in[s], {ForDest(before)})
           new == g # maps.in[s]
<1>1. PICK r : /\ r = VisitStm(maps, P0, s, g)
               /\ LET after == IF IsCtrl(other) THEN r.maps.in[other] ELSE r.maps.out[other]
                      jump == IF new /\ other \in Contents(P0, s)
                              THEN Merge({ForDest(before), ForDest(after)}) ELSE ForDest(before)
                      m == IF new THEN [r.maps EXCEPT !.in[s] = g, !.out[s] = FactOut(s, r.facts)]
                           ELSE maps
                  IN  /\ new => r.ok
                      /\ mode' = IF new THEN Outcome(mode, r) ELSE mode
                      /\ maps' = [m EXCEPT !.in[n] = IF new THEN after ELSE before,
                                           !.out[n] = jump, !.vis[n] = TRUE]
                      /\ facts' = IF IsCtrl(s) THEN maps'.in[s] ELSE maps'.out[s]
  BY Zenon DEF MakeGotoForward
<1>2. PICK b : b = IF other \in Range(seq[Body]) THEN Body ELSE Top
  OBVIOUS
<1>3. before = BehindOf(maps, other)
  BY DEF BehindOf
<1>4. /\ Adding /\ mode = "generate" /\ made < MaxNodes /\ curr = Top /\ seq[Top] # <<>>
      /\ other \in Range(seq[Top]) \cup Range(seq[Body]) /\ other \notin Contents(P0, s)
      /\ other # s /\ stm[other].k # "return"
  BY GotoForwardProgram DEF Adding
<1>5. s = Last(seq[Top]) /\ n = made + 1
  OBVIOUS
<1> HIDE DEF n, s, before
<1>6. g = MergeJumps(maps.in[s], {ForDest(before)})
  OBVIOUS
<1> HIDE DEF g
<1>7. new <=> g # maps.in[s]
  OBVIOUS
<1> HIDE DEF new
<1>8. PICK after : after = BehindOf(r.maps, other)
  OBVIOUS
<1>9. PICK h : h = FactOut(s, r.facts)
  OBVIOUS
<1>10. PICK m : m = IF new THEN [r.maps EXCEPT !.in[s] = g, !.out[s] = h] ELSE maps
  OBVIOUS
<1>11. /\ new => r.ok
       /\ mode' = IF new THEN Outcome(mode, r) ELSE mode
       /\ maps' = [m EXCEPT !.in[n] = IF new THEN after ELSE before, !.out[n] = ForDest(before), !.vis[n] = TRUE]
       /\ facts' = BehindOf(maps', s)
  BY <1>1, <1>4, <1>8, <1>9, <1>10 DEF BehindOf
<1>12. /\ WellFormed(P0) /\ Fixed /\ P0.seq = seq /\ TypedMaps(maps, P0) /\ maps.in[s] # NoFacts /\ maps \in Maps
  BY <1>4, <1>5, ProgramFields DEF Structure, Types, TypedMaps
<1>13. /\ s \in Range(seq[Top]) /\ s \in Nodes /\ s \notin Blocks /\ other \in Range(seq[b]) /\ b \in Blocks
       /\ TypedAt(maps, s, Top) /\ TypedAt(maps, other, b) /\ StmOK(s, Top) /\ other \in Placed(P0)
  <2>1. seq[Top] \in Seq(Nodes)
    BY <1>12, PlacedFacts, Small
  <2>2. s \in Range(seq[Top])
    BY <1>4, <1>5, <2>1, InRange
  <2> QED
    BY <1>2, <1>4, <1>12, <2>2, PlacedFacts, Small DEF TypedMaps
<1>14. before \in Known(b) /\ ForDest(before) \in Known(Top)
  BY <1>3, <1>4, <1>13, BehindTyped, ForDestTyped
<1>15. maps.in[s] \in FactsOf(Top)
  BY <1>12, <1>13 DEF TypedAt, Known
<1>16. PICK j : j = ForDest(before)
  OBVIOUS
<1>17. g \in FactsOf(Top) /\ g # NoFacts /\ g \in Facts /\ Below(maps.in[s], g) /\ (j # NoFacts => Below(j, g))
  BY <1>6, <1>14, <1>15, <1>16, Small, FactsSmall, MergeJumpsTyped, KnownBelow
<1>18. Advanced(m, s, g) /\ m \in Maps /\ (new => after = before)
  <2>1. CASE ~new
    BY <1>4, <1>7, <1>10, <1>12, <2>1, GenGives DEF Advanced
  <2>2. CASE new
    <3>1. r.ok /\ r.rounds \in Nat /\ r.facts \in FactsOf(Top) /\ r.maps \in Maps
      BY <1>1, <1>12, <1>13, <1>17, <2>2, VisitTyped DEF StmTyped, TypedMaps
    <3>2. r.rounds <= MaxRounds
      BY <1>11, <2>2, <3>1, FixpointConstantsOK DEF Outcome
    <3>3. h \in Facts
      BY <1>9, <3>1, Small, FactsSmall, FactOutTyped DEF OutBlock
    <3>4. m = [r.maps EXCEPT !.in[s] = g, !.out[s] = h]
      BY <1>10, <2>2
    <3>5. Written(r.maps, s, g, h, m)
      BY <1>13, <1>17, <3>1, <3>3, <3>4, WriteMaps
    <3>6. Advanced(m, s, g)
      BY <1>1, <1>4, <1>9, <1>13, <1>17, <3>1, <3>2, <3>5, SimpleForward, LoopForward
    <3>7. m \in Maps /\ m.in[other] = r.maps.in[other] /\ m.out[other] = r.maps.out[other]
      BY <1>4, <3>5 DEF Written
    <3>8. m.in[other] = maps.in[other] /\ m.out[other] = maps.out[other]
      BY <1>4, <1>13, <3>6 DEF Advanced
    <3>9. after = before
      BY <1>3, <1>8, <3>7, <3>8 DEF BehindOf
    <3> QED
      BY <3>6, <3>7, <3>9
  <2> QED
    BY <2>1, <2>2
<1>19. Saved(m, n, before, j, maps')
  <2>1. before \in Facts /\ j \in Facts
    BY <1>13, <1>14, <1>16, FactsSmall, Small
  <2>2. n \in Nodes
    BY <1>4, <1>5, FixpointConstantsOK DEF Structure, Nodes
  <2>3. maps' = [m EXCEPT !.in[n] = before, !.out[n] = j, !.vis[n] = TRUE]
    BY <1>11, <1>16, <1>18
  <2> QED
    BY <1>18, <2>1, <2>2, <2>3, SaveMaps
<1>20. ForwardDone(m, g, s, n, other)
  BY <1>3, <1>11, <1>16, <1>17, <1>18, <1>19, Zenon DEF ForwardDone
<1> QED
  BY <1>20, <1>5

\* A goto behind other, which is not in s, to s.
LEMMA GotoForwardSound ==
  ASSUME "around" \notin Jumps, Structure, Structure', Types, Sound, NEW other \in Nodes, MakeGotoForward(other)
  PROVE  Sound'
<1>1. CASE mode' = "aborted"
  BY <1>1 DEF Sound, GenInv, ReadyInv, ExecInv
<1>2. CASE mode' # "aborted"
  <2>1. PICK n : n = made + 1
    OBVIOUS
  <2>2. PICK s : s = Last(seq[Top])
    OBVIOUS
  <2>3. PICK b : b = IF other \in Range(seq[Body]) THEN Body ELSE Top
    OBVIOUS
  <2>4. PICK st : st = [NoStm EXCEPT !.k = "goto", !.to = s]
    OBVIOUS
  <2>5. /\ Adding /\ curr = Top /\ seq[Top] # <<>> /\ other \in Range(seq[Top]) \cup Range(seq[Body])
        /\ other \notin Contents(P0, s) /\ other # s /\ stm[other].k # "return" /\ mode' = mode
        /\ seq' = [seq EXCEPT ![b] = InsertAt(@, Position(@, other) + 1, n)]
        /\ stm' = [stm EXCEPT ![n] = st] /\ made' = n /\ edges' = edges \cup {Edge(n, s, FALSE, FALSE)}
        /\ curr' = curr /\ locals' = locals /\ breaks' = breaks /\ need' = need
    <3>1. /\ Adding /\ curr = Top /\ seq[Top] # <<>> /\ other \in Range(seq[Top]) \cup Range(seq[Body])
          /\ other \in Contents(P0, s) => "around" \in Jumps
          /\ other # s /\ stm[other].k # "return" /\ mode' \in {mode, "aborted"}
      BY <2>1, <2>2, <2>3, <2>4, GotoForwardProgram, ZenonT(30)
    <3>2. /\ seq' = [seq EXCEPT ![b] = InsertAt(@, Position(@, other) + 1, n)]
          /\ stm' = [stm EXCEPT ![n] = st] /\ made' = n /\ edges' = edges \cup {Edge(n, s, FALSE, FALSE)}
          /\ curr' = curr /\ locals' = locals /\ breaks' = breaks /\ need' = need
      BY <2>1, <2>2, <2>3, <2>4, GotoForwardProgram, ZenonT(30)
    <3> QED
      BY <1>2, <3>1, <3>2, Zenon
  <2>6. /\ mode = "generate" /\ made < MaxNodes /\ GenInv /\ pre' = pre
        /\ WellFormed(P0) /\ Fixed /\ P0.seq = seq /\ P0.edges = edges /\ P0.breaks = breaks
        /\ stm \in [Nodes -> Statement] /\ seq \in [Blocks -> Seq(Nodes)] /\ b \in Blocks /\ Types
    BY <2>3, <2>5, ProgramFields, Small, Zenon DEF Adding, Structure, WellFormed, Program, MakeGotoForward, Sound
  <2>7. n \in Nodes /\ n # Top /\ n # Body /\ n # For /\ n \notin Placed(P0) /\ \A e \in edges : e.src # n /\ e.dest # n
    BY <2>1, <2>6, Small, Fresh, FixpointConstantsOK DEF Structure, Nodes, Body
  <2>8. /\ s \in Range(seq[Top]) /\ s \in Nodes /\ s # Top /\ s # Body /\ s \notin Range(seq[Body]) /\ s \in Placed(P0)
        /\ other \in Range(seq[b]) /\ other \in Placed(P0) /\ other # n /\ s # n
    <3>1. s \in Range(seq[Top])
      BY <2>2, <2>5, AtEndFacts, Small
    <3>2. \A c \in Blocks : \A v \in Range(seq[c]) : v \in Nodes /\ v # Top /\ v # Body /\ v \in Placed(P0)
      BY <2>6, PlacedFacts
    <3>3. Range(seq[Top]) \cap Range(seq[Body]) = {}
      BY <2>6 DEF WellFormed
    <3>4. other \in Range(seq[b])
      BY <2>3, <2>5
    <3> QED
      BY <2>6, <2>7, <3>1, <3>2, <3>3, <3>4, Small
  <2>9. PICK o, j : o = BehindOf(maps, other) /\ j = ForDest(o)
    OBVIOUS
  <2>10. PICK m, g : /\ Advanced(m, s, g) /\ g \in FactsOf(Top) /\ g # NoFacts /\ Below(maps.in[s], g)
                     /\ j # NoFacts => Below(j, g)
                     /\ Saved(m, n, o, j, maps') /\ facts' = BehindOf(maps', s)
    BY <1>2, <2>1, <2>2, <2>6, <2>9, ForwardMaps DEF ForwardDone
  <2>11. PICK m1 : m1 = maps'
    OBVIOUS
  <2>12. /\ m1.in[n] = o /\ m1.out[n] = j /\ m1.vis[n] = TRUE
         /\ \A v \in Nodes : v # n => m1.in[v] = m.in[v] /\ m1.out[v] = m.out[v] /\ m1.vis[v] = m.vis[v]
    BY <2>10, <2>11 DEF Saved
  <2>13. PICK f : f = m.in[Top]
    OBVIOUS
  <2>14. /\ Chain(m, seq[Top], f) /\ f = maps.in[Top]
         /\ \A e \in edges : IsGoto(e.src) /\ ~e.back => Covered(m, e)
    BY <2>2, <2>5, <2>6, <2>10, <2>13, AdvancedSound
  <2>15. /\ Kept(m, P0) /\ m.in[s] = g /\ BehindOf(m, other) = o /\ m.in[other] = maps.in[other]
         /\ \A v \in Nodes : maps.vis[v] => m.vis[v]
    BY <2>5, <2>8, <2>9, <2>10 DEF Advanced, BehindOf
  <2>16. For \notin Range(seq[Top]) => seq[Body] = <<>> /\ Range(seq[Body]) = {} /\ b = Top
    BY <2>3, <2>5, <2>6 DEF Structure, Range
  <2>17. PICK t \in Seq(Nodes) : t = seq[b]
    BY <2>6, AtEndFacts
  <2>18. PICK k : k = Position(t, other)
    OBVIOUS
  <2>19. k \in 1 .. Len(t) /\ t[k] = other
    BY <2>8, <2>17, <2>18, PositionFacts
  <2>20. o # NoFacts
    <3>1. m.in[other] # NoFacts
      <4>1. CASE b = Top
        BY <2>14, <2>17, <2>19, <4>1 DEF Chain
      <4>2. CASE b = Body
        <5>1. For \in Range(seq[Top])
          BY <2>16, <4>2, Small
        <5>2. m.in[For] # NoFacts
          <6>1. PICK z, w : z \in Seq(Nodes) /\ z = seq[Top] /\ w = For /\ w \in Range(z)
            BY <5>1, AtEndFacts, Small
          <6>2. PICK i \in 1 .. Len(z) : z[i] = w
            BY ONLY <6>1, InRange
          <6> QED
            BY <2>14, <6>1, <6>2 DEF Chain
        <5>3. BodyChain(m, P0)
          BY <2>6, <2>15, <5>1, <5>2 DEF Kept, LoopKept, BodyStable
        <5>4. \A i \in 1 .. Len(seq[Body]) : m.in[seq[Body][i]] # NoFacts
          BY <2>6, <5>3 DEF BodyChain, Chain
        <5> QED
          BY <2>17, <2>19, <4>2, <5>4
      <4> QED
        BY <2>6, <4>1, <4>2, Small
    <3>2. TypedAt(maps, other, b)
      BY <2>6, <2>8 DEF Types, TypedMaps
    <3> QED
      BY <2>5, <2>6, <2>9, <2>15, <3>1, <3>2, BehindTyped
  <2>21. Placing(n, b, k)
    <3>1. PICK u : u = InsertAt(t, k + 1, n)
      OBVIOUS
    <3>2. Inserted(u, t, k, n)
      BY <2>7, <2>19, <3>1, InsertFacts
    <3>3. seq' = [seq EXCEPT ![b] = u]
      BY <2>5, <2>17, <2>18, <3>1
    <3>4. seq'[b] = u /\ \A c \in Blocks : c # b => seq'[c] = seq[c]
      BY <2>6, <3>3
    <3>5. k \in 0 .. Len(t)
      BY <2>19
    <3>6. \A v \in Nodes : v # n => stm'[v] = stm[v]
      BY <2>5, <2>6
    <3> QED
      BY <2>5, <2>6, <2>7, <2>17, <3>2, <3>4, <3>5, <3>6 DEF Placing
  <2>22. stm'[n] = st /\ st.k = "goto" /\ stm'[s] = stm[s] /\ stm'[other] = stm[other]
    BY <2>4, <2>5, <2>6, <2>7, <2>8
  <2>23. BehindOf(m1, n)' = o /\ RecordedAt(m1, n)'
    BY <2>9, <2>12, <2>22 DEF IsCtrl, Valid, Transfer, FactOut, BehindOf, RecordedAt
  <2>24. \A x : Fits(m, m1, n, seq[b], k, x)
    BY <2>12, <2>15, <2>17, <2>19, <2>20, <2>23, BelowSelf DEF Fits
  <2>25. Chain(m1, seq[Top], m1.in[Top])'
    <3>1. m1.in[Top] = f
      BY <2>7, <2>12, <2>13, Small
    <3>2. Beyond(n, m, m1)
      BY <2>12 DEF Beyond
    <3>3. Chain(m1, seq[Top], f)'
      BY <2>14, <2>21, <2>24, <3>2, ChainPlacing, Small
    <3> QED
      BY <3>1, <3>3
  <2>26. Kept(m1, P0)'
    BY <2>5, <2>8, <2>12, <2>15, <2>17, <2>19, <2>20, <2>21, <2>22, <2>23, KeptPlacing DEF Edge
  <2>27. /\ Range(seq'[b]) = Range(seq[b]) \cup {n} /\ \A c \in Blocks : c # b => seq'[c] = seq[c]
         /\ For \in Range(seq'[Top]) <=> For \in Range(seq[Top])
    BY <2>21, PlacingFacts DEF Placing
  <2>28. \A v \in Range(seq'[Top]) : m1.vis[v]
    <3>1. \A v \in Range(seq[Top]) : maps.vis[v] /\ v \in Nodes /\ v # n
      BY <2>6, <2>21, PlacingFacts, GenGives, Small
    <3>2. \A v \in Range(seq'[Top]) : v = n \/ v \in Range(seq[Top])
      BY <2>6, <2>27, Small
    <3> QED
      BY <2>12, <2>15, <3>1, <3>2
  <2>29. Last(seq'[Top]) = s /\ seq'[Top] # <<>>
    BY <2>2, <2>5, <2>17, <2>19, <2>21, InRange DEF Placing, Inserted
  <2>30. facts' = AtEnd(m1, Top, f)'
    BY <2>10, <2>11, <2>22, <2>29 DEF BehindOf, IsCtrl, AtEnd
  <2>31. PICK Q : Q = P0'
    OBVIOUS
  <2>32. Contents(Q, s) = Contents(P0, s) /\ n \notin Contents(P0, s)
    BY <2>7, <2>8, <2>21, PlacingFacts DEF P0, Contents
  <2>33. ASSUME NEW e \in edges'
         PROVE  EdgeSound(e)'
    <3>1. CASE e \in edges /\ IsGoto(e.src)'
      <4>1. e.src \in Nodes /\ e.src # n
        BY <2>6, <2>7, <3>1, EdgesTyped DEF Types
      <4>2. IsGoto(e.src)
        BY <2>21, <3>1, <4>1 DEF Placing, IsGoto
      <4>3. e.dest \in Nodes /\ e.dest # n /\ EdgeSound(e)
        BY <2>6, <2>7, <3>1, <4>2, GotoEdge, GenGives
      <4>4. CASE e.back
        BY <2>5, <4>2, <4>3, <4>4 DEF EdgeSound
      <4>5. CASE ~e.back
        <5>1. Covered(m, e) /\ (For \notin Range(seq[Top]) => e.src \in Range(seq[Top])) /\ e.src \notin Contents(P0, s)
          BY <2>2, <2>5, <2>14, <3>1, <4>2, <4>3, <4>5 DEF EdgeSound
        <5>2. Covered(m1, e)
          BY <2>12, <4>1, <4>3, <5>1 DEF Covered
        <5>3. For \notin Range(seq'[Top]) => e.src \in Range(seq'[Top])
          BY <2>6, <2>27, <5>1, Small
        <5>4. e.src \notin Contents(Q, Last(seq'[Top]))
          BY <2>29, <2>32, <5>1
        <5> QED
          BY <2>11, <2>31, <4>5, <5>2, <5>3, <5>4 DEF EdgeSound, Covered
      <4> QED
        BY <4>4, <4>5
    <3>2. CASE e \notin edges
      <4>1. e.src = n /\ e.dest = s /\ e.back = FALSE
        BY <2>5, <3>2 DEF Edge
      <4>2. Covered(m1, e)
        BY <2>8, <2>10, <2>12, <2>15, <4>1 DEF Covered
      <4>3. For \notin Range(seq'[Top]) => e.src \in Range(seq'[Top])
        BY <2>16, <2>27, <4>1
      <4>4. e.src \notin Contents(Q, Last(seq'[Top]))
        BY <2>29, <2>32, <4>1
      <4> QED
        BY <2>11, <2>31, <4>1, <4>2, <4>3, <4>4 DEF EdgeSound, Covered
    <3>3. CASE ~IsGoto(e.src)'
      BY <3>3 DEF EdgeSound
    <3> QED
      BY <3>1, <3>2, <3>3
  <2>34. GenInv'
    <3>1. Kept(maps, P0)' /\ Chain(maps, seq[Top], maps.in[Top])' /\ \A v \in Range(seq'[Top]) : maps'.vis[v]
      BY <2>11, <2>25, <2>26, <2>28
    <3>2. curr' = Top /\ f = maps'.in[Top]
      BY <2>5, <2>7, <2>11, <2>12, <2>13, Small
    <3>3. facts' = AtEnd(maps, curr, Before(curr))'
      BY <2>11, <2>30, <3>2 DEF Before
    <3> QED
      BY <2>33, <3>1, <3>2, <3>3, Small DEF GenInv, Before, EdgeSound
  <2> QED
    BY <2>5, <2>6, <2>34 DEF Sound, ReadyInv, ExecInv
<1> QED
  BY <1>1, <1>2

LEMMA EndingKept ==
  ASSUME Structure, Types, GenInv, mode = "generate", curr = Top,
         NEW m, NEW o \in FactsOf(Top), Ending(m, Top, o)
  PROVE  Kept(m, P0)
<1>1. WellFormed(P0) /\ Fixed /\ Kept(maps, P0)
  BY ProgramFields, GenGives DEF Structure
<1>2. PICK X : X = {Top}
  OBVIOUS
<1>3. /\ For \notin X /\ Body \notin X
      /\ X \cap Range(P0.seq[Body]) = {} /\ X \cap Range(P0.seq[Top]) = {}
  BY <1>1, <1>2, Small, PlacedFacts
<1>4. \A n \in Nodes : n \notin X => m.in[n] = maps.in[n] /\ m.out[n] = maps.out[n]
  BY <1>2 DEF Ending
<1>5. \A n \in Nodes : maps.vis[n] => m.vis[n]
  BY DEF Ending
<1>6. ASSUME NEW n \in Nodes, maps.out[n] # NoFacts
      PROVE  m.out[n] # NoFacts
  BY <1>6, Small, FactsSmall DEF Ending
<1>7. Orderly(maps, m, P0, X)
  BY <1>4, <1>5, <1>6 DEF Orderly
<1> QED
  BY <1>1, <1>3, <1>7, KeptStays

\* A function with nothing to redo is already a fixed point.
LEMMA EndingStable ==
  ASSUME Structure, Types, GenInv, mode = "generate", curr = Top, Top \notin need,
         NEW m, NEW o \in FactsOf(Top), Ending(m, Top, o)
  PROVE  Stable(m, P0)
<1>1. /\ WellFormed(P0) /\ Fixed /\ P0.seq = seq /\ P0.edges = edges
      /\ TypedMaps(maps, P0) /\ maps.in[Top] # NoFacts
  BY ProgramFields, FactsSmall, Small DEF Structure, Types
<1>2. Kept(maps, P0) /\ Chain(maps, seq[Top], maps.in[Top]) /\ \A e \in edges : EdgeSound(e)
  BY GenGives
<1>3. \A n \in Nodes : m.in[n] = maps.in[n] /\ (n # Top => m.out[n] = maps.out[n])
  BY DEF Ending
<1>4. Kept(m, P0)
  BY EndingKept
<1>5. PICK t \in Seq(Nodes) : t = seq[Top]
  BY AtEndFacts, Small
<1>6. Chain(m, t, m.in[Top])
  <2>1. \A i \in 1 .. Len(t) : t[i] \in Nodes /\ t[i] # Top /\ t[i] \in Range(t)
    <3>1. \A i \in 1 .. Len(t) : t[i] \in Nodes /\ t[i] \in Range(t)
      BY InRange
    <3> QED
      BY <1>1, <1>5, <3>1, PlacedFacts, Small
  <2>2. \A i \in 1 .. Len(t) : m.in[t[i]] = maps.in[t[i]] /\ BehindOf(m, t[i]) = BehindOf(maps, t[i])
    BY <1>3, <2>1 DEF BehindOf
  <2>3. m.in[Top] = maps.in[Top]
    BY <1>3, Small
  <2>4. Chain(maps, t, maps.in[Top])
    BY <1>2, <1>5
  <2>5. Len(t) \in Nat /\ (t # <<>> => 1 \in 1 .. Len(t))
    BY <1>5
  <2> QED
    BY <2>2, <2>3, <2>4, <2>5 DEF Chain
<1>7. ASSUME NEW e \in P0.edges, IsGoto(e.src)
      PROVE  Covered(m, e)
  <2>1. Covered(maps, e)
    BY <1>1, <1>2, <1>7 DEF EdgeSound
  <2>2. e.src \in Nodes /\ e.dest \in Nodes /\ e.src # Top
    BY <1>1, <1>7, GotoEdge DEF Fixed, IsGoto
  <2> QED
    BY <1>3, <2>1, <2>2 DEF Covered
<1>8. m.in[Top] # NoFacts
  BY <1>1, <1>3, Small
<1> QED
  BY <1>1, <1>4, <1>5, <1>6, <1>7, <1>8 DEF Stable

\* The finished function is a fixed point of what is left of it.
LEMMA CloseFunctionSound ==
  ASSUME Structure, Types, Sound, CloseFunction
  PROVE  Sound'
<1>1. PICK r : /\ r = Finished(Top) /\ seq' = r.P.seq /\ edges' = r.P.edges /\ breaks' = r.P.breaks
               /\ maps' = r.maps /\ mode' = Outcome("ready", r)
  BY Zenon DEF CloseFunction
<1>2. mode = "generate" /\ curr = Top /\ GenInv /\ stm' = stm /\ locals' = locals
  BY DEF CloseFunction, Sound
<1>3. /\ WellFormed(P0) /\ Fixed /\ P0.seq = seq /\ Follows(P0) /\ Deletable(P0, Top)
      /\ TypedMaps(maps, P0) /\ facts \in FactsOf(Top) /\ maps.in[Top] \in FactsOf(Top)
  BY <1>2, ProgramFields, Small DEF Structure, Types, Deletable
<1>4. /\ r.rounds \in Nat /\ WellFormed(r.P)
      /\ \E m, o : o \in FactsOf(Top) /\ Ending(m, Top, o) /\ FinishedDone(Top, m, r)
  BY <1>1, <1>3, FinishedTyped, FinishedOK, Small
<1>5. CASE ~(r.rounds <= MaxRounds)
  BY <1>1, <1>4, <1>5, FixpointConstantsOK DEF Outcome, Sound, GenInv, ReadyInv, ExecInv
<1>6. CASE r.rounds <= MaxRounds
  <2>1. PICK m, o : o \in FactsOf(Top) /\ Ending(m, Top, o) /\ FinishedDone(Top, m, r)
    BY <1>4
  <2>2. Kept(m, P0) /\ TypedMaps(m, P0)
    BY <1>2, <1>3, <2>1, EndingKept, EndingTyped, Small
  <2>3. Top \notin need => Stable(m, P0)
    BY <1>2, <2>1, EndingStable
  <2>4. ~Loops(Top)
    BY Small DEF Loops
  <2>5. Stable(r.maps, r.P)
    <3>1. CASE Top \notin need /\ r.P = P0 /\ r.maps = m
      BY <2>3, <3>1
    <3>2. ASSUME NEW y, NEW Q, Q = (IF Loops(Top) THEN WithSelfEdge(P0, Top) ELSE P0),
                 Settled(y, Q, m, Top, maps.in[Top], Top \in need), y.r.ok,
                 r.P = y.P, r.maps = y.r.maps, r.rounds = y.rounds
          PROVE  Stable(r.maps, r.P)
      <4>1. Q = P0
        BY <2>4, <3>2
      <4>2. PICK once \in BOOLEAN : once = (Top \in need)
        <5>1. (Top \in need) \in BOOLEAN
          OBVIOUS
        <5> QED
          BY <5>1
      <4>3. once \/ Stable(m, P0)
        BY <2>3, <4>2
      <4>4. Settled(y, P0, m, Top, maps.in[Top], once) /\ y.rounds <= MaxRounds
        BY <1>6, <3>2, <4>1, <4>2
      <4>5. Stable(y.r.maps, y.P)
        BY <1>3, <2>2, <3>2, <4>3, <4>4, SettleTop
      <4> QED
        BY <3>2, <4>5
    <3> QED
      BY <2>1, <3>1, <3>2, Zenon DEF FinishedDone
  <2>6. PICK Q, m1 : Q = r.P /\ m1 = r.maps
    OBVIOUS
  <2>7. Stable(m1, Q)'
    BY <1>2, <2>5, <2>6, StableSame
  <2>8. Q = P0'
    BY <1>1, <1>4, <2>6 DEF WellFormed, Program, P0
  <2>9. Stable(maps, P0)'
    BY <1>1, <2>6, <2>7, <2>8
  <2>10. mode' = "ready"
    BY <1>1, <1>4, <1>6, FixpointConstantsOK DEF Outcome
  <2> QED
    BY <2>9, <2>10 DEF Sound, GenInv, ReadyInv, ExecInv
<1> QED
  BY <1>5, <1>6

LEMMA StutterChain ==
  ASSUME stm' = stm, seq' = seq, NEW m, NEW b \in Blocks, NEW f, NEW g, g = f, Chain(m, seq[b], f)
  PROVE  Chain(m, seq[b], g)'
BY ChainSame

LEMMA NextSound ==
  ASSUME "around" \notin Jumps, Structure, Structure', Types, Types', Sound, [Next]_vars
  PROVE  Sound'
<1>1. CASE \/ \E st \in Assigns : MakeAssign(st)
           \/ \E p \in Derefs : MakeDeref(p)
           \/ MakeReturn \/ MakeBreak \/ MakeContinue
           \/ \E d \in Nodes : MakeGotoBack(d)
  BY <1>1, AddedSound
<1>2. CASE \E n \in Nodes : MakeGotoForward(n)
  BY <1>2, GotoForwardSound
<1>3. CASE \E loc \in BOOLEAN : OpenFor(loc)
  BY <1>3, OpenForSound
<1>4. CASE CloseFor \/ CloseFunction
  BY <1>4, CloseForSound, CloseFunctionSound
<1>5. CASE FirstCall \/ \E f \in Entries : Call(f)
  BY <1>5, CallSound
<1>6. CASE RunAssign \/ RunJump \/ RunReturn \/ RunLoop
  BY <1>6, RunSound
<1>7. CASE UNCHANGED vars
  <2>1. UNCHANGED <<mode, curr, program, maps, facts, pre, rounds, pc, env>>
    BY <1>7 DEF vars
  <2>2. stm' = stm /\ seq' = seq /\ locals' = locals /\ edges' = edges /\ breaks' = breaks /\ need' = need
    BY <2>1 DEF program
  <2>3. PICK m, P : m = maps /\ P = P0
    OBVIOUS
  <2>4. maps' = m /\ P0' = P
    BY <2>1, <2>2, <2>3 DEF P0
  <2>5. ASSUME mode = "generate"
        PROVE  GenInv'
    <3>1. /\ Kept(m, P) /\ Chain(m, seq[Top], m.in[Top]) /\ \A s \in Range(seq[Top]) : m.vis[s]
          /\ ~Closed(curr) => facts = AtEnd(m, curr, Before(curr))
          /\ curr = Body => /\ pre = AtEnd(m, Top, m.in[Top]) /\ m.in[Body] = pre
                            /\ Chain(m, seq[Body], AddLocals(pre)) /\ Recorded(m, Range(seq[Body]))
          /\ \A e \in edges : EdgeSound(e)
      BY <2>3, <2>5, GenGives DEF Sound
    <3>2. Kept(m, P)' /\ Chain(m, seq[Top], m.in[Top])'
      BY <2>2, <3>1, KeptSameProgram, StutterChain, Small
    <3>3. /\ Closed(curr)' = Closed(curr) /\ Before(curr)' = Before(curr) /\ AddLocals(pre)' = AddLocals(pre)
          /\ \A b, f : AtEnd(m, b, f)' = AtEnd(m, b, f)
      BY <2>1, <2>2 DEF Closed, Before, AddLocals, WithLocals, AtEnd, BehindOf, IsCtrl
    <3>4. curr = Body => Chain(m, seq[Body], AddLocals(pre))' /\ Recorded(m, Range(seq[Body]))'
      BY <2>2, <3>1, <3>3, StutterChain, Small DEF Recorded, RecordedAt, Valid, FactOut, Transfer
    <3>5. \A e : EdgeSound(e)' = EdgeSound(e)
      BY <2>1, <2>2, <2>3, <2>4 DEF EdgeSound, IsGoto, Covered
    <3> QED
      BY <2>1, <2>2, <2>4, <3>1, <3>2, <3>3, <3>4, <3>5 DEF GenInv, Before, EdgeSound
  <2>6. mode \in {"ready", "execute"} => Stable(m, P)'
    BY <2>2, <2>3, StableSame DEF Sound, ReadyInv
  <2>7. ExecInv' = ExecInv
    BY <2>1, <2>2 DEF ExecInv, BodyMustReturn, MustReturn, P0
  <2> QED
    BY <2>1, <2>4, <2>5, <2>6, <2>7 DEF Sound, GenInv, ReadyInv
<1> QED
  BY <1>1, <1>2, <1>3, <1>4, <1>5, <1>6, <1>7 DEF Next

\* What the analysis says of the statement that is executed.
LEMMA RunningSound ==
  ASSUME Structure, Types, Sound, mode = "execute", pc \notin {End, Body}
  PROVE  env \in Conc(maps.in[pc]) /\ (stm[pc].k = "deref" => stm[pc].of \in DOMAIN env /\ Valid(pc, maps.in[pc]))
<1>1. PICK kinds : kinds = {stm[pc].k}
  OBVIOUS
<1>2. Running(kinds)
  BY <1>1 DEF Running
<1>3. /\ pc \in Placed(P0) /\ env \in EnvOf(ScopeAt(pc)) /\ StmOK(pc, ScopeAt(pc))
      /\ pc \in Range(seq[Body]) => For \in Range(seq[Top])
  BY <1>2, RunningFacts
<1>4. Stable(maps, P0) /\ TypedMaps(maps, P0) /\ env \in Conc(maps.in[pc])
  BY DEF Sound, ReadyInv, ExecInv, Types
<1>5. pc \in Live(P0)
  BY <1>3, Small DEF Live, Placed, P0
<1>6. pc # For => Valid(pc, maps.in[pc])
  BY <1>4, <1>5, LiveFacts
<1>7. stm[pc].k = "deref" => pc # For
  BY DEF Structure, Fixed
<1>8. stm[pc].k = "deref" => stm[pc].of \in DOMAIN env
  BY <1>3 DEF StmOK, EnvOf
<1> QED
  BY <1>4, <1>6, <1>7, <1>8

\* The invariant, of which the other theorems are consequences: the program is well
\* formed, facts and pointers are in scope, and unless gotos lead around a loop the
\* facts are right.
THEOREM Invariant == Spec => []IInv
<1>1. Init => IInv
  BY InitStructure, InitTypes, InitSound DEF IInv
<1>2. IInv /\ [Next]_vars => IInv'
  BY NextStructure, NextTypes, NextSound DEF IInv
<1> QED
  BY <1>1, <1>2, PTL DEF Spec

\* The input facts of a statement describe the pointers whenever it is executed,
\* in a function in which no goto leads around a loop: the analysis that the
\* generator makes as it adds statements, jumps and loops, the fixed points it
\* looks for and the deletion of what it finds wrong come to facts that every
\* execution keeps.
THEOREM FactsCoverTheorem ==
  ASSUME "around" \notin Jumps
  PROVE  Spec => []FactsCoverExecution
<1>1. IInv => FactsCoverExecution
  BY RunningSound DEF IInv, FactsCoverExecution, Conc
<1> QED
  BY <1>1, Invariant, PTL

\* No pointer is null or dangling when it is dereferenced, in such a function.
THEOREM NoBadDereferenceTheorem ==
  ASSUME "around" \notin Jumps
  PROVE  Spec => []NoBadDereference
<1>1. IInv => NoBadDereference
  BY RunningSound DEF IInv, NoBadDereference, Conc, Valid
<1> QED
  BY <1>1, Invariant, PTL
=============================================================================
