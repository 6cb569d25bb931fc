---------------------------- MODULE EffectProofs -----------------------------
(***************************************************************************)
(* Theorems about effects and the contexts that expressions are generated  *)
(* in, for any variables, fields and unions, functions, facts and bounds.  *)
(*                                                                         *)
(* The queries of Effect.cpp climb from a variable to what it is a field   *)
(* of.  The first part shows that the partial ones say exactly what shares *)
(* memory with what the effect holds, because no union is inside another   *)
(* aggregate, and that the updates lose nothing by leaving out what they   *)
(* find covered.  The second part is the inductive invariant: the operands *)
(* of every open operator fit the context it was opened in, its effect     *)
(* covers them, and the context of an operand is that of its operator with *)
(* the effect of the operands before it.                                   *)
(***************************************************************************)
EXTENDS EffectContext, TLAPS

----------------------------------------------------------------------------
(* Variables inside variables *)

\* what can be reached by a step up, at most one from each variable
Closed(Up, S) == \A w \in S : Up[w] \in Var => Up[w] \in S

Above(Up, v) == {u \in Var : \A S \in SUBSET Var : v \in S /\ Closed(Up, S) => u \in S}

LEMMA AboveStep ==
  ASSUME NEW Up \in [Var -> Var \cup {None}], NEW v \in Var
  PROVE  /\ Above(Up, v) \subseteq Var
         /\ Above(Up, v) = {v} \cup IF Up[v] = None THEN {} ELSE Above(Up, Up[v])
<1>1. None \notin Var
  BY EffectConstantsOK
<1>2. v \in Above(Up, v)
  BY DEF Above
<1>3. ASSUME Up[v] # None
      PROVE  Above(Up, Up[v]) \subseteq Above(Up, v)
  BY <1>3 DEF Above, Closed
<1>4. ASSUME Up[v] # None, NEW u \in Above(Up, v)
      PROVE  u \in {v} \cup Above(Up, Up[v])
  <2>1. Up[v] \in Var
    BY <1>4
  <2>2. {v} \cup Above(Up, Up[v]) \in SUBSET Var
    BY DEF Above
  <2>3. Up[v] \in Above(Up, Up[v])
    BY <2>1 DEF Above
  <2>4. ASSUME NEW w \in Above(Up, Up[v]), Up[w] \in Var
        PROVE  Up[w] \in Above(Up, Up[v])
    BY <2>4 DEF Above, Closed
  <2>5. Closed(Up, {v} \cup Above(Up, Up[v]))
    BY <2>3, <2>4 DEF Closed
  <2> QED
    BY <1>4, <2>2, <2>5 DEF Above
<1>5. ASSUME Up[v] = None, NEW u \in Above(Up, v)
      PROVE  u = v
  <2>1. Closed(Up, {v}) /\ {v} \in SUBSET Var
    BY <1>1, <1>5 DEF Closed
  <2> QED
    BY <1>5, <2>1 DEF Above
<1> QED
  BY <1>2, <1>3, <1>4, <1>5 DEF Above

LEMMA EnclosingDef ==
  ASSUME NEW v \in Var
  PROVE  Enclosing[v] = {v} \cup IF FieldOf[v] = None THEN {} ELSE Enclosing[FieldOf[v]]
<1> DEFINE F == [u \in Var |-> Above(FieldOf, u)]
           E(f) == [u \in Var |-> {u} \cup IF FieldOf[u] = None THEN {} ELSE f[FieldOf[u]]]
<1>1. F = E(F)
  <2>1. ASSUME NEW u \in Var
        PROVE  F[u] = {u} \cup IF FieldOf[u] = None THEN {} ELSE F[FieldOf[u]]
    BY AboveStep, EffectConstantsOK
  <2> QED
    BY <2>1
<1>2. Enclosing = CHOOSE f : f = E(f)
  BY DEF Enclosing
<1>3. Enclosing = E(Enclosing)
  <2> HIDE DEF F, E
  <2> QED
    BY <1>1, <1>2
<1> QED
  BY <1>3

LEMMA EnclosingStructsDef ==
  ASSUME NEW v \in Var
  PROVE  EnclosingStructs[v] =
           {v} \cup IF FieldOf[v] \in {None} \cup Unions THEN {} ELSE EnclosingStructs[FieldOf[v]]
<1> DEFINE Up == [u \in Var |-> IF FieldOf[u] \in Unions THEN None ELSE FieldOf[u]]
           F == [u \in Var |-> Above(Up, u)]
           E(f) == [u \in Var |-> {u} \cup IF FieldOf[u] \in {None} \cup Unions
                                           THEN {} ELSE f[FieldOf[u]]]
<1>1. F = E(F)
  <2>1. Up \in [Var -> Var \cup {None}]
    BY EffectConstantsOK
  <2>2. ASSUME NEW u \in Var
        PROVE  F[u] = {u} \cup IF FieldOf[u] \in {None} \cup Unions THEN {} ELSE F[FieldOf[u]]
    <3>1. Above(Up, u) = {u} \cup IF Up[u] = None THEN {} ELSE Above(Up, Up[u])
      <4> HIDE DEF Up
      <4> QED
        BY <2>1, AboveStep
    <3>2. Up[u] = None <=> FieldOf[u] \in {None} \cup Unions
      OBVIOUS
    <3>3. Up[u] # None => Up[u] = FieldOf[u] /\ Up[u] \in Var
      BY EffectConstantsOK
    <3> HIDE DEF Up
    <3> QED
      BY <3>1, <3>2, <3>3
  <2> QED
    BY <2>2
<1>2. EnclosingStructs = CHOOSE f : f = E(f)
  BY DEF EnclosingStructs
<1>3. EnclosingStructs = E(EnclosingStructs)
  <2> HIDE DEF F, E
  <2> QED
    BY <1>1, <1>2
<1> QED
  BY <1>3

\* induction along the fields: a set that goes down to the fields is everything
LEMMA FieldInduction ==
  ASSUME NEW S \in SUBSET Var,
         \A v \in Var : (FieldOf[v] \in Var => FieldOf[v] \in S) => v \in S
  PROVE  S = Var
<1> SUFFICES ASSUME Var \ S # {}
             PROVE  FALSE
  OBVIOUS
<1>1. PICK v \in Var \ S : FieldOf[v] \notin Var \ S
  BY FieldsNest
<1> QED
  BY <1>1

LEMMA EnclosingFacts ==
  /\ \A v \in Var : Enclosing[v] \subseteq Var /\ v \in Enclosing[v]
  /\ \A v, u, x \in Var : u \in Enclosing[v] /\ x \in Enclosing[u] => x \in Enclosing[v]
  /\ \A v, u, x \in Var :
       u \in Enclosing[v] /\ x \in Enclosing[v] => u \in Enclosing[x] \/ x \in Enclosing[u]
<1>1. /\ None \notin Var /\ \A v \in Var : FieldOf[v] \in Var \cup {None}
  BY EffectConstantsOK
<1>2. \A v \in Var : v \in Enclosing[v]
  BY EnclosingDef
<1>3. \A v \in Var : Enclosing[v] \subseteq Var
  <2> DEFINE S == {v \in Var : Enclosing[v] \subseteq Var}
  <2>1. ASSUME NEW v \in Var, FieldOf[v] \in Var => FieldOf[v] \in S
        PROVE  v \in S
    BY <1>1, <2>1, EnclosingDef
  <2>2. S = Var
    <3> HIDE DEF S
    <3>1. S \in SUBSET Var
      BY DEF S
    <3> QED
      BY <2>1, <3>1, FieldInduction
  <2> QED
    BY <2>2
<1>4. \A v, u, x \in Var : u \in Enclosing[v] /\ x \in Enclosing[u] => x \in Enclosing[v]
  <2> DEFINE S == {v \in Var : \A u, x \in Var :
                     u \in Enclosing[v] /\ x \in Enclosing[u] => x \in Enclosing[v]}
  <2>1. ASSUME NEW v \in Var, FieldOf[v] \in Var => FieldOf[v] \in S
        PROVE  v \in S
    BY <1>1, <2>1, EnclosingDef
  <2>2. S = Var
    <3> HIDE DEF S
    <3>1. S \in SUBSET Var
      BY DEF S
    <3> QED
      BY <2>1, <3>1, FieldInduction
  <2> QED
    BY <2>2
<1>5. \A v, u, x \in Var :
        u \in Enclosing[v] /\ x \in Enclosing[v] => u \in Enclosing[x] \/ x \in Enclosing[u]
  <2> DEFINE S == {v \in Var : \A u, x \in Var :
         u \in Enclosing[v] /\ x \in Enclosing[v] => u \in Enclosing[x] \/ x \in Enclosing[u]}
  <2>1. ASSUME NEW v \in Var, FieldOf[v] \in Var => FieldOf[v] \in S
        PROVE  v \in S
    BY <1>1, <2>1, EnclosingDef
  <2>2. S = Var
    <3> HIDE DEF S
    <3>1. S \in SUBSET Var
      BY DEF S
    <3> QED
      BY <2>1, <3>1, FieldInduction
  <2> QED
    BY <2>2
<1> QED
  BY <1>2, <1>3, <1>4, <1>5

\* a union is in nothing, so it is the last of all that enclose a variable
LEMMA UnionLast ==
  ASSUME NEW v \in Var, NEW c \in Unions \cap Enclosing[v]
  PROVE  /\ Enclosing[c] = {c}
         /\ \A x \in Enclosing[v] : c \in Enclosing[x]
<1>1. c \in Var /\ FieldOf[c] = None
  BY UnionsOutermost, EffectConstantsOK
<1>2. Enclosing[c] = {c}
  BY <1>1, EnclosingDef
<1> QED
  BY <1>1, <1>2, EnclosingFacts

LEMMA EnclosingStructsFacts ==
  /\ \A v \in Var : EnclosingStructs[v] \subseteq Enclosing[v] /\ v \in EnclosingStructs[v]
  /\ \A v, u, x \in Var :
       u \in EnclosingStructs[v] /\ x \in EnclosingStructs[u] => x \in EnclosingStructs[v]
  /\ \A v \in Var : Enclosing[v] \cap Unions = {} => EnclosingStructs[v] = Enclosing[v]
<1>1. /\ None \notin Var /\ Unions \subseteq Var
      /\ \A v \in Var : FieldOf[v] \in Var \cup {None}
  BY EffectConstantsOK
<1>2. \A v \in Var : v \in EnclosingStructs[v]
  BY EnclosingStructsDef
<1>3. \A v \in Var : EnclosingStructs[v] \subseteq Enclosing[v]
  <2> DEFINE S == {v \in Var : EnclosingStructs[v] \subseteq Enclosing[v]}
  <2>1. ASSUME NEW v \in Var, FieldOf[v] \in Var => FieldOf[v] \in S
        PROVE  v \in S
    BY <1>1, <2>1, EnclosingDef, EnclosingStructsDef
  <2>2. S = Var
    <3> HIDE DEF S
    <3>1. S \in SUBSET Var
      BY DEF S
    <3> QED
      BY <2>1, <3>1, FieldInduction
  <2> QED
    BY <2>2
<1>4. \A v, u, x \in Var :
        u \in EnclosingStructs[v] /\ x \in EnclosingStructs[u] => x \in EnclosingStructs[v]
  <2> DEFINE S == {v \in Var : \A u, x \in Var :
         u \in EnclosingStructs[v] /\ x \in EnclosingStructs[u] => x \in EnclosingStructs[v]}
  <2>1. ASSUME NEW v \in Var, FieldOf[v] \in Var => FieldOf[v] \in S
        PROVE  v \in S
    BY <1>1, <2>1, EnclosingStructsDef
  <2>2. S = Var
    <3> HIDE DEF S
    <3>1. S \in SUBSET Var
      BY DEF S
    <3> QED
      BY <2>1, <3>1, FieldInduction
  <2> QED
    BY <2>2
<1>5. \A v \in Var : Enclosing[v] \cap Unions = {} => EnclosingStructs[v] = Enclosing[v]
  <2> DEFINE S == {v \in Var :
                     Enclosing[v] \cap Unions = {} => EnclosingStructs[v] = Enclosing[v]}
  <2>1. ASSUME NEW v \in Var, FieldOf[v] \in Var => FieldOf[v] \in S
        PROVE  v \in S
    <3> SUFFICES ASSUME Enclosing[v] \cap Unions = {}
                 PROVE  EnclosingStructs[v] = Enclosing[v]
      OBVIOUS
    <3>1. CASE FieldOf[v] = None
      BY <3>1, EnclosingDef, EnclosingStructsDef
    <3>2. CASE FieldOf[v] \in Var
      <4>1. FieldOf[v] \in Enclosing[v] /\ Enclosing[FieldOf[v]] \subseteq Enclosing[v]
        BY <1>1, <3>2, EnclosingDef, EnclosingFacts
      <4> QED
        BY <1>1, <2>1, <3>2, <4>1, EnclosingDef, EnclosingStructsDef
    <3> QED
      BY <1>1, <3>1, <3>2
  <2>2. S = Var
    <3> HIDE DEF S
    <3>1. S \in SUBSET Var
      BY DEF S
    <3> QED
      BY <2>1, <3>1, FieldInduction
  <2> QED
    BY <2>2
<1> QED
  BY <1>2, <1>3, <1>4, <1>5

LEMMA ContainerUnionDef ==
  ASSUME NEW v \in Var
  PROVE  ContainerUnion[v] =
           IF v \in Unions THEN v
           ELSE IF FieldOf[v] = None THEN None ELSE ContainerUnion[FieldOf[v]]
<1> DEFINE In(u) == Unions \cap Enclosing[u]
           C(u) == IF In(u) = {} THEN None ELSE CHOOSE c : c \in In(u)
           F == [u \in Var |-> C(u)]
           E(f) == [u \in Var |-> IF u \in Unions THEN u
                                  ELSE IF FieldOf[u] = None THEN None ELSE f[FieldOf[u]]]
<1>1. F = E(F)
  <2>1. ASSUME NEW u \in Var
        PROVE  F[u] = IF u \in Unions THEN u
                      ELSE IF FieldOf[u] = None THEN None ELSE F[FieldOf[u]]
    <3>1. CASE u \in Unions
      <4>1. In(u) = {u}
        BY <3>1, UnionsOutermost, EnclosingDef
      <4> HIDE DEF In
      <4> QED
        BY <3>1, <4>1
    <3>2. CASE u \notin Unions /\ FieldOf[u] = None
      <4>1. In(u) = {}
        BY <3>2, EnclosingDef
      <4> HIDE DEF In
      <4> QED
        BY <3>2, <4>1
    <3>3. CASE u \notin Unions /\ FieldOf[u] # None
      <4>1. In(u) = In(FieldOf[u]) /\ FieldOf[u] \in Var
        BY <3>3, EnclosingDef, EffectConstantsOK
      <4> HIDE DEF In
      <4> QED
        BY <3>3, <4>1
    <3> QED
      BY <3>1, <3>2, <3>3
  <2> HIDE DEF C
  <2> QED
    BY <2>1
<1>2. ContainerUnion = CHOOSE f : f = E(f)
  BY DEF ContainerUnion
<1>3. ContainerUnion = E(ContainerUnion)
  <2> HIDE DEF F, E
  <2> QED
    BY <1>1, <1>2
<1> QED
  BY <1>3

\* the union that a variable is in, if any
LEMMA ContainerUnionIs ==
  /\ \A v \in Var : Unions \cap Enclosing[v] = {} => ContainerUnion[v] = None
  /\ \A v \in Var : \A c \in Unions \cap Enclosing[v] : ContainerUnion[v] = c
<1> DEFINE S == {v \in Var : /\ Unions \cap Enclosing[v] = {} => ContainerUnion[v] = None
                             /\ \A c \in Unions \cap Enclosing[v] : ContainerUnion[v] = c}
<1>1. ASSUME NEW v \in Var, FieldOf[v] \in Var => FieldOf[v] \in S
      PROVE  v \in S
  <2>1. CASE v \in Unions
    BY <2>1, UnionsOutermost, EnclosingDef, ContainerUnionDef
  <2>2. CASE v \notin Unions /\ FieldOf[v] = None
    BY <2>2, EnclosingDef, ContainerUnionDef
  <2>3. CASE v \notin Unions /\ FieldOf[v] # None
    <3>1. FieldOf[v] \in S
      BY <1>1, <2>3, EffectConstantsOK
    <3>2. Unions \cap Enclosing[v] = Unions \cap Enclosing[FieldOf[v]]
      BY <2>3, EnclosingDef
    <3> QED
      BY <2>3, <3>1, <3>2, ContainerUnionDef
  <2> QED
    BY <2>1, <2>2, <2>3
<1>2. S = Var
  <2> HIDE DEF S
  <2>1. S \in SUBSET Var
    BY DEF S
  <2> QED
    BY <1>1, <2>1, FieldInduction
<1> QED
  BY <1>2

LEMMA SameUnionIs ==
  ASSUME NEW u \in Var, NEW v \in Var
  PROVE  SameUnion(u, v) <=> Enclosing[u] \cap Enclosing[v] \cap Unions # {}
<1>1. Unions \subseteq Var /\ None \notin Var
  BY EffectConstantsOK
<1> QED
  BY <1>1, ContainerUnionIs DEF SameUnion

----------------------------------------------------------------------------
(* Sharing memory *)

\* what overlaps a variable overlaps all that it is inside of
LEMMA OverlapUp ==
  ASSUME NEW u \in Var, NEW v \in Var, NEW x \in Enclosing[u], Overlap(u, v) \/ Overlap(v, u)
  PROVE  Overlap(x, v) /\ Overlap(v, x)
<1>1. x \in Var
  BY EnclosingFacts
<1>2. CASE u \in Enclosing[v]
  BY <1>1, <1>2, EnclosingFacts DEF Overlap
<1>3. CASE v \in Enclosing[u]
  BY <1>1, <1>3, EnclosingFacts DEF Overlap
<1>4. ASSUME NEW c \in Enclosing[u] \cap Enclosing[v] \cap Unions
      PROVE  Overlap(x, v) /\ Overlap(v, x)
  BY <1>1, UnionLast DEF Overlap
<1> QED
  BY <1>2, <1>3, <1>4 DEF Overlap

\* The partial queries are exact: a variable is partially read or written by an
\* effect when it shares memory with what the effect holds, as a field, as the
\* aggregate or through a union (Effect::is_read_partially and
\* is_written_partially, with field_is_read and sibling_union_field_is_read).
THEOREM QueriesExact ==
  \A e \in Effect, v \in Var :
    /\ IsReadPartially(e, v)    <=> \E x \in e.r : Overlap(x, v)
    /\ IsWrittenPartially(e, v) <=> \E x \in e.w : Overlap(x, v)
<1> SUFFICES ASSUME NEW e \in Effect, NEW v \in Var
             PROVE  /\ IsReadPartially(e, v)    <=> \E x \in e.r : Overlap(x, v)
                    /\ IsWrittenPartially(e, v) <=> \E x \in e.w : Overlap(x, v)
  OBVIOUS
<1>1. e.r \subseteq Var /\ e.w \subseteq Var
  BY DEF Effect
<1>2. ASSUME NEW x \in e.w, Overlap(x, v)
      PROVE  IsWrittenPartially(e, v)
  <2>1. CASE x \in Enclosing[v]
    BY <2>1 DEF IsWrittenPartially, IsWritten
  <2>2. CASE v \in Enclosing[x] /\ x # v
    BY <1>1, <2>2, EnclosingFacts DEF IsWrittenPartially, FieldIsWritten, IsWritten, FieldsOf
  <2>3. CASE Enclosing[x] \cap Enclosing[v] \cap Unions # {}
    BY <1>1, <2>3, SameUnionIs DEF IsWrittenPartially, SiblingUnionFieldIsWritten
  <2> QED
    BY <1>2, <2>1, <2>2, <2>3, EnclosingFacts DEF Overlap
<1>3. ASSUME NEW x \in e.r, Overlap(x, v)
      PROVE  IsReadPartially(e, v)
  <2>1. CASE Enclosing[x] \cap Enclosing[v] \cap Unions # {}
    BY <1>1, <2>1, SameUnionIs DEF IsReadPartially, SiblingUnionFieldIsRead
  <2>2. CASE x \in Enclosing[v]
    <3>1. CASE Enclosing[v] \cap Unions = {}
      BY <2>2, <3>1, EnclosingStructsFacts DEF IsReadPartially, IsRead
    <3>2. ASSUME NEW c \in Enclosing[v] \cap Unions
          PROVE  c \in Enclosing[x] \cap Enclosing[v] \cap Unions
      BY <1>1, <2>2, UnionLast
    <3> QED
      BY <2>1, <3>1, <3>2
  <2>3. CASE v \in Enclosing[x] /\ x # v
    BY <1>1, <2>3, EnclosingStructsFacts DEF IsReadPartially, FieldIsRead, IsRead, FieldsOf
  <2> QED
    BY <1>3, <2>1, <2>2, <2>3, EnclosingFacts DEF Overlap
<1>4. ASSUME IsWrittenPartially(e, v)
      PROVE  \E x \in e.w : Overlap(x, v)
  <2>1. CASE IsWritten(e, v)
    BY <2>1 DEF IsWritten, Overlap
  <2>2. CASE FieldIsWritten(e, v)
    <3>1. PICK f \in Var : v \in Enclosing[f] /\ IsWritten(e, f)
      BY <2>2 DEF FieldIsWritten, FieldsOf
    <3>2. PICK x \in e.w : x \in Enclosing[f]
      BY <3>1 DEF IsWritten
    <3> QED
      BY <1>1, <3>1, <3>2, EnclosingFacts DEF Overlap
  <2>3. CASE SiblingUnionFieldIsWritten(e, v)
    BY <1>1, <2>3, SameUnionIs DEF SiblingUnionFieldIsWritten, Overlap
  <2> QED
    BY <1>4, <2>1, <2>2, <2>3 DEF IsWrittenPartially
<1>5. ASSUME IsReadPartially(e, v)
      PROVE  \E x \in e.r : Overlap(x, v)
  <2>1. CASE IsRead(e, v)
    BY <2>1, EnclosingStructsFacts DEF IsRead, Overlap
  <2>2. CASE FieldIsRead(e, v)
    <3>1. PICK f \in Var : v \in Enclosing[f] /\ IsRead(e, f)
      BY <2>2 DEF FieldIsRead, FieldsOf
    <3>2. PICK x \in e.r : x \in Enclosing[f]
      BY <3>1, EnclosingStructsFacts DEF IsRead
    <3> QED
      BY <1>1, <3>1, <3>2, EnclosingFacts DEF Overlap
  <2>3. CASE SiblingUnionFieldIsRead(e, v)
    BY <1>1, <2>3, SameUnionIs DEF SiblingUnionFieldIsRead, Overlap
  <2> QED
    BY <1>5, <2>1, <2>2, <2>3 DEF IsReadPartially
<1> QED
  BY <1>2, <1>3, <1>4, <1>5

----------------------------------------------------------------------------
(* Updates lose nothing *)

\* all that e holds, f holds as well
Wider(f, e) ==
  /\ \A v \in Var : IsReadPartially(e, v) => IsReadPartially(f, v)
  /\ \A v \in Var : IsWrittenPartially(e, v) => IsWrittenPartially(f, v)
  /\ f.sef => e.sef

LEMMA MoreHolds ==
  ASSUME NEW e \in Effect, NEW f \in Effect, e.r \subseteq f.r, e.w \subseteq f.w
  PROVE  \A v \in Var : /\ IsReadPartially(e, v) => IsReadPartially(f, v)
                        /\ IsRead(e, v) => IsRead(f, v)
                        /\ IsWrittenPartially(e, v) => IsWrittenPartially(f, v)
                        /\ IsWritten(e, v) => IsWritten(f, v)
BY QueriesExact DEF IsRead, IsWritten

\* what is covered counts, though only what covers it is held
LEMMA CoveredHolds ==
  ASSUME NEW e \in Effect, NEW u \in Var, NEW v \in Var
  PROVE  /\ IsRead(e, u) /\ Overlap(u, v) => IsReadPartially(e, v)
         /\ IsRead(e, u) /\ u \in EnclosingStructs[v] => IsRead(e, v)
         /\ IsWritten(e, u) /\ Overlap(u, v) => IsWrittenPartially(e, v)
         /\ IsWritten(e, u) /\ u \in Enclosing[v] => IsWritten(e, v)
<1>1. e.r \subseteq Var /\ e.w \subseteq Var
  BY DEF Effect
<1>2. ASSUME IsRead(e, u), Overlap(u, v)
      PROVE  IsReadPartially(e, v)
  BY <1>2, OverlapUp, EnclosingStructsFacts, QueriesExact DEF IsRead
<1>3. ASSUME IsWritten(e, u), Overlap(u, v)
      PROVE  IsWrittenPartially(e, v)
  BY <1>3, OverlapUp, QueriesExact DEF IsWritten
<1> QED
  BY <1>1, <1>2, <1>3, EnclosingFacts, EnclosingStructsFacts DEF IsRead, IsWritten

LEMMA HeldIsCovered ==
  ASSUME NEW e \in Effect
  PROVE  (\A v \in e.r : IsRead(e, v)) /\ (\A v \in e.w : IsWritten(e, v))
BY EnclosingFacts, EnclosingStructsFacts DEF IsRead, IsWritten, Effect

\* Effect::add_effect
LEMMA AddEffectFacts ==
  ASSUME NEW e \in Effect, NEW f \in Effect, NEW lhs \in BOOLEAN
  PROVE  /\ AddEffect(e, f, lhs) \in Effect
         /\ Wider(AddEffect(e, f, lhs), e) /\ Wider(AddEffect(e, f, lhs), f)
         /\ \A v \in Var : IsRead(e, v) \/ IsRead(f, v) => IsRead(AddEffect(e, f, lhs), v)
         /\ \A v \in Var : IsWritten(e, v) \/ IsWritten(f, v)
                             => IsWritten(AddEffect(e, f, lhs), v)
         /\ AddEffect(e, f, lhs).sef = (e.sef /\ f.sef)
         /\ AddEffect(e, f, lhs).lw = IF lhs THEN e.lw \cup f.lw ELSE e.lw
<1> DEFINE g == AddEffect(e, f, lhs)
<1>1. /\ e.r \subseteq Var /\ e.w \subseteq Var /\ e.lw \subseteq Var /\ e.sef \in BOOLEAN
      /\ f.r \subseteq Var /\ f.w \subseteq Var /\ f.lw \subseteq Var /\ f.sef \in BOOLEAN
  BY DEF Effect
<1>2. g \in Effect
  <2>1. (e.sef /\ f.sef) \in BOOLEAN
    OBVIOUS
  <2> QED
    BY <1>1, <2>1 DEF AddEffect, Effect
<1>3. /\ e.r \subseteq g.r /\ \A v \in f.r : v \in g.r \/ IsRead(e, v)
      /\ e.w \subseteq g.w /\ \A v \in f.w : v \in g.w \/ IsWritten(e, v)
  BY DEF AddEffect
<1>4. /\ g.sef = (e.sef /\ f.sef)
      /\ g.lw = IF lhs THEN e.lw \cup f.lw ELSE e.lw
  BY DEF AddEffect
<1> HIDE DEF g
<1>5. \A v \in Var : /\ IsReadPartially(e, v) => IsReadPartially(g, v)
                     /\ IsRead(e, v) => IsRead(g, v)
                     /\ IsWrittenPartially(e, v) => IsWrittenPartially(g, v)
                     /\ IsWritten(e, v) => IsWritten(g, v)
  BY <1>2, <1>3, MoreHolds
<1>6. (\A u \in f.r : IsRead(g, u)) /\ (\A u \in f.w : IsWritten(g, u))
  BY <1>1, <1>2, <1>3, <1>5, HeldIsCovered
<1>7. \A v \in Var : /\ IsReadPartially(f, v) => IsReadPartially(g, v)
                     /\ IsWrittenPartially(f, v) => IsWrittenPartially(g, v)
  BY <1>1, <1>2, <1>6, CoveredHolds, QueriesExact
<1>8. \A v \in Var : /\ IsRead(f, v) => IsRead(g, v)
                     /\ IsWritten(f, v) => IsWritten(g, v)
  BY <1>1, <1>2, <1>6, CoveredHolds DEF IsRead, IsWritten
<1>9. (g.sef => e.sef) /\ (g.sef => f.sef)
  BY <1>4
<1> QED
  BY <1>2, <1>4, <1>5, <1>7, <1>8, <1>9 DEF Wider, g

\* Effect::read_var for each of a set
LEMMA ReadVarSetFacts ==
  ASSUME NEW e \in Effect, NEW vs, vs \subseteq Var
  PROVE  /\ ReadVarSet(e, vs) \in Effect
         /\ Wider(ReadVarSet(e, vs), e)
         /\ \A v \in vs : IsRead(ReadVarSet(e, vs), v)
         /\ ReadVarSet(e, vs).w = e.w /\ ReadVarSet(e, vs).lw = e.lw
         /\ ReadVarSet(e, vs).sef = (e.sef /\ vs \cap Volatile = {})
<1> DEFINE g == ReadVarSet(e, vs)
<1>1. /\ e.r \subseteq Var /\ e.w \subseteq Var /\ e.lw \subseteq Var /\ e.sef \in BOOLEAN
      /\ DOMAIN e = {"r", "w", "lw", "sef"}
  BY DEF Effect
<1>2. g \in Effect
  <2>1. (e.sef /\ vs \cap Volatile = {}) \in BOOLEAN
    OBVIOUS
  <2> QED
    BY <1>1, <2>1 DEF ReadVarSet, Effect
<1>3. /\ e.r \subseteq g.r /\ \A v \in vs : v \in g.r \/ IsRead(e, v)
      /\ g.w = e.w /\ g.lw = e.lw
      /\ g.sef = (e.sef /\ vs \cap Volatile = {})
  BY <1>1 DEF ReadVarSet, Effect
<1> HIDE DEF g
<1>4. \A v \in Var : /\ IsReadPartially(e, v) => IsReadPartially(g, v)
                     /\ IsRead(e, v) => IsRead(g, v)
                     /\ IsWrittenPartially(e, v) => IsWrittenPartially(g, v)
  BY <1>2, <1>3, MoreHolds
<1>5. \A v \in vs : IsRead(g, v)
  BY <1>2, <1>3, <1>4, HeldIsCovered
<1>6. g.sef => e.sef
  BY <1>3
<1> QED
  BY <1>2, <1>3, <1>4, <1>5, <1>6 DEF Wider, g

\* Effect::write_var_set
LEMMA WriteVarSetFacts ==
  ASSUME NEW e \in Effect, NEW vs, vs \subseteq Var
  PROVE  /\ WriteVarSet(e, vs) \in Effect
         /\ Wider(WriteVarSet(e, vs), e)
         /\ \A v \in vs : IsWritten(WriteVarSet(e, vs), v)
         /\ WriteVarSet(e, vs).r = e.r /\ WriteVarSet(e, vs).lw = e.lw
         /\ WriteVarSet(e, vs).sef = (e.sef /\ vs \cap Volatile = {})
<1> DEFINE g == WriteVarSet(e, vs)
<1>1. /\ e.r \subseteq Var /\ e.w \subseteq Var /\ e.lw \subseteq Var /\ e.sef \in BOOLEAN
      /\ DOMAIN e = {"r", "w", "lw", "sef"}
  BY DEF Effect
<1>2. g \in Effect
  <2>1. (e.sef /\ vs \cap Volatile = {}) \in BOOLEAN
    OBVIOUS
  <2> QED
    BY <1>1, <2>1 DEF WriteVarSet, Effect
<1>3. /\ e.w \subseteq g.w /\ \A v \in vs : v \in g.w \/ IsWritten(e, v)
      /\ g.r = e.r /\ g.lw = e.lw
      /\ g.sef = (e.sef /\ vs \cap Volatile = {})
  BY <1>1 DEF WriteVarSet, Effect
<1> HIDE DEF g
<1>4. \A v \in Var : /\ IsReadPartially(e, v) => IsReadPartially(g, v)
                     /\ IsWritten(e, v) => IsWritten(g, v)
                     /\ IsWrittenPartially(e, v) => IsWrittenPartially(g, v)
  BY <1>2, <1>3, MoreHolds
<1>5. \A v \in vs : IsWritten(g, v)
  BY <1>2, <1>3, <1>4, HeldIsCovered
<1>6. g.sef => e.sef
  BY <1>3
<1> QED
  BY <1>2, <1>3, <1>4, <1>5, <1>6 DEF Wider, g

\* Effect::add_external_effect
LEMMA AddExternalEffectFacts ==
  ASSUME NEW e \in Effect, NEW f \in Effect, NEW blocks
  PROVE  /\ AddExternalEffect(e, f, blocks) \in Effect
         /\ Wider(AddExternalEffect(e, f, blocks), e)
         /\ \A v \in f.r \cap (Global \cup blocks) : IsRead(AddExternalEffect(e, f, blocks), v)
         /\ \A v \in f.w \cap (Global \cup blocks) :
              IsWritten(AddExternalEffect(e, f, blocks), v)
         /\ AddExternalEffect(e, f, blocks).sef = (e.sef /\ f.sef)
<1> DEFINE part == [f EXCEPT !.r = @ \cap (Global \cup blocks),
                             !.w = @ \cap (Global \cup blocks)]
<1>1. /\ part \in Effect /\ part.sef = f.sef
      /\ part.r = f.r \cap (Global \cup blocks) /\ part.w = f.w \cap (Global \cup blocks)
  BY DEF Effect
<1>2. AddExternalEffect(e, f, blocks) = AddEffect(e, part, FALSE)
  BY DEF AddExternalEffect
<1> HIDE DEF part
<1>3. \A v \in part.r : v \in Var /\ IsRead(part, v)
  BY <1>1, HeldIsCovered DEF Effect
<1>4. \A v \in part.w : v \in Var /\ IsWritten(part, v)
  BY <1>1, HeldIsCovered DEF Effect
<1>5. FALSE \in BOOLEAN
  OBVIOUS
<1>6. /\ AddEffect(e, part, FALSE) \in Effect /\ Wider(AddEffect(e, part, FALSE), e)
      /\ \A v \in Var : IsRead(part, v) => IsRead(AddEffect(e, part, FALSE), v)
      /\ \A v \in Var : IsWritten(part, v) => IsWritten(AddEffect(e, part, FALSE), v)
      /\ AddEffect(e, part, FALSE).sef = (e.sef /\ part.sef)
  BY <1>1, <1>5, AddEffectFacts
<1> QED
  BY <1>1, <1>2, <1>3, <1>4, <1>6

\* the effect of reading rs and writing ws
AccessEffect(rs, ws) == WriteVarSet(ReadVarSet(EmptyEffect, rs), ws)

LEMMA EmptyIsEffect == EmptyEffect \in Effect
BY DEF EmptyEffect, Effect

LEMMA EffectOfAccess ==
  ASSUME NEW rs, rs \subseteq Var, NEW ws, ws \subseteq Var
  PROVE  /\ AccessEffect(rs, ws) \in Effect
         /\ AccessEffect(rs, ws).r = rs
         /\ AccessEffect(rs, ws).w = ws
         /\ AccessEffect(rs, ws).lw = {}
         /\ AccessEffect(rs, ws).sef <=> (rs \cup ws) \cap Volatile = {}
<1> DEFINE e == ReadVarSet(EmptyEffect, rs)
<1>1. \A v : ~IsRead(EmptyEffect, v) /\ ~IsWritten(EmptyEffect, v)
  BY DEF EmptyEffect, IsRead, IsWritten
<1>2. e \in Effect /\ e.w = {} /\ e.lw = {} /\ (e.sef <=> rs \cap Volatile = {})
  BY EmptyIsEffect, ReadVarSetFacts DEF EmptyEffect
<1>3. e.r = rs
  BY <1>1 DEF ReadVarSet, EmptyEffect
<1> HIDE DEF e
<1>4. \A v : ~IsWritten(e, v)
  BY <1>2 DEF IsWritten
<1>5. /\ WriteVarSet(e, ws) \in Effect /\ WriteVarSet(e, ws).r = e.r
      /\ WriteVarSet(e, ws).lw = e.lw
      /\ WriteVarSet(e, ws).sef <=> e.sef /\ ws \cap Volatile = {}
  BY <1>2, WriteVarSetFacts
<1>6. WriteVarSet(e, ws).w = ws
  BY <1>2, <1>4 DEF WriteVarSet, Effect
<1> QED
  BY <1>2, <1>3, <1>5, <1>6 DEF AccessEffect, e

----------------------------------------------------------------------------
(* The inductive invariant *)

\* what an expression touches
Access == [r : SUBSET Var, w : SUBSET Var, pend : SUBSET Var,
           val : SUBSET (Pointees \cup {Null}), vol : BOOLEAN]

Frame == [op : Operators \cup Func \cup {"stmt"}, type : Types, ctx : Effect, acc : Effect,
          args : Seq(Access), saved : Facts, at : Nat, rest : Nat]

\* a step that builds a statement
Step == Leaf \cup [k : {"open"}, op : Operators \cup Func, type : Types]

\* an expression may be evaluated in a context
Fits(ctx, s) ==
  /\ \A v \in s.r : ~IsWrittenPartially(ctx, v)
  /\ \A v \in s.w : ~IsWrittenPartially(ctx, v) /\ ~IsReadPartially(ctx, v)
  /\ s.vol => ctx.sef

FrameOK(fr) ==
  /\ Len(fr.args) <= Arity(fr.op)
  /\ \A j \in DOMAIN fr.args :
       /\ Fits(fr.ctx, fr.args[j])
       /\ Covers(fr.acc, fr.args[j])
       /\ PassesLhsWrites(fr.op) => fr.args[j].pend \subseteq fr.acc.lw
  /\ Len(fr.args) = 2 => ~Unsequenced(fr)

\* the frame of an operand and that of its operator
Nested(fr, inner) ==
  /\ WantsOperand(fr)
  /\ inner.ctx = OperandContext(fr)
  /\ inner.rest = fr.rest + Arity(fr.op) - Len(fr.args) - 1

StackOK(st) ==
  /\ st \in Seq(Frame)
  /\ \A i \in DOMAIN st : FrameOK(st[i])
  /\ \A i \in DOMAIN st : st[i].op = "stmt" <=> i = 1
  /\ st # <<>> => st[1].rest = 0
  /\ \A i \in 2 .. Len(st) : Nested(st[i - 1], st[i])

\* while a statement is generated: there is room for the operands still missing,
\* also if the call fails that is under construction, and a function whose body
\* is not analysed for the call has been found to be in no conflict
Generates ==
  /\ pc = Len(code) + 1 /\ Len(code) + Missing <= MaxSteps
  /\ \A i, j \in 2 .. Len(stack) : i <= j => stack[i].at <= stack[j].at
  /\ \A i \in 2 .. Len(stack) :
       /\ stack[i].at <= Len(code) /\ stack[i].at + stack[i].rest + 1 <= MaxSteps
       /\ stack[i].op \in Func /\ ~IsDynamic(stack[i].op)
            => ~InConflict(stack[i].ctx, feffect[stack[i].op])

\* the effect of a function that does not depend on the facts
EffectKnown(f) ==
  /\ feffect[f].r = Body[f].r /\ feffect[f].w = Body[f].w
  /\ feffect[f].sef <=> (Body[f].r \cup Body[f].w) \cap Volatile = {}

Typed ==
  /\ mode \in {"idle", "generate", "visit", "rejected"}
  /\ must \in BOOLEAN
  /\ facts \in Facts
  /\ born \in [facts : Facts, ctx : Effect] /\ entry \in [facts : Facts, ctx : Effect]
  /\ code \in Seq(Step) /\ Len(code) <= MaxSteps
  /\ pc \in 1 .. MaxSteps + 1
  /\ feffect \in [Func -> Effect] /\ ctxeffect \in [Func -> Effect]
  /\ stmts \in 0 .. MaxStatements

IInv ==
  /\ Typed
  /\ StackOK(stack)
  /\ mode \in {"generate", "visit"} <=> stack # <<>>
  /\ mode = "generate" => Generates
  /\ \A f \in Func : ~IsDynamic(f) => EffectKnown(f)

----------------------------------------------------------------------------
(* Contexts and accesses *)

LEMMA FitsNarrower ==
  ASSUME NEW ctx \in Effect, NEW wide \in Effect, NEW s \in Access,
         Wider(wide, ctx), Fits(wide, s)
  PROVE  Fits(ctx, s)
BY DEF Fits, Wider, Access

LEMMA CoversMore ==
  ASSUME NEW e \in Effect, NEW f \in Effect, NEW lhs \in BOOLEAN, NEW s \in Access,
         Covers(e, s) \/ Covers(f, s)
  PROVE  Covers(AddEffect(e, f, lhs), s)
BY AddEffectFacts DEF Covers, Access

\* what fits the context of an operand does not clash with the operands before
LEMMA NoClash ==
  ASSUME NEW e \in Effect, NEW ctx \in Effect, NEW s \in Access, NEW t \in Access,
         Covers(e, s), Wider(ctx, e), Fits(ctx, t)
  PROVE  ~Clashing(s, t)
<1>1. s.r \subseteq Var /\ s.w \subseteq Var /\ t.r \subseteq Var /\ t.w \subseteq Var
  BY DEF Access
<1>2. ASSUME NEW u \in s.w, NEW v \in t.r \cup t.w, Overlap(u, v)
      PROVE  FALSE
  <2>1. IsWrittenPartially(ctx, v)
    BY <1>1, <1>2, CoveredHolds DEF Covers, Wider
  <2> QED
    BY <2>1 DEF Fits
<1>3. ASSUME NEW u \in s.r, NEW v \in t.w, Overlap(u, v)
      PROVE  FALSE
  <2>1. IsReadPartially(ctx, v)
    BY <1>1, <1>3, CoveredHolds DEF Covers, Wider
  <2> QED
    BY <2>1 DEF Fits
<1>4. ~(s.vol /\ t.vol)
  BY DEF Covers, Wider, Fits
<1> QED
  BY <1>2, <1>3, <1>4 DEF Clashing, Clash

LEMMA TouchFacts ==
  ASSUME NEW rs, rs \subseteq Var, NEW ws, ws \subseteq Var
  PROVE  /\ Touch(rs, ws) \in Access
         /\ Touch(rs, ws).r = rs /\ Touch(rs, ws).w = ws /\ Touch(rs, ws).pend = ws
         /\ Touch(rs, ws).vol <=> (rs \cup ws) \cap Volatile # {}
<1>1. ((rs \cup ws) \cap Volatile # {}) \in BOOLEAN
  OBVIOUS
<1> QED
  BY <1>1 DEF Touch, Access

\* the effect of an access covers it
LEMMA AccessCovered ==
  ASSUME NEW rs, rs \subseteq Var, NEW ws, ws \subseteq Var, NEW s \in Access, NEW e \in Effect,
         s.r = rs, s.w = ws, s.vol <=> (rs \cup ws) \cap Volatile # {},
         e.r = rs, e.w = ws, e.sef <=> (rs \cup ws) \cap Volatile = {}
  PROVE  Covers(e, s)
BY HeldIsCovered DEF Covers

\* what may be read and written one by one fits the context
LEMMA AccessFits ==
  ASSUME NEW ctx \in Effect, NEW rs, rs \subseteq Var, NEW ws, ws \subseteq Var,
         NEW s \in Access, s.r = rs, s.w = ws, s.vol <=> (rs \cup ws) \cap Volatile # {},
         \A v \in rs : CanRead(ctx, v), \A v \in ws : CanWrite(ctx, v)
  PROVE  Fits(ctx, s)
BY DEF Fits, CanRead, CanWrite

\* an operator touches what its operands touch
LEMMA SemOfFacts ==
  ASSUME NEW fr \in Frame, FrameOK(fr), Len(fr.args) = 2, fr.op \in Operators
  PROVE  /\ SemOf(fr) \in Access
         /\ Fits(fr.ctx, SemOf(fr)) /\ Covers(fr.acc, SemOf(fr))
         /\ SemOf(fr).pend \subseteq fr.acc.lw
<1> DEFINE s == fr.args[1]
           t == fr.args[2]
           m == SemOf(fr)
<1>1. s \in Access /\ t \in Access
  BY DEF Frame
<1>2. fr.op \notin Func
  BY ContextConstantsOK
<1>3. /\ Fits(fr.ctx, s) /\ Covers(fr.acc, s) /\ s.pend \subseteq fr.acc.lw
      /\ Fits(fr.ctx, t) /\ Covers(fr.acc, t) /\ t.pend \subseteq fr.acc.lw
  <2>1. 1 \in DOMAIN fr.args /\ 2 \in DOMAIN fr.args
    BY DEF Frame
  <2> QED
    BY <1>2, <2>1 DEF FrameOK, PassesLhsWrites
<1>4. /\ s.r \subseteq Var /\ s.w \subseteq Var /\ s.pend \subseteq Var
      /\ s.val \subseteq Pointees \cup {Null} /\ s.vol \in BOOLEAN
      /\ t.r \subseteq Var /\ t.w \subseteq Var /\ t.pend \subseteq Var
      /\ t.val \subseteq Pointees \cup {Null} /\ t.vol \in BOOLEAN
  BY <1>1 DEF Access
<1>5. (s.vol \/ t.vol) \in BOOLEAN
  OBVIOUS
<1> HIDE DEF s, t
<1>6. /\ m \in Access /\ m.r = s.r \cup t.r /\ m.w = s.w \cup t.w
      /\ m.pend \subseteq s.pend \cup t.pend
      /\ m.vol <=> s.vol \/ t.vol
  <2>1. CASE fr.op = "binary"
    <3>1. m = Both(s, t)
      BY <2>1 DEF SemOf, s, t, IsAssign
    <3> QED
      BY <1>4, <1>5, <3>1 DEF Both, Access
  <2>2. CASE fr.op \in {"and", "comma"}
    <3>1. m = [Both(s, t) EXCEPT !.pend = t.pend, !.val = t.val]
      BY <2>2 DEF SemOf, s, t, IsAssign
    <3> QED
      BY <1>4, <1>5, <3>1 DEF Both, Access
  <2>3. CASE fr.op \in {"assign", "compound"}
    <3>1. m = [Both(s, t) EXCEPT !.val = s.val]
      BY <2>3 DEF SemOf, s, t, IsAssign
    <3> QED
      BY <1>4, <1>5, <3>1 DEF Both, Access
  <2> QED
    BY <2>1, <2>2, <2>3 DEF Operators
<1> HIDE DEF m
<1>7. Fits(fr.ctx, m)
  BY <1>3, <1>6 DEF Fits
<1>8. Covers(fr.acc, m)
  BY <1>3, <1>6 DEF Covers
<1> QED
  BY <1>3, <1>6, <1>7, <1>8 DEF m

LEMMA OperandContextFacts ==
  ASSUME NEW fr \in Frame
  PROVE  /\ OperandContext(fr) \in Effect /\ Wider(OperandContext(fr), fr.ctx)
         /\ fr.op \in {"binary", "stmt"} \cup Func /\ fr.args # <<>>
              => Wider(OperandContext(fr), fr.acc)
<1>1. fr.ctx \in Effect /\ fr.acc \in Effect /\ TRUE \in BOOLEAN
  BY DEF Frame
<1>2. Wider(fr.ctx, fr.ctx)
  BY DEF Wider
<1>3. fr.op \in {"binary", "stmt"} \cup Func
        => fr.op \notin {"and", "comma", "assign", "compound"}
  BY ContextConstantsOK DEF Operators
<1>4. /\ AddEffect(fr.ctx, fr.acc, TRUE) \in Effect
      /\ Wider(AddEffect(fr.ctx, fr.acc, TRUE), fr.ctx)
      /\ Wider(AddEffect(fr.ctx, fr.acc, TRUE), fr.acc)
  BY <1>1, AddEffectFacts
<1> QED
  BY <1>1, <1>2, <1>3, <1>4 DEF OperandContext

----------------------------------------------------------------------------
(* Frames and stacks *)

\* an operand is delivered to its operator
Delivered(fr, eff, sem) ==
  [fr EXCEPT !.acc = AddEffect(@, eff, PassesLhsWrites(fr.op)), !.args = Append(@, sem)]

LEMMA DeliveredFacts ==
  ASSUME NEW fr \in Frame, FrameOK(fr), Len(fr.args) < Arity(fr.op),
         NEW eff \in Effect, NEW sem \in Access,
         Fits(fr.ctx, sem), Covers(eff, sem),
         PassesLhsWrites(fr.op) => sem.pend \subseteq eff.lw,
         fr.op \in {"binary"} \cup Func /\ fr.args # <<>> => ~Clashing(fr.args[1], sem),
         IsAssign(fr.op) /\ fr.args # <<>>
           => ~Clash(fr.args[1].w, sem.r) /\ ~Clash(fr.args[1].pend, sem.w)
  PROVE  /\ Delivered(fr, eff, sem) \in Frame /\ FrameOK(Delivered(fr, eff, sem))
         /\ Delivered(fr, eff, sem).op = fr.op /\ Delivered(fr, eff, sem).ctx = fr.ctx
         /\ Delivered(fr, eff, sem).at = fr.at /\ Delivered(fr, eff, sem).rest = fr.rest
         /\ Delivered(fr, eff, sem).saved = fr.saved
         /\ Len(Delivered(fr, eff, sem).args) = Len(fr.args) + 1
<1> DEFINE lhs == PassesLhsWrites(fr.op)
           acc == AddEffect(fr.acc, eff, lhs)
           new == Delivered(fr, eff, sem)
           n == Len(fr.args)
<1>1. fr.acc \in Effect /\ fr.args \in Seq(Access) /\ n \in Nat
  BY DEF Frame
<1>2. /\ acc \in Effect /\ acc.lw = IF lhs THEN fr.acc.lw \cup eff.lw ELSE fr.acc.lw
      /\ \A s \in Access : Covers(fr.acc, s) \/ Covers(eff, s) => Covers(acc, s)
  <2>1. lhs \in BOOLEAN
    BY DEF PassesLhsWrites
  <2> HIDE DEF lhs
  <2>2. acc \in Effect
    BY <1>1, <2>1, AddEffectFacts
  <2>3. acc.lw = IF lhs THEN fr.acc.lw \cup eff.lw ELSE fr.acc.lw
    BY <1>1, <2>1, AddEffectFacts
  <2>4. \A s \in Access : Covers(fr.acc, s) \/ Covers(eff, s) => Covers(acc, s)
    BY <1>1, <2>1, CoversMore
  <2> QED
    BY <2>2, <2>3, <2>4
<1>3. /\ new.op = fr.op /\ new.ctx = fr.ctx /\ new.at = fr.at /\ new.rest = fr.rest
      /\ new.saved = fr.saved /\ new.acc = acc /\ new.args = Append(fr.args, sem)
      /\ new \in Frame
  <2>1. new = [fr EXCEPT !.acc = acc, !.args = Append(fr.args, sem)]
    BY DEF Delivered
  <2>2. Append(fr.args, sem) \in Seq(Access)
    BY <1>1
  <2> HIDE DEF acc, new
  <2> QED
    BY <1>2, <2>1, <2>2 DEF Frame
<1>4. /\ Len(new.args) = n + 1 /\ DOMAIN new.args = 1 .. n + 1
      /\ \A j \in 1 .. n : new.args[j] = fr.args[j] /\ fr.args[j] \in Access
      /\ new.args[n + 1] = sem
      /\ DOMAIN fr.args = 1 .. n
  BY <1>1, <1>3
<1> HIDE DEF n, new, acc
<1>5. Len(new.args) <= Arity(new.op)
  BY <1>1, <1>3, <1>4 DEF Arity, n
<1>6. ASSUME NEW j \in DOMAIN new.args
      PROVE  /\ Fits(new.ctx, new.args[j])
             /\ Covers(new.acc, new.args[j])
             /\ PassesLhsWrites(new.op) => new.args[j].pend \subseteq new.acc.lw
  <2>1. CASE j \in 1 .. n
    <3>1. new.args[j] = fr.args[j] /\ fr.args[j] \in Access
      BY <1>4, <2>1
    <3>2. /\ Fits(fr.ctx, fr.args[j]) /\ Covers(fr.acc, fr.args[j])
          /\ lhs => fr.args[j].pend \subseteq fr.acc.lw
      BY <1>4, <2>1 DEF FrameOK
    <3>3. Covers(acc, fr.args[j])
      BY <1>2, <3>1, <3>2
    <3> QED
      BY <1>2, <1>3, <3>1, <3>2, <3>3
  <2>2. CASE j = n + 1
    <3>1. Covers(acc, sem)
      BY <1>2
    <3> QED
      BY <1>2, <1>3, <1>4, <2>2, <3>1
  <2> QED
    BY <1>1, <1>4, <2>1, <2>2
<1>7. Len(new.args) = 2 => ~Unsequenced(new)
  <2> SUFFICES ASSUME Len(new.args) = 2
               PROVE  ~Unsequenced(new)
    OBVIOUS
  <2>1. fr.args # <<>> /\ new.args[1] = fr.args[1] /\ new.args[2] = sem
    <3>1. n \in Nat /\ n + 1 = 2
      BY <1>1, <1>4
    <3>2. n = 1
      BY <3>1
    <3> QED
      BY <1>1, <1>4, <3>2 DEF n
  <2>2. ~(new.op \in {"binary"} \cup Func /\ IsAssign(new.op))
    BY ContextConstantsOK DEF Operators, IsAssign
  <2>3. CASE new.op \in {"binary"} \cup Func
    BY <1>3, <2>1, <2>2, <2>3 DEF Unsequenced
  <2>4. CASE IsAssign(new.op)
    BY <1>3, <2>1, <2>2, <2>4 DEF Unsequenced
  <2> QED
    BY <2>3, <2>4 DEF Unsequenced
<1> QED
  BY <1>3, <1>4, <1>5, <1>6, <1>7 DEF FrameOK, new, n

LEMMA DeliverIs ==
  ASSUME NEW st \in Seq(Frame), st # <<>>, NEW eff, NEW sem
  PROVE  Deliver(st, eff, sem) = [st EXCEPT ![Len(st)] = Delivered(Last(st), eff, sem)]
<1>1. Len(st) \in DOMAIN st /\ st[Len(st)] \in Frame
  OBVIOUS
<1> QED
  BY <1>1 DEF Deliver, Delivered, Last, Frame

\* the last frame of a stack is replaced by one in the same place
LEMMA LastReplaced ==
  ASSUME NEW st, StackOK(st), st # <<>>, NEW fr \in Frame, FrameOK(fr),
         fr.op = Last(st).op, fr.ctx = Last(st).ctx, fr.at = Last(st).at,
         fr.rest = Last(st).rest
  PROVE  /\ StackOK([st EXCEPT ![Len(st)] = fr]) /\ [st EXCEPT ![Len(st)] = fr] # <<>>
         /\ Len([st EXCEPT ![Len(st)] = fr]) = Len(st)
         /\ Last([st EXCEPT ![Len(st)] = fr]) = fr
         /\ \A i \in 1 .. Len(st) - 1 : [st EXCEPT ![Len(st)] = fr][i] = st[i]
<1> DEFINE n == Len(st)
           new == [st EXCEPT ![n] = fr]
<1>1. st \in Seq(Frame) /\ n \in Nat \ {0} /\ DOMAIN st = 1 .. n /\ n \in DOMAIN st
  BY DEF StackOK
<1>2. /\ new \in Seq(Frame) /\ Len(new) = n /\ DOMAIN new = 1 .. n
      /\ new[n] = fr /\ \A i \in 1 .. n - 1 : new[i] = st[i]
  <2> HIDE DEF n
  <2>1. new = [j \in 1 .. n |-> IF j = n THEN fr ELSE st[j]]
    BY <1>1
  <2>2. \A j \in 1 .. n : st[j] \in Frame
    BY <1>1
  <2> HIDE DEF new
  <2> QED
    BY <1>1, <2>1, <2>2
<1> HIDE DEF n, new
<1>3. Last(st) = st[n] /\ Last(new) = fr
  BY <1>2 DEF Last, n
<1>4. \A i \in DOMAIN new : FrameOK(new[i])
  BY <1>1, <1>2 DEF StackOK
<1>5. \A i \in DOMAIN new : new[i].op = "stmt" <=> i = 1
  BY <1>1, <1>2, <1>3 DEF StackOK
<1>6. new[1].rest = 0
  BY <1>1, <1>2, <1>3 DEF StackOK
<1>7. ASSUME NEW i \in 2 .. n
      PROVE  Nested(new[i - 1], new[i])
  <2>1. new[i - 1] = st[i - 1]
    BY <1>1, <1>2
  <2>2. Nested(st[i - 1], st[i])
    BY <1>7 DEF StackOK, n
  <2>3. /\ new[i].ctx = st[i].ctx /\ new[i].rest = st[i].rest /\ new[i].at = st[i].at
    BY <1>1, <1>2, <1>3
  <2> QED
    BY <2>1, <2>2, <2>3 DEF Nested
<1>8. StackOK(new)
  BY <1>2, <1>4, <1>5, <1>6, <1>7 DEF StackOK
<1>9. new # <<>>
  BY <1>1, <1>2
<1> QED
  BY <1>2, <1>3, <1>8, <1>9 DEF n, new

\* the last operator leaves the stack
LEMMA Popped ==
  ASSUME NEW st, StackOK(st), Len(st) > 1
  PROVE  /\ StackOK(Front(st)) /\ Front(st) # <<>> /\ Len(Front(st)) = Len(st) - 1
         /\ Nested(Last(Front(st)), Last(st))
         /\ Last(Front(st)) \in Frame /\ Last(st) \in Frame
         /\ FrameOK(Last(Front(st))) /\ FrameOK(Last(st))
         /\ \A i \in 1 .. Len(st) - 1 : Front(st)[i] = st[i]
<1> DEFINE n == Len(st)
           new == Front(st)
<1>1. st \in Seq(Frame) /\ n \in Nat /\ n > 1 /\ DOMAIN st = 1 .. n
  BY DEF StackOK
<1>2. /\ new \in Seq(Frame) /\ Len(new) = n - 1 /\ DOMAIN new = 1 .. n - 1
      /\ \A i \in 1 .. n - 1 : new[i] = st[i]
  BY <1>1 DEF Front
<1>3. Last(st) = st[n]
  BY DEF Last
<1> HIDE DEF n, new
<1>4. new # <<>> /\ Last(new) = st[n - 1]
  BY <1>1, <1>2 DEF Last
<1>5. Nested(st[n - 1], st[n]) /\ FrameOK(st[n - 1]) /\ FrameOK(st[n])
  BY <1>1 DEF StackOK, n
<1>6. StackOK(new)
  <2>1. \A i \in DOMAIN new : FrameOK(new[i]) /\ (new[i].op = "stmt" <=> i = 1)
    BY <1>1, <1>2 DEF StackOK
  <2>2. new[1].rest = 0
    BY <1>1, <1>2 DEF StackOK
  <2>3. ASSUME NEW i \in 2 .. Len(new)
        PROVE  Nested(new[i - 1], new[i])
    <3>1. i \in 2 .. n /\ i - 1 \in 1 .. n - 1 /\ i \in 1 .. n - 1
      BY <1>1, <1>2
    <3> QED
      BY <1>2, <3>1 DEF StackOK, n
  <2> QED
    BY <1>2, <2>1, <2>2, <2>3 DEF StackOK
<1>7. st[n - 1] \in Frame /\ st[n] \in Frame
  BY <1>1
<1> QED
  BY <1>2, <1>3, <1>4, <1>5, <1>6, <1>7 DEF n, new

\* an operand that is an operator is begun
LEMMA Pushed ==
  ASSUME NEW st, StackOK(st), st # <<>>, NEW fr \in Frame, FrameOK(fr),
         fr.op # "stmt", Nested(Last(st), fr)
  PROVE  /\ StackOK(Append(st, fr)) /\ Len(Append(st, fr)) = Len(st) + 1
         /\ Last(Append(st, fr)) = fr
         /\ \A i \in 1 .. Len(st) : Append(st, fr)[i] = st[i]
<1> DEFINE n == Len(st)
           new == Append(st, fr)
<1>1. st \in Seq(Frame) /\ n \in Nat \ {0} /\ DOMAIN st = 1 .. n
  BY DEF StackOK
<1>2. /\ new \in Seq(Frame) /\ Len(new) = n + 1 /\ DOMAIN new = 1 .. n + 1
      /\ new[n + 1] = fr /\ \A i \in 1 .. n : new[i] = st[i]
  BY <1>1
<1>3. Last(st) = st[n]
  BY DEF Last
<1> HIDE DEF n, new
<1>4. new # <<>> /\ Last(new) = fr
  BY <1>1, <1>2 DEF Last
<1>5. \A i \in DOMAIN new : FrameOK(new[i]) /\ (new[i].op = "stmt" <=> i = 1)
  BY <1>1, <1>2 DEF StackOK
<1>6. new[1].rest = 0
  BY <1>1, <1>2 DEF StackOK
<1>7. ASSUME NEW i \in 2 .. n + 1
      PROVE  Nested(new[i - 1], new[i])
  <2>1. CASE i \in 2 .. n
    <3>1. i - 1 \in 1 .. n /\ i \in 1 .. n
      BY <1>1, <2>1
    <3> QED
      BY <1>2, <2>1, <3>1 DEF StackOK, n
  <2>2. CASE i = n + 1
    <3>1. i - 1 = n /\ n \in 1 .. n
      BY <1>1, <2>2
    <3> QED
      BY <1>2, <1>3, <2>2, <3>1
  <2> QED
    BY <1>1, <2>1, <2>2
<1> QED
  BY <1>1, <1>2, <1>4, <1>5, <1>6, <1>7 DEF StackOK, n, new

\* st with one more operand at its last operator
Grown(st, new) ==
  /\ StackOK(new) /\ new # <<>> /\ Len(new) = Len(st)
  /\ \A i \in 1 .. Len(st) - 1 : new[i] = st[i]
  /\ Last(new).op = Last(st).op /\ Last(new).ctx = Last(st).ctx
  /\ Last(new).at = Last(st).at /\ Last(new).rest = Last(st).rest
  /\ Last(st).op \in Func => Last(new).saved = Last(st).saved
  /\ Len(Last(new).args) = Len(Last(st).args) + 1

LEMMA TopFacts ==
  ASSUME NEW st, StackOK(st), st # <<>>
  PROVE  /\ Last(st) \in Frame /\ FrameOK(Last(st)) /\ Len(st) \in Nat \ {0}
         /\ Last(st) = st[Len(st)]
         /\ st \in Seq(Frame)
<1>1. st \in Seq(Frame) /\ Len(st) \in Nat \ {0} /\ Len(st) \in DOMAIN st
  BY DEF StackOK
<1> QED
  BY <1>1 DEF StackOK, Last

LEMMA DeliverGrows ==
  ASSUME NEW st, StackOK(st), st # <<>>,
         Len(Last(st).args) < Arity(Last(st).op),
         NEW eff \in Effect, NEW sem \in Access,
         Fits(Last(st).ctx, sem), Covers(eff, sem),
         PassesLhsWrites(Last(st).op) => sem.pend \subseteq eff.lw,
         Last(st).op \in {"binary"} \cup Func /\ Last(st).args # <<>>
           => ~Clashing(Last(st).args[1], sem),
         IsAssign(Last(st).op) /\ Last(st).args # <<>>
           => ~Clash(Last(st).args[1].w, sem.r) /\ ~Clash(Last(st).args[1].pend, sem.w)
  PROVE  Grown(st, Deliver(st, eff, sem))
<1> DEFINE fr == Last(st)
           new == Delivered(fr, eff, sem)
<1>1. fr \in Frame /\ FrameOK(fr) /\ st \in Seq(Frame) /\ Len(st) \in Nat \ {0}
  BY TopFacts
<1>2. /\ new \in Frame /\ FrameOK(new)
      /\ new.op = fr.op /\ new.ctx = fr.ctx /\ new.at = fr.at /\ new.rest = fr.rest
      /\ new.saved = fr.saved /\ Len(new.args) = Len(fr.args) + 1
  <2> HIDE DEF fr
  <2> QED
    BY <1>1, DeliveredFacts DEF fr
<1>3. Deliver(st, eff, sem) = [st EXCEPT ![Len(st)] = new]
  BY <1>1, DeliverIs
<1> HIDE DEF new
<1>4. /\ StackOK([st EXCEPT ![Len(st)] = new]) /\ [st EXCEPT ![Len(st)] = new] # <<>>
      /\ Len([st EXCEPT ![Len(st)] = new]) = Len(st)
      /\ Last([st EXCEPT ![Len(st)] = new]) = new
      /\ \A i \in 1 .. Len(st) - 1 : [st EXCEPT ![Len(st)] = new][i] = st[i]
  BY <1>2, LastReplaced
<1> QED
  BY <1>2, <1>3, <1>4 DEF Grown

LEMMA SetAsideKeeps ==
  ASSUME NEW st, NEW new, Grown(st, new), NEW fs \in Facts
  PROVE  Grown(st, SetAside(new, fs))
<1>1. new # <<>> /\ StackOK(new)
  BY DEF Grown
<1>2. /\ Last(new) \in Frame /\ FrameOK(Last(new)) /\ Len(new) \in Nat \ {0}
      /\ new \in Seq(Frame) /\ Last(new) = new[Len(new)]
  BY <1>1, TopFacts
<1>3. CASE SetAside(new, fs) = new
  BY <1>3
<1>4. CASE SetAside(new, fs) # new
  <2> DEFINE fr == [Last(new) EXCEPT !.saved = fs]
  <2>1. SetAside(new, fs) = [new EXCEPT ![Len(new)] = fr]
    BY <1>2, <1>4 DEF SetAside
  <2>2. /\ fr \in Frame /\ fr.op = Last(new).op /\ fr.ctx = Last(new).ctx
        /\ fr.acc = Last(new).acc /\ fr.args = Last(new).args
        /\ fr.at = Last(new).at /\ fr.rest = Last(new).rest
    BY <1>2 DEF Frame
  <2> HIDE DEF fr
  <2>3. FrameOK(fr)
    BY <1>2, <2>2 DEF FrameOK, Unsequenced
  <2>4. /\ StackOK([new EXCEPT ![Len(new)] = fr]) /\ [new EXCEPT ![Len(new)] = fr] # <<>>
        /\ Len([new EXCEPT ![Len(new)] = fr]) = Len(new)
        /\ Last([new EXCEPT ![Len(new)] = fr]) = fr
        /\ \A i \in 1 .. Len(new) - 1 : [new EXCEPT ![Len(new)] = fr][i] = new[i]
    BY <1>1, <2>2, <2>3, LastReplaced
  <2>5. Last(new).op \notin Func
    BY <1>2, <1>4, ContextConstantsOK DEF SetAside, Operators
  <2> QED
    BY <2>1, <2>2, <2>4, <2>5 DEF Grown
<1> QED
  BY <1>3, <1>4

LEMMA WantsFacts ==
  ASSUME NEW fr \in Frame, WantsOperand(fr)
  PROVE  /\ Len(fr.args) < Arity(fr.op)
         /\ IsAssign(fr.op) => fr.args = <<>>
<1>1. Len(fr.args) \in Nat /\ fr.args \in Seq(Access)
  BY DEF Frame
<1>2. CASE IsAssign(fr.op)
  <2>1. Len(fr.args) = 0
    BY <1>1, <1>2 DEF WantsOperand
  <2>2. Arity(fr.op) = 2
    BY <1>2 DEF Arity, IsAssign
  <2> QED
    BY <1>1, <2>1, <2>2
<1>3. CASE ~IsAssign(fr.op)
  BY <1>3 DEF WantsOperand
<1> QED
  BY <1>2, <1>3

\* an operand generated in its context does not clash with the one before
LEMMA OperandGrows ==
  ASSUME NEW st, StackOK(st), st # <<>>, WantsOperand(Last(st)),
         NEW eff \in Effect, NEW sem \in Access,
         Fits(OperandContext(Last(st)), sem), Covers(eff, sem),
         PassesLhsWrites(Last(st).op) => sem.pend \subseteq eff.lw
  PROVE  Grown(st, Deliver(st, eff, sem))
<1> DEFINE fr == Last(st)
<1>1. fr \in Frame /\ FrameOK(fr)
  BY TopFacts
<1>2. Len(fr.args) < Arity(fr.op) /\ (IsAssign(fr.op) => fr.args = <<>>)
  BY <1>1, WantsFacts
<1>3. /\ OperandContext(fr) \in Effect /\ Wider(OperandContext(fr), fr.ctx)
      /\ fr.op \in {"binary", "stmt"} \cup Func /\ fr.args # <<>>
           => Wider(OperandContext(fr), fr.acc)
  BY <1>1, OperandContextFacts
<1>4. fr.ctx \in Effect /\ fr.acc \in Effect /\ fr.args \in Seq(Access)
  BY <1>1 DEF Frame
<1> HIDE DEF fr
<1>5. Fits(fr.ctx, sem)
  BY <1>3, <1>4, FitsNarrower DEF fr
<1>6. ASSUME fr.op \in {"binary"} \cup Func, fr.args # <<>>
      PROVE  ~Clashing(fr.args[1], sem)
  <2>1. fr.args[1] \in Access /\ 1 \in DOMAIN fr.args
    BY <1>4, <1>6
  <2>2. Covers(fr.acc, fr.args[1])
    BY <1>1, <2>1 DEF FrameOK
  <2>3. Wider(OperandContext(fr), fr.acc)
    BY <1>3, <1>6
  <2>4. Fits(OperandContext(fr), sem)
    BY DEF fr
  <2> QED
    BY <1>3, <1>4, <2>1, <2>2, <2>3, <2>4, NoClash
<1> QED
  BY <1>2, <1>5, <1>6, DeliverGrows DEF fr

\* the variables that are read for a leaf
LEMMA LeafReadsTyped ==
  ASSUME facts \in Facts, NEW leaf \in Leaf, leaf.k \in {"var", "elem", "star"},
         leaf.k = "star" => Dereferenceable(facts, leaf.v)
  PROVE  LeafReads(facts, leaf) \subseteq Var
<1>1. CASE leaf.k = "var"
  <2>1. leaf.v \in Var
    BY <1>1 DEF Leaf, Terms
  <2> QED
    BY <1>1, <2>1 DEF LeafReads
<1>2. CASE leaf.k = "elem"
  <2>1. leaf.v \in DOMAIN Index
    BY <1>2 DEF Leaf, Terms
  <2> QED
    BY <1>2, <2>1, ContextConstantsOK DEF LeafReads
<1>3. CASE leaf.k = "star"
  <2>1. leaf.v \in Ptr
    BY <1>3 DEF Leaf, Terms
  <2>2. facts[leaf.v] \subseteq Pointees
    BY <1>3, <2>1 DEF Facts, Dereferenceable
  <2> QED
    BY <1>3, <2>1, <2>2, ContextConstantsOK DEF LeafReads
<1> QED
  BY <1>1, <1>2, <1>3

\* ExpressionVariable
LEMMA LeafStepOK ==
  ASSUME facts \in Facts, StackOK(stack), stack # <<>>, WantsOperand(Top),
         NEW leaf \in Leaves, LeafAccepted(Top, facts, leaf), LeafStep(leaf)
  PROVE  Grown(stack, stack') /\ facts' = facts
<1> DEFINE reads == IF leaf.k \in {"const", "addr"} THEN {} ELSE LeafReads(facts, leaf)
           val   == CASE leaf.k = "addr" -> {leaf.v}
                      [] leaf.k = "var" /\ leaf.v \in Ptr -> facts[leaf.v]
                      [] OTHER -> {}
           sem   == [Touch(reads, {}) EXCEPT !.val = val]
           eff   == ReadVarSet(EmptyEffect, reads)
<1>1. leaf \in Leaf
  BY ContextConstantsOK
<1>2. leaf.k \in {"const", "addr", "var", "elem", "star"}
  BY <1>1 DEF Leaf, Terms
<1>3. reads \subseteq Var
  <2>1. CASE leaf.k \in {"const", "addr"}
    BY <2>1
  <2>2. CASE leaf.k \in {"var", "elem", "star"}
    <3>1. leaf.k = "star" => Dereferenceable(facts, leaf.v)
      BY <2>2 DEF LeafAccepted, LeafOK
    <3>2. LeafReads(facts, leaf) \subseteq Var
      BY <1>1, <2>2, <3>1, LeafReadsTyped
    <3> QED
      BY <3>2
  <2> QED
    BY <1>2, <2>1, <2>2
<1>4. val \subseteq Pointees \cup {Null}
  <2>1. CASE leaf.k = "addr"
    BY <1>1, <2>1 DEF Leaf, Terms
  <2>2. CASE leaf.k # "addr"
    BY <2>2 DEF Facts
  <2> QED
    BY <2>1, <2>2
<1>5. \A v \in reads : CanRead(OperandContext(Top), v)
  BY <1>2 DEF LeafAccepted, LeafOK
<1>6. stack' = Deliver(stack, eff, sem) /\ facts' = facts
  BY DEF LeafStep, LeafDone
<1> HIDE DEF reads, val
<1>7. /\ eff \in Effect /\ eff.w = {} /\ eff.lw = {} /\ (eff.sef <=> reads \cap Volatile = {})
      /\ eff.r = reads
  <2>1. /\ eff \in Effect /\ eff.w = {} /\ eff.lw = {}
        /\ (eff.sef <=> reads \cap Volatile = {})
    BY <1>3, EmptyIsEffect, ReadVarSetFacts DEF EmptyEffect
  <2>2. \A v : ~IsRead(EmptyEffect, v)
    BY DEF EmptyEffect, IsRead
  <2>3. eff.r = reads
    BY <2>2 DEF ReadVarSet, EmptyEffect
  <2> QED
    BY <2>1, <2>3
<1>8. /\ sem \in Access /\ sem.r = reads /\ sem.w = {} /\ sem.pend = {}
      /\ sem.vol <=> (reads \cup {}) \cap Volatile # {}
  <2>1. /\ Touch(reads, {}) \in Access /\ Touch(reads, {}).r = reads
        /\ Touch(reads, {}).w = {} /\ Touch(reads, {}).pend = {}
        /\ Touch(reads, {}).vol <=> (reads \cup {}) \cap Volatile # {}
    BY <1>3, TouchFacts
  <2> QED
    BY <1>4, <2>1 DEF Access
<1> HIDE DEF eff, sem
<1>9. Top \in Frame
  BY TopFacts DEF Top
<1>10. OperandContext(Top) \in Effect
  BY <1>9, OperandContextFacts
<1>11. Fits(OperandContext(Top), sem)
  BY <1>3, <1>5, <1>8, <1>10, AccessFits
<1>12. Covers(eff, sem)
  BY <1>3, <1>7, <1>8, AccessCovered
<1>13. sem.pend \subseteq eff.lw
  BY <1>8
<1> QED
  BY <1>6, <1>7, <1>8, <1>11, <1>12, <1>13, OperandGrows DEF Top

LEMMA WiderTrans ==
  ASSUME NEW e, NEW f, NEW g, Wider(g, f), Wider(f, e)
  PROVE  Wider(g, e)
BY DEF Wider

\* the context of a left-hand side is one that its operator may be in, in which
\* the assignments of the right-hand side are writes
LEMMA LhsContextFacts ==
  ASSUME NEW fr \in Frame
  PROVE  /\ LhsContext(fr) \in Effect /\ Wider(LhsContext(fr), fr.ctx)
         /\ fr.op = "compound" => Wider(LhsContext(fr), fr.acc)
         /\ \A u \in fr.acc.lw : u \in Var /\ IsWritten(LhsContext(fr), u)
<1> DEFINE ctx == IF fr.op = "compound" THEN AddEffect(fr.ctx, fr.acc, FALSE) ELSE fr.ctx
<1>1. fr.ctx \in Effect /\ fr.acc \in Effect /\ fr.acc.lw \subseteq Var
  BY DEF Frame, Effect
<1>2. /\ ctx \in Effect /\ Wider(ctx, fr.ctx)
      /\ fr.op = "compound" => Wider(ctx, fr.acc)
  <2>1. Wider(fr.ctx, fr.ctx) /\ FALSE \in BOOLEAN
    BY DEF Wider
  <2> QED
    BY <1>1, <2>1, AddEffectFacts
<1>3. LhsContext(fr) = WriteVarSet(ctx, fr.acc.lw)
  BY DEF LhsContext
<1> HIDE DEF ctx
<1>4. /\ WriteVarSet(ctx, fr.acc.lw) \in Effect /\ Wider(WriteVarSet(ctx, fr.acc.lw), ctx)
      /\ \A v \in fr.acc.lw : IsWritten(WriteVarSet(ctx, fr.acc.lw), v)
  BY <1>1, <1>2, WriteVarSetFacts
<1> QED
  BY <1>1, <1>2, <1>3, <1>4, WiderTrans

\* what overlaps a pointer is the pointer, or what it is a field of
LEMMA OverlapsPointer ==
  ASSUME NEW p \in Ptr, NEW u \in Var, Overlap(u, p)
  PROVE  u \in Enclosing[p]
<1>1. p \in Var
  BY ContextConstantsOK
<1>2. FieldsOf(p) = {} /\ Enclosing[p] \cap Unions = {}
  BY PointersPlain
<1>3. p \in Enclosing[u] => u = p
  BY <1>2 DEF FieldsOf
<1> QED
  BY <1>1, <1>2, <1>3, EnclosingFacts DEF Overlap

\* the effect of a left-hand side, whose writes are an assignment's
StoreEffect(rs, ws) == [AccessEffect(rs, ws) EXCEPT !.lw = AccessEffect(rs, ws).w]

LEMMA StoreEffectFacts ==
  ASSUME NEW rs, rs \subseteq Var, NEW ws, ws \subseteq Var
  PROVE  /\ StoreEffect(rs, ws) \in Effect
         /\ StoreEffect(rs, ws).r = rs
         /\ StoreEffect(rs, ws).w = ws
         /\ StoreEffect(rs, ws).lw = ws
         /\ StoreEffect(rs, ws).sef <=> (rs \cup ws) \cap Volatile = {}
<1> DEFINE e == AccessEffect(rs, ws)
<1>1. e \in Effect
  BY EffectOfAccess
<1>2. e.r = rs /\ e.w = ws /\ (e.sef <=> (rs \cup ws) \cap Volatile = {})
  BY EffectOfAccess
<1>3. StoreEffect(rs, ws) = [e EXCEPT !.lw = e.w]
  BY DEF StoreEffect
<1> HIDE DEF e
<1> QED
  BY <1>1, <1>2, <1>3 DEF Effect

LEMMA LhsEffectFacts ==
  ASSUME NEW fr, NEW t, LhsReads(fr, facts, t) \subseteq Var, StoredTo(facts, t) \subseteq Var
  PROVE  /\ LhsEffect(fr, facts, t) \in Effect /\ LhsEffect(fr, facts, t).r = LhsReads(fr, facts, t)
         /\ LhsEffect(fr, facts, t).w = StoredTo(facts, t) /\ LhsEffect(fr, facts, t).lw = StoredTo(facts, t)
         /\ LhsEffect(fr, facts, t).sef <=> (LhsReads(fr, facts, t) \cup StoredTo(facts, t)) \cap Volatile = {}
<1>1. LhsEffect(fr, facts, t) = StoreEffect(LhsReads(fr, facts, t), StoredTo(facts, t))
  BY DEF LhsEffect, StoreEffect, AccessEffect
<1> DEFINE rs == LhsReads(fr, facts, t)
           ws == StoredTo(facts, t)
<1> HIDE DEF rs, ws
<1>2. /\ StoreEffect(rs, ws) \in Effect /\ StoreEffect(rs, ws).r = rs
      /\ StoreEffect(rs, ws).w = ws /\ StoreEffect(rs, ws).lw = ws
      /\ StoreEffect(rs, ws).sef <=> (rs \cup ws) \cap Volatile = {}
  BY StoreEffectFacts DEF rs, ws
<1> QED
  BY <1>1, <1>2 DEF rs, ws

\* Lhs
LEMMA LhsStepOK ==
  ASSUME facts \in Facts, StackOK(stack), stack # <<>>,
         IsAssign(Top.op), Len(Top.args) = 1,
         NEW t \in Targets, LhsAccepted(Top, facts, t), LhsStep(t)
  PROVE  Grown(stack, stack') /\ facts' \in Facts
<1> DEFINE fr  == Top
           s   == fr.args[1]
           ctx == LhsContext(fr)
           rs  == LhsReads(fr, facts, t)
           ws  == StoredTo(facts, t)
           sem == Touch(rs, ws)
           eff == LhsEffect(fr, facts, t)
<1>1. fr \in Frame /\ FrameOK(fr)
  BY TopFacts DEF Top
<1>2. /\ fr.args \in Seq(Access) /\ fr.acc \in Effect /\ fr.ctx \in Effect
      /\ fr.op \notin Func
  BY <1>1, ContextConstantsOK DEF Frame, IsAssign, Operators
<1>3. /\ s \in Access /\ Fits(fr.ctx, s) /\ Covers(fr.acc, s)
      /\ s.pend \subseteq fr.acc.lw
  <2>1. 1 \in DOMAIN fr.args
    BY <1>2
  <2> QED
    BY <1>1, <1>2, <2>1 DEF FrameOK, PassesLhsWrites
<1>4. /\ ctx \in Effect /\ Wider(ctx, fr.ctx)
      /\ fr.op = "compound" => Wider(ctx, fr.acc)
      /\ \A u \in fr.acc.lw : u \in Var /\ IsWritten(ctx, u)
  BY <1>1, LhsContextFacts
<1>5. t \in Terms /\ t.k \in {"var", "elem", "star"}
  BY ContextConstantsOK DEF Terms
<1>6. ws \subseteq Var
  <2>1. CASE t.k = "star"
    <3>1. t.v \in Ptr
      BY <1>5, <2>1 DEF Terms
    <3>2. facts[t.v] \subseteq Pointees
      BY <2>1, <3>1 DEF Facts, Dereferenceable, LhsAccepted
    <3> QED
      BY <2>1, <3>2, ContextConstantsOK DEF StoredTo
  <2>2. CASE t.k # "star"
    <3>1. t.v \in Var
      BY <1>5, <2>2, ContextConstantsOK DEF Terms
    <3> QED
      BY <2>2, <3>1 DEF StoredTo
  <2> QED
    BY <2>1, <2>2
<1>7. AddressReads(t) \subseteq Var
  <2>1. CASE t.k = "var"
    BY <2>1 DEF AddressReads
  <2>2. CASE t.k = "elem"
    <3>1. t.v \in DOMAIN Index
      BY <1>5, <2>2 DEF Terms
    <3> QED
      BY <2>2, <3>1, ContextConstantsOK DEF AddressReads
  <2>3. CASE t.k = "star"
    <3>1. t.v \in Ptr
      BY <1>5, <2>3 DEF Terms
    <3> QED
      BY <2>3, <3>1, ContextConstantsOK DEF AddressReads
  <2> QED
    BY <1>5, <2>1, <2>2, <2>3
<1>8. rs \subseteq Var /\ (fr.op # "compound" => rs = AddressReads(t))
  BY <1>6, <1>7 DEF LhsReads
<1>9. /\ \A v \in rs : CanRead(ctx, v)
      /\ \A v \in ws : CanWrite(ctx, v)
      /\ t.k = "star" => ~IsWritten(fr.acc, t.v)
      /\ t.k = "elem" => CanRead(AddEffect(ctx, fr.acc, FALSE), Index[t.v])
  BY DEF LhsAccepted
<1>10. stack' = Deliver(stack, eff, sem)
  BY DEF LhsStep, LhsDone, Top
<1>11. /\ eff \in Effect /\ eff.r = rs /\ eff.w = ws /\ eff.lw = ws
       /\ eff.sef <=> (rs \cup ws) \cap Volatile = {}
  BY <1>6, <1>8, LhsEffectFacts
<1> HIDE DEF fr, rs, ws, eff, ctx, s
<1>12. /\ sem \in Access /\ sem.r = rs /\ sem.w = ws /\ sem.pend = ws
       /\ sem.vol <=> (rs \cup ws) \cap Volatile # {}
  BY <1>6, <1>8, TouchFacts
<1> HIDE DEF sem
<1>13. Fits(fr.ctx, sem)
  <2>1. Fits(ctx, sem)
    BY <1>4, <1>6, <1>8, <1>9, <1>12, AccessFits
  <2> QED
    BY <1>2, <1>4, <1>12, <2>1, FitsNarrower
<1>14. Covers(eff, sem)
  BY <1>6, <1>8, <1>11, <1>12, AccessCovered
<1>15. ~Clash(s.pend, sem.w)
  <2> SUFFICES ASSUME NEW u \in s.pend, NEW v \in ws, Overlap(u, v)
               PROVE  FALSE
    BY <1>12 DEF Clash
  <2>1. u \in Var /\ IsWritten(ctx, u) /\ v \in Var
    BY <1>3, <1>4, <1>6
  <2>2. IsWrittenPartially(ctx, v)
    BY <1>4, <2>1, CoveredHolds
  <2> QED
    BY <1>9, <2>2 DEF CanWrite
<1>16. ~Clash(s.w, sem.r)
  <2> SUFFICES ASSUME NEW u \in s.w, NEW v \in rs, Overlap(u, v)
               PROVE  FALSE
    BY <1>12 DEF Clash
  <2>1. u \in Var /\ v \in Var /\ IsWritten(fr.acc, u)
    BY <1>3, <1>8 DEF Covers, Access
  <2>2. IsWrittenPartially(fr.acc, v)
    BY <1>2, <2>1, CoveredHolds
  <2>3. CASE fr.op = "compound"
    <3>1. IsWrittenPartially(ctx, v)
      BY <1>4, <2>1, <2>2, <2>3 DEF Wider
    <3> QED
      BY <1>9, <3>1 DEF CanRead
  <2>4. CASE fr.op # "compound" /\ t.k = "elem"
    <3>1. v = Index[t.v]
      BY <1>8, <2>4 DEF AddressReads
    <3>2. Wider(AddEffect(ctx, fr.acc, FALSE), fr.acc)
      BY <1>2, <1>4, AddEffectFacts
    <3>3. IsWrittenPartially(AddEffect(ctx, fr.acc, FALSE), v)
      BY <2>1, <2>2, <3>2 DEF Wider
    <3> QED
      BY <1>9, <2>4, <3>1, <3>3 DEF CanRead
  <2>5. CASE fr.op # "compound" /\ t.k = "star"
    <3>1. v = t.v /\ t.v \in Ptr
      BY <1>5, <1>8, <2>5 DEF AddressReads, Terms
    <3>2. u \in Enclosing[v]
      BY <2>1, <3>1, OverlapsPointer
    <3>3. IsWritten(fr.acc, v)
      BY <1>2, <2>1, <3>2, CoveredHolds
    <3> QED
      BY <1>9, <2>5, <3>1, <3>3
  <2>6. CASE fr.op # "compound" /\ t.k = "var"
    BY <1>8, <2>6 DEF AddressReads
  <2> QED
    BY <1>5, <2>3, <2>4, <2>5, <2>6
<1>17. facts' \in Facts
  <2>1. facts' = IF t.k = "var" /\ t.v \in Ptr THEN [facts EXCEPT ![t.v] = s.val] ELSE facts
    BY DEF LhsStep, LhsDone, FactsStored, s, fr
  <2>2. s.val \subseteq Pointees \cup {Null}
    BY <1>3 DEF Access
  <2> QED
    BY <2>1, <2>2 DEF Facts
<1>18. Grown(stack, stack')
  <2>1. fr.op \notin {"binary"} \cup Func /\ Arity(fr.op) = 2
    BY <1>2 DEF IsAssign, Arity, fr
  <2>2. Len(fr.args) < Arity(fr.op) /\ fr.args[1] = s
    BY <2>1 DEF fr, s
  <2>3. sem.pend \subseteq eff.lw
    BY <1>11, <1>12
  <2>4. fr = Last(stack)
    BY DEF fr, Top
  <2> QED
    BY <1>10, <1>11, <1>12, <1>13, <1>14, <1>15, <1>16, <2>1, <2>2, <2>3, <2>4, DeliverGrows
<1> QED
  BY <1>17, <1>18

----------------------------------------------------------------------------
(* Operators and calls that are complete *)

LEMMA CloseOK ==
  ASSUME facts \in Facts, StackOK(stack), CloseOperator
  PROVE  /\ Len(stack) > 1 /\ Complete(Top)
         /\ Grown(Front(stack), stack') /\ facts' \in Facts
<1> DEFINE fr == Top
           st == Front(stack)
<1>1. /\ stack # <<>> /\ Complete(fr) /\ fr.op \in Operators
      /\ facts' = FactsAfter(fr, facts)
      /\ stack' = SetAside(Deliver(st, fr.acc, SemOf(fr)), facts')
  BY DEF CloseOperator, OperatorDone, Top
<1>2. fr \in Frame /\ FrameOK(fr) /\ Len(stack) \in Nat \ {0} /\ fr = stack[Len(stack)]
  BY <1>1, TopFacts DEF Top
<1>3. Len(stack) > 1
  <2>1. fr.op # "stmt"
    BY <1>1 DEF Operators
  <2>2. Len(stack) \in DOMAIN stack
    BY <1>1, <1>2, TopFacts
  <2>3. fr.op = "stmt" <=> Len(stack) = 1
    BY <1>2, <2>2 DEF StackOK
  <2> QED
    BY <1>2, <2>1, <2>3
<1>4. /\ StackOK(st) /\ st # <<>> /\ Nested(Last(st), fr)
  BY <1>3, Popped DEF Top
<1>5. Len(fr.args) = 2
  <2>1. fr.op # "stmt"
    BY <1>1 DEF Operators
  <2> QED
    BY <1>1, <2>1 DEF Complete, Arity
<1> HIDE DEF fr, st
<1>6. /\ SemOf(fr) \in Access /\ Fits(fr.ctx, SemOf(fr)) /\ Covers(fr.acc, SemOf(fr))
      /\ SemOf(fr).pend \subseteq fr.acc.lw
  BY <1>1, <1>2, <1>5, SemOfFacts
<1>7. WantsOperand(Last(st)) /\ fr.ctx = OperandContext(Last(st)) /\ fr.acc \in Effect
  BY <1>2, <1>4 DEF Nested, Frame
<1>8. Grown(st, Deliver(st, fr.acc, SemOf(fr)))
  BY <1>4, <1>6, <1>7, OperandGrows
<1>9. facts' \in Facts
  <2>1. fr.saved \in Facts
    BY <1>2 DEF Frame
  <2> QED
    BY <1>1, <2>1 DEF FactsAfter, Facts
<1>10. Grown(st, stack')
  BY <1>1, <1>8, <1>9, SetAsideKeeps
<1> QED
  BY <1>1, <1>3, <1>9, <1>10 DEF fr, st

\* what a function does is done to what is there when it returns
LEMMA BodyVisible ==
  ASSUME NEW fs \in Facts, NEW f \in Func,
         \A p \in Body[f].deref \cup Body[f].store : Dereferenceable(fs, p)
  PROVE  /\ BodyReads(fs, f) \subseteq Var \cap Visible
         /\ BodyWrites(fs, f) \subseteq Var \cap Visible
<1>1. Global \subseteq Var /\ Global \subseteq Visible /\ Pointees \subseteq Var \cap Visible
  BY EffectConstantsOK, ContextConstantsOK DEF Visible
<1>2. \A p \in Body[f].deref \cup Body[f].store : fs[p] \subseteq Pointees /\ p \in Global
  BY BodiesOK DEF Facts, Dereferenceable
<1>3. /\ Body[f].r \subseteq Global /\ Body[f].w \subseteq Global
      /\ DOMAIN Body[f].set \subseteq Global
  BY BodiesOK
<1>4. ASSUME NEW v \in BodyReads(fs, f)
      PROVE  v \in Global \cup Pointees
  <2>1. CASE v \in UNION {{p} \cup fs[p] : p \in Body[f].deref}
    <3>1. PICK p \in Body[f].deref : v = p \/ v \in fs[p]
      BY <2>1
    <3> QED
      BY <1>2, <3>1
  <2>2. \/ v \in Body[f].r \/ v \in Body[f].store
        \/ v \in UNION {{p} \cup fs[p] : p \in Body[f].deref}
    BY <1>4 DEF BodyReads
  <2>3. CASE v \in Body[f].r \/ v \in Body[f].store
    BY <1>2, <1>3, <2>3
  <2> QED
    BY <2>1, <2>2, <2>3
<1>5. ASSUME NEW v \in BodyWrites(fs, f)
      PROVE  v \in Global \cup Pointees
  <2>1. CASE v \in UNION {fs[p] : p \in Body[f].store}
    <3>1. PICK p \in Body[f].store : v \in fs[p]
      BY <2>1
    <3> QED
      BY <1>2, <3>1
  <2>2. \/ v \in Body[f].w \/ v \in DOMAIN Body[f].set
        \/ v \in UNION {fs[p] : p \in Body[f].store}
    BY <1>5 DEF BodyWrites
  <2>3. CASE v \in Body[f].w \/ v \in DOMAIN Body[f].set
    BY <1>3, <2>3
  <2> QED
    BY <2>1, <2>2, <2>3
<1> QED
  BY <1>1, <1>4, <1>5

\* a function that does not depend on the facts
LEMMA PlainBody ==
  ASSUME NEW fs, NEW f \in Func, ~IsDynamic(f)
  PROVE  BodyReads(fs, f) = Body[f].r /\ BodyWrites(fs, f) = Body[f].w
BY DEF IsDynamic, BodyReads, BodyWrites

LEMMA BodyFactsTyped ==
  ASSUME NEW fs \in Facts, NEW f \in Func
  PROVE  BodyFacts(fs, f) \in Facts
BY BodiesOK DEF BodyFacts, Facts

\* what the body of a function touches
BodyTouch(f) == Touch(BodyReads(facts, f), BodyWrites(facts, f))

LEMMA BodyTouchFacts ==
  ASSUME facts \in Facts, NEW f \in Func,
         \A p \in Body[f].deref \cup Body[f].store : Dereferenceable(facts, p)
  PROVE  /\ BodyTouch(f) \in Access
         /\ BodyTouch(f).r = BodyReads(facts, f) /\ BodyTouch(f).w = BodyWrites(facts, f)
         /\ BodyTouch(f).vol <=> (BodyReads(facts, f) \cup BodyWrites(facts, f)) \cap Volatile # {}
<1>1. BodyReads(facts, f) \subseteq Var /\ BodyWrites(facts, f) \subseteq Var
  BY BodyVisible
<1> QED
  BY <1>1, TouchFacts DEF BodyTouch

LEMMA BodyEffectFacts ==
  ASSUME NEW fs, NEW f, BodyReads(fs, f) \subseteq Var, BodyWrites(fs, f) \subseteq Var
  PROVE  /\ BodyEffect(fs, f) \in Effect
         /\ BodyEffect(fs, f).r = BodyReads(fs, f)
         /\ BodyEffect(fs, f).w = BodyWrites(fs, f)
         /\ BodyEffect(fs, f).sef
              <=> (BodyReads(fs, f) \cup BodyWrites(fs, f)) \cap Volatile = {}
<1> DEFINE e == AccessEffect(BodyReads(fs, f), BodyWrites(fs, f))
<1>1. BodyEffect(fs, f) = e
  BY DEF BodyEffect, AccessEffect
<1>2. e \in Effect
  BY EffectOfAccess
<1>3. /\ e.r = BodyReads(fs, f) /\ e.w = BodyWrites(fs, f)
      /\ e.sef <=> (BodyReads(fs, f) \cup BodyWrites(fs, f)) \cap Volatile = {}
  BY EffectOfAccess
<1> HIDE DEF e
<1> QED
  BY <1>1, <1>2, <1>3

LEMMA CallSemFacts ==
  ASSUME facts \in Facts, Top \in Frame, Len(Top.args) = 2, NEW f \in Func,
         BodyTouch(f) \in Access,
         BodyTouch(f).r = BodyReads(facts, f), BodyTouch(f).w = BodyWrites(facts, f),
         BodyTouch(f).vol <=> (BodyReads(facts, f) \cup BodyWrites(facts, f)) \cap Volatile # {}
  PROVE  /\ CallSem(Top, facts, f) \in Access /\ CallSem(Top, facts, f).pend = {}
         /\ CallSem(Top, facts, f).r = Top.args[1].r \cup Top.args[2].r \cup BodyTouch(f).r
         /\ CallSem(Top, facts, f).w = Top.args[1].w \cup Top.args[2].w \cup BodyTouch(f).w
         /\ CallSem(Top, facts, f).vol <=> Top.args[1].vol \/ Top.args[2].vol \/ BodyTouch(f).vol
<1> DEFINE s == Top.args[1]
           t == Top.args[2]
           u == BodyTouch(f)
           b == Both(s, t)
           vol == b.vol \/ (u.r \cup u.w) \cap Volatile # {}
<1>1. s \in Access /\ t \in Access
  BY DEF Frame
<1>2. CallSem(Top, facts, f) = [b EXCEPT !.r = @ \cup u.r, !.w = @ \cup u.w, !.pend = {}, !.vol = vol]
  BY DEF CallSem
<1> HIDE DEF s, t
<1>3. /\ b \in Access /\ b.val = {} /\ b.r = s.r \cup t.r /\ b.w = s.w \cup t.w
      /\ b.vol <=> s.vol \/ t.vol
  <2>1. (s.vol \/ t.vol) \in BOOLEAN
    OBVIOUS
  <2> QED
    BY <1>1, <2>1 DEF Both, Access
<1> HIDE DEF b
<1>4. vol \in BOOLEAN /\ (vol <=> s.vol \/ t.vol \/ u.vol)
  BY <1>3
<1> HIDE DEF vol, u
<1>8. u.r \subseteq Var /\ u.w \subseteq Var
  BY DEF Access, u
<1>5. CallSem(Top, facts, f) \in Access /\ CallSem(Top, facts, f).pend = {}
  BY <1>2, <1>3, <1>4, <1>8 DEF Access
<1>6. /\ CallSem(Top, facts, f).r = s.r \cup t.r \cup u.r
      /\ CallSem(Top, facts, f).w = s.w \cup t.w \cup u.w
  BY <1>2, <1>3 DEF Access
<1>7. CallSem(Top, facts, f).vol <=> s.vol \/ t.vol \/ u.vol
  BY <1>2, <1>3, <1>4 DEF Access
<1> QED
  BY <1>5, <1>6, <1>7 DEF s, t, u

\* the statement's own frame is not a call
LEMMA CallNotFirst ==
  ASSUME NEW st, StackOK(st), st # <<>>, NEW f \in Func, Last(st).op = f
  PROVE  Len(st) > 1 /\ Last(st) = st[Len(st)] /\ Len(st) \in 2 .. Len(st)
<1> DEFINE n == Len(st)
<1>1. n \in Nat /\ n # 0 /\ Last(st) = st[n] /\ st \in Seq(Frame)
  BY TopFacts
<1>2. n \in DOMAIN st
  BY <1>1
<1>3. st[n].op = "stmt" <=> n = 1
  BY <1>2 DEF StackOK
<1>4. n # 1
  BY <1>1, <1>3, ContextConstantsOK
<1> HIDE DEF n
<1>5. n > 1 /\ n \in 2 .. n
  BY <1>1, <1>4
<1> QED
  BY <1>1, <1>5 DEF n

\* the arguments and the body fit the context of the call, and the effect of
\* the arguments with what is known of the body covers them
LEMMA CallStepOK ==
  ASSUME facts \in Facts, StackOK(stack), stack # <<>>, Complete(Top),
         NEW f \in Func, Top.op = f,
         \A p \in Body[f].deref \cup Body[f].store : Dereferenceable(facts, p),
         NEW eff \in Effect, Fits(Top.ctx, BodyTouch(f)), Covers(eff, BodyTouch(f)),
         CallStep(f, eff)
  PROVE  /\ Len(stack) > 1 /\ Grown(Front(stack), stack') /\ facts' \in Facts
<1> DEFINE fr == Top
           st == Front(stack)
           s == fr.args[1]
           t == fr.args[2]
           u == BodyTouch(f)
           sem == CallSem(Top, facts, f)
           acc == AddEffect(fr.acc, eff, FALSE)
<1>1. /\ fr \in Frame /\ FrameOK(fr) /\ Len(stack) \in Nat \ {0} /\ fr = stack[Len(stack)]
      /\ stack \in Seq(Frame)
  BY TopFacts DEF Top
<1>2. Len(fr.args) = 2
  <2>1. fr.op # "stmt"
    BY ContextConstantsOK
  <2> QED
    BY <2>1 DEF Complete, Arity
<1>3. Len(stack) > 1
  BY CallNotFirst DEF Top
<1>4. StackOK(st) /\ st # <<>> /\ Nested(Last(st), fr)
  BY <1>3, Popped DEF Top
<1>5. facts' \in Facts
  BY BodyFactsTyped DEF CallStep, CallDone
<1>6. stack' = SetAside(Deliver(st, acc, sem), facts')
  BY DEF CallStep, CallDone, Top
<1>7. /\ u \in Access /\ u.r = BodyReads(facts, f) /\ u.w = BodyWrites(facts, f)
      /\ u.vol <=> (BodyReads(facts, f) \cup BodyWrites(facts, f)) \cap Volatile # {}
  BY BodyTouchFacts
<1>8. /\ sem \in Access /\ sem.pend = {}
      /\ sem.r = s.r \cup t.r \cup u.r
      /\ sem.w = s.w \cup t.w \cup u.w
      /\ sem.vol <=> s.vol \/ t.vol \/ u.vol
  BY <1>1, <1>2, <1>7, CallSemFacts
<1>9. /\ s \in Access /\ Fits(fr.ctx, s) /\ Covers(fr.acc, s)
      /\ t \in Access /\ Fits(fr.ctx, t) /\ Covers(fr.acc, t)
  <2>1. 1 \in DOMAIN fr.args /\ 2 \in DOMAIN fr.args
    BY <1>1, <1>2 DEF Frame
  <2>2. s \in Access /\ t \in Access
    BY <1>1, <2>1 DEF Frame
  <2> QED
    BY <1>1, <2>1, <2>2 DEF FrameOK
<1>10. Fits(fr.ctx, u) /\ Covers(eff, u) /\ fr.acc \in Effect
  BY <1>1 DEF Frame
<1> HIDE DEF fr, st, s, t, u, sem
<1>11. Fits(fr.ctx, sem)
  BY <1>8, <1>9, <1>10 DEF Fits
<1>12. acc \in Effect /\ Covers(acc, s) /\ Covers(acc, t) /\ Covers(acc, u)
  <2>1. FALSE \in BOOLEAN
    OBVIOUS
  <2> QED
    BY <1>7, <1>9, <1>10, <2>1, AddEffectFacts, CoversMore
<1> HIDE DEF acc
<1>13. Covers(acc, sem)
  BY <1>8, <1>12 DEF Covers
<1>14. WantsOperand(Last(st)) /\ fr.ctx = OperandContext(Last(st))
  BY <1>4 DEF Nested
<1>15. sem.pend \subseteq acc.lw
  BY <1>8
<1>16. Grown(st, Deliver(st, acc, sem))
  BY <1>4, <1>8, <1>11, <1>12, <1>13, <1>14, <1>15, OperandGrows
<1>17. Grown(st, stack')
  BY <1>5, <1>6, <1>16, SetAsideKeeps
<1> QED
  BY <1>3, <1>5, <1>17 DEF st

\* the analysis of the body accepts the call in a context at least as wide
LEMMA AnalysedCallOK ==
  ASSUME facts \in Facts, StackOK(stack), stack # <<>>, Complete(Top),
         NEW f \in Func, Top.op = f,
         NEW ctx \in Effect, Wider(ctx, Top.ctx), BodyOK(ctx, facts, f),
         CallStep(f, VisibleEffect(facts, f))
  PROVE  /\ Len(stack) > 1 /\ Grown(Front(stack), stack') /\ facts' \in Facts
<1> DEFINE rs == BodyReads(facts, f)
           ws == BodyWrites(facts, f)
           u  == BodyTouch(f)
           eff == VisibleEffect(facts, f)
           e == BodyEffect(facts, f)
<1>1. \A p \in Body[f].deref \cup Body[f].store : Dereferenceable(facts, p)
  BY DEF BodyOK
<1>2. rs \subseteq Var \cap Visible /\ ws \subseteq Var \cap Visible
  BY <1>1, BodyVisible
<1>3. /\ u \in Access /\ u.r = rs /\ u.w = ws
      /\ u.vol <=> (rs \cup ws) \cap Volatile # {}
  BY <1>1, BodyTouchFacts
<1>4. (\A v \in rs : CanRead(ctx, v)) /\ (\A v \in ws : CanWrite(ctx, v))
  BY DEF BodyOK
<1>5. Top.ctx \in Effect
  BY TopFacts DEF Top, Frame
<1>6. eff = AddExternalEffect(EmptyEffect, e, Stack \cup CurrLocals)
  BY DEF VisibleEffect
<1>7. e \in Effect /\ e.r = rs /\ e.w = ws /\ (e.sef <=> (rs \cup ws) \cap Volatile = {})
  BY <1>2, BodyEffectFacts
<1> HIDE DEF rs, ws, u, e
<1>8. Fits(Top.ctx, u)
  <2>1. Fits(ctx, u)
    BY <1>2, <1>3, <1>4, AccessFits
  <2> QED
    BY <1>3, <1>5, <2>1, FitsNarrower
<1>10. Global \cup (Stack \cup CurrLocals) = Visible
  BY DEF Visible
<1>11. /\ eff \in Effect
       /\ \A v \in e.r \cap Visible : IsRead(eff, v)
       /\ \A v \in e.w \cap Visible : IsWritten(eff, v)
       /\ eff.sef = (EmptyEffect.sef /\ e.sef)
  BY <1>6, <1>7, <1>10, EmptyIsEffect, AddExternalEffectFacts
<1> HIDE DEF eff
<1>12. Covers(eff, u)
  <2>1. \A v \in u.r : IsRead(eff, v)
    BY <1>2, <1>3, <1>7, <1>11
  <2>2. \A v \in u.w : IsWritten(eff, v)
    BY <1>2, <1>3, <1>7, <1>11
  <2>3. u.vol => ~eff.sef
    BY <1>3, <1>7, <1>11
  <2> QED
    BY <2>1, <2>2, <2>3 DEF Covers
<1> QED
  BY <1>1, <1>8, <1>11, <1>12, CallStepOK DEF u, eff

\* a function that was found to be in no conflict when the call was begun
LEMMA PlainCallOK ==
  ASSUME facts \in Facts, StackOK(stack), stack # <<>>, Complete(Top),
         NEW f \in Func, Top.op = f, ~IsDynamic(f),
         feffect[f] \in Effect, EffectKnown(f), ~InConflict(Top.ctx, feffect[f]),
         CallStep(f, AddExternalEffect(EmptyEffect, feffect[f], {}))
  PROVE  /\ Len(stack) > 1 /\ Grown(Front(stack), stack') /\ facts' \in Facts
<1> DEFINE e   == feffect[f]
           eff == AddExternalEffect(EmptyEffect, e, {})
           u   == BodyTouch(f)
<1>1. Body[f].deref = {} /\ Body[f].store = {}
  BY DEF IsDynamic
<1>2. \A p \in Body[f].deref \cup Body[f].store : Dereferenceable(facts, p)
  BY <1>1
<1>3. /\ u \in Access /\ u.r = Body[f].r /\ u.w = Body[f].w
      /\ u.vol <=> (Body[f].r \cup Body[f].w) \cap Volatile # {}
  BY <1>2, BodyTouchFacts, PlainBody
<1>4. /\ Body[f].r \subseteq Var /\ Body[f].w \subseteq Var
      /\ Body[f].r \subseteq Global /\ Body[f].w \subseteq Global
  BY BodiesOK, EffectConstantsOK
<1>5. /\ e \in Effect /\ e.r = Body[f].r /\ e.w = Body[f].w
      /\ e.sef <=> (Body[f].r \cup Body[f].w) \cap Volatile = {}
  BY DEF EffectKnown
<1>6. (\A v \in e.r : CanRead(Top.ctx, v)) /\ (\A v \in e.w : CanWrite(Top.ctx, v))
  BY DEF InConflict
<1>7. Top.ctx \in Effect
  BY TopFacts DEF Top, Frame
<1> HIDE DEF e, u
<1>8. Fits(Top.ctx, u)
  BY <1>3, <1>4, <1>5, <1>6, <1>7, AccessFits
<1>9. /\ eff \in Effect
      /\ \A v \in e.r \cap (Global \cup {}) : IsRead(eff, v)
      /\ \A v \in e.w \cap (Global \cup {}) : IsWritten(eff, v)
      /\ eff.sef = (EmptyEffect.sef /\ e.sef)
  BY <1>5, EmptyIsEffect, AddExternalEffectFacts
<1>10. CallStep(f, eff)
  BY DEF e
<1> HIDE DEF eff
<1>11. Covers(eff, u)
  <2>1. \A v \in u.r : IsRead(eff, v)
    BY <1>3, <1>4, <1>5, <1>9
  <2>2. \A v \in u.w : IsWritten(eff, v)
    BY <1>3, <1>4, <1>5, <1>9
  <2>3. u.vol => ~eff.sef
    BY <1>3, <1>5, <1>9
  <2> QED
    BY <2>1, <2>2, <2>3 DEF Covers
<1> QED
  BY <1>2, <1>8, <1>9, <1>10, <1>11, CallStepOK DEF u

\* what a function remembers of a call is typed; for one that does not depend
\* on the facts it is no more than before
LEMMA RememberOK ==
  ASSUME facts \in Facts, NEW f \in Func, NEW ctx \in Effect, BodyOK(ctx, facts, f),
         feffect \in [Func -> Effect], ctxeffect \in [Func -> Effect],
         \A g \in Func : ~IsDynamic(g) => EffectKnown(g),
         Remember(f, ctx)
  PROVE  /\ feffect' \in [Func -> Effect] /\ ctxeffect' \in [Func -> Effect]
         /\ \A g \in Func : g # f => feffect'[g] = feffect[g]
         /\ \A g \in Func : ~IsDynamic(g) => EffectKnown(g)'
<1> DEFINE b == BodyEffect(facts, f)
           e == feffect[f]
           x == AddExternalEffect(e, b, Stack)
<1>1. \A p \in Body[f].deref \cup Body[f].store : Dereferenceable(facts, p)
  BY DEF BodyOK
<1>2. BodyReads(facts, f) \subseteq Var /\ BodyWrites(facts, f) \subseteq Var
  BY <1>1, BodyVisible
<1>3. /\ b \in Effect /\ b.r = BodyReads(facts, f) /\ b.w = BodyWrites(facts, f)
      /\ b.sef <=> (BodyReads(facts, f) \cup BodyWrites(facts, f)) \cap Volatile = {}
  BY <1>2, BodyEffectFacts
<1>4. e \in Effect /\ ctxeffect[f] \in Effect
  OBVIOUS
<1> HIDE DEF b, e
<1>5. x \in Effect /\ x.sef = (e.sef /\ b.sef)
  BY <1>3, <1>4, AddExternalEffectFacts
<1>6. AddExternalEffect(ctxeffect[f], ctx, {}) \in Effect
  BY <1>4, AddExternalEffectFacts
<1>7. feffect' = [feffect EXCEPT ![f] = x]
  BY DEF Remember, b, e
<1>8. feffect' \in [Func -> Effect] /\ feffect'[f] = x
  BY <1>5, <1>7
<1>9. ctxeffect' \in [Func -> Effect]
  BY <1>6 DEF Remember
<1>10. \A g \in Func : g # f => feffect'[g] = feffect[g]
  BY <1>7
<1>11. ASSUME ~IsDynamic(f)
       PROVE  EffectKnown(f)'
  <2>1. /\ e.r = Body[f].r /\ e.w = Body[f].w
        /\ e.sef <=> (Body[f].r \cup Body[f].w) \cap Volatile = {}
    BY <1>11 DEF EffectKnown, e
  <2>2. /\ b.r = Body[f].r /\ b.w = Body[f].w
        /\ b.sef <=> (Body[f].r \cup Body[f].w) \cap Volatile = {}
    BY <1>3, <1>11, PlainBody
  <2>3. x.r = e.r /\ x.w = e.w
    <3>1. (\A v \in e.r : IsRead(e, v)) /\ (\A v \in e.w : IsWritten(e, v))
      BY <1>4, HeldIsCovered
    <3> DEFINE part == [b EXCEPT !.r = @ \cap (Global \cup Stack),
                                 !.w = @ \cap (Global \cup Stack)]
    <3>2. part.r \subseteq e.r /\ part.w \subseteq e.w
      BY <1>3, <2>1, <2>2 DEF Effect
    <3>3. x = AddEffect(e, part, FALSE)
      BY DEF AddExternalEffect
    <3> HIDE DEF part, x
    <3> QED
      BY <3>1, <3>2, <3>3 DEF AddEffect
  <2>4. feffect'[f].r = Body[f].r /\ feffect'[f].w = Body[f].w
    BY <1>8, <2>1, <2>3
  <2>5. feffect'[f].sef <=> (Body[f].r \cup Body[f].w) \cap Volatile = {}
    BY <1>5, <1>8, <2>1, <2>2
  <2> QED
    BY <2>4, <2>5 DEF EffectKnown
<1>12. ASSUME NEW g \in Func, ~IsDynamic(g)
       PROVE  EffectKnown(g)'
  BY <1>10, <1>11, <1>12 DEF EffectKnown
<1> QED
  BY <1>8, <1>9, <1>10, <1>12

----------------------------------------------------------------------------
(* Room for what is missing *)

\* one more operand of the last operator, made by one more step
LEMMA GrownGenerates ==
  ASSUME StackOK(stack), stack # <<>>, Grown(stack, stack'), Generates,
         code \in Seq(Step), Len(code') = Len(code) + 1, pc' = pc + 1, feffect' = feffect
  PROVE  Generates'
<1> DEFINE n == Len(stack)
           fr == Last(stack)
           new == Last(stack')
<1>1. n \in Nat \ {0} /\ Len(stack') = n /\ fr = stack[n] /\ new = stack'[n]
  BY TopFacts DEF Grown, Last
<1>2. fr \in Frame /\ new \in Frame
  BY TopFacts DEF Grown
<1>3. /\ new.op = fr.op /\ new.ctx = fr.ctx /\ new.at = fr.at /\ new.rest = fr.rest
      /\ Len(new.args) = Len(fr.args) + 1
      /\ \A i \in 1 .. n - 1 : stack'[i] = stack[i]
  BY DEF Grown
<1>4. /\ Len(code) + (fr.rest + Arity(fr.op) - Len(fr.args)) <= MaxSteps
      /\ \A i, j \in 2 .. n : i <= j => stack[i].at <= stack[j].at
      /\ \A i \in 2 .. n :
           /\ stack[i].at <= Len(code) /\ stack[i].at + stack[i].rest + 1 <= MaxSteps
           /\ stack[i].op \in Func /\ ~IsDynamic(stack[i].op)
                => ~InConflict(stack[i].ctx, feffect[stack[i].op])
  BY DEF Generates, Missing, MissingFrom, Top
<1>5. \A i \in 2 .. n : stack[i] \in Frame
  BY DEF StackOK
<1>6. Len(code) \in Nat /\ MaxSteps \in Nat
  BY ContextConstantsOK
<1> HIDE DEF n, fr, new
<1>7. \A i \in 2 .. n :
        /\ stack'[i].op = stack[i].op /\ stack'[i].ctx = stack[i].ctx
        /\ stack'[i].at = stack[i].at /\ stack'[i].rest = stack[i].rest
  <2> TAKE i \in 2 .. n
  <2>1. i \in 1 .. n - 1 \/ i = n
    BY <1>1
  <2> QED
    BY <1>1, <1>3, <2>1
<1>8. Len(code') + (new.rest + Arity(new.op) - Len(new.args)) <= MaxSteps
  <2>1. fr.rest \in Nat /\ Len(fr.args) \in Nat /\ Arity(fr.op) \in Nat
    BY <1>2 DEF Frame, Arity
  <2> QED
    BY <1>3, <1>4, <1>6, <2>1
<1>9. Len(code') + Missing' <= MaxSteps
  BY <1>8 DEF Missing, MissingFrom, Top, new
<1>10. ASSUME NEW i \in 2 .. n
       PROVE  /\ stack'[i].at <= Len(code') /\ stack'[i].at + stack'[i].rest + 1 <= MaxSteps
              /\ stack'[i].op \in Func /\ ~IsDynamic(stack'[i].op)
                   => ~InConflict(stack'[i].ctx, feffect[stack'[i].op])
  <2>1. stack[i].at \in Nat
    BY <1>5, <1>10 DEF Frame
  <2>2. stack'[i].at <= Len(code')
    BY <1>4, <1>6, <1>7, <1>10, <2>1
  <2> QED
    BY <1>4, <1>7, <1>10, <2>2
<1>11. pc' = Len(code') + 1
  BY <1>6 DEF Generates
<1> QED
  BY <1>1, <1>4, <1>7, <1>9, <1>10, <1>11 DEF Generates

\* an operator that is complete becomes an operand
LEMMA CloseGenerates ==
  ASSUME StackOK(stack), Len(stack) > 1, Complete(Top), Generates,
         Grown(Front(stack), stack'), code \in Seq(Step), code' = code, pc' = pc,
         \A g \in Func : ~IsDynamic(g) => feffect'[g] = feffect[g]
  PROVE  Generates'
<1> DEFINE m == Len(stack) - 1
           st == Front(stack)
           fr == Last(st)
           new == Last(stack')
<1>1. /\ StackOK(st) /\ st # <<>> /\ Len(st) = m /\ Nested(fr, Top)
      /\ fr \in Frame /\ Top \in Frame
      /\ \A i \in 1 .. m : st[i] = stack[i]
  BY Popped DEF Top
<1>2. m \in Nat \ {0} /\ Len(stack') = m /\ fr = st[m] /\ new = stack'[m]
  BY <1>1, TopFacts DEF Grown, Last
<1>3. new \in Frame
  BY TopFacts DEF Grown
<1>4. /\ new.op = fr.op /\ new.ctx = fr.ctx /\ new.at = fr.at /\ new.rest = fr.rest
      /\ Len(new.args) = Len(fr.args) + 1
      /\ \A i \in 1 .. m - 1 : stack'[i] = st[i]
  BY <1>1 DEF Grown
<1>5. /\ Len(code) + (Top.rest + Arity(Top.op) - Len(Top.args)) <= MaxSteps
      /\ \A i, j \in 2 .. m + 1 : i <= j => stack[i].at <= stack[j].at
      /\ \A i \in 2 .. m + 1 :
           /\ stack[i].at <= Len(code) /\ stack[i].at + stack[i].rest + 1 <= MaxSteps
           /\ stack[i].op \in Func /\ ~IsDynamic(stack[i].op)
                => ~InConflict(stack[i].ctx, feffect[stack[i].op])
  <2>1. m + 1 = Len(stack)
    BY <1>2
  <2> QED
    BY <2>1 DEF Generates, Missing, MissingFrom
<1>6. Len(code) \in Nat /\ MaxSteps \in Nat
  BY ContextConstantsOK
<1>7. Len(Top.args) = Arity(Top.op) /\ Arity(Top.op) \in Nat /\ Top.rest \in Nat
  BY <1>1 DEF Complete, Arity, Frame
<1>8. Top.rest = fr.rest + Arity(fr.op) - Len(fr.args) - 1
  BY <1>1 DEF Nested
<1>9. fr.rest \in Nat /\ Arity(fr.op) \in Nat /\ Len(fr.args) \in Nat
  BY <1>1 DEF Frame, Arity
<1> HIDE DEF m, st, fr, new
<1>10. \A i \in 2 .. m :
         /\ i \in 2 .. m + 1
         /\ stack'[i].op = stack[i].op /\ stack'[i].ctx = stack[i].ctx
         /\ stack'[i].at = stack[i].at /\ stack'[i].rest = stack[i].rest
  <2> TAKE i \in 2 .. m
  <2>1. i \in 2 .. m + 1 /\ i \in 1 .. m /\ (i \in 1 .. m - 1 \/ i = m)
    BY <1>2
  <2> QED
    BY <1>1, <1>2, <1>4, <2>1
<1>11. Len(code) + (new.rest + Arity(new.op) - Len(new.args)) <= MaxSteps
  <2>1. new.rest + Arity(new.op) - Len(new.args) = Top.rest
    BY <1>4, <1>8, <1>9
  <2>2. Top.rest + Arity(Top.op) - Len(Top.args) = Top.rest
    BY <1>7
  <2> QED
    BY <1>5, <2>1, <2>2
<1>12. Len(code') + Missing' <= MaxSteps
  BY <1>11 DEF Missing, MissingFrom, Top, new
<1>13. ASSUME NEW i \in 2 .. m
       PROVE  /\ stack'[i].at <= Len(code') /\ stack'[i].at + stack'[i].rest + 1 <= MaxSteps
              /\ stack'[i].op \in Func /\ ~IsDynamic(stack'[i].op)
                   => ~InConflict(stack'[i].ctx, feffect'[stack'[i].op])
  BY <1>5, <1>10, <1>13
<1>14. ASSUME NEW i \in 2 .. m, NEW j \in 2 .. m, i <= j
       PROVE  stack'[i].at <= stack'[j].at
  BY <1>5, <1>10, <1>14
<1>15. pc' = Len(code') + 1
  BY DEF Generates
<1> QED
  BY <1>2, <1>12, <1>13, <1>14, <1>15 DEF Generates

\* an operand that is an operator: one more step, one more operand to come
LEMMA OpenOK ==
  ASSUME facts \in Facts, StackOK(stack), stack # <<>>, WantsOperand(Top), pc \in Nat \ {0},
         NEW op \in Operators \cup Func, NEW type \in Types, OpenStep(op, type)
  PROVE  /\ StackOK(stack') /\ stack' # <<>> /\ facts' = facts
         /\ Len(stack') = Len(stack) + 1
         /\ \A i \in 1 .. Len(stack) : stack'[i] = stack[i]
         /\ Last(stack') = NewFrame(op, OperandContext(Top), type, Missing - 1, facts, pc - 1)
         /\ Missing \in Nat \ {0}
<1> DEFINE fr == NewFrame(op, OperandContext(Top), type, Missing - 1, facts, pc - 1)
<1>1. Top \in Frame
  BY TopFacts DEF Top
<1>2. OperandContext(Top) \in Effect
  BY <1>1, OperandContextFacts
<1>3. Missing \in Nat \ {0} /\ Missing - 1 \in Nat
  <2>1. /\ Top.rest \in Nat /\ Len(Top.args) \in Nat /\ Arity(Top.op) \in Nat
        /\ Len(Top.args) < Arity(Top.op)
    BY <1>1, WantsFacts DEF Frame, Arity
  <2> QED
    BY <2>1 DEF Missing, MissingFrom
<1>4. op # "stmt"
  BY ContextConstantsOK DEF Operators
<1>5. /\ fr \in Frame /\ fr.op = op /\ fr.args = <<>> /\ fr.ctx = OperandContext(Top)
      /\ fr.rest = Missing - 1 /\ fr.at = pc - 1
  <2>1. pc - 1 \in Nat /\ <<>> \in Seq(Access)
    OBVIOUS
  <2> QED
    BY <1>2, <1>3, <2>1, EmptyIsEffect DEF NewFrame, Frame
<1>6. stack' = Append(stack, fr) /\ facts' = facts
  BY DEF OpenStep, Opened, Top, Missing
<1> HIDE DEF fr
<1>7. FrameOK(fr)
  <2>1. Len(fr.args) = 0 /\ DOMAIN fr.args = {} /\ Arity(fr.op) \in Nat
    BY <1>5 DEF Arity
  <2> QED
    BY <2>1 DEF FrameOK
<1>8. Nested(Top, fr)
  <2>1. fr.rest = Top.rest + Arity(Top.op) - Len(Top.args) - 1
    <3>1. Top.rest \in Nat /\ Len(Top.args) \in Nat /\ Arity(Top.op) \in Nat
      BY <1>1 DEF Frame, Arity
    <3> QED
      BY <1>5, <3>1 DEF Missing, MissingFrom
  <2>2. fr.ctx = OperandContext(Top)
    BY <1>5
  <2> QED
    BY <2>1, <2>2 DEF Nested
<1>9. /\ StackOK(Append(stack, fr)) /\ Len(Append(stack, fr)) = Len(stack) + 1
      /\ Last(Append(stack, fr)) = fr
      /\ \A i \in 1 .. Len(stack) : Append(stack, fr)[i] = stack[i]
  BY <1>4, <1>5, <1>7, <1>8, Pushed DEF Top
<1>10. Append(stack, fr) # <<>>
  BY <1>9, TopFacts
<1> QED
  BY <1>3, <1>6, <1>9, <1>10 DEF fr

LEMMA OpenGenerates ==
  ASSUME facts \in Facts, StackOK(stack), stack # <<>>, WantsOperand(Top), pc \in Nat \ {0},
         NEW op \in Operators \cup Func, NEW type \in Types, OpenStep(op, type),
         code \in Seq(Step), Generates, Len(code) + Missing + 2 <= MaxSteps,
         Len(code') = Len(code) + 1, pc' = pc + 1, feffect' = feffect,
         op \in Func => ~InConflict(OperandContext(Top), feffect[op])
  PROVE  Generates'
<1> DEFINE n == Len(stack)
           new == NewFrame(op, OperandContext(Top), type, Missing - 1, facts, pc - 1)
<1>1. /\ n \in Nat \ {0} /\ Len(stack') = n + 1 /\ Last(stack') = new
      /\ \A i \in 1 .. n : stack'[i] = stack[i]
      /\ stack' # <<>> /\ StackOK(stack') /\ Missing \in Nat \ {0}
  BY OpenOK, TopFacts
<1>2. stack'[n + 1] = new
  BY <1>1, TopFacts
<1>3. /\ new.op = op /\ new.ctx = OperandContext(Top) /\ new.at = Len(code)
      /\ new.rest = Missing - 1 /\ new.args = <<>>
  <2>1. Len(code) \in Nat /\ pc - 1 = Len(code)
    BY DEF Generates
  <2> QED
    BY <2>1 DEF NewFrame
<1>4. /\ \A i, j \in 2 .. n : i <= j => stack[i].at <= stack[j].at
      /\ \A i \in 2 .. n :
           /\ stack[i].at <= Len(code) /\ stack[i].at + stack[i].rest + 1 <= MaxSteps
           /\ stack[i].op \in Func /\ ~IsDynamic(stack[i].op)
                => ~InConflict(stack[i].ctx, feffect[stack[i].op])
  BY DEF Generates
<1>5. \A i \in 2 .. n : stack[i].at \in Nat
  <2>1. \A i \in 2 .. n : stack[i] \in Frame
    BY DEF StackOK
  <2> QED
    BY <2>1 DEF Frame
<1>6. Len(code) \in Nat /\ MaxSteps \in Nat
  BY ContextConstantsOK
<1>7. op # "stmt"
  BY ContextConstantsOK DEF Operators
<1> HIDE DEF n, new
<1>8. Len(code') + (new.rest + Arity(new.op) - Len(new.args)) <= MaxSteps
  <2>1. Arity(new.op) = 2 /\ Len(new.args) = 0
    BY <1>3, <1>7 DEF Arity
  <2>2. Len(code) + Missing + 2 <= MaxSteps
    OBVIOUS
  <2> QED
    BY <1>1, <1>3, <1>6, <2>1, <2>2
<1>9. Len(code') + Missing' <= MaxSteps
  BY <1>1, <1>8 DEF Missing, MissingFrom, Top
<1>10. ASSUME NEW i \in 2 .. n + 1
       PROVE  /\ stack'[i].at <= Len(code') /\ stack'[i].at + stack'[i].rest + 1 <= MaxSteps
              /\ stack'[i].op \in Func /\ ~IsDynamic(stack'[i].op)
                   => ~InConflict(stack'[i].ctx, feffect'[stack'[i].op])
  <2>1. CASE i = n + 1
    <3>1. Len(code) + Missing + 2 <= MaxSteps
      OBVIOUS
    <3>2. new.at <= Len(code') /\ new.at + new.rest + 1 <= MaxSteps
      BY <1>1, <1>3, <1>6, <3>1
    <3> QED
      BY <1>2, <1>3, <2>1, <3>2
  <2>2. CASE i \in 2 .. n
    <3>1. stack'[i] = stack[i] /\ stack[i].at \in Nat
      BY <1>1, <1>5, <2>2
    <3> QED
      BY <1>4, <1>6, <2>2, <3>1
  <2> QED
    BY <1>1, <1>10, <2>1, <2>2
<1>11. ASSUME NEW i \in 2 .. n + 1, NEW j \in 2 .. n + 1, i <= j
       PROVE  stack'[i].at <= stack'[j].at
  <2>1. CASE j = n + 1 /\ i \in 2 .. n
    BY <1>1, <1>2, <1>3, <1>4, <2>1
  <2>2. CASE j = n + 1 /\ i = n + 1
    BY <1>2, <1>3, <1>6, <2>2
  <2>3. CASE i \in 2 .. n /\ j \in 2 .. n
    BY <1>1, <1>4, <1>11, <2>3
  <2> QED
    BY <1>1, <1>11, <2>1, <2>2, <2>3
<1>12. pc' = Len(code') + 1
  BY <1>6 DEF Generates
<1> QED
  BY <1>1, <1>9, <1>10, <1>11, <1>12 DEF Generates

\* a call that fails leaves the room it had
LEMMA FailGenerates ==
  ASSUME StackOK(stack), Len(stack) > 1, Generates, code \in Seq(Step),
         stack' = Front(stack), code' = SubSeq(code, 1, Top.at), pc' = Top.at + 1,
         feffect' = feffect
  PROVE  Generates' /\ code' \in Seq(Step) /\ Len(code') <= Len(code)
<1> DEFINE m == Len(stack) - 1
           st == Front(stack)
           fr == Last(st)
<1>1. /\ StackOK(st) /\ st # <<>> /\ Len(st) = m /\ Nested(fr, Top)
      /\ fr \in Frame /\ Top \in Frame
      /\ \A i \in 1 .. m : st[i] = stack[i]
  BY Popped DEF Top
<1>2. m \in Nat \ {0} /\ Top = stack[m + 1] /\ m + 1 = Len(stack)
  BY <1>1, TopFacts DEF Top, Last
<1>3. /\ \A i, j \in 2 .. m + 1 : i <= j => stack[i].at <= stack[j].at
      /\ \A i \in 2 .. m + 1 :
           /\ stack[i].at <= Len(code) /\ stack[i].at + stack[i].rest + 1 <= MaxSteps
           /\ stack[i].op \in Func /\ ~IsDynamic(stack[i].op)
                => ~InConflict(stack[i].ctx, feffect[stack[i].op])
  BY <1>2 DEF Generates
<1>4. Len(code) \in Nat /\ MaxSteps \in Nat
  BY ContextConstantsOK
<1>5. Top.rest = fr.rest + Arity(fr.op) - Len(fr.args) - 1
  BY <1>1 DEF Nested
<1>6. /\ fr.rest \in Nat /\ Arity(fr.op) \in Nat /\ Len(fr.args) \in Nat
      /\ Top.rest \in Nat /\ Top.at \in Nat
  BY <1>1 DEF Frame, Arity
<1> HIDE DEF m, st, fr
<1>7. m + 1 \in 2 .. m + 1
  BY <1>2
<1>8. Top.at <= Len(code) /\ Top.at + Top.rest + 1 <= MaxSteps
  BY <1>2, <1>3, <1>7
<1>9. code' \in Seq(Step) /\ Len(code') = Top.at
  BY <1>4, <1>6, <1>8
<1>10. Len(code') + (fr.rest + Arity(fr.op) - Len(fr.args)) <= MaxSteps
  <2>1. fr.rest + Arity(fr.op) - Len(fr.args) = Top.rest + 1
    BY <1>5, <1>6
  <2>2. Len(code') + (Top.rest + 1) <= MaxSteps
    BY <1>4, <1>6, <1>8, <1>9
  <2> QED
    BY <2>1, <2>2
<1>11. Len(code') + Missing' <= MaxSteps
  BY <1>10 DEF Missing, MissingFrom, Top, st, fr
<1>12. \A i \in 2 .. m :
         /\ i \in 1 .. m /\ i \in 2 .. m + 1 /\ stack'[i] = stack[i]
         /\ stack[i].at <= Top.at
  <2> TAKE i \in 2 .. m
  <2>1. i \in 1 .. m /\ i \in 2 .. m + 1 /\ i <= m + 1
    BY <1>2
  <2> QED
    BY <1>1, <1>2, <1>3, <1>7, <2>1 DEF st
<1>13. ASSUME NEW i \in 2 .. m
       PROVE  /\ stack'[i].at <= Len(code') /\ stack'[i].at + stack'[i].rest + 1 <= MaxSteps
              /\ stack'[i].op \in Func /\ ~IsDynamic(stack'[i].op)
                   => ~InConflict(stack'[i].ctx, feffect'[stack'[i].op])
  BY <1>3, <1>9, <1>12, <1>13
<1>14. ASSUME NEW i \in 2 .. m, NEW j \in 2 .. m, i <= j
       PROVE  stack'[i].at <= stack'[j].at
  BY <1>3, <1>12, <1>14
<1>15. Len(stack') = m
  BY <1>1 DEF st
<1> QED
  BY <1>4, <1>8, <1>9, <1>11, <1>13, <1>14, <1>15 DEF Generates

----------------------------------------------------------------------------
(* Every step keeps the invariant *)

LEMMA InitOK == Init => IInv
<1> SUFFICES ASSUME Init PROVE IInv
  OBVIOUS
<1>1. /\ mode = "idle" /\ stack = <<>> /\ must = FALSE /\ code = <<>> /\ pc = 1 /\ stmts = 0
      /\ born \in Entries /\ entry = born /\ facts = born.facts
  BY DEF Init
<1>2. PICK made \in Entries :
        /\ \A f \in Func : BodyOK(made.ctx, made.facts, f)
        /\ feffect = [f \in Func |->
                        AddExternalEffect(EmptyEffect, BodyEffect(made.facts, f), Stack)]
        /\ ctxeffect = [f \in Func |-> AddExternalEffect(EmptyEffect, made.ctx, {})]
  BY DEF Init
<1>3. made \in [facts : Facts, ctx : Effect] /\ born \in [facts : Facts, ctx : Effect]
  BY <1>1, ContextConstantsOK
<1>4. made.facts \in Facts /\ made.ctx \in Effect
  BY <1>3
<1>5. ASSUME NEW f \in Func
      PROVE  /\ BodyEffect(made.facts, f) \in Effect
             /\ BodyEffect(made.facts, f).r = BodyReads(made.facts, f)
             /\ BodyEffect(made.facts, f).w = BodyWrites(made.facts, f)
             /\ BodyEffect(made.facts, f).sef
                  <=> (BodyReads(made.facts, f) \cup BodyWrites(made.facts, f)) \cap Volatile = {}
             /\ AddExternalEffect(EmptyEffect, BodyEffect(made.facts, f), Stack) \in Effect
  <2>1. BodyReads(made.facts, f) \subseteq Var /\ BodyWrites(made.facts, f) \subseteq Var
    BY <1>2, <1>4, BodyVisible DEF BodyOK
  <2>2. BodyEffect(made.facts, f) \in Effect
    BY <2>1, BodyEffectFacts
  <2>3. AddExternalEffect(EmptyEffect, BodyEffect(made.facts, f), Stack) \in Effect
    BY <2>2, EmptyIsEffect, AddExternalEffectFacts
  <2> QED
    BY <2>1, <2>2, <2>3, BodyEffectFacts
<1>6. feffect \in [Func -> Effect]
  BY <1>2, <1>5
<1>7. ctxeffect \in [Func -> Effect]
  <2>1. AddExternalEffect(EmptyEffect, made.ctx, {}) \in Effect
    BY <1>4, EmptyIsEffect, AddExternalEffectFacts
  <2> QED
    BY <1>2, <2>1
<1>8. ASSUME NEW f \in Func, ~IsDynamic(f)
      PROVE  EffectKnown(f)
  <2> DEFINE b == BodyEffect(made.facts, f)
             part == [b EXCEPT !.r = @ \cap (Global \cup Stack), !.w = @ \cap (Global \cup Stack)]
  <2>1. /\ b \in Effect /\ b.r = Body[f].r /\ b.w = Body[f].w
        /\ b.sef <=> (Body[f].r \cup Body[f].w) \cap Volatile = {}
    BY <1>5, <1>8, PlainBody
  <2>2. Body[f].r \subseteq Global /\ Body[f].w \subseteq Global
    BY BodiesOK
  <2>3. feffect[f] = AddEffect(EmptyEffect, part, FALSE)
    <3>1. feffect[f] = AddExternalEffect(EmptyEffect, b, Stack)
      BY <1>2
    <3> HIDE DEF b
    <3> QED
      BY <3>1 DEF AddExternalEffect
  <2> HIDE DEF b
  <2>4. part.r = Body[f].r /\ part.w = Body[f].w
    BY <2>1, <2>2 DEF Effect
  <2>5. part.sef <=> b.sef
    BY <2>1 DEF Effect
  <2> HIDE DEF part
  <2>6. \A v : ~IsRead(EmptyEffect, v) /\ ~IsWritten(EmptyEffect, v)
    BY DEF EmptyEffect, IsRead, IsWritten
  <2>7. feffect[f].r = Body[f].r /\ feffect[f].w = Body[f].w
    <3>1. EmptyEffect.r = {} /\ EmptyEffect.w = {}
      BY DEF EmptyEffect
    <3> QED
      BY <2>3, <2>4, <2>6, <3>1 DEF AddEffect
  <2>8. feffect[f].sef <=> part.sef
    <3>1. AddEffect(EmptyEffect, part, FALSE).sef = (EmptyEffect.sef /\ part.sef)
      BY DEF AddEffect
    <3>2. EmptyEffect.sef
      BY DEF EmptyEffect
    <3> QED
      BY <2>3, <3>1, <3>2
  <2> QED
    BY <2>1, <2>5, <2>7, <2>8 DEF EffectKnown
<1>9. Typed
  <2>1. /\ code \in Seq(Step) /\ Len(code) <= MaxSteps /\ pc \in 1 .. MaxSteps + 1
        /\ stmts \in 0 .. MaxStatements
    BY <1>1, ContextConstantsOK
  <2> QED
    BY <1>1, <1>3, <1>6, <1>7, <2>1 DEF Typed
<1>10. StackOK(stack)
  BY <1>1 DEF StackOK
<1> QED
  BY <1>1, <1>8, <1>9, <1>10 DEF IInv

LEMMA StartStatementOK ==
  ASSUME IInv, StartStatement
  PROVE  IInv'
<1> DEFINE fr == NewFrame("stmt", born.ctx, "int", 0, facts, 0)
<1>1. /\ mode' = "generate" /\ stmts' = stmts + 1 /\ stmts < MaxStatements
      /\ born' = [born EXCEPT !.facts = facts] /\ entry' = born'
      /\ stack' = <<fr>> /\ code' = <<>>
      /\ must' = must /\ facts' = facts /\ pc' = 1
      /\ feffect' = feffect /\ ctxeffect' = ctxeffect
  BY DEF StartStatement, functions
<1>2. Typed /\ born.ctx \in Effect
  BY DEF IInv, Typed
<1>3. Typed'
  <2>1. code' \in Seq(Step) /\ Len(code') <= MaxSteps
    BY <1>1, ContextConstantsOK
  <2>2. stmts' \in 0 .. MaxStatements
    BY <1>1, <1>2, ContextConstantsOK DEF Typed
  <2> QED
    BY <1>1, <1>2, <2>1, <2>2, ContextConstantsOK DEF Typed
<1>4. /\ fr \in Frame /\ fr.op = "stmt" /\ fr.args = <<>> /\ fr.rest = 0
  <2>1. 0 \in Nat /\ <<>> \in Seq(Access) /\ facts \in Facts
    BY <1>2 DEF Typed
  <2> QED
    BY <1>2, <2>1, EmptyIsEffect DEF NewFrame, Frame, Types
<1>5. FrameOK(fr)
  <2>1. Len(fr.args) = 0 /\ DOMAIN fr.args = {} /\ Arity(fr.op) \in Nat
    BY <1>4 DEF Arity
  <2> QED
    BY <2>1 DEF FrameOK
<1> HIDE DEF fr
<1>6. StackOK(stack') /\ Len(stack') = 1 /\ Last(stack') = fr /\ stack' # <<>>
  <2>1. <<fr>> \in Seq(Frame) /\ DOMAIN <<fr>> = {1} /\ Len(<<fr>>) = 1 /\ <<fr>>[1] = fr
    BY <1>4
  <2> QED
    BY <1>1, <1>4, <1>5, <2>1 DEF StackOK, Last
<1>7. Generates'
  <2>1. fr.rest + Arity(fr.op) - Len(fr.args) = 1
    BY <1>4 DEF Arity
  <2>2. Missing' = 1
    BY <1>6, <2>1 DEF Missing, MissingFrom, Top
  <2>3. Len(code') + Missing' <= MaxSteps
    BY <1>1, <2>2, ContextConstantsOK
  <2> QED
    BY <1>1, <1>6, <2>3 DEF Generates
<1>8. \A f \in Func : ~IsDynamic(f) => EffectKnown(f)'
  BY <1>1 DEF IInv, EffectKnown
<1> QED
  BY <1>1, <1>3, <1>6, <1>7, <1>8 DEF IInv

LEMMA AnalyseOK ==
  ASSUME IInv, NEW en \in Entries \cup {born}, Analyse(en)
  PROVE  IInv'
<1> DEFINE fr == NewFrame("stmt", en.ctx, "int", 0, en.facts, 0)
<1>1. /\ mode' = "visit" /\ pc' = 1 /\ entry' = en /\ facts' = en.facts
      /\ stack' = <<fr>> /\ code' = code
      /\ must' = must /\ born' = born /\ stmts' = stmts
      /\ feffect' = feffect /\ ctxeffect' = ctxeffect
  BY DEF Analyse, functions
<1>2. Typed /\ en \in [facts : Facts, ctx : Effect]
  BY ContextConstantsOK DEF IInv, Typed
<1>3. Typed'
  <2>1. pc' \in 1 .. MaxSteps + 1
    BY <1>1, ContextConstantsOK
  <2> QED
    BY <1>1, <1>2, <2>1 DEF Typed
<1>4. /\ fr \in Frame /\ fr.op = "stmt" /\ fr.args = <<>> /\ fr.rest = 0
  <2>1. 0 \in Nat /\ <<>> \in Seq(Access) /\ en.facts \in Facts
    BY <1>2 DEF Typed
  <2> QED
    BY <1>2, <2>1, EmptyIsEffect DEF NewFrame, Frame, Types
<1> HIDE DEF fr
<1>5. FrameOK(fr)
  <2>1. Len(fr.args) = 0 /\ DOMAIN fr.args = {} /\ Arity(fr.op) \in Nat
    BY <1>4 DEF Arity
  <2> QED
    BY <2>1 DEF FrameOK
<1>6. StackOK(stack') /\ stack' # <<>>
  <2>1. <<fr>> \in Seq(Frame) /\ DOMAIN <<fr>> = {1} /\ Len(<<fr>>) = 1 /\ <<fr>>[1] = fr
    BY <1>4
  <2> QED
    BY <1>1, <1>4, <1>5, <2>1 DEF StackOK
<1>7. \A f \in Func : ~IsDynamic(f) => EffectKnown(f)'
  BY <1>1 DEF IInv, EffectKnown
<1> QED
  BY <1>1, <1>3, <1>6, <1>7 DEF IInv

\* a step makes a leaf or a left-hand side
LEMMA BuildOK ==
  ASSUME IInv, mode = "generate", mode' = mode, stack # <<>>,
         Grown(stack, stack'), facts' \in Facts,
         code' \in Seq(Step), Len(code') = Len(code) + 1, Len(Top.args) < Arity(Top.op),
         must' \in BOOLEAN, pc' = pc + 1, UNCHANGED <<born, entry, functions, stmts>>
  PROVE  IInv'
<1>1. Typed /\ StackOK(stack) /\ Generates
  BY DEF IInv
<1>2. feffect' = feffect /\ ctxeffect' = ctxeffect
  BY DEF functions
<1>3. Generates'
  BY <1>1, <1>2, GrownGenerates DEF Typed
<1>4. Len(code') <= MaxSteps /\ pc' \in 1 .. MaxSteps + 1
  <2>1. Top \in Frame
    BY <1>1, TopFacts DEF Top
  <2>2. Top.rest \in Nat /\ Len(Top.args) \in Nat /\ Arity(Top.op) \in Nat
    BY <2>1 DEF Frame, Arity
  <2>3. Missing >= 1 /\ Missing \in Nat
    BY <2>2 DEF Missing, MissingFrom
  <2>4. Len(code) + Missing <= MaxSteps /\ Len(code) \in Nat /\ MaxSteps \in Nat
    BY <1>1, ContextConstantsOK DEF Generates, Typed
  <2>5. pc = Len(code) + 1
    BY <1>1 DEF Generates
  <2> QED
    BY <2>3, <2>4, <2>5
<1>5. Typed'
  BY <1>1, <1>2, <1>4 DEF Typed
<1>6. StackOK(stack') /\ stack' # <<>>
  BY DEF Grown
<1>7. \A f \in Func : ~IsDynamic(f) => EffectKnown(f)'
  BY <1>2 DEF IInv, EffectKnown
<1> QED
  BY <1>3, <1>5, <1>6, <1>7 DEF IInv

LEMMA MakeLeafOK ==
  ASSUME IInv, NEW leaf \in Leaves, MakeLeaf(leaf)
  PROVE  IInv'
<1>1. /\ mode = "generate" /\ WantsOperand(Top) /\ LeafAccepted(Top, facts, leaf) /\ LeafStep(leaf)
      /\ code' = Append(code, leaf) /\ pc' = pc + 1 /\ must' = FALSE
      /\ mode' = mode
  BY DEF MakeLeaf, Generating, Write
<1>2. /\ facts \in Facts /\ StackOK(stack) /\ stack # <<>> /\ code \in Seq(Step)
  BY <1>1 DEF IInv, Typed
<1>3. Grown(stack, stack') /\ facts' = facts
  BY <1>1, <1>2, LeafStepOK
<1>4. code' \in Seq(Step) /\ Len(code') = Len(code) + 1
  <2>1. leaf \in Step
    BY ContextConstantsOK DEF Step
  <2> QED
    BY <1>1, <1>2, <2>1
<1>5. Len(Top.args) < Arity(Top.op)
  BY <1>1, <1>2, TopFacts, WantsFacts DEF Top
<1>6. UNCHANGED <<born, entry, functions, stmts>>
  BY DEF MakeLeaf
<1> QED
  BY <1>1, <1>2, <1>3, <1>4, <1>5, <1>6, BuildOK

LEMMA MakeLhsOK ==
  ASSUME IInv, NEW t \in Targets, MakeLhs(t)
  PROVE  IInv'
<1>1. /\ mode = "generate" /\ IsAssign(Top.op) /\ Len(Top.args) = 1
      /\ LhsAccepted(Top, facts, t) /\ LhsStep(t)
      /\ code' = Append(code, t) /\ pc' = pc + 1 /\ must' = must /\ mode' = mode
  BY DEF MakeLhs, Write
<1>2. /\ facts \in Facts /\ StackOK(stack) /\ stack # <<>> /\ code \in Seq(Step)
      /\ must \in BOOLEAN
  BY <1>1 DEF IInv, Typed
<1>3. Grown(stack, stack') /\ facts' \in Facts
  BY <1>1, <1>2, LhsStepOK
<1>4. code' \in Seq(Step) /\ Len(code') = Len(code) + 1
  <2>1. t \in Step
    BY ContextConstantsOK DEF Step, Leaf
  <2> QED
    BY <1>1, <1>2, <2>1
<1>5. Len(Top.args) < Arity(Top.op)
  BY <1>1 DEF IsAssign, Arity
<1>6. UNCHANGED <<born, entry, functions, stmts>>
  BY DEF MakeLhs
<1> QED
  BY <1>1, <1>2, <1>3, <1>4, <1>5, <1>6, BuildOK

\* an operator or a call is begun
LEMMA OpenInvOK ==
  ASSUME IInv, NEW op \in Operators \cup Func, NEW type \in Types, Open(op, type),
         op \in Func => ~InConflict(OperandContext(Top), feffect[op])
  PROVE  IInv'
<1>1. /\ mode = "generate" /\ WantsOperand(Top) /\ OpenStep(op, type)
      /\ Len(code) + Missing + 2 <= MaxSteps
      /\ code' = Append(code, [k |-> "open", op |-> op, type |-> type])
      /\ mode' = mode /\ must' = must /\ born' = born /\ entry' = entry /\ pc' = pc + 1
      /\ feffect' = feffect /\ ctxeffect' = ctxeffect /\ stmts' = stmts
  BY DEF Open, Generating, Write, functions
<1>2. /\ facts \in Facts /\ StackOK(stack) /\ stack # <<>> /\ code \in Seq(Step)
      /\ Typed /\ Generates
  BY <1>1 DEF IInv, Typed
<1>9. pc \in Nat \ {0}
  BY <1>2, ContextConstantsOK DEF Typed
<1>3. /\ StackOK(stack') /\ stack' # <<>> /\ facts' = facts /\ Missing \in Nat \ {0}
  BY <1>1, <1>2, <1>9, OpenOK
<1>4. code' \in Seq(Step) /\ Len(code') = Len(code) + 1
  <2>1. [k |-> "open", op |-> op, type |-> type] \in Step
    BY DEF Step
  <2> QED
    BY <1>1, <1>2, <2>1
<1>5. Generates'
  BY <1>1, <1>2, <1>4, <1>9, OpenGenerates
<1>6. Len(code') <= MaxSteps /\ pc' \in 1 .. MaxSteps + 1
  <2>1. pc = Len(code) + 1 /\ Len(code) \in Nat /\ MaxSteps \in Nat
    BY <1>2, ContextConstantsOK DEF Generates
  <2> QED
    BY <1>1, <1>3, <1>4, <2>1
<1>7. Typed'
  BY <1>1, <1>2, <1>3, <1>4, <1>6 DEF Typed
<1>8. \A f \in Func : ~IsDynamic(f) => EffectKnown(f)'
  BY <1>1 DEF IInv, EffectKnown
<1> QED
  BY <1>1, <1>3, <1>5, <1>7, <1>8 DEF IInv

\* an operator or a call is done
LEMMA DoneOK ==
  ASSUME IInv, mode \in {"generate", "visit"}, mode' = mode,
         Len(stack) > 1, Complete(Top), Grown(Front(stack), stack'), facts' \in Facts,
         feffect' \in [Func -> Effect], ctxeffect' \in [Func -> Effect],
         mode = "generate" => \A g \in Func : ~IsDynamic(g) => feffect'[g] = feffect[g],
         \A g \in Func : ~IsDynamic(g) => EffectKnown(g)',
         UNCHANGED <<must, analysis, stmts>>
  PROVE  IInv'
<1>1. Typed /\ StackOK(stack)
  BY DEF IInv
<1>2. born' = born /\ entry' = entry /\ code' = code /\ pc' = pc
  BY DEF analysis
<1>3. ASSUME mode = "generate"
      PROVE  Generates'
  <2>1. Generates /\ code \in Seq(Step)
    BY <1>1, <1>3 DEF IInv, Typed
  <2> QED
    BY <1>1, <1>2, <1>3, <2>1, CloseGenerates
<1>4. Typed'
  BY <1>1, <1>2 DEF Typed
<1>5. StackOK(stack') /\ stack' # <<>>
  BY DEF Grown
<1> QED
  BY <1>3, <1>4, <1>5 DEF IInv

LEMMA CloseOperatorOK ==
  ASSUME IInv, CloseOperator
  PROVE  IInv'
<1>1. /\ mode' = mode /\ feffect' = feffect /\ ctxeffect' = ctxeffect
      /\ UNCHANGED <<must, analysis, stmts>> /\ stack # <<>>
  BY DEF CloseOperator, OperatorDone, functions
<1>2. facts \in Facts /\ StackOK(stack) /\ mode \in {"generate", "visit"} /\ Typed
  BY <1>1 DEF IInv, Typed
<1>3. /\ Len(stack) > 1 /\ Complete(Top) /\ Grown(Front(stack), stack') /\ facts' \in Facts
  BY <1>2, CloseOK
<1>4. feffect' \in [Func -> Effect] /\ ctxeffect' \in [Func -> Effect]
  BY <1>1, <1>2 DEF Typed
<1>5. \A g \in Func : ~IsDynamic(g) => EffectKnown(g)'
  BY <1>1 DEF IInv, EffectKnown
<1> QED
  BY <1>1, <1>2, <1>3, <1>4, <1>5, DoneOK

LEMMA CloseCallOK ==
  ASSUME IInv, NEW f \in Func, CloseCall(f)
  PROVE  IInv'
<1>1. /\ mode = "generate" /\ Top.op = f /\ Complete(Top) /\ mode' = mode
      /\ UNCHANGED <<must, analysis, stmts>>
  BY DEF CloseCall
<1>2. /\ facts \in Facts /\ StackOK(stack) /\ stack # <<>> /\ Typed /\ Generates
      /\ feffect \in [Func -> Effect] /\ ctxeffect \in [Func -> Effect]
      /\ \A g \in Func : ~IsDynamic(g) => EffectKnown(g)
  BY <1>1 DEF IInv, Typed
<1>3. Top \in Frame /\ Top.ctx \in Effect /\ FALSE \in BOOLEAN
  BY <1>2, TopFacts DEF Top, Frame
<1>4. CASE IsDynamic(f)
  <2> DEFINE ctx == CallContext(f)
  <2>1. BodyOK(ctx, facts, f) /\ CallStep(f, VisibleEffect(facts, f)) /\ Remember(f, ctx)
    BY <1>4 DEF CloseCall
  <2>2. ctx \in Effect /\ Wider(ctx, Top.ctx)
    <3>1. ctxeffect[f] \in Effect
      BY <1>2
    <3> QED
      BY <1>3, <3>1, AddEffectFacts DEF CallContext
  <2> HIDE DEF ctx
  <2>3. Len(stack) > 1 /\ Grown(Front(stack), stack') /\ facts' \in Facts
    BY <1>1, <1>2, <2>1, <2>2, AnalysedCallOK
  <2>4. /\ feffect' \in [Func -> Effect] /\ ctxeffect' \in [Func -> Effect]
        /\ \A g \in Func : g # f => feffect'[g] = feffect[g]
        /\ \A g \in Func : ~IsDynamic(g) => EffectKnown(g)'
    BY <1>2, <2>1, <2>2, RememberOK
  <2>5. \A g \in Func : ~IsDynamic(g) => feffect'[g] = feffect[g]
    BY <1>4, <2>4
  <2> QED
    BY <1>1, <1>2, <2>3, <2>4, <2>5, DoneOK
<1>5. CASE ~IsDynamic(f)
  <2>1. /\ CallStep(f, AddExternalEffect(EmptyEffect, feffect[f], {}))
        /\ feffect' = feffect /\ ctxeffect' = ctxeffect
    BY <1>5 DEF CloseCall, functions
  <2>2. ~InConflict(Top.ctx, feffect[f])
    <3>1. Top = stack[Len(stack)] /\ Len(stack) \in 2 .. Len(stack)
      BY <1>1, <1>2, CallNotFirst DEF Top
    <3> QED
      BY <1>1, <1>2, <1>5, <3>1 DEF Generates
  <2>3. feffect[f] \in Effect /\ EffectKnown(f)
    BY <1>2, <1>5
  <2>4. Len(stack) > 1 /\ Grown(Front(stack), stack') /\ facts' \in Facts
    BY <1>1, <1>2, <1>5, <2>1, <2>2, <2>3, PlainCallOK
  <2>5. feffect' \in [Func -> Effect] /\ ctxeffect' \in [Func -> Effect]
    BY <1>2, <2>1
  <2>6. \A g \in Func : ~IsDynamic(g) => EffectKnown(g)'
    BY <1>2, <2>1 DEF EffectKnown
  <2> QED
    BY <1>1, <1>2, <2>1, <2>4, <2>5, <2>6, DoneOK
<1> QED
  BY <1>4, <1>5

LEMMA VisitCallOK ==
  ASSUME IInv, NEW f \in Func, VisitCall(f)
  PROVE  IInv'
<1>1. /\ mode = "visit" /\ Top.op = f /\ Complete(Top) /\ mode' = mode
      /\ BodyOK(Top.ctx, facts, f) /\ CallStep(f, VisibleEffect(facts, f)) /\ Remember(f, Top.ctx)
      /\ UNCHANGED <<must, analysis, stmts>>
  BY DEF VisitCall
<1>2. /\ facts \in Facts /\ StackOK(stack) /\ stack # <<>>
      /\ feffect \in [Func -> Effect] /\ ctxeffect \in [Func -> Effect]
      /\ \A g \in Func : ~IsDynamic(g) => EffectKnown(g)
  BY <1>1 DEF IInv, Typed
<1>3. Top.ctx \in Effect /\ Wider(Top.ctx, Top.ctx)
  BY <1>2, TopFacts DEF Top, Frame, Wider
<1>4. Len(stack) > 1 /\ Grown(Front(stack), stack') /\ facts' \in Facts
  BY <1>1, <1>2, <1>3, AnalysedCallOK
<1>5. /\ feffect' \in [Func -> Effect] /\ ctxeffect' \in [Func -> Effect]
      /\ \A g \in Func : ~IsDynamic(g) => EffectKnown(g)'
  BY <1>1, <1>2, <1>3, RememberOK
<1> QED
  BY <1>1, <1>2, <1>4, <1>5, DoneOK

LEMMA FailCallOK ==
  ASSUME IInv, NEW f \in Func, FailCall(f)
  PROVE  IInv'
<1>1. /\ mode = "generate" /\ Top.op = f /\ stack' = Front(stack) /\ facts' = Top.saved
      /\ code' = SubSeq(code, 1, Top.at) /\ must' = (Len(stack) > 2) /\ mode' = mode
      /\ born' = born /\ entry' = entry /\ pc' = Top.at + 1 /\ stmts' = stmts
      /\ feffect' = feffect /\ ctxeffect' = ctxeffect
  BY DEF FailCall, functions
<1>2. /\ StackOK(stack) /\ stack # <<>> /\ Typed /\ Generates /\ code \in Seq(Step)
  BY <1>1 DEF IInv, Typed
<1>3. Len(stack) > 1
  BY <1>1, <1>2, CallNotFirst DEF Top
<1>4. Generates' /\ code' \in Seq(Step) /\ Len(code') <= Len(code)
  BY <1>1, <1>2, <1>3, FailGenerates
<1>5. StackOK(stack') /\ stack' # <<>>
  BY <1>1, <1>2, <1>3, Popped
<1>6. Typed'
  <2>1. facts' \in Facts
    BY <1>1, <1>2, TopFacts DEF Top, Frame
  <2>2. must' \in BOOLEAN
    BY <1>1
  <2>3. Len(code') <= MaxSteps /\ pc' \in 1 .. MaxSteps + 1
    <3>1. Len(code) <= MaxSteps /\ Len(code) \in Nat /\ MaxSteps \in Nat
      BY <1>2, ContextConstantsOK DEF Typed
    <3>2. Len(code') \in Nat /\ pc' = Len(code') + 1
      BY <1>4 DEF Generates
    <3> QED
      BY <1>4, <3>1, <3>2
  <2> QED
    BY <1>1, <1>2, <1>4, <2>1, <2>2, <2>3 DEF Typed
<1>7. \A g \in Func : ~IsDynamic(g) => EffectKnown(g)'
  BY <1>1 DEF IInv, EffectKnown
<1> QED
  BY <1>1, <1>4, <1>5, <1>6, <1>7 DEF IInv

LEMMA VisitOperandOK ==
  ASSUME IInv, VisitOperand
  PROVE  IInv'
<1> DEFINE step == code[pc]
<1>1. /\ mode = "visit" /\ pc <= Len(code) /\ ~Complete(Top)
      /\ \/ step.k = "open" /\ WantsOperand(Top) /\ OpenStep(step.op, step.type)
         \/ step \in Leaves /\ WantsOperand(Top) /\ LeafAccepted(Top, facts, step) /\ LeafStep(step)
         \/ step \in Targets /\ ~WantsOperand(Top) /\ LhsAccepted(Top, facts, step) /\ LhsStep(step)
      /\ pc' = pc + 1 /\ mode' = mode /\ must' = must /\ born' = born /\ entry' = entry
      /\ code' = code /\ feffect' = feffect /\ ctxeffect' = ctxeffect /\ stmts' = stmts
  BY DEF VisitOperand, Proceed, functions
<1>2. /\ facts \in Facts /\ StackOK(stack) /\ stack # <<>> /\ Typed
      /\ code \in Seq(Step) /\ pc \in 1 .. MaxSteps + 1 /\ Len(code) <= MaxSteps
  BY <1>1 DEF IInv, Typed
<1>3. step \in Step /\ pc' \in 1 .. MaxSteps + 1
  <2>1. Len(code) \in Nat /\ MaxSteps \in Nat
    BY <1>2, ContextConstantsOK
  <2>2. pc \in 1 .. Len(code)
    BY <1>1, <1>2, <2>1
  <2>3. pc' \in 1 .. MaxSteps + 1
    BY <1>1, <1>2, <2>1
  <2> QED
    BY <1>2, <2>2, <2>3
<1> HIDE DEF step
<1>4. StackOK(stack') /\ stack' # <<>> /\ facts' \in Facts
  <2>1. CASE step.k = "open" /\ WantsOperand(Top) /\ OpenStep(step.op, step.type)
    <3>1. step.op \in Operators \cup Func /\ step.type \in Types
      BY <1>3, <2>1 DEF Step, Leaf, Terms
    <3> QED
      BY <1>2, <2>1, <3>1, OpenOK
  <2>2. CASE step \in Leaves /\ WantsOperand(Top) /\ LeafAccepted(Top, facts, step) /\ LeafStep(step)
    BY <1>2, <2>2, LeafStepOK DEF Grown
  <2>3. CASE step \in Targets /\ ~WantsOperand(Top) /\ LhsAccepted(Top, facts, step) /\ LhsStep(step)
    <3>1. IsAssign(Top.op) /\ Len(Top.args) = 1
      <4>1. /\ Top \in Frame /\ Len(Top.args) <= Arity(Top.op)
        BY <1>2, TopFacts DEF Top, FrameOK
      <4>2. Len(Top.args) \in Nat /\ Arity(Top.op) \in {1, 2}
        BY <4>1 DEF Frame, Arity
      <4>3. Len(Top.args) < Arity(Top.op)
        BY <1>1, <4>1, <4>2 DEF Complete
      <4>4. IsAssign(Top.op)
        BY <2>3, <4>3 DEF WantsOperand
      <4>5. ~(Len(Top.args) < 1)
        BY <2>3, <4>4 DEF WantsOperand
      <4>6. \A n \in Nat : \A m \in {1, 2} : n < m /\ ~(n < 1) => n = 1
        OBVIOUS
      <4>7. Len(Top.args) = 1
        BY <4>2, <4>3, <4>5, <4>6
      <4> QED
        BY <4>4, <4>7
    <3> QED
      BY <1>2, <2>3, <3>1, LhsStepOK DEF Grown
  <2> QED
    BY <1>1, <2>1, <2>2, <2>3
<1>5. Typed'
  BY <1>1, <1>2, <1>3, <1>4 DEF Typed
<1>6. \A g \in Func : ~IsDynamic(g) => EffectKnown(g)'
  BY <1>1 DEF IInv, EffectKnown
<1> QED
  BY <1>1, <1>4, <1>5, <1>6 DEF IInv

\* the expression or the statement is given up, or done
LEMMA ClearOK ==
  ASSUME IInv, stack' = <<>>, mode' \in {"idle", "rejected"}, facts' \in Facts,
         must' = must, born' = born, entry' = entry, pc' = pc, stmts' = stmts,
         code' \in {code, <<>>}, feffect' = feffect, ctxeffect' = ctxeffect
  PROVE  IInv'
<1>1. Typed /\ code \in Seq(Step) /\ Len(code) <= MaxSteps
  BY DEF IInv, Typed
<1>5. code' \in Seq(Step) /\ Len(code') <= MaxSteps
  <2>1. CASE code' = <<>>
    BY <2>1, ContextConstantsOK
  <2> QED
    BY <1>1, <2>1
<1>2. Typed'
  BY <1>1, <1>5 DEF Typed
<1>3. StackOK(stack')
  BY DEF StackOK
<1>4. \A g \in Func : ~IsDynamic(g) => EffectKnown(g)'
  BY DEF IInv, EffectKnown
<1> QED
  BY <1>2, <1>3, <1>4 DEF IInv

LEMMA NextOK == IInv /\ [Next]_vars => IInv'
<1> SUFFICES ASSUME IInv, [Next]_vars
             PROVE  IInv'
  OBVIOUS
<1>1. CASE StartStatement
  BY <1>1, StartStatementOK
<1>2. ASSUME NEW en \in Entries \cup {born}, Analyse(en)
      PROVE  IInv'
  BY <1>2, AnalyseOK
<1>3. ASSUME NEW leaf \in Leaves, MakeLeaf(leaf)
      PROVE  IInv'
  BY <1>3, MakeLeafOK
<1>4. ASSUME NEW op \in {"binary", "and"}, MakeOperator(op)
      PROVE  IInv'
  <2>1. op \in Operators \cup Func /\ op \notin Func /\ "int" \in Types /\ Open(op, "int")
    BY <1>4, ContextConstantsOK DEF MakeOperator, Operators, Types
  <2> QED
    BY <2>1, OpenInvOK
<1>5. CASE MakeComma
  <2>1. /\ InExpression /\ Open("comma", OperandType(Top))
        /\ "comma" \in Operators \cup Func /\ "comma" \notin Func
    BY <1>5, ContextConstantsOK DEF MakeComma, Operators
  <2>2. StackOK(stack) /\ stack # <<>>
    BY <2>1 DEF InExpression, Generating, IInv
  <2>3. OperandType(Top) \in Types
    BY <2>2, TopFacts DEF OperandType, Top, Frame, Types
  <2> QED
    BY <2>1, <2>3, OpenInvOK
<1>6. CASE MakeAssign
  <2>1. PICK type \in {"int", "ptr"} : Open("assign", type)
    BY <1>6 DEF MakeAssign
  <2>2. type \in Types /\ "assign" \in Operators \cup Func /\ "assign" \notin Func
    BY ContextConstantsOK DEF Operators, Types
  <2> QED
    BY <2>1, <2>2, OpenInvOK
<1>7. CASE MakeCompound
  <2>1. /\ "int" \in Types /\ Open("compound", "int")
        /\ "compound" \in Operators \cup Func /\ "compound" \notin Func
    BY <1>7, ContextConstantsOK DEF MakeCompound, Operators, Types
  <2> QED
    BY <2>1, OpenInvOK
<1>8. ASSUME NEW f \in Func, MakeCall(f)
      PROVE  IInv'
  <2>1. /\ ~InConflict(OperandContext(Top), feffect[f]) /\ Open(f, "int")
        /\ "int" \in Types /\ f \in Operators \cup Func
    BY <1>8 DEF MakeCall, Types
  <2> QED
    BY <2>1, OpenInvOK
<1>9. ASSUME NEW f \in Func, CloseCall(f) \/ FailCall(f) \/ VisitCall(f)
      PROVE  IInv'
  BY <1>9, CloseCallOK, FailCallOK, VisitCallOK
<1>10. ASSUME NEW t \in Targets, MakeLhs(t)
       PROVE  IInv'
  BY <1>10, MakeLhsOK
<1>11. CASE CloseOperator
  BY <1>11, CloseOperatorOK
<1>12. CASE EndStatement
  <2>1. /\ stack' = <<>> /\ mode' = "idle" /\ must' = must /\ facts' = facts
        /\ born' = born /\ entry' = entry /\ pc' = pc /\ code' = code /\ stmts' = stmts
        /\ feffect' = feffect /\ ctxeffect' = ctxeffect
    BY <1>12 DEF EndStatement, analysis, functions
  <2>2. facts \in Facts
    BY DEF IInv, Typed
  <2> QED
    BY <2>1, <2>2, ClearOK
<1>13. CASE VisitOperand
  BY <1>13, VisitOperandOK
<1>14. CASE Reject
  <2>1. /\ stack' = <<>> /\ mode' = "rejected" /\ must' = must /\ facts' = entry.facts
        /\ born' = born /\ entry' = entry /\ pc' = pc /\ code' = code /\ stmts' = stmts
        /\ feffect' = feffect /\ ctxeffect' = ctxeffect
    BY <1>14 DEF Reject, analysis, functions
  <2>2. entry.facts \in Facts
    BY DEF IInv, Typed
  <2> QED
    BY <2>1, <2>2, ClearOK
<1>15. CASE Forget
  <2>1. /\ stack' = stack /\ mode = "rejected" /\ mode' = "idle" /\ must' = must
        /\ facts' = facts /\ born' = born /\ entry' = entry /\ pc' = pc /\ code' = <<>>
        /\ stmts' = stmts /\ feffect' = feffect /\ ctxeffect' = ctxeffect
    BY <1>15 DEF Forget, functions
  <2>2. facts \in Facts /\ stack = <<>>
    BY <2>1 DEF IInv, Typed
  <2> QED
    BY <2>1, <2>2, ClearOK
<1>16. CASE UNCHANGED vars
  <2>1. /\ stack' = stack /\ mode' = mode /\ must' = must /\ facts' = facts
        /\ born' = born /\ entry' = entry /\ pc' = pc /\ code' = code /\ stmts' = stmts
        /\ feffect' = feffect /\ ctxeffect' = ctxeffect
    BY <1>16 DEF vars, analysis, functions
  <2>2. Typed' /\ StackOK(stack')
    BY <2>1 DEF IInv, Typed
  <2>3. \A g \in Func : ~IsDynamic(g) => EffectKnown(g)'
    BY <2>1 DEF IInv, EffectKnown
  <2>4. Generates => Generates'
    BY <2>1 DEF Generates, Missing, MissingFrom, Top
  <2> QED
    BY <2>1, <2>2, <2>3, <2>4 DEF IInv
<1> QED
  BY <1>1, <1>2, <1>3, <1>4, <1>5, <1>6, <1>7, <1>8, <1>9, <1>10, <1>11, <1>12, <1>13, <1>14,
     <1>15, <1>16 DEF Next

LEMMA IInvHolds == Spec => []IInv
BY InitOK, NextOK, PTL DEF Spec

----------------------------------------------------------------------------
(* Generation and analysis, step by step *)

\* what a statement's generation and its analysis work on
Now == [stack |-> stack, facts |-> facts, pc |-> pc]

Start(en) ==
  [stack |-> <<NewFrame("stmt", en.ctx, "int", 0, en.facts, 0)>>, facts |-> en.facts, pc |-> 1]

\* the analysis of the steps c goes on in state s, and where it goes
Accepts(s, c) ==
  LET fr == Last(s.stack)
  IN  IF Complete(fr)
      THEN fr.op \in Func => BodyOK(fr.ctx, s.facts, fr.op)
      ELSE /\ s.pc \in 1 .. Len(c)
           /\ IF WantsOperand(fr)
              THEN c[s.pc].k # "open" => LeafAccepted(fr, s.facts, c[s.pc])
              ELSE LhsAccepted(fr, s.facts, c[s.pc])

AfterEnd(s) ==
  LET fr == Last(s.stack)
  IN  IF fr.op \in Func
      THEN [stack |-> CallDone(s.stack, s.facts, fr.op, VisibleEffect(s.facts, fr.op)),
            facts |-> BodyFacts(s.facts, fr.op), pc |-> s.pc]
      ELSE [stack |-> OperatorDone(s.stack, s.facts), facts |-> FactsAfter(fr, s.facts),
            pc |-> s.pc]

AfterStep(s, step) ==
  LET fr == Last(s.stack)
  IN  IF ~WantsOperand(fr)
      THEN [stack |-> LhsDone(s.stack, s.facts, step), facts |-> FactsStored(fr, s.facts, step),
            pc |-> s.pc + 1]
      ELSE IF step.k = "open"
      THEN [stack |-> Opened(s.stack, s.facts, s.pc - 1, step.op, step.type),
            facts |-> s.facts, pc |-> s.pc + 1]
      ELSE [stack |-> LeafDone(s.stack, s.facts, step), facts |-> s.facts, pc |-> s.pc + 1]

Successor(s, c) == IF Complete(Last(s.stack)) THEN AfterEnd(s) ELSE AfterStep(s, c[s.pc])

\* the first n states of the analysis of c, with the facts and in the context of en
IsRun(run, n, en, c) ==
  /\ run[1] = Start(en)
  /\ \A i \in 1 .. n - 1 : Accepts(run[i], c) /\ run[i + 1] = Successor(run[i], c)

Reaches(en, c, s) == \E n \in Nat \ {0} : \E run : IsRun(run, n, en, c) /\ run[n] = s

\* the statement is done
Ended(s) == Len(s.stack) = 1 /\ Complete(Last(s.stack))

\* before the i-th operator was begun
Before(st, i) ==
  [stack |-> SubSeq(st, 1, i - 1), facts |-> st[i].saved, pc |-> st[i].at + 1]

\* a call that fails goes back to where the analysis would be, too
CallsBegun(en, st, c, m) ==
  \A i \in 2 .. m :
    st[i].op \in Func => Reaches(en, SubSeq(c, 1, st[i].at), Before(st, i))

\* the analysis of a statement that is done comes to its end, if it is made as
\* the statement was generated
Analysed ==
  \E n \in Nat \ {0} : \E run :
    /\ IsRun(run, n, born, code) /\ Ended(run[n])
    /\ mode = "visit" /\ entry = born => \E k \in 1 .. n : run[k] = Now

Repeats ==
  /\ mode = "generate" =>
       Reaches(born, code, Now) /\ CallsBegun(born, stack, code, Len(stack))
  /\ mode = "visit" \/ (mode = "idle" /\ code # <<>>) => Analysed
  /\ mode = "rejected" => entry # born

LEMMA RunStarts ==
  ASSUME NEW en, NEW c
  PROVE  Reaches(en, c, Start(en))
<1> DEFINE run == [i \in 1 .. 1 |-> Start(en)]
<1>1. IsRun(run, 1, en, c) /\ run[1] = Start(en)
  BY DEF IsRun
<1> HIDE DEF run
<1> QED
  BY <1>1 DEF Reaches

LEMMA RunGoesOn ==
  ASSUME NEW en, NEW c, NEW s, Reaches(en, c, s), Accepts(s, c)
  PROVE  Reaches(en, c, Successor(s, c))
<1>1. PICK n \in Nat \ {0} : \E run : IsRun(run, n, en, c) /\ run[n] = s
  BY DEF Reaches
<1>2. PICK run : IsRun(run, n, en, c) /\ run[n] = s
  BY <1>1
<1> DEFINE new == [i \in 1 .. n + 1 |-> IF i <= n THEN run[i] ELSE Successor(s, c)]
<1>3. new[n + 1] = Successor(s, c) /\ \A i \in 1 .. n : new[i] = run[i]
  OBVIOUS
<1> HIDE DEF new
<1>4. new[1] = Start(en)
  BY <1>2, <1>3 DEF IsRun
<1>5. ASSUME NEW i \in 1 .. (n + 1) - 1
      PROVE  Accepts(new[i], c) /\ new[i + 1] = Successor(new[i], c)
  <2>1. CASE i = n
    <3>1. new[i] = s /\ new[i + 1] = Successor(s, c)
      BY <1>2, <1>3, <2>1
    <3> QED
      BY <3>1
  <2>2. CASE i \in 1 .. n - 1
    <3>1. new[i] = run[i] /\ new[i + 1] = run[i + 1]
      BY <1>3, <2>2
    <3>2. Accepts(run[i], c) /\ run[i + 1] = Successor(run[i], c)
      BY <1>2, <2>2 DEF IsRun
    <3> QED
      BY <3>1, <3>2
  <2> QED
    BY <1>5, <2>1, <2>2
<1>6. IsRun(new, n + 1, en, c) /\ n + 1 \in Nat \ {0}
  BY <1>4, <1>5 DEF IsRun
<1> QED
  BY <1>3, <1>6 DEF Reaches

\* steps that come later do not matter
LEMMA RunExtends ==
  ASSUME NEW en, NEW c \in Seq(Step), NEW d \in Seq(Step), NEW s, Reaches(en, c, s),
         Len(c) <= Len(d), \A i \in 1 .. Len(c) : d[i] = c[i]
  PROVE  Reaches(en, d, s)
<1>1. PICK n \in Nat \ {0} : \E run : IsRun(run, n, en, c) /\ run[n] = s
  BY DEF Reaches
<1>2. PICK run : IsRun(run, n, en, c) /\ run[n] = s
  BY <1>1
<1>3. ASSUME NEW i \in 1 .. n - 1
      PROVE  Accepts(run[i], d) /\ run[i + 1] = Successor(run[i], d)
  <2> DEFINE r == run[i]
  <2>1. Accepts(r, c) /\ run[i + 1] = Successor(r, c)
    BY <1>2, <1>3 DEF IsRun
  <2> HIDE DEF r
  <2>2. CASE Complete(Last(r.stack))
    BY <2>1, <2>2 DEF Accepts, Successor, r
  <2>3. CASE ~Complete(Last(r.stack))
    <3>1. r.pc \in 1 .. Len(c)
      BY <2>1, <2>3 DEF Accepts
    <3>2. r.pc \in 1 .. Len(d) /\ d[r.pc] = c[r.pc]
      BY <3>1
    <3>3. Accepts(r, d)
      BY <2>1, <2>3, <3>2 DEF Accepts
    <3>4. Successor(r, d) = Successor(r, c)
      BY <2>3, <3>2 DEF Successor
    <3> QED
      BY <2>1, <3>3, <3>4 DEF r
  <2> QED
    BY <2>2, <2>3
<1>4. IsRun(run, n, en, d)
  BY <1>2, <1>3 DEF IsRun
<1> QED
  BY <1>2, <1>4 DEF Reaches

LEMMA SamePrefix ==
  ASSUME NEW S, NEW s \in Seq(S), NEW t \in Seq(S), NEW n \in Nat, n <= Len(s), n <= Len(t),
         \A i \in 1 .. n : t[i] = s[i]
  PROVE  SubSeq(t, 1, n) = SubSeq(s, 1, n)
<1>1. /\ SubSeq(t, 1, n) = [i \in 1 .. n |-> t[i]]
      /\ SubSeq(s, 1, n) = [i \in 1 .. n |-> s[i]]
  OBVIOUS
<1> QED
  BY <1>1

\* the calls among the first m operators of a stack, in another one that has
\* them in the same places
LEMMA CallsKept ==
  ASSUME NEW en, NEW st \in Seq(Frame), NEW new \in Seq(Frame),
         NEW c \in Seq(Step), NEW d \in Seq(Step), NEW m \in Nat,
         m <= Len(st), m <= Len(new), CallsBegun(en, st, c, m),
         \A i \in 1 .. m - 1 : new[i] = st[i],
         m > 1 => /\ new[m].op = st[m].op /\ new[m].at = st[m].at
                  /\ st[m].op \in Func => new[m].saved = st[m].saved,
         \A i \in 2 .. m : st[i].at <= Len(c) /\ st[i].at <= Len(d),
         \A j \in 1 .. Len(c) : j <= Len(d) => d[j] = c[j]
  PROVE  CallsBegun(en, new, d, m)
<1> SUFFICES ASSUME NEW i \in 2 .. m, new[i].op \in Func
             PROVE  Reaches(en, SubSeq(d, 1, new[i].at), Before(new, i))
  BY DEF CallsBegun
<1>1. i \in 1 .. m - 1 \/ i = m
  OBVIOUS
<1>2. new[i].op = st[i].op /\ new[i].at = st[i].at
  BY <1>1
<1>3. new[i].saved = st[i].saved
  BY <1>1
<1>4. st[i] \in Frame /\ st[i].at \in Nat
  <2>1. i \in 1 .. Len(st)
    OBVIOUS
  <2>2. st[i] \in Frame
    BY <2>1
  <2> QED
    BY <2>2 DEF Frame
<1>5. SubSeq(new, 1, i - 1) = SubSeq(st, 1, i - 1)
  <2>1. \A j \in 1 .. i - 1 : new[j] = st[j]
    OBVIOUS
  <2>2. i - 1 \in Nat /\ i - 1 <= Len(st) /\ i - 1 <= Len(new)
    OBVIOUS
  <2> QED
    BY <2>1, <2>2, SamePrefix
<1>6. SubSeq(d, 1, st[i].at) = SubSeq(c, 1, st[i].at)
  <2> DEFINE n == st[i].at
  <2>1. n \in Nat /\ n <= Len(c) /\ n <= Len(d)
    BY <1>4
  <2> HIDE DEF n
  <2>2. \A j \in 1 .. n : d[j] = c[j]
    BY <2>1
  <2> QED
    BY <2>1, <2>2, SamePrefix DEF n
<1>7. Before(new, i) = Before(st, i)
  BY <1>2, <1>3, <1>5 DEF Before
<1>8. Reaches(en, SubSeq(c, 1, st[i].at), Before(st, i))
  BY <1>2 DEF CallsBegun
<1> QED
  BY <1>2, <1>6, <1>7, <1>8

\* a step of a statement under construction that is a leaf or a left-hand side
LEMMA BuildRepeats ==
  ASSUME IInv, Repeats, mode = "generate", mode' = mode, born' = born, stack # <<>>,
         Grown(stack, stack'), NEW step \in Step, code' = Append(code, step),
         Accepts(Now, code'), Now' = Successor(Now, code')
  PROVE  Repeats'
<1>1. StackOK(stack) /\ Generates /\ code \in Seq(Step) /\ Len(code) \in Nat
  BY DEF IInv, Typed
<1>2. /\ code' \in Seq(Step) /\ Len(code') = Len(code) + 1 /\ Len(code) <= Len(code')
      /\ \A j \in 1 .. Len(code) : code'[j] = code[j]
  BY <1>1
<1>3. Reaches(born, code, Now) /\ CallsBegun(born, stack, code, Len(stack))
  BY DEF Repeats
<1>4. Reaches(born, code', Now')
  <2>1. Reaches(born, code', Now)
    BY <1>1, <1>2, <1>3, RunExtends
  <2> QED
    BY <2>1, RunGoesOn
<1>5. CallsBegun(born, stack', code', Len(stack'))
  <2>1. /\ stack' \in Seq(Frame) /\ stack \in Seq(Frame) /\ Len(stack') = Len(stack)
        /\ Len(stack) \in Nat /\ Len(stack) # 0
        /\ Last(stack) = stack[Len(stack)] /\ Last(stack') = stack'[Len(stack)]
    BY <1>1, TopFacts DEF Grown
  <2> DEFINE m == Len(stack)
  <2>2. /\ \A i \in 1 .. m - 1 : stack'[i] = stack[i]
        /\ stack'[m].op = stack[m].op /\ stack'[m].at = stack[m].at
        /\ stack[m].op \in Func => stack'[m].saved = stack[m].saved
    BY <2>1 DEF Grown
  <2>3. \A i \in 2 .. m : stack[i].at <= Len(code) /\ stack[i].at \in Nat
    <3>1. \A i \in 2 .. m : stack[i] \in Frame
      BY <2>1
    <3> QED
      BY <1>1, <3>1 DEF Generates, Frame
  <2>4. \A i \in 2 .. m : stack[i].at <= Len(code) /\ stack[i].at <= Len(code')
    BY <1>1, <1>2, <2>3
  <2>5. m \in Nat /\ m <= Len(stack) /\ m <= Len(stack')
    BY <2>1
  <2>6. CallsBegun(born, stack, code, m)
    BY <1>3
  <2> HIDE DEF m
  <2>7. CallsBegun(born, stack', code', m)
    BY <1>1, <1>2, <2>1, <2>2, <2>4, <2>5, <2>6, CallsKept
  <2> QED
    BY <2>1, <2>7 DEF m
<1> QED
  BY <1>4, <1>5 DEF Repeats

LEMMA MakeLeafRepeats ==
  ASSUME IInv, Repeats, NEW leaf \in Leaves, MakeLeaf(leaf)
  PROVE  Repeats'
<1>1. /\ mode = "generate" /\ WantsOperand(Top) /\ LeafAccepted(Top, facts, leaf) /\ LeafStep(leaf)
      /\ code' = Append(code, leaf) /\ pc' = pc + 1 /\ mode' = mode /\ born' = born
  BY DEF MakeLeaf, Generating, Write
<1>2. /\ facts \in Facts /\ StackOK(stack) /\ stack # <<>> /\ code \in Seq(Step)
      /\ Generates
  BY <1>1 DEF IInv, Typed
<1>3. Grown(stack, stack') /\ facts' = facts
  BY <1>1, <1>2, LeafStepOK
<1>4. leaf \in Step /\ leaf.k # "open"
  BY ContextConstantsOK DEF Step, Leaf, Terms
<1>5. /\ pc \in 1 .. Len(code') /\ code'[pc] = leaf
  BY <1>1, <1>2, <1>4 DEF Generates
<1>6. ~Complete(Top)
  <2>1. Len(Top.args) < Arity(Top.op) /\ Top \in Frame
    BY <1>1, <1>2, TopFacts, WantsFacts DEF Top
  <2>2. Len(Top.args) \in Nat
    BY <2>1 DEF Frame
  <2> QED
    BY <2>1, <2>2 DEF Complete, Arity
<1>7. Accepts(Now, code')
  BY <1>1, <1>5, <1>6 DEF Accepts, Now, Top
<1>8. Now' = Successor(Now, code')
  <2>1. stack' = LeafDone(stack, facts, leaf)
    BY <1>1 DEF LeafStep
  <2> QED
    BY <1>1, <1>3, <1>4, <1>5, <1>6, <2>1 DEF Now, Successor, AfterStep, Top
<1> QED
  BY <1>1, <1>2, <1>3, <1>4, <1>7, <1>8, BuildRepeats

LEMMA MakeLhsRepeats ==
  ASSUME IInv, Repeats, NEW t \in Targets, MakeLhs(t)
  PROVE  Repeats'
<1>1. /\ mode = "generate" /\ IsAssign(Top.op) /\ Len(Top.args) = 1
      /\ LhsAccepted(Top, facts, t) /\ LhsStep(t)
      /\ code' = Append(code, t) /\ pc' = pc + 1 /\ mode' = mode /\ born' = born
  BY DEF MakeLhs, Write
<1>2. /\ facts \in Facts /\ StackOK(stack) /\ stack # <<>> /\ code \in Seq(Step)
      /\ Generates
  BY <1>1 DEF IInv, Typed
<1>3. Grown(stack, stack') /\ facts' \in Facts
  BY <1>1, <1>2, LhsStepOK
<1>4. t \in Step
  BY ContextConstantsOK DEF Step, Leaf
<1>5. /\ pc \in 1 .. Len(code') /\ code'[pc] = t
  BY <1>1, <1>2, <1>4 DEF Generates
<1>6. ~Complete(Top) /\ ~WantsOperand(Top)
  BY <1>1 DEF Complete, WantsOperand, Arity, IsAssign
<1>7. Accepts(Now, code')
  BY <1>1, <1>5, <1>6 DEF Accepts, Now, Top
<1>8. Now' = Successor(Now, code')
  <2>1. stack' = LhsDone(stack, facts, t) /\ facts' = FactsStored(Top, facts, t)
    BY <1>1 DEF LhsStep
  <2> QED
    BY <1>1, <1>5, <1>6, <2>1 DEF Now, Successor, AfterStep, Top
<1> QED
  BY <1>1, <1>2, <1>3, <1>4, <1>7, <1>8, BuildRepeats

\* a call that is begun remembers where the analysis is
LEMMA OpenRepeats ==
  ASSUME IInv, Repeats, NEW op \in Operators \cup Func, NEW type \in Types, Open(op, type)
  PROVE  Repeats'
<1> DEFINE step == [k |-> "open", op |-> op, type |-> type]
           n == Len(stack)
           new == NewFrame(op, OperandContext(Top), type, Missing - 1, facts, pc - 1)
<1>1. /\ mode = "generate" /\ WantsOperand(Top) /\ OpenStep(op, type)
      /\ code' = Append(code, step) /\ pc' = pc + 1 /\ mode' = mode /\ born' = born
  BY DEF Open, Generating, Write
<1>2. /\ facts \in Facts /\ StackOK(stack) /\ stack # <<>> /\ code \in Seq(Step)
      /\ Len(code) \in Nat /\ pc = Len(code) + 1 /\ Generates
  <2>1. Generates /\ Typed /\ StackOK(stack) /\ stack # <<>>
    BY <1>1 DEF IInv
  <2> QED
    BY <2>1 DEF Typed, Generates
<1>3. /\ facts' = facts /\ Len(stack') = n + 1 /\ StackOK(stack') /\ stack' # <<>>
      /\ \A i \in 1 .. n : stack'[i] = stack[i]
      /\ Last(stack') = new
  BY <1>1, <1>2, OpenOK
<1>4. step \in Step /\ step.k = "open" /\ step.op = op /\ step.type = type
  BY DEF Step
<1> HIDE DEF step
<1>5. /\ pc \in 1 .. Len(code') /\ code'[pc] = step
      /\ code' \in Seq(Step) /\ Len(code') = Len(code) + 1 /\ Len(code) <= Len(code')
      /\ \A j \in 1 .. Len(code) : code'[j] = code[j]
  BY <1>1, <1>2, <1>4
<1>6. ~Complete(Top)
  <2>1. Len(Top.args) < Arity(Top.op) /\ Top \in Frame
    BY <1>1, <1>2, TopFacts, WantsFacts DEF Top
  <2>2. Len(Top.args) \in Nat
    BY <2>1 DEF Frame
  <2> QED
    BY <2>1, <2>2 DEF Complete, Arity
<1>7. Accepts(Now, code')
  BY <1>1, <1>4, <1>5, <1>6 DEF Accepts, Now, Top
<1>8. Now' = Successor(Now, code')
  <2>1. stack' = Opened(stack, facts, pc - 1, op, type)
    BY <1>1 DEF OpenStep
  <2> QED
    BY <1>1, <1>3, <1>4, <1>5, <1>6, <2>1 DEF Now, Successor, AfterStep, Top
<1>9. Reaches(born, code, Now) /\ CallsBegun(born, stack, code, n)
  BY <1>1 DEF Repeats
<1>10. Reaches(born, code', Now')
  <2>1. Reaches(born, code', Now)
    BY <1>2, <1>5, <1>9, RunExtends
  <2> QED
    BY <1>7, <1>8, <2>1, RunGoesOn
<1>11. /\ n \in Nat /\ n # 0 /\ stack \in Seq(Frame) /\ stack' \in Seq(Frame)
       /\ stack'[n + 1] = new
  BY <1>2, <1>3, TopFacts
<1>12. new.saved = facts /\ new.at = Len(code)
  BY <1>2 DEF NewFrame
<1> HIDE DEF n, new
<1>13. CallsBegun(born, stack', code', n)
  <2>1. \A i \in 2 .. n : stack[i].at <= Len(code) /\ stack[i].at \in Nat
    <3>1. \A i \in 2 .. n : stack[i] \in Frame
      BY <1>11 DEF n
    <3> QED
      BY <1>2, <3>1 DEF Generates, Frame, n
  <2>2. \A i \in 2 .. n : stack[i].at <= Len(code) /\ stack[i].at <= Len(code')
    BY <1>2, <1>5, <2>1
  <2>3. n <= Len(stack) /\ n <= Len(stack')
    BY <1>3, <1>11 DEF n
  <2>4. /\ \A i \in 1 .. n - 1 : stack'[i] = stack[i]
        /\ stack'[n] = stack[n]
    BY <1>3, <1>11
  <2> QED
    BY <1>2, <1>5, <1>9, <1>11, <2>2, <2>3, <2>4, CallsKept
<1>14. SubSeq(code', 1, stack'[n + 1].at) = code /\ Before(stack', n + 1) = Now
  <2>1. SubSeq(code', 1, Len(code)) = SubSeq(code, 1, Len(code))
    BY <1>2, <1>5, SamePrefix
  <2>2. SubSeq(stack', 1, n) = SubSeq(stack, 1, n)
    <3>1. n <= Len(stack) /\ n <= Len(stack')
      BY <1>3, <1>11 DEF n
    <3> QED
      BY <1>3, <1>11, <3>1, SamePrefix
  <2>3. SubSeq(code, 1, Len(code)) = code /\ SubSeq(stack, 1, n) = stack
    BY <1>2, <1>11 DEF n
  <2>4. (n + 1) - 1 = n
    BY <1>11
  <2> QED
    BY <1>2, <1>11, <1>12, <2>1, <2>2, <2>3, <2>4 DEF Before, Now
<1>15. CallsBegun(born, stack', code', n + 1)
  <2> SUFFICES ASSUME NEW i \in 2 .. n + 1, stack'[i].op \in Func
               PROVE  Reaches(born, SubSeq(code', 1, stack'[i].at), Before(stack', i))
    BY DEF CallsBegun
  <2>1. CASE i \in 2 .. n
    BY <1>13, <2>1 DEF CallsBegun
  <2>2. CASE i = n + 1
    BY <1>9, <1>14, <2>2
  <2> QED
    BY <1>11, <2>1, <2>2
<1> QED
  BY <1>1, <1>3, <1>10, <1>15 DEF Repeats

\* an operator or a call that is done, in a statement under construction
LEMMA EndRepeats ==
  ASSUME IInv, Repeats, mode = "generate", mode' = mode, born' = born, code' = code,
         Len(stack) > 1, Grown(Front(stack), stack'),
         Accepts(Now, code), Now' = Successor(Now, code)
  PROVE  Repeats'
<1> DEFINE st == Front(stack)
           m == Len(stack) - 1
<1>1. StackOK(stack) /\ Generates /\ code \in Seq(Step) /\ Len(code) \in Nat
  BY DEF IInv, Typed
<1>2. Reaches(born, code, Now) /\ CallsBegun(born, stack, code, m + 1)
  <2>1. m + 1 = Len(stack)
    BY <1>1, TopFacts
  <2> QED
    BY <2>1 DEF Repeats
<1>3. Reaches(born, code', Now')
  BY <1>2, RunGoesOn
<1>4. /\ StackOK(st) /\ st # <<>> /\ Len(st) = m
      /\ \A i \in 1 .. m : st[i] = stack[i]
  BY <1>1, Popped
<1>5. /\ st \in Seq(Frame) /\ stack' \in Seq(Frame) /\ stack \in Seq(Frame)
      /\ Len(stack') = m /\ m \in Nat /\ m # 0 /\ Len(stack) = m + 1
      /\ Last(st) = st[m] /\ Last(stack') = stack'[m]
  BY <1>1, <1>4, TopFacts DEF Grown
<1>6. /\ \A i \in 1 .. m - 1 : stack'[i] = st[i]
      /\ stack'[m].op = st[m].op /\ stack'[m].at = st[m].at
      /\ st[m].op \in Func => stack'[m].saved = st[m].saved
  BY <1>5 DEF Grown
<1> HIDE DEF st, m
<1>7. /\ \A i \in 1 .. m - 1 : stack'[i] = stack[i]
      /\ stack'[m].op = stack[m].op /\ stack'[m].at = stack[m].at
      /\ stack[m].op \in Func => stack'[m].saved = stack[m].saved
  BY <1>4, <1>5, <1>6
<1>8. \A i \in 2 .. m : stack[i].at <= Len(code)
  BY <1>1, <1>5 DEF Generates
<1>9. CallsBegun(born, stack, code, m)
  BY <1>2, <1>5 DEF CallsBegun
<1>10. m <= Len(stack) /\ m <= Len(stack')
  BY <1>5
<1>11. CallsBegun(born, stack', code', m)
  BY <1>1, <1>5, <1>7, <1>8, <1>9, <1>10, CallsKept
<1> QED
  BY <1>3, <1>5, <1>11 DEF Repeats

\* the same, of a statement that is analysed: it goes on to the same end
LEMMA VisitRepeats ==
  ASSUME Repeats, mode = "visit", mode' = mode, born' = born, entry' = entry, code' = code,
         ~Ended(Now), Now' = Successor(Now, code)
  PROVE  Repeats'
<1>1. Analysed
  BY DEF Repeats
<1>2. PICK n \in Nat \ {0} : \E run :
         /\ IsRun(run, n, born, code) /\ Ended(run[n])
         /\ mode = "visit" /\ entry = born => \E k \in 1 .. n : run[k] = Now
  BY <1>1 DEF Analysed
<1>3. PICK run :
         /\ IsRun(run, n, born, code) /\ Ended(run[n])
         /\ mode = "visit" /\ entry = born => \E k \in 1 .. n : run[k] = Now
  BY <1>2
<1>4. ASSUME entry = born
      PROVE  \E k \in 1 .. n : run[k] = Now'
  <2>1. PICK k \in 1 .. n : run[k] = Now
    BY <1>3, <1>4
  <2>2. k # n
    BY <1>3, <2>1
  <2>3. k \in 1 .. n - 1 /\ k + 1 \in 1 .. n
    BY <2>2
  <2>4. run[k + 1] = Successor(run[k], code)
    BY <1>3, <2>3 DEF IsRun
  <2> QED
    BY <2>1, <2>3, <2>4
<1>5. /\ IsRun(run, n, born', code') /\ Ended(run[n])
      /\ mode' = "visit" /\ entry' = born' => \E k \in 1 .. n : run[k] = Now'
  BY <1>3, <1>4
<1>6. Analysed'
  BY <1>5 DEF Analysed
<1> QED
  BY <1>6 DEF Repeats

LEMMA CloseOperatorRepeats ==
  ASSUME IInv, Repeats, CloseOperator
  PROVE  Repeats'
<1>1. /\ mode' = mode /\ born' = born /\ entry' = entry /\ code' = code /\ pc' = pc
      /\ stack # <<>> /\ Complete(Top) /\ Top.op \in Operators
      /\ facts' = FactsAfter(Top, facts) /\ stack' = OperatorDone(stack, facts)
  BY DEF CloseOperator, analysis
<1>2. facts \in Facts /\ StackOK(stack) /\ mode \in {"generate", "visit"}
  BY <1>1 DEF IInv, Typed
<1>3. Len(stack) > 1 /\ Grown(Front(stack), stack')
  BY <1>2, CloseOK
<1>4. Top.op \notin Func
  BY <1>1, ContextConstantsOK
<1>5. Accepts(Now, code)
  BY <1>1, <1>4 DEF Accepts, Now, Top
<1>6. Now' = Successor(Now, code)
  BY <1>1, <1>4 DEF Successor, AfterEnd, Now, Top
<1>7. ~Ended(Now)
  <2>1. Len(stack) \in Nat
    BY <1>1, <1>2, TopFacts
  <2> QED
    BY <1>3, <2>1 DEF Ended, Now
<1> QED
  BY <1>1, <1>2, <1>3, <1>5, <1>6, <1>7, EndRepeats, VisitRepeats

\* what is allowed in a context is allowed in a narrower one
LEMMA BodyOKNarrower ==
  ASSUME NEW ctx \in Effect, NEW wide \in Effect, Wider(wide, ctx),
         NEW fs \in Facts, NEW f \in Func, BodyOK(wide, fs, f)
  PROVE  BodyOK(ctx, fs, f)
<1> DEFINE rs == BodyReads(fs, f)
           ws == BodyWrites(fs, f)
<1>1. \A p \in Body[f].deref \cup Body[f].store : Dereferenceable(fs, p)
  BY DEF BodyOK
<1>2. rs \subseteq Var /\ ws \subseteq Var
  BY <1>1, BodyVisible
<1>3. (\A v \in rs : CanRead(wide, v)) /\ (\A v \in ws : CanWrite(wide, v))
  BY DEF BodyOK
<1> HIDE DEF rs, ws
<1>4. /\ \A v \in Var : IsWrittenPartially(ctx, v) => IsWrittenPartially(wide, v)
      /\ \A v \in Var : IsReadPartially(ctx, v) => IsReadPartially(wide, v)
      /\ wide.sef => ctx.sef
  BY DEF Wider
<1>5. \A v \in rs : CanRead(ctx, v)
  BY <1>2, <1>3, <1>4 DEF CanRead
<1>6. \A v \in ws : CanWrite(ctx, v)
  BY <1>2, <1>3, <1>4 DEF CanWrite
<1> QED
  BY <1>1, <1>5, <1>6 DEF BodyOK, rs, ws

\* a function that does not depend on the facts: its effect is the one that the
\* analysis of its body would find
LEMMA PlainEffect ==
  ASSUME NEW fs \in Facts, NEW f \in Func, ~IsDynamic(f), feffect[f] \in Effect, EffectKnown(f)
  PROVE  AddExternalEffect(EmptyEffect, feffect[f], {}) = VisibleEffect(fs, f)
<1> DEFINE e == feffect[f]
           b == BodyEffect(fs, f)
           V == Stack \cup CurrLocals
<1>1. BodyReads(fs, f) = Body[f].r /\ BodyWrites(fs, f) = Body[f].w
  BY PlainBody
<1>2. /\ Body[f].r \subseteq Var /\ Body[f].w \subseteq Var
      /\ Body[f].r \subseteq Global /\ Body[f].w \subseteq Global
  BY BodiesOK, EffectConstantsOK
<1>3. /\ e \in Effect /\ e.r = Body[f].r /\ e.w = Body[f].w
      /\ e.sef <=> (Body[f].r \cup Body[f].w) \cap Volatile = {}
  BY DEF EffectKnown
<1>4. /\ b \in Effect /\ b.r = Body[f].r /\ b.w = Body[f].w
      /\ b.sef <=> (Body[f].r \cup Body[f].w) \cap Volatile = {}
  BY <1>1, <1>2, BodyEffectFacts
<1>5. VisibleEffect(fs, f) = AddExternalEffect(EmptyEffect, b, V)
  BY DEF VisibleEffect
<1> HIDE DEF e, b, V
<1>6. e.sef = b.sef
  BY <1>3, <1>4 DEF Effect
<1> DEFINE e2 == [e EXCEPT !.r = @ \cap (Global \cup {}), !.w = @ \cap (Global \cup {})]
           b2 == [b EXCEPT !.r = @ \cap (Global \cup V), !.w = @ \cap (Global \cup V)]
<1>7. e2.r = e.r /\ e2.w = e.w /\ e2.sef = e.sef
  BY <1>2, <1>3 DEF Effect
<1>8. b2.r = b.r /\ b2.w = b.w /\ b2.sef = b.sef
  BY <1>2, <1>4 DEF Effect
<1>9. /\ AddExternalEffect(EmptyEffect, e, {}) = AddEffect(EmptyEffect, e2, FALSE)
      /\ AddExternalEffect(EmptyEffect, b, V) = AddEffect(EmptyEffect, b2, FALSE)
  BY DEF AddExternalEffect
<1> HIDE DEF e2, b2
<1>10. AddEffect(EmptyEffect, e2, FALSE) = AddEffect(EmptyEffect, b2, FALSE)
  BY <1>3, <1>4, <1>6, <1>7, <1>8 DEF AddEffect
<1> QED
  BY <1>5, <1>9, <1>10 DEF e

\* a call that is accepted when the statement is generated is accepted by the
\* analysis, with the same effects
LEMMA CloseCallRepeats ==
  ASSUME IInv, Repeats, NEW f \in Func, CloseCall(f)
  PROVE  Repeats'
<1>1. /\ mode = "generate" /\ Top.op = f /\ Complete(Top) /\ mode' = mode
      /\ born' = born /\ code' = code /\ pc' = pc
  BY DEF CloseCall, analysis
<1>2. /\ facts \in Facts /\ StackOK(stack) /\ stack # <<>> /\ Typed /\ Generates
      /\ feffect \in [Func -> Effect] /\ ctxeffect \in [Func -> Effect]
      /\ \A g \in Func : ~IsDynamic(g) => EffectKnown(g)
  BY <1>1 DEF IInv, Typed
<1>3. Top \in Frame /\ Top.ctx \in Effect /\ FALSE \in BOOLEAN
  BY <1>2, TopFacts DEF Top, Frame
<1>4. /\ Len(stack) > 1 /\ Grown(Front(stack), stack')
      /\ BodyOK(Top.ctx, facts, f) /\ CallStep(f, VisibleEffect(facts, f))
  <2>1. CASE IsDynamic(f)
    <3> DEFINE ctx == CallContext(f)
    <3>1. BodyOK(ctx, facts, f) /\ CallStep(f, VisibleEffect(facts, f))
      BY <2>1 DEF CloseCall
    <3>2. ctx \in Effect /\ Wider(ctx, Top.ctx)
      <4>1. ctxeffect[f] \in Effect
        BY <1>2
      <4> QED
        BY <1>3, <4>1, AddEffectFacts DEF CallContext
    <3> HIDE DEF ctx
    <3>3. Len(stack) > 1 /\ Grown(Front(stack), stack')
      BY <1>1, <1>2, <3>1, <3>2, AnalysedCallOK
    <3>4. BodyOK(Top.ctx, facts, f)
      BY <1>2, <1>3, <3>1, <3>2, BodyOKNarrower
    <3> QED
      BY <3>1, <3>3, <3>4
  <2>2. CASE ~IsDynamic(f)
    <3>1. CallStep(f, AddExternalEffect(EmptyEffect, feffect[f], {}))
      BY <2>2 DEF CloseCall
    <3>2. ~InConflict(Top.ctx, feffect[f])
      <4>1. Top = stack[Len(stack)] /\ Len(stack) \in 2 .. Len(stack)
        BY <1>1, <1>2, CallNotFirst DEF Top
      <4> QED
        BY <1>1, <1>2, <2>2, <4>1 DEF Generates
    <3>3. feffect[f] \in Effect /\ EffectKnown(f)
      BY <1>2, <2>2
    <3>4. Len(stack) > 1 /\ Grown(Front(stack), stack')
      BY <1>1, <1>2, <2>2, <3>1, <3>2, <3>3, PlainCallOK
    <3>5. AddExternalEffect(EmptyEffect, feffect[f], {}) = VisibleEffect(facts, f)
      BY <1>2, <2>2, <3>3, PlainEffect
    <3>6. BodyOK(Top.ctx, facts, f)
      <4>1. /\ \A v \in Body[f].r : CanRead(Top.ctx, v)
            /\ \A v \in Body[f].w : CanWrite(Top.ctx, v)
        BY <3>2, <3>3 DEF InConflict, EffectKnown
      <4>2. BodyReads(facts, f) = Body[f].r /\ BodyWrites(facts, f) = Body[f].w
        BY <2>2, PlainBody
      <4>3. Body[f].deref = {} /\ Body[f].store = {}
        BY <2>2 DEF IsDynamic
      <4> QED
        BY <4>1, <4>2, <4>3 DEF BodyOK
    <3> QED
      BY <3>1, <3>4, <3>5, <3>6
  <2> QED
    BY <2>1, <2>2
<1>5. Accepts(Now, code)
  BY <1>1, <1>4 DEF Accepts, Now, Top
<1>6. Now' = Successor(Now, code)
  <2>1. facts' = BodyFacts(facts, f) /\ stack' = CallDone(stack, facts, f, VisibleEffect(facts, f))
    BY <1>4 DEF CallStep
  <2> QED
    BY <1>1, <2>1 DEF Successor, AfterEnd, Now, Top
<1> QED
  BY <1>1, <1>4, <1>5, <1>6, EndRepeats

\* a call that fails: the state from before it is where the analysis would be
LEMMA FailCallRepeats ==
  ASSUME IInv, Repeats, NEW f \in Func, FailCall(f)
  PROVE  Repeats'
<1> DEFINE n == Len(stack)
           st == Front(stack)
<1>1. /\ mode = "generate" /\ Top.op = f /\ stack' = st /\ facts' = Top.saved
      /\ code' = SubSeq(code, 1, Top.at) /\ pc' = Top.at + 1 /\ mode' = mode
      /\ born' = born
  BY DEF FailCall
<1>2. /\ StackOK(stack) /\ stack # <<>> /\ Generates /\ code \in Seq(Step)
      /\ Len(code) \in Nat
  BY <1>1 DEF IInv, Typed
<1>3. n > 1 /\ Top = stack[n] /\ n \in 2 .. n
  BY <1>1, <1>2, CallNotFirst DEF Top
<1>4. /\ stack \in Seq(Frame) /\ n \in Nat /\ StackOK(st) /\ st \in Seq(Frame) /\ Len(st) = n - 1
      /\ \A i \in 1 .. n - 1 : st[i] = stack[i]
  BY <1>2, <1>3, Popped, TopFacts
<1>5. CallsBegun(born, stack, code, n)
  BY <1>1 DEF Repeats
<1> HIDE DEF n, st
<1>6. Reaches(born, code', Now')
  <2>1. Reaches(born, SubSeq(code, 1, Top.at), Before(stack, n))
    BY <1>1, <1>3, <1>5 DEF CallsBegun
  <2>2. SubSeq(stack, 1, n - 1) = st
    <3>1. n - 1 \in Nat /\ n - 1 <= Len(stack) /\ n - 1 <= Len(st)
      BY <1>3, <1>4 DEF n
    <3>2. SubSeq(st, 1, n - 1) = SubSeq(stack, 1, n - 1)
      BY <1>4, <3>1, SamePrefix
    <3>3. SubSeq(st, 1, n - 1) = st
      BY <1>4
    <3> QED
      BY <3>2, <3>3
  <2>3. Before(stack, n) = Now'
    BY <1>1, <1>3, <2>2 DEF Before, Now
  <2> QED
    BY <1>1, <2>1, <2>3
<1>7. CallsBegun(born, stack', code', n - 1)
  <2>1. \A i \in 2 .. n : stack[i] \in Frame /\ stack[i].at \in Nat
    <3>1. \A i \in 2 .. n : stack[i] \in Frame
      BY <1>4 DEF n
    <3> QED
      BY <3>1 DEF Frame
  <2>2. Top.at \in Nat /\ Top.at <= Len(code)
    BY <1>2, <1>3, <2>1 DEF Generates, n
  <2>3. \A i \in 2 .. n - 1 : stack[i].at <= Top.at /\ stack[i].at <= Len(code)
    <3> TAKE i \in 2 .. n - 1
    <3>1. i \in 2 .. n /\ i <= n
      BY <1>4
    <3> QED
      BY <1>2, <1>3, <3>1 DEF Generates, n
  <2>4. /\ code' \in Seq(Step) /\ Len(code') = Top.at
        /\ \A j \in 1 .. Len(code) : j <= Len(code') => code'[j] = code[j]
    BY <1>1, <1>2, <2>2
  <2>5. CallsBegun(born, stack, code, n - 1)
    BY <1>4, <1>5 DEF CallsBegun
  <2>6. \A i \in 2 .. n - 1 : stack[i].at <= Len(code) /\ stack[i].at <= Len(code')
    BY <2>3, <2>4
  <2>7. n - 1 \in Nat /\ n - 1 <= Len(stack) /\ n - 1 <= Len(st)
    BY <1>3, <1>4 DEF n
  <2>8. /\ \A i \in 1 .. (n - 1) - 1 : st[i] = stack[i]
        /\ n - 1 > 1 => st[n - 1] = stack[n - 1]
    BY <1>3, <1>4
  <2> DEFINE m == n - 1
  <2> HIDE DEF m
  <2>9. CallsBegun(born, st, code', m)
    BY <1>2, <1>4, <2>4, <2>5, <2>6, <2>7, <2>8, CallsKept DEF m
  <2> QED
    BY <1>1, <2>9 DEF m
<1> QED
  BY <1>1, <1>4, <1>6, <1>7 DEF Repeats

LEMMA StartRepeats ==
  ASSUME IInv, StartStatement
  PROVE  Repeats'
<1>1. /\ mode' = "generate" /\ born' = [born EXCEPT !.facts = facts]
      /\ stack' = <<NewFrame("stmt", born.ctx, "int", 0, facts, 0)>>
      /\ facts' = facts /\ pc' = 1
  BY DEF StartStatement
<1>2. born'.ctx = born.ctx /\ born'.facts = facts
  BY <1>1 DEF IInv, Typed
<1>3. Now' = Start(born')
  BY <1>1, <1>2 DEF Now, Start
<1>4. Reaches(born', code', Now')
  BY <1>3, RunStarts
<1>5. CallsBegun(born', stack', code', Len(stack'))
  BY <1>1 DEF CallsBegun
<1> QED
  BY <1>1, <1>4, <1>5 DEF Repeats

LEMMA AnalyseRepeats ==
  ASSUME Repeats, NEW en \in Entries \cup {born}, Analyse(en)
  PROVE  Repeats'
<1>1. /\ mode = "idle" /\ code # <<>> /\ mode' = "visit" /\ pc' = 1 /\ entry' = en
      /\ facts' = en.facts /\ stack' = <<NewFrame("stmt", en.ctx, "int", 0, en.facts, 0)>>
      /\ born' = born /\ code' = code
  BY DEF Analyse
<1>2. Analysed
  BY <1>1 DEF Repeats
<1>3. PICK n \in Nat \ {0} : \E run : IsRun(run, n, born, code) /\ Ended(run[n])
  BY <1>2 DEF Analysed
<1>4. PICK run : IsRun(run, n, born, code) /\ Ended(run[n])
  BY <1>3
<1>5. Now' = Start(en)
  BY <1>1 DEF Now, Start
<1>6. ASSUME entry' = born'
      PROVE  \E k \in 1 .. n : run[k] = Now'
  <2>1. run[1] = Now' /\ 1 \in 1 .. n
    BY <1>1, <1>4, <1>5, <1>6 DEF IsRun
  <2> QED
    BY <2>1
<1>7. Analysed'
  BY <1>1, <1>4, <1>6 DEF Analysed
<1> QED
  BY <1>1, <1>7 DEF Repeats

LEMMA EndStatementRepeats ==
  ASSUME IInv, Repeats, EndStatement
  PROVE  Repeats'
<1>1. /\ mode \in {"generate", "visit"} /\ Len(stack) = 1 /\ Complete(Top) /\ mode' = "idle"
      /\ born' = born /\ code' = code
  BY DEF EndStatement, analysis
<1>2. \E n \in Nat \ {0} : \E run : IsRun(run, n, born, code) /\ Ended(run[n])
  <2>1. CASE mode = "generate"
    <3>1. Reaches(born, code, Now) /\ Ended(Now)
      BY <1>1, <2>1 DEF Repeats, Ended, Now, Top
    <3> QED
      BY <3>1 DEF Reaches
  <2>2. CASE mode = "visit"
    BY <2>2 DEF Repeats, Analysed
  <2> QED
    BY <1>1, <2>1, <2>2
<1>3. Analysed'
  BY <1>1, <1>2 DEF Analysed
<1> QED
  BY <1>1, <1>3 DEF Repeats

LEMMA VisitOperandRepeats ==
  ASSUME IInv, Repeats, VisitOperand
  PROVE  Repeats'
<1> DEFINE step == code[pc]
<1>1. /\ mode = "visit" /\ ~Complete(Top)
      /\ \/ step.k = "open" /\ WantsOperand(Top) /\ OpenStep(step.op, step.type)
         \/ step \in Leaves /\ WantsOperand(Top) /\ LeafStep(step)
         \/ step \in Targets /\ ~WantsOperand(Top) /\ LhsStep(step)
      /\ pc' = pc + 1 /\ mode' = mode /\ born' = born /\ entry' = entry /\ code' = code
  BY DEF VisitOperand, Proceed
<1>2. ~Ended(Now)
  BY <1>1 DEF Ended, Now, Top
<1> HIDE DEF step
<1>3. Now' = AfterStep(Now, step)
  <2>1. CASE step.k = "open" /\ WantsOperand(Top) /\ OpenStep(step.op, step.type)
    BY <1>1, <2>1 DEF OpenStep, AfterStep, Now, Top
  <2>2. CASE step \in Leaves /\ WantsOperand(Top) /\ LeafStep(step)
    <3>1. step.k # "open"
      BY <2>2, ContextConstantsOK DEF Leaf, Terms
    <3> QED
      BY <1>1, <2>2, <3>1 DEF LeafStep, AfterStep, Now, Top
  <2>3. CASE step \in Targets /\ ~WantsOperand(Top) /\ LhsStep(step)
    BY <1>1, <2>3 DEF LhsStep, AfterStep, Now, Top
  <2> QED
    BY <1>1, <2>1, <2>2, <2>3
<1>4. Now' = Successor(Now, code)
  BY <1>1, <1>3 DEF Successor, Now, Top, step
<1> QED
  BY <1>1, <1>2, <1>4, VisitRepeats

LEMMA VisitCallRepeats ==
  ASSUME IInv, Repeats, NEW f \in Func, VisitCall(f)
  PROVE  Repeats'
<1>1. /\ mode = "visit" /\ Top.op = f /\ Complete(Top) /\ mode' = mode
      /\ facts' = BodyFacts(facts, f) /\ stack' = CallDone(stack, facts, f, VisibleEffect(facts, f))
      /\ born' = born /\ entry' = entry /\ code' = code /\ pc' = pc
  BY DEF VisitCall, CallStep, analysis
<1>2. StackOK(stack) /\ stack # <<>>
  BY <1>1 DEF IInv
<1>3. ~Ended(Now)
  BY <1>1, <1>2, CallNotFirst DEF Ended, Now, Top
<1>4. Now' = Successor(Now, code)
  BY <1>1 DEF Successor, AfterEnd, Now, Top
<1> QED
  BY <1>1, <1>3, <1>4, VisitRepeats

\* no step of the analysis is refused that was made when the statement was generated
LEMMA RejectRepeats ==
  ASSUME IInv, Repeats, Reject
  PROVE  Repeats'
<1>1. /\ mode = "visit" /\ mode' = "rejected" /\ born' = born /\ entry' = entry
  BY DEF Reject, analysis
<1>2. StackOK(stack) /\ stack # <<>>
  BY <1>1 DEF IInv
<1>3. ~Accepts(Now, code)
  <2>1. CASE Complete(Top)
    <3>1. Top.op \in Func /\ ~BodyOK(Top.ctx, facts, Top.op)
      BY <2>1 DEF Reject
    <3> QED
      BY <2>1, <3>1 DEF Accepts, Now, Top
  <2>2. CASE ~Complete(Top)
    <3>1. /\ code[pc].k # "open"
          /\ IF WantsOperand(Top) THEN ~LeafAccepted(Top, facts, code[pc])
                                  ELSE ~LhsAccepted(Top, facts, code[pc])
      BY <2>2 DEF Reject
    <3> QED
      BY <2>2, <3>1 DEF Accepts, Now, Top
  <2> QED
    BY <2>1, <2>2
<1>4. ~Ended(Now)
  <2> SUFFICES ASSUME Len(stack) = 1, Complete(Top)
               PROVE  FALSE
    BY DEF Ended, Now, Top
  <2>1. Top.op \in Func
    BY DEF Reject
  <2> QED
    BY <1>2, <2>1, CallNotFirst DEF Top
<1>5. entry # born
  <2> SUFFICES ASSUME entry = born
               PROVE  FALSE
    OBVIOUS
  <2>1. Analysed
    BY <1>1 DEF Repeats
  <2>2. PICK n \in Nat \ {0} : \E run :
           IsRun(run, n, born, code) /\ Ended(run[n]) /\ \E k \in 1 .. n : run[k] = Now
    BY <1>1, <2>1 DEF Analysed
  <2>3. PICK run :
           IsRun(run, n, born, code) /\ Ended(run[n]) /\ \E k \in 1 .. n : run[k] = Now
    BY <2>2
  <2>4. PICK k \in 1 .. n : run[k] = Now
    BY <2>3
  <2>5. k \in 1 .. n - 1
    BY <1>4, <2>3, <2>4
  <2> QED
    BY <1>3, <2>3, <2>4, <2>5 DEF IsRun
<1> QED
  BY <1>1, <1>5 DEF Repeats

LEMMA RepeatsNext == IInv /\ Repeats /\ [Next]_vars => Repeats'
<1> SUFFICES ASSUME IInv, Repeats, [Next]_vars
             PROVE  Repeats'
  OBVIOUS
<1>1. CASE StartStatement
  BY <1>1, StartRepeats
<1>2. ASSUME NEW en \in Entries \cup {born}, Analyse(en)
      PROVE  Repeats'
  BY <1>2, AnalyseRepeats
<1>3. ASSUME NEW leaf \in Leaves, MakeLeaf(leaf)
      PROVE  Repeats'
  BY <1>3, MakeLeafRepeats
<1>4. ASSUME NEW op \in {"binary", "and"}, MakeOperator(op)
      PROVE  Repeats'
  <2>1. op \in Operators \cup Func /\ "int" \in Types /\ Open(op, "int")
    BY <1>4 DEF MakeOperator, Operators, Types
  <2> QED
    BY <2>1, OpenRepeats
<1>5. CASE MakeComma
  <2>1. /\ InExpression /\ Open("comma", OperandType(Top)) /\ "comma" \in Operators \cup Func
    BY <1>5 DEF MakeComma, Operators
  <2>2. StackOK(stack) /\ stack # <<>>
    BY <2>1 DEF InExpression, Generating, IInv
  <2>3. OperandType(Top) \in Types
    BY <2>2, TopFacts DEF OperandType, Top, Frame, Types
  <2> QED
    BY <2>1, <2>3, OpenRepeats
<1>6. CASE MakeAssign
  <2>1. PICK type \in {"int", "ptr"} : Open("assign", type)
    BY <1>6 DEF MakeAssign
  <2>2. type \in Types /\ "assign" \in Operators \cup Func
    BY DEF Operators, Types
  <2> QED
    BY <2>1, <2>2, OpenRepeats
<1>7. CASE MakeCompound
  <2>1. "int" \in Types /\ Open("compound", "int") /\ "compound" \in Operators \cup Func
    BY <1>7 DEF MakeCompound, Operators, Types
  <2> QED
    BY <2>1, OpenRepeats
<1>8. ASSUME NEW f \in Func, MakeCall(f)
      PROVE  Repeats'
  <2>1. Open(f, "int") /\ "int" \in Types /\ f \in Operators \cup Func
    BY <1>8 DEF MakeCall, Types
  <2> QED
    BY <2>1, OpenRepeats
<1>9. ASSUME NEW f \in Func, CloseCall(f) \/ FailCall(f) \/ VisitCall(f)
      PROVE  Repeats'
  BY <1>9, CloseCallRepeats, FailCallRepeats, VisitCallRepeats
<1>10. ASSUME NEW t \in Targets, MakeLhs(t)
       PROVE  Repeats'
  BY <1>10, MakeLhsRepeats
<1>11. CASE CloseOperator
  BY <1>11, CloseOperatorRepeats
<1>12. CASE EndStatement
  BY <1>12, EndStatementRepeats
<1>13. CASE VisitOperand
  BY <1>13, VisitOperandRepeats
<1>14. CASE Reject
  BY <1>14, RejectRepeats
<1>15. CASE Forget
  BY <1>15 DEF Forget, Repeats
<1>16. CASE UNCHANGED vars
  <2>1. /\ stack' = stack /\ mode' = mode /\ facts' = facts /\ born' = born
        /\ entry' = entry /\ pc' = pc /\ code' = code
    BY <1>16 DEF vars, analysis
  <2>2. Now' = Now
    BY <2>1 DEF Now
  <2>3. Analysed => Analysed'
    BY <2>1, <2>2 DEF Analysed
  <2> QED
    BY <2>1, <2>2, <2>3 DEF Repeats
<1> QED
  BY <1>1, <1>2, <1>3, <1>4, <1>5, <1>6, <1>7, <1>8, <1>9, <1>10, <1>11, <1>12, <1>13, <1>14,
     <1>15, <1>16 DEF Next


----------------------------------------------------------------------------
(* The theorems *)

\* What EffectContext keeps is what the code's types say, within its bounds: no
\* operator gets more operands than it takes, and no statement is built of, or
\* analysed in, more steps than there is room for, however calls fail.
THEOREM TypesCorrect == Spec => []TypeOK
<1>1. IInv => TypeOK
  <2> SUFFICES ASSUME IInv
               PROVE  TypeOK
    OBVIOUS
  <2>1. Typed /\ StackOK(stack)
    BY DEF IInv
  <2>2. ASSUME NEW i \in DOMAIN stack
        PROVE  /\ stack[i].op \in Operators \cup Func \cup {"stmt"}
               /\ stack[i].ctx \in Effect /\ stack[i].acc \in Effect
               /\ Len(stack[i].args) <= Arity(stack[i].op)
    <3>1. stack[i] \in Frame /\ FrameOK(stack[i])
      BY <2>1 DEF StackOK
    <3> QED
      BY <3>1 DEF Frame, FrameOK
  <2> QED
    BY <2>1, <2>2 DEF TypeOK, Typed
<1> QED
  BY <1>1, IInvHolds, PTL

\* The effects that Csmith accumulates for an expression (merge_param_context,
\* add_external_effect) cover what C says it reads and writes, its subexpressions
\* and the functions it calls included, and tell that a volatile is touched.
THEOREM EffectsCover == Spec => []AccumulatedCovers
<1>1. IInv => AccumulatedCovers
  BY DEF IInv, StackOK, FrameOK, AccumulatedCovers
<1> QED
  BY <1>1, IInvHolds, PTL

\* The meaning of a generated statement does not depend on the order in which
\* operands, arguments and the assignments inside expressions are evaluated
\* (read_indices, check_read_var, check_write_var, in_conflict).
THEOREM OrderIrrelevant == Spec => []OrderDoesNotMatter
<1>1. IInv => OrderDoesNotMatter
  BY DEF IInv, StackOK, FrameOK, OrderDoesNotMatter
<1> QED
  BY <1>1, IInvHolds, PTL

\* A statement that Csmith generated is accepted by its analysis (visit_facts)
\* with the facts and in the context it was generated with, as
\* Statement::post_creation_analysis asserts: every check of the analysis was
\* made when the statement was generated, calls that failed and were taken back
\* leave nothing behind, and each check found the same effects and facts.
THEOREM GeneratedIsAccepted == Spec => []GeneratedPassesAnalysis
<1>1. Init => Repeats
  BY DEF Init, Repeats
<1>2. IInv /\ Repeats /\ [Next]_vars => Repeats'
  BY RepeatsNext
<1>3. Repeats => GeneratedPassesAnalysis
  BY DEF Repeats, GeneratedPassesAnalysis
<1> QED
  BY <1>1, <1>2, <1>3, IInvHolds, PTL DEF Spec
=============================================================================
