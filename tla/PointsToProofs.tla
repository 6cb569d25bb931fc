--------------------------- MODULE PointsToProofs ---------------------------
(* Soundness of the points-to analysis, for any variables, levels of
   indirection, nesting bound and block size. *)
EXTENDS PointsTo, TLAPS

USE DEF Unborn, Dead, Depths, Facts, NoFacts, Target

----------------------------------------------------------------------------
(* Types of the operators on facts *)

\* Pointees are variables or special pointers, after any dereferences.
LEMMA MergePointeesType ==
  ASSUME NEW f \in Facts, NEW v \in Var, NEW n \in Nat
  PROVE  MergePointees(v, n, f) \subseteq Target
BY DEF MergePointees, PointeesOf

LEMMA RhsPointeesType ==
  ASSUME NEW f \in Facts, NEW r \in Rhs
  PROVE  RhsPointees(r, f) \subseteq Target
<1>1. CASE r.kind = "null"
  BY <1>1 DEF RhsPointees, Special
<1>2. CASE r.kind = "addr"
  BY <1>2 DEF RhsPointees, Rhs
<1>3. CASE r.kind = "value"
  <2>1. r.var \in Var /\ r.ind + 1 \in Nat
    BY <1>3 DEF Rhs, MaxIndirect
  <2> QED
    BY <1>3, <2>1, MergePointeesType DEF RhsPointees
<1> QED
  BY <1>1, <1>2, <1>3 DEF Rhs

LEMMA UpdateForOosVarsType ==
  ASSUME NEW f \in Facts, NEW S
  PROVE  UpdateForOosVars(f, S) \in Facts
BY DEF UpdateForOosVars, MarkDead, Special

LEMMA ExpireType ==
  ASSUME NEW s \in Facts, NEW S
  PROVE  Expire(s, S) \in Facts
BY DEF Expire, Special

LEMMA MergeFactsType ==
  ASSUME NEW f \in Facts, NEW g \in Facts
  PROVE  MergeFacts(f, g) \in Facts
BY DEF MergeFacts

LEMMA UpdateForAssignType ==
  ASSUME NEW f \in Facts, NEW L, NEW new \in SUBSET Target
  PROVE  UpdateForAssign(L, new, f) \in Facts
BY DEF UpdateForAssign

\* Writing t adds at most t to the values of w, and leaves only t in a scalar.
LEMMA ValuesAfterBounds ==
  ASSUME NEW s, NEW w, NEW t, NEW new \in ValuesAfter(s, w, t)
  PROVE  new \subseteq s[w] \cup {t} /\ (w \notin Array => new = {t})
<1>1. CASE w \notin Array
  BY <1>1 DEF ValuesAfter
<1>2. CASE w \in Array
  <2>1. \/ new = s[w] \cup {t}
        \/ \E y \in s[w] : new = (s[w] \ {y}) \cup {t}
    BY <1>2 DEF ValuesAfter
  <2> QED
    BY <1>2, <2>1
<1> QED
  BY <1>1, <1>2

LEMMA InitValuesType ==
  ASSUME NEW v \in Var, NEW d
  PROVE  InitValues(v, d) \subseteq SUBSET Target
BY DEF InitValues, Special

----------------------------------------------------------------------------
(* Every operator of the analysis over-approximates its concrete twin *)

\* What the execution reaches by dereferencing, the analysis reaches too.
LEMMA MergePointeesMono ==
  ASSUME NEW f \in Facts, NEW s \in Facts, Describes(f, s),
         NEW v \in Var, NEW n \in Nat
  PROVE  MergePointees(v, n, s) \subseteq MergePointees(v, n, f)
<1>1. s[v] \subseteq f[v]
  BY DEF Describes
<1>2. PointeesOf(s[v], s) \subseteq PointeesOf(f[v], f)
  BY <1>1 DEF PointeesOf, Describes
<1> QED
  BY <1>1, <1>2 DEF MergePointees

LEMMA RhsPointeesMono ==
  ASSUME NEW f \in Facts, NEW s \in Facts, Describes(f, s), NEW r \in Rhs
  PROVE  RhsPointees(r, s) \subseteq RhsPointees(r, f)
<1>1. CASE r.kind = "value"
  <2>1. r.var \in Var /\ r.ind + 1 \in Nat
    BY <1>1 DEF Rhs, MaxIndirect
  <2> QED
    BY <1>1, <2>1, MergePointeesMono DEF RhsPointees
<1>2. CASE r.kind \in {"null", "addr"}
  BY <1>2 DEF RhsPointees
<1> QED
  BY <1>1, <1>2 DEF Rhs

\* A dereference the facts allow is safe in every store they describe.
LEMMA PointedValidIsSafe ==
  ASSUME NEW f \in Facts, NEW s \in Facts, Describes(f, s),
         NEW v \in Var, NEW n \in Nat, PointedValid(v, n, f)
  PROVE  SafeDeref(s, v, n)
<1> SUFFICES ASSUME NEW i \in 1 .. n
             PROVE  MergePointees(v, i, s) \cap Special = {}
  BY DEF SafeDeref
<1>1. MergePointees(v, i, s) \subseteq MergePointees(v, i, f)
  BY MergePointeesMono
<1>2. MergePointees(v, i, f) \cap Special = {}
  BY DEF PointedValid
<1> QED
  BY <1>1, <1>2

\* Variables leaving their scope keep the facts sound.
LEMMA OosVarsSound ==
  ASSUME NEW f \in Facts, NEW s \in Facts, Describes(f, s), NEW S
  PROVE  Describes(UpdateForOosVars(f, S), Expire(s, S))
<1> SUFFICES ASSUME NEW v \in Var
             PROVE  Expire(s, S)[v] \subseteq UpdateForOosVars(f, S)[v]
  BY DEF Describes
<1>1. s[v] \subseteq f[v]
  BY DEF Describes
<1>2. CASE v \in S
  BY <1>2 DEF Expire
<1>3. ASSUME v \notin S, NEW t \in s[v]
      PROVE  (IF t \in S THEN Garbage ELSE t) \in MarkDead(f[v], S)
  BY <1>1, <1>3 DEF MarkDead
<1> QED
  BY <1>2, <1>3 DEF Expire, UpdateForOosVars

\* The strong update of one scalar and the weak update of several candidates
\* or of an array both describe the store after the assignment.
LEMMA UpdateForAssignSound ==
  ASSUME NEW f \in Facts, NEW s \in Facts, Describes(f, s),
         NEW L, NEW w \in L, w \in Var,
         NEW new \in SUBSET Target, NEW t \in new,
         NEW val \in ValuesAfter(s, w, t)
  PROVE  Describes(UpdateForAssign(L, new, f), [s EXCEPT ![w] = val])
<1> SUFFICES ASSUME NEW v \in Var
             PROVE  [s EXCEPT ![w] = val][v] \subseteq UpdateForAssign(L, new, f)[v]
  BY DEF Describes
<1>1. [s EXCEPT ![w] = val][v] = IF v = w THEN val ELSE s[v]
  OBVIOUS
<1>2. val \subseteq s[w] \cup {t} /\ (w \notin Array => val = {t})
  BY ValuesAfterBounds
<1>3. s[v] \subseteq f[v]
  BY DEF Describes
<1>4. CASE \E u \in Var : L = {u} /\ u \notin Array
  <2>1. L = {w} /\ w \notin Array
    BY <1>4
  <2>2. UpdateForAssign(L, new, f)[v] = IF v = w THEN new ELSE f[v]
    BY <1>4, <2>1 DEF UpdateForAssign
  <2>3. val \subseteq new
    BY <1>2, <2>1
  <2> QED
    BY <1>1, <1>3, <2>2, <2>3
<1>5. CASE ~ \E u \in Var : L = {u} /\ u \notin Array
  <2>1. UpdateForAssign(L, new, f)[v] = IF v \in L THEN f[v] \cup new ELSE f[v]
    BY <1>5 DEF UpdateForAssign
  <2>2. s[w] \subseteq f[w]
    BY DEF Describes
  <2> QED
    BY <1>1, <1>2, <1>3, <2>1, <2>2
<1> QED
  BY <1>4, <1>5

----------------------------------------------------------------------------
(* Type correctness *)

\* The variables keep their types (Init and every handler of the generator).
LEMMA InitType == Init => TypeOK
<1> SUFFICES ASSUME Init
             PROVE  TypeOK
  OBVIOUS
<1>1. facts \in Facts /\ store \in Facts /\ NoFacts \in Facts
  BY EntriesOK DEF Init
<1>2. home \in [Var -> 0 .. Dead]
  BY ConstantsOK DEF Init
<1>3. 1 \in Depths /\ 1 \in 0 .. MaxDepth
  BY ConstantsOK
<1>4. SizeOK
  BY ConstantsOK DEF Init, SizeOK
<1> QED
  BY <1>1, <1>2, <1>3, <1>4 DEF Init, TypeOK

LEMMA AddStatementSize ==
  ASSUME TypeOK, AddStatement
  PROVE  SizeOK'
BY ConstantsOK DEF TypeOK, SizeOK, AddStatement

LEMMA ResetSize ==
  ASSUME TypeOK, size' = [size EXCEPT ![depth] = 0]
  PROVE  SizeOK'
BY ConstantsOK DEF TypeOK, SizeOK

LEMMA TypeStep ==
  ASSUME TypeOK, [Next]_vars
  PROVE  TypeOK'
<1> USE DEF TypeOK
<1>1. ASSUME NEW v \in Var, NEW d \in 0 .. MaxDepth, NewVar(v, d)
      PROVE  TypeOK'
  <2>1. PICK init \in InitValues(v, d) :
          /\ facts' = [facts EXCEPT ![v] = init]
          /\ pre' = PatchSaved(pre, v, d, init)
          /\ out' = PatchSaved(out, v, d, init)
          /\ retFacts' = IF d = 0 /\ anyRet
                         THEN [retFacts EXCEPT ![v] = init] ELSE retFacts
          /\ store' = IF d <= at THEN [store EXCEPT ![v] = init] ELSE store
    BY <1>1 DEF NewVar
  <2>2. init \in SUBSET Target
    BY InitValuesType
  <2>3. /\ facts' \in Facts /\ retFacts' \in Facts /\ store' \in Facts
        /\ pre' \in [Depths -> Facts] /\ out' \in [Depths -> Facts]
    BY <2>1, <2>2 DEF PatchSaved
  <2>4. home' \in [Var -> 0 .. Dead]
    BY <1>1, ConstantsOK DEF NewVar
  <2> QED
    BY <1>1, <2>3, <2>4 DEF NewVar, SizeOK
<1>2. ASSUME NEW l \in Var, NEW n \in 0 .. MaxIndirect - 1, NEW r \in Rhs,
             Assign(l, n, r)
      PROVE  TypeOK'
  <2>1. facts' \in Facts
    <3>1. RhsPointees(r, facts) \in SUBSET Target
      BY RhsPointeesType
    <3> QED
      BY <1>2, <3>1, UpdateForAssignType DEF Assign
  <2>2. store' \in Facts
    <3>1. CASE store' = store
      BY <3>1
    <3>2. ASSUME NEW w \in MergePointees(l, n, store),
                 NEW t \in RhsPointees(r, store),
                 NEW new \in ValuesAfter(store, w, t),
                 store' = [store EXCEPT ![w] = new]
          PROVE  store' \in Facts
      <4>1. t \in Target
        BY RhsPointeesType
      <4>2. w \in Var => new \subseteq Target
        BY <4>1, ValuesAfterBounds
      <4> QED
        BY <3>2, <4>2
    <3> QED
      BY <1>2, <3>1, <3>2 DEF Assign
  <2>3. SizeOK'
    BY <1>2, AddStatementSize DEF Assign
  <2>4. bad' \in BOOLEAN
    BY <1>2 DEF Assign
  <2> QED
    BY <1>2, <2>1, <2>2, <2>3, <2>4 DEF Assign
<1>3. ASSUME NEW v \in Var, ReadThrough(v)
      PROVE  TypeOK'
  BY <1>3 DEF ReadThrough, genVars, SizeOK
<1>4. CASE OpenIf
  <2>1. SizeOK'
    BY <1>4, AddStatementSize DEF OpenIf
  <2>2. depth' \in Depths /\ at' \in 0 .. MaxDepth
    BY <1>4, ConstantsOK DEF OpenIf
  <2> QED
    BY <1>4, <2>1, <2>2 DEF OpenIf
<1>5. CASE ElseBranch
  <2>1. BlockOut \in Facts /\ store' \in Facts
    BY <1>5, UpdateForOosVarsType, ExpireType DEF BlockOut, ElseBranch, LeaveBlock
  <2>2. home' \in [Var -> 0 .. Dead]
    BY <1>5, ConstantsOK DEF ElseBranch, LeaveBlock
  <2>3. at' \in 0 .. MaxDepth
    BY <1>5, ConstantsOK DEF ElseBranch
  <2>4. SizeOK'
    BY <1>5, ResetSize DEF ElseBranch
  <2> QED
    BY <1>5, <2>1, <2>2, <2>3, <2>4 DEF ElseBranch
<1>6. CASE EndIf
  <2>1. BlockOut \in Facts /\ store' \in Facts
    BY <1>6, UpdateForOosVarsType, ExpireType DEF BlockOut, EndIf, LeaveBlock
  <2>2. facts' \in Facts
    BY <1>6, <2>1, MergeFactsType DEF EndIf, CombineBranchFacts
  <2>3. home' \in [Var -> 0 .. Dead]
    BY <1>6, ConstantsOK DEF EndIf, LeaveBlock
  <2>4. depth' \in Depths /\ at' \in 0 .. MaxDepth
    BY <1>6, ConstantsOK DEF EndIf
  <2>5. SizeOK'
    BY <1>6, ResetSize DEF EndIf
  <2> QED
    BY <1>6, <2>1, <2>2, <2>3, <2>4, <2>5 DEF EndIf, IfMustReturn
<1>7. CASE Return
  <2>1. retFacts' \in Facts /\ store' \in Facts
    BY <1>7, UpdateForOosVarsType, ExpireType, MergeFactsType DEF Return, AddBackReturnFacts
  <2>2. SizeOK'
    BY <1>7, AddStatementSize DEF Return
  <2>3. at' \in 0 .. MaxDepth
    BY <1>7, ConstantsOK DEF Return
  <2> QED
    BY <1>7, <2>1, <2>2, <2>3 DEF Return
<1>8. CASE UNCHANGED vars
  BY <1>8 DEF vars, genVars, SizeOK
<1> QED
  BY <1>1, <1>2, <1>3, <1>4, <1>5, <1>6, <1>7, <1>8 DEF Next

\* The variables keep their types and no block outgrows its size: Init and
\* every handler of the generator.
THEOREM TypeCorrect == Spec => []TypeOK
<1>1. TypeOK /\ [Next]_vars => TypeOK'
  BY TypeStep
<1> QED
  BY <1>1, InitType, PTL DEF Spec

----------------------------------------------------------------------------
(* Soundness.  FactsSound alone is not inductive: the facts at the end of an
   "if" describe the store because the environment saved before its branches,
   or the output of its true branch, described it all the time the execution
   waited.  IInv adds that (WaitingSound) and that the execution is never
   after a statement that must return (Reachable). *)

Sound == Reachable /\ FactsSound /\ WaitingSound /\ ReturnFactsSound /\ NoBadDereference

LEMMA InitSound == Init => Sound
<1> SUFFICES ASSUME Init
             PROVE  Sound
  OBVIOUS
<1>1. Describes(facts, store)
  BY EntriesOK DEF Init, Describes
<1> QED
  BY <1>1 DEF Init, Sound, Reachable, FactsSound, WaitingSound, ReturnFactsSound,
              NoBadDereference, Running

\* A new variable enters the facts, the saved environments and the store alike.
LEMMA NewVarSound ==
  ASSUME IInv, NEW v \in Var, NEW d \in 0 .. MaxDepth, NewVar(v, d)
  PROVE  Sound'
<1> USE DEF IInv, TypeOK
<1>1. PICK init \in InitValues(v, d) :
        /\ facts' = [facts EXCEPT ![v] = init]
        /\ pre' = PatchSaved(pre, v, d, init)
        /\ out' = PatchSaved(out, v, d, init)
        /\ retFacts' = IF d = 0 /\ anyRet
                       THEN [retFacts EXCEPT ![v] = init] ELSE retFacts
        /\ store' = IF d <= at THEN [store EXCEPT ![v] = init] ELSE store
  BY DEF NewVar
<1>2. UNCHANGED <<depth, side, thenRet, closed, anyRet, at, bad>> /\ d <= depth
  BY DEF NewVar
<1>3. ASSUME NEW f \in Facts, Describes(f, store)
      PROVE  Describes([f EXCEPT ![v] = init], [store EXCEPT ![v] = init])
  BY <1>3 DEF Describes
<1>4. FactsSound'
  BY <1>1, <1>2, <1>3 DEF FactsSound, Running
<1>5. WaitingSound'
  <2> SUFFICES ASSUME at \in 1 .. depth - 1
               PROVE  IF side[at + 1] = "true"
                      THEN Describes(pre'[at + 1], store')
                      ELSE Describes(out'[at + 1], store') /\ ~thenRet[at + 1]
    BY <1>2 DEF WaitingSound
  <2>1. at + 1 \in Depths /\ at + 1 <= depth /\ (d < at + 1 <=> d <= at)
    BY ConstantsOK
  <2>2. IF side[at + 1] = "true"
        THEN Describes(pre[at + 1], store)
        ELSE Describes(out[at + 1], store) /\ ~thenRet[at + 1]
    BY DEF WaitingSound
  <2>3. CASE d <= at
    <3>1. /\ pre'[at + 1] = [pre[at + 1] EXCEPT ![v] = init]
          /\ out'[at + 1] = [out[at + 1] EXCEPT ![v] = init]
          /\ store' = [store EXCEPT ![v] = init]
      BY <1>1, <2>1, <2>3 DEF PatchSaved
    <3>2. pre[at + 1] \in Facts /\ out[at + 1] \in Facts
      BY <2>1
    <3>3. CASE side[at + 1] = "true"
      BY <1>3, <2>2, <3>1, <3>2, <3>3
    <3>4. CASE side[at + 1] # "true"
      BY <1>3, <2>2, <3>1, <3>2, <3>4
    <3> QED
      BY <3>3, <3>4
  <2>4. CASE ~(d <= at)
    <3>1. pre'[at + 1] = pre[at + 1] /\ out'[at + 1] = out[at + 1] /\ store' = store
      BY <1>1, <2>1, <2>4 DEF PatchSaved
    <3> QED
      BY <2>2, <3>1
  <2> QED
    BY <2>3, <2>4
<1>6. ReturnFactsSound'
  <2> SUFFICES ASSUME at = 0
               PROVE  Describes(retFacts', store')
    BY <1>2 DEF ReturnFactsSound
  <2>1. Describes(retFacts, store) /\ anyRet
    BY DEF ReturnFactsSound, Reachable
  <2>2. CASE d = 0
    <3>1. /\ retFacts' = [retFacts EXCEPT ![v] = init]
          /\ store' = [store EXCEPT ![v] = init]
      BY <1>1, <2>1, <2>2
    <3> QED
      BY <1>3, <2>1, <3>1
  <2>3. CASE d # 0
    <3>1. ~(d <= at)
      BY <2>3, ConstantsOK
    <3> QED
      BY <1>1, <2>1, <2>3, <3>1
  <2> QED
    BY <2>2, <2>3
<1> QED
  BY <1>2, <1>4, <1>5, <1>6 DEF Sound, Reachable, Running, NoBadDereference

\* The facts allow only safe dereferences, and follow the store.
LEMMA AssignSound ==
  ASSUME IInv, NEW l \in Var, NEW n \in 0 .. MaxIndirect - 1, NEW r \in Rhs,
         Assign(l, n, r)
  PROVE  Sound'
<1> USE DEF IInv, TypeOK
<1>1. UNCHANGED <<depth, side, pre, out, thenRet, closed, anyRet, retFacts, at>>
  BY DEF Assign
<1>2. CASE ~Running
  BY <1>1, <1>2 DEF Assign, Sound, Reachable, FactsSound, WaitingSound,
                    ReturnFactsSound, NoBadDereference, Running
<1>3. CASE Running
  <2> DEFINE L   == MergePointees(l, n, facts) \ Special
             new == RhsPointees(r, facts)
  <2>1. Describes(facts, store) /\ n \in Nat
    BY <1>3 DEF FactsSound, MaxIndirect
  <2>2. SafeDeref(store, l, n)
    <3>1. PointedValid(l, n, facts)
      <4>1. CASE n = 0
        BY <4>1 DEF PointedValid
      <4>2. CASE n > 0
        BY <4>2 DEF Assign, CanWrite
      <4> QED
        BY <2>1, <4>1, <4>2
    <3> QED
      BY <2>1, <3>1, PointedValidIsSafe
  <2>3. SafeRhs(store, r)
    <3> SUFFICES ASSUME r.kind = "value"
                 PROVE  SafeDeref(store, r.var, r.ind)
      BY DEF SafeRhs
    <3>1. r.var \in Var /\ r.ind \in Nat
      BY DEF Rhs, MaxIndirect
    <3>2. PointedValid(r.var, r.ind, facts)
      BY DEF Assign, RhsOK, CanRead
    <3> QED
      BY <2>1, <3>1, <3>2, PointedValidIsSafe
  <2>4. PICK w \in MergePointees(l, n, store), t \in RhsPointees(r, store) :
          \E val \in ValuesAfter(store, w, t) : store' = [store EXCEPT ![w] = val]
    BY <1>3, <2>2, <2>3 DEF Assign
  <2>5. PICK val \in ValuesAfter(store, w, t) : store' = [store EXCEPT ![w] = val]
    BY <2>4
  <2>6. w \in L /\ w \in Var
    <3>1. w \in MergePointees(l, n, facts)
      BY <2>1, MergePointeesMono
    <3>2. w \notin Special
      <4>1. CASE n = 0
        BY <4>1, ConstantsOK DEF MergePointees, Special
      <4>2. CASE n # 0
        BY <2>1, <2>2, <4>2 DEF SafeDeref
      <4> QED
        BY <4>1, <4>2
    <3>3. w \in Target
      BY <2>1, MergePointeesType
    <3> QED
      BY <3>1, <3>2, <3>3
  <2>7. t \in new /\ new \in SUBSET Target
    BY <2>1, RhsPointeesMono, RhsPointeesType
  <2>8. facts' = UpdateForAssign(L, new, facts)
    BY DEF Assign
  <2>9. Describes(facts', store')
    BY <2>1, <2>5, <2>6, <2>7, <2>8, UpdateForAssignSound
  <2>10. bad' = bad
    BY <1>3, <2>2, <2>3 DEF Assign
  <2> QED
    BY <1>1, <1>3, <2>9, <2>10 DEF Sound, Reachable, FactsSound, WaitingSound,
                           ReturnFactsSound, NoBadDereference, Running, Describes
<1> QED
  BY <1>2, <1>3

LEMMA ReadThroughSound ==
  ASSUME IInv, NEW v \in Var, ReadThrough(v)
  PROVE  Sound'
<1> USE DEF IInv, TypeOK
<1>1. Level[v] \in Nat
  BY ConstantsOK
<1>2. PointedValid(v, Level[v], facts)
  BY DEF ReadThrough, CanRead
<1>3. Running => SafeDeref(store, v, Level[v])
  BY <1>1, <1>2, PointedValidIsSafe DEF FactsSound
<1>4. ~bad'
  BY <1>3 DEF ReadThrough, NoBadDereference
<1> QED
  BY <1>4 DEF ReadThrough, genVars, Sound, Reachable, FactsSound, WaitingSound,
              ReturnFactsSound, NoBadDereference, Running, Describes

\* The environment saved before the branches describes a store that waits.
LEMMA OpenIfSound ==
  ASSUME IInv, OpenIf
  PROVE  Sound'
<1> USE DEF IInv, TypeOK, OpenIf
<1>1. CASE Running
  <2>1. Describes(facts', store') /\ Describes(pre'[depth + 1], store')
    BY <1>1, ConstantsOK DEF FactsSound
  <2>2. side'[depth + 1] = "true"
    BY ConstantsOK
  <2>3. at' \in {depth, depth + 1} /\ depth' = depth + 1 /\ at' # 0
    BY <1>1
  <2>4. ~closed' /\ bad' = bad
    BY DEF AddStatement
  <2>5. WaitingSound'
    <3>1. at' \in 1 .. depth' - 1 => at' = depth
      BY <2>3
    <3> QED
      BY <2>1, <2>2, <3>1 DEF WaitingSound, Describes
  <2>6. FactsSound'
    BY <2>1 DEF FactsSound
  <2> QED
    BY <2>3, <2>4, <2>5, <2>6, ConstantsOK DEF Sound, Reachable, ReturnFactsSound,
       NoBadDereference
<1>2. CASE ~Running
  <2>1. at' = at /\ at < depth /\ depth' = depth + 1 /\ store' = store
    BY <1>2 DEF Reachable, Running
  <2>2. at + 1 \in Depths => /\ side'[at + 1] = side[at + 1]
                             /\ pre'[at + 1] = pre[at + 1]
    BY <2>1
  <2> QED
    BY <2>1, <2>2 DEF Sound, Reachable, FactsSound, WaitingSound,
       ReturnFactsSound, NoBadDereference, Running, AddStatement, Describes
<1> QED
  BY <1>1, <1>2

\* The store waits with the output of the true branch, or resumes with the
\* environment saved before it.
LEMMA ElseBranchSound ==
  ASSUME IInv, ElseBranch
  PROVE  Sound'
<1> USE DEF IInv, TypeOK, ElseBranch
<1>1. CASE Running
  <2>1. Describes(BlockOut, store')
    BY <1>1, OosVarsSound DEF FactsSound, LeaveBlock, BlockOut
  <2>2. at' = depth - 1 /\ at' \in 1 .. depth' - 1
    BY <1>1 DEF Running
  <2>3. side'[depth] = "false" /\ out'[depth] = BlockOut /\ thenRet'[depth] = FALSE
    BY <1>1 DEF Reachable
  <2> QED
    BY <2>1, <2>2, <2>3 DEF Sound, Reachable, FactsSound, WaitingSound,
       ReturnFactsSound, NoBadDereference, Running
<1>2. CASE at = depth - 1
  <2>1. at' = depth /\ store' = store /\ facts' = pre[depth]
    BY <1>2 DEF LeaveBlock, Running
  <2>2. Describes(facts', store')
    BY <1>2, <2>1 DEF WaitingSound
  <2> QED
    BY <2>1, <2>2 DEF Sound, Reachable, FactsSound, WaitingSound,
       ReturnFactsSound, NoBadDereference, Running
<1>3. CASE at < depth - 1
  <2>1. at' = at /\ store' = store
    BY <1>3 DEF LeaveBlock, Running
  <2>2. at + 1 \in Depths => /\ side'[at + 1] = side[at + 1]
                             /\ out'[at + 1] = out[at + 1]
                             /\ thenRet'[at + 1] = thenRet[at + 1]
    BY <1>3
  <2> QED
    BY <1>3, <2>1, <2>2 DEF Sound, Reachable, FactsSound, WaitingSound,
       ReturnFactsSound, NoBadDereference, Running, Describes
<1> QED
  BY <1>1, <1>2, <1>3 DEF Reachable, Running

\* The facts combined from the branches describe the store of either.
LEMMA EndIfSound ==
  ASSUME IInv, EndIf
  PROVE  Sound'
<1> USE DEF IInv, TypeOK, EndIf
<1>1. BlockOut \in Facts
  BY UpdateForOosVarsType DEF BlockOut
<1>2. CASE Running
  <2>1. Describes(BlockOut, store') /\ ~closed
    BY <1>2, OosVarsSound DEF FactsSound, LeaveBlock, BlockOut, Reachable
  <2>2. Describes(facts', store')
    BY <1>1, <2>1 DEF CombineBranchFacts, MergeFacts, Describes
  <2>3. at' = depth' /\ at' # 0 /\ closed' = FALSE
    BY <1>2, <2>1 DEF Running, IfMustReturn
  <2> QED
    BY <2>2, <2>3 DEF Sound, Reachable, FactsSound, WaitingSound,
       ReturnFactsSound, NoBadDereference, Running
<1>3. CASE at = depth - 1
  <2>1. Describes(out[depth], store) /\ ~thenRet[depth]
    BY <1>3 DEF WaitingSound
  <2>2. at' = depth' /\ at' # 0 /\ store' = store /\ closed' = FALSE
    <3>1. at # depth
      BY <1>3, ConstantsOK
    <3> QED
      BY <1>3, <2>1, <3>1, ConstantsOK DEF LeaveBlock, Running, IfMustReturn
  <2>3. Describes(facts', store')
    BY <1>1, <2>1, <2>2 DEF CombineBranchFacts, MergeFacts, Describes
  <2> QED
    BY <2>2, <2>3 DEF Sound, Reachable, FactsSound, WaitingSound,
       ReturnFactsSound, NoBadDereference, Running
<1>4. CASE at < depth - 1
  <2>1. at' = at /\ store' = store /\ at' < depth' /\ depth' = depth - 1
    BY <1>4 DEF LeaveBlock, Running
  <2>2. at + 1 \in Depths => /\ side'[at + 1] = side[at + 1]
                             /\ pre'[at + 1] = pre[at + 1]
                             /\ out'[at + 1] = out[at + 1]
                             /\ thenRet'[at + 1] = thenRet[at + 1]
    <3>1. at + 1 # depth
      BY <1>4, ConstantsOK
    <3>2. /\ side' = [side EXCEPT ![depth] = "true"]
          /\ pre' = [pre EXCEPT ![depth] = NoFacts]
          /\ out' = [out EXCEPT ![depth] = NoFacts]
          /\ thenRet' = [thenRet EXCEPT ![depth] = FALSE]
      OBVIOUS
    <3> HIDE DEF EndIf
    <3> QED
      BY <3>1, <3>2
  <2>3. WaitingSound'
    <3> SUFFICES ASSUME at' \in 1 .. depth' - 1
                 PROVE  (IF side[at + 1] = "true"
                         THEN Describes(pre[at + 1], store)
                         ELSE Describes(out[at + 1], store) /\ ~thenRet[at + 1])'
      BY DEF WaitingSound
    <3>1. at + 1 \in Depths /\ at \in 1 .. depth - 1
      BY <2>1, ConstantsOK
    <3> QED
      BY <2>1, <2>2, <3>1 DEF WaitingSound, Describes
  <2>4. ~Running'
    BY <2>1 DEF Running
  <2>5. ReturnFactsSound'
    BY <2>1 DEF ReturnFactsSound, Describes
  <2> QED
    BY <2>1, <2>3, <2>4, <2>5, ConstantsOK DEF Sound, Reachable, FactsSound,
       NoBadDereference
<1> QED
  BY <1>2, <1>3, <1>4 DEF Reachable, Running

\* The facts of a return statement join those of the earlier ones.
LEMMA ReturnSound ==
  ASSUME IInv, Return
  PROVE  Sound'
<1> USE DEF IInv, TypeOK, Return
<1> DEFINE locals == {v \in Var : home[v] \in 1 .. depth}
<1>1. retFacts' = MergeFacts(retFacts, UpdateForOosVars(facts, locals))
  BY DEF AddBackReturnFacts
<1>2. CASE Running
  <2>1. store' = Expire(store, locals) /\ at' = 0
    BY <1>2
  <2>2. Describes(UpdateForOosVars(facts, locals), store')
    BY <1>2, <2>1, OosVarsSound DEF FactsSound
  <2>3. Describes(retFacts', store')
    BY <1>1, <2>2 DEF MergeFacts, Describes
  <2> QED
    BY <2>1, <2>3 DEF Sound, Reachable, FactsSound, WaitingSound,
       ReturnFactsSound, NoBadDereference, Running
<1>3. CASE ~Running
  <2>1. store' = store /\ at' = at
    BY <1>3
  <2>2. at = 0 => Describes(retFacts', store')
    BY <1>1, <2>1 DEF MergeFacts, Describes, ReturnFactsSound
  <2> QED
    BY <1>3, <2>1, <2>2 DEF Sound, Reachable, FactsSound, WaitingSound,
       ReturnFactsSound, NoBadDereference, Running, Describes
<1> QED
  BY <1>2, <1>3

LEMMA IInvStep ==
  ASSUME IInv, [Next]_vars
  PROVE  IInv'
<1>1. TypeOK'
  BY TypeStep DEF IInv
<1>2. Sound'
  <2>1. CASE UNCHANGED vars
    BY <2>1 DEF IInv, vars, genVars, Sound, Reachable, FactsSound, WaitingSound,
                ReturnFactsSound, NoBadDereference, Running, Describes
  <2> QED
    BY <2>1, NewVarSound, AssignSound, ReadThroughSound, OpenIfSound,
       ElseBranchSound, EndIfSound, ReturnSound DEF Next
<1> QED
  BY <1>1, <1>2 DEF IInv, Sound

LEMMA IInvAlways == Spec => []IInv
<1>1. Init => IInv
  BY InitType, InitSound DEF IInv, Sound
<1>2. IInv /\ [Next]_vars => IInv'
  BY IInvStep
<1> QED
  BY <1>1, <1>2, PTL DEF Spec

\* The analysis is sound: on every execution of the generated function, where
\* the generator stands each pointer holds a value of its point-to set
\* (FactMgr::global_facts after every handler).
THEOREM AnalysisSound == Spec => []FactsSound
<1>1. IInv => FactsSound
  BY DEF IInv
<1> QED
  BY <1>1, IInvAlways, PTL

\* The environment that the analysis resumes with, when an execution took the
\* other branch of an "if", describes it (FactMgr::map_facts_in and
\* map_facts_out, patched for the variables created in between).
THEOREM WaitingEnvironmentsSound == Spec => []WaitingSound
<1>1. IInv => WaitingSound
  BY DEF IInv
<1> QED
  BY <1>1, IInvAlways, PTL

\* What the function gives back to its callers describes every execution that
\* has returned, through whichever return statement (update_fact_for_return).
THEOREM ReturnedFactsSound == Spec => []ReturnFactsSound
<1>1. IInv => ReturnFactsSound
  BY DEF IInv
<1> QED
  BY <1>1, IInvAlways, PTL

\* No dereference that the generator emits meets a null or dangling pointer
\* (CGContext::read_pointed and write_pointed).
THEOREM DereferencesSafe == Spec => []NoBadDereference
<1>1. IInv => NoBadDereference
  BY DEF IInv
<1> QED
  BY <1>1, IInvAlways, PTL

\* No execution comes to a point where the generator found that the block must
\* have returned, and none returns but through a return statement
\* (StatementIf::must_return, Block::must_return).
THEOREM ReturnsReachable == Spec => []Reachable
<1>1. IInv => Reachable
  BY DEF IInv
<1> QED
  BY <1>1, IInvAlways, PTL
----------------------------------------------------------------------------
(***************************************************************************)
(* The points-to analysis never lacks the fact of a pointer in scope, and  *)
(* never mentions a variable out of scope.  The invariant is ScopeInv of   *)
(* PointsTo: it speaks of the saved environments too, and of levels of     *)
(* indirection, since the fact of a pointer is looked up through others.   *)
(***************************************************************************)

HIDE DEF Unborn, Dead, Depths, Facts, NoFacts, Target

\* What is common to all actions: blocks are nested no deeper than MaxDepth,
\* undeclared and dead variables are further in than any block.
LEMMA DepthsAreNat ==
  ASSUME TypeOK
  PROVE  /\ depth \in Nat /\ MaxDepth \in Nat /\ depth >= 1 /\ depth <= MaxDepth
         /\ \A v \in Var : home[v] \in Nat /\ Level[v] \in Nat
         /\ \A v \in Var : home[v] = Unborn => home[v] > depth
         /\ Dead \in Nat /\ Dead > depth
<1>1. depth \in Nat /\ MaxDepth \in Nat /\ depth >= 1 /\ depth <= MaxDepth
  BY ConstantsOK DEF TypeOK, Depths
<1>2. Dead \in Nat /\ Dead > depth /\ Unborn > depth
  BY <1>1 DEF Dead, Unborn
<1>3. \A v \in Var : home[v] \in Nat
  BY <1>2 DEF TypeOK
<1>4. \A v \in Var : Level[v] \in Nat
  BY ConstantsOK DEF MaxIndirect
<1> QED
  BY <1>1, <1>2, <1>3, <1>4

\* Environments of one block are merged into one of that block.
LEMMA MergeScoped ==
  ASSUME NEW h, NEW f, NEW g, NEW d, Scoped(h, f, d), Scoped(h, g, d)
  PROVE  Scoped(h, MergeFacts(f, g), d)
BY DEF Scoped, MergeFacts

\* When a block ends, the facts without its variables are those of the block
\* around it.
LEMMA OutScoped ==
  ASSUME NEW h, NEW f \in Facts, NEW d \in Nat \ {0}, \A v \in Var : h[v] \in Nat,
         Scoped(h, f, d)
  PROVE  Scoped(h, UpdateForOosVars(f, {v \in Var : h[v] = d}), d - 1)
<1> DEFINE S == {v \in Var : h[v] = d}
           g == UpdateForOosVars(f, S)
<1> SUFFICES ASSUME NEW v \in Var
             PROVE  /\ h[v] <= d - 1 /\ Level[v] > 0 => g[v] # {}
                    /\ h[v] > d - 1 => g[v] = {}
                    /\ \A y \in g[v] \ Special : h[y] <= d - 1 /\ Level[y] + 1 = Level[v]
  BY DEF Scoped
<1>0. h[v] \in Nat /\ d \in Nat
  OBVIOUS
<1>1. CASE v \in S
  <2>1. g[v] = {} /\ h[v] = d
    BY <1>1 DEF UpdateForOosVars
  <2> HIDE DEF g
  <2> QED
    BY <1>0, <2>1
<1>2. CASE v \notin S
  <2>1. g[v] = MarkDead(f[v], S)
    BY <1>2 DEF UpdateForOosVars
  <2>0. h[v] # d
    BY <1>2
  <2>2. f[v] # {} => g[v] # {}
    BY <2>1 DEF MarkDead
  <2>3. f[v] = {} => g[v] = {}
    BY <2>1 DEF MarkDead
  <2>4. \A y \in g[v] \ Special : y \in f[v] /\ y \notin S
    BY <2>1 DEF MarkDead, Special
  <2>5. ASSUME NEW y \in g[v] \ Special
        PROVE  h[y] <= d - 1 /\ Level[y] + 1 = Level[v]
    <3>1. y \in f[v] \ Special /\ y \notin S
      BY <2>4, <2>5
    <3>2. h[y] <= d /\ Level[y] + 1 = Level[v]
      BY <3>1 DEF Scoped
    <3>3. y \in Var
      BY <3>1 DEF Facts, Target
    <3> QED
      BY <3>1, <3>2, <3>3
  <2>6. h[v] <= d /\ Level[v] > 0 => f[v] # {}
    BY DEF Scoped
  <2>7. h[v] > d => f[v] = {}
    BY DEF Scoped
  <2>8. h[v] <= d - 1 /\ Level[v] > 0 => g[v] # {}
    <3> HIDE DEF g
    <3> QED
      BY <1>0, <2>2, <2>6
  <2>9. h[v] > d - 1 => g[v] = {}
    <3> HIDE DEF g
    <3> QED
      BY <1>0, <2>0, <2>3, <2>7
  <2> QED
    BY <2>5, <2>8, <2>9
<1> QED
  BY <1>1, <1>2

\* A block that is left takes its variables along; seen from outside nothing
\* has changed.
LEMMA LeaveScoped ==
  ASSUME TypeOK, LeaveBlock, NEW f \in Facts, NEW d \in 0 .. depth - 1, Scoped(home, f, d)
  PROVE  Scoped(home', f, d)
<1>1. \A v \in Var : home'[v] = IF home[v] = depth THEN Dead ELSE home[v]
  BY DEF LeaveBlock
<1>2. \A v \in Var : /\ home'[v] <= d <=> home[v] <= d
                     /\ home'[v] > d <=> home[v] > d
  BY <1>1, DepthsAreNat
<1>3. \A v \in Var : f[v] \ Special \subseteq Var
  BY DEF Facts, Target
<1> QED
  BY <1>2, <1>3 DEF Scoped

-----------------------------------------------------------------------------
(* Actions *)

\* what the lemmas about actions assume
ScopeOK == TypeOK /\ ScopeInv

LEMMA ScopeInit == Init => ScopeInv
<1> SUFFICES ASSUME Init
             PROVE  ScopeInv
  OBVIOUS
<1>1. PICK e \in Entries : facts = e.facts
  BY DEF Init
<1>2. /\ depth = 1 /\ MaxDepth \in Nat
      /\ home = [v \in Var |-> IF v \in Globals THEN 0 ELSE MaxDepth + 1]
  BY ConstantsOK DEF Init, Unborn
<1>3. \A y \in Globals : y \in Var
  BY ConstantsOK
<1>4. MaxDepth >= 1
  BY ConstantsOK
<1>5. Scoped(home, facts, depth)
  <2>1. \A v \in Var : IF v \in Globals THEN home[v] = 0 ELSE home[v] = MaxDepth + 1
    BY <1>2
  <2>2. \A v \in Var : /\ home[v] <= depth <=> v \in Globals
                       /\ home[v] > depth <=> v \notin Globals
    <3> SUFFICES ASSUME NEW v \in Var
                 PROVE  /\ home[v] <= depth <=> v \in Globals
                        /\ home[v] > depth <=> v \notin Globals
      OBVIOUS
    <3>1. CASE v \in Globals
      <4>1. home[v] = 0
        BY <2>1, <3>1
      <4> QED
        BY <1>2, <3>1, <4>1
    <3>2. CASE v \notin Globals
      <4>1. home[v] = MaxDepth + 1
        BY <2>1, <3>2
      <4> QED
        BY <1>2, <1>4, <3>2, <4>1
    <3> QED
      BY <3>1, <3>2
  <2>3. \A v \in Var :
          /\ v \in Globals /\ Level[v] > 0 => facts[v] # {}
          /\ v \notin Globals => facts[v] = {}
          /\ \A y \in facts[v] \ Special : y \in Globals /\ Level[y] + 1 = Level[v]
    BY <1>1, EntriesScoped
  <2> QED
    BY <1>3, <2>2, <2>3 DEF Scoped
<1>6. 2 .. depth = {}
  BY <1>2
<1>7. \A v \in Var : home[v] <= depth \/ home[v] > MaxDepth
  <2>1. \A v \in Var : home[v] \in {0, MaxDepth + 1}
    BY <1>2
  <2>2. 0 <= depth /\ MaxDepth + 1 > MaxDepth
    BY <1>2
  <2> QED
    BY <2>1, <2>2
<1> QED
  BY <1>5, <1>6, <1>7 DEF ScopeInv

\* A new variable comes with its fact, and with its fact in each environment
\* saved inside its block.
LEMMA NewVarScope ==
  ASSUME ScopeOK, NEW v \in Var, NEW d \in 0 .. MaxDepth, NewVar(v, d)
  PROVE  ScopeInv'
<1> USE DEF ScopeOK
<1>1. PICK init \in InitValues(v, d) :
        /\ facts' = [facts EXCEPT ![v] = init]
        /\ pre' = PatchSaved(pre, v, d, init)
        /\ out' = PatchSaved(out, v, d, init)
  BY DEF NewVar
<1>2. /\ home[v] = Unborn /\ d <= depth /\ home' = [home EXCEPT ![v] = d]
      /\ UNCHANGED <<depth, side>>
  BY DEF NewVar
<1>3. /\ Level[v] > 0 => init # {}
      /\ Level[v] = 0 => init = {}
      /\ \A y \in init \ Special : y \in Var /\ home[y] <= d /\ Level[y] + 1 = Level[v]
  <2> DEFINE values == {Null} \cup {y \in Var : home[y] <= d /\ Level[y] + 1 = Level[v]}
  <2>1. CASE Level[v] = 0
    BY <2>1 DEF InitValues
  <2>2. CASE Level[v] # 0
    <3>1. init \subseteq values /\ init # {}
      <4>1. CASE v \in Array
        <5>1. InitValues(v, d) = IF Level[v] = 0 THEN {{}}
                                ELSE IF v \in Array THEN (SUBSET values) \ {{}}
                                ELSE {{t} : t \in values}
          BY DEF InitValues
        <5> HIDE DEF values
        <5>2. InitValues(v, d) = (SUBSET values) \ {{}}
          BY <2>2, <4>1, <5>1
        <5>3. init \in (SUBSET values) \ {{}}
          BY <5>2, Zenon
        <5>4. init \subseteq values
          BY <5>3
        <5>5. init \notin {{}}
          BY <5>3
        <5> QED
          BY <5>4, <5>5
      <4>2. CASE v \notin Array
        <5>1. init \in {{t} : t \in values}
          BY <1>1, <2>2, <4>2 DEF InitValues
        <5> HIDE DEF values
        <5> QED
          BY <5>1
      <4> QED
        BY <4>1, <4>2
    <3>2. \A y \in values \ Special : y \in Var /\ home[y] <= d /\ Level[y] + 1 = Level[v]
      BY DEF Special
    <3> QED
      BY <2>2, <3>1, <3>2
  <2>3. Level[v] \in Nat
    BY DepthsAreNat
  <2> QED
    BY <2>1, <2>2, <2>3
<1>4. ASSUME NEW f \in Facts, NEW i \in d .. depth, Scoped(home, f, i)
      PROVE  Scoped(home', [f EXCEPT ![v] = init], i)
  <2>1. \A w \in Var : /\ home'[w] = IF w = v THEN d ELSE home[w]
                       /\ [f EXCEPT ![v] = init][w] = IF w = v THEN init ELSE f[w]
    BY <1>2 DEF TypeOK, Facts
  <2>2. home[v] > i /\ \A w \in Var : f[w] \ Special \subseteq Var
    <3>1. home[v] > depth /\ i <= depth /\ i \in Nat /\ home[v] \in Nat /\ depth \in Nat
      BY <1>2, DepthsAreNat
    <3>2. \A w \in Var : f[w] \ Special \subseteq Var
      BY DEF Facts, Target
    <3> QED
      BY <3>1, <3>2
  <2>3. \A w \in Var : \A y \in f[w] \ Special : y # v
    <3>1. home[v] \in Nat /\ i \in Nat
      BY DepthsAreNat
    <3>2. \A w \in Var : \A y \in f[w] \ Special : home[y] <= i
      BY <1>4 DEF Scoped
    <3> QED
      BY <2>2, <3>1, <3>2
  <2>4. \A y \in init \ Special : y # v
    BY <1>2, <1>3, DepthsAreNat
  <2> QED
    BY <1>3, <1>4, <2>1, <2>2, <2>3, <2>4, DepthsAreNat DEF Scoped
<1>5. ASSUME NEW f, NEW i \in 0 .. d - 1, Scoped(home, f, i), f \in Facts
      PROVE  Scoped(home', f, i)
  <2>1. \A w \in Var : home'[w] = IF w = v THEN d ELSE home[w]
    BY <1>2 DEF TypeOK
  <2>2. home[v] > i /\ \A w \in Var : f[w] \ Special \subseteq Var
    <3>1. home[v] > depth /\ i <= depth /\ i \in Nat /\ home[v] \in Nat /\ depth \in Nat
      BY <1>2, DepthsAreNat
    <3>2. \A w \in Var : f[w] \ Special \subseteq Var
      BY <1>5 DEF Facts, Target
    <3> QED
      BY <3>1, <3>2
  <2> QED
    BY <1>5, <2>1, <2>2, DepthsAreNat DEF Scoped
<1>6. Scoped(home', facts', depth')
  <2>1. facts \in Facts /\ depth \in d .. depth /\ Scoped(home, facts, depth)
    BY <1>2, DepthsAreNat DEF ScopeInv, TypeOK
  <2>2. Scoped(home', [facts EXCEPT ![v] = init], depth)
    BY <1>4, <2>1
  <2> QED
    BY <1>1, <1>2, <2>2
<1>7. ASSUME NEW i \in 2 .. depth', NEW m \in [Depths -> Facts],
             Scoped(home, m[i], i - 1)
      PROVE  Scoped(home', PatchSaved(m, v, d, init)[i], i - 1)
  <2>1. i \in Depths /\ m[i] \in Facts /\ i \in 2 .. depth
    BY <1>2, DepthsAreNat DEF Depths
  <2>2. PatchSaved(m, v, d, init)[i] = IF d < i THEN [m[i] EXCEPT ![v] = init] ELSE m[i]
    BY <2>1, DepthsAreNat DEF PatchSaved
  <2>3. CASE d < i
    BY <1>4, <1>7, <2>1, <2>2, <2>3, DepthsAreNat
  <2>4. CASE ~(d < i)
    BY <1>5, <1>7, <2>1, <2>2, <2>4, DepthsAreNat
  <2> QED
    BY <2>3, <2>4
<1> QED
  <2>1. ASSUME NEW i \in 2 .. depth'
        PROVE  /\ Scoped(home', pre'[i], i - 1)
               /\ side'[i] = "false" => Scoped(home', out'[i], i - 1)
    BY <1>1, <1>2, <1>7 DEF ScopeInv, TypeOK
  <2>2. \A w \in Var : home'[w] <= depth' \/ home'[w] > MaxDepth
    <3>1. \A w \in Var : home'[w] = IF w = v THEN d ELSE home[w]
      BY <1>2 DEF TypeOK
    <3> QED
      BY <1>2, <3>1 DEF ScopeInv
  <2> QED
    BY <1>6, <2>1, <2>2 DEF ScopeInv

\* What an assignment may store: one level of indirection less than its
\* destination, in scope, and never nothing.
LEMMA RhsScoped ==
  ASSUME ScopeOK, NEW r \in Rhs, NEW lev \in 1 .. MaxIndirect, RhsOK(r, lev)
  PROVE  /\ RhsPointees(r, facts) # {}
         /\ \A y \in RhsPointees(r, facts) \ Special :
              y \in Var /\ home[y] <= depth /\ Level[y] + 1 = lev
<1> USE DEF ScopeOK
<1>1. CASE r.kind = "null"
  BY <1>1 DEF RhsPointees, Special
<1>2. CASE r.kind = "addr"
  <2>1. RhsPointees(r, facts) = {r.var}
    BY <1>2 DEF RhsPointees
  <2>2. r.var \in Live /\ Level[r.var] + 1 = lev
    BY <1>2 DEF RhsOK
  <2> QED
    BY <2>1, <2>2 DEF Live
<1>3. CASE r.kind = "value"
  <2> DEFINE v == r.var
  <2>1. /\ v \in Var /\ r.ind \in 0 .. 1
        /\ RhsPointees(r, facts) = MergePointees(v, r.ind + 1, facts)
    BY <1>3 DEF Rhs, RhsPointees, MaxIndirect
  <2>2. /\ home[v] <= depth /\ Level[v] = lev + r.ind /\ lev >= 1
        /\ PointedValid(v, r.ind, facts)
    BY <1>3 DEF RhsOK, CanRead, Live
  <2> HIDE DEF v
  <2>3. /\ facts[v] # {}
        /\ \A y \in facts[v] \ Special :
             y \in Var /\ home[y] <= depth /\ Level[y] + 1 = Level[v]
    <3>1. Level[v] > 0
      BY <2>1, <2>2
    <3>2. facts[v] \ Special \subseteq Var
      BY <2>1 DEF TypeOK, Facts, Target
    <3> QED
      BY <2>1, <2>2, <3>1, <3>2 DEF ScopeInv, Scoped
  <2>4. CASE r.ind = 0
    <3>1. RhsPointees(r, facts) = facts[v]
      BY <2>1, <2>4 DEF MergePointees
    <3>2. Level[v] = lev
      BY <2>2, <2>4, <2>1
    <3> QED
      BY <2>3, <3>1, <3>2
  <2>5. CASE r.ind = 1
    <3>1. RhsPointees(r, facts) = PointeesOf(facts[v], facts)
      BY <2>1, <2>5 DEF MergePointees
    <3>2. facts[v] \cap Special = {}
      <4>1. 1 \in 1 .. r.ind
        BY <2>5
      <4> QED
        BY <2>2, <4>1 DEF PointedValid, MergePointees
    <3>3. ASSUME NEW p \in facts[v]
          PROVE  /\ p \in Var /\ facts[p] # {}
                 /\ \A y \in facts[p] \ Special :
                      y \in Var /\ home[y] <= depth /\ Level[y] + 1 = lev
      <4>1. p \in Var /\ home[p] <= depth /\ Level[p] + 1 = Level[v]
        BY <2>3, <3>2, <3>3
      <4>2. Level[p] = lev /\ Level[p] > 0
        BY <2>2, <2>5, <4>1, DepthsAreNat
      <4>3. facts[p] \ Special \subseteq Var
        BY <4>1 DEF TypeOK, Facts, Target
      <4> QED
        BY <4>1, <4>2, <4>3 DEF ScopeInv, Scoped
    <3>4. RhsPointees(r, facts) # {}
      BY <2>3, <3>1, <3>3 DEF PointeesOf
    <3> QED
      BY <3>1, <3>3, <3>4 DEF PointeesOf
  <2> QED
    BY <2>1, <2>4, <2>5
<1> QED
  BY <1>1, <1>2, <1>3 DEF Rhs

\* An assignment renews facts of variables in scope, all of the level that its
\* right-hand side has.
LEMMA AssignScope ==
  ASSUME ScopeOK, NEW l \in Var, NEW n \in 0 .. MaxIndirect - 1, NEW r \in Rhs,
         Assign(l, n, r)
  PROVE  ScopeInv'
<1> USE DEF ScopeOK
<1> DEFINE lvars == MergePointees(l, n, facts) \ Special
           new == RhsPointees(r, facts)
           lev == Level[l] - n
<1>1. /\ UNCHANGED <<home, depth, side, pre, out>>
      /\ facts' = UpdateForAssign(lvars, new, facts)
      /\ RhsOK(r, lev)
      /\ home[l] <= depth /\ n < Level[l]
  BY DEF Assign, LhsOK, Live
<1>2. lev \in 1 .. MaxIndirect /\ n \in 0 .. 1 /\ Level[l] \in Nat
  BY <1>1, ConstantsOK DEF MaxIndirect
<1>3. \A w \in lvars : w \in Var /\ home[w] <= depth /\ Level[w] = lev
  <2>1. CASE n = 0
    BY <1>1, <2>1, DepthsAreNat DEF MergePointees
  <2>2. CASE n = 1
    <3>1. lvars = facts[l] \ Special
      BY <2>2 DEF MergePointees
    <3>2. facts[l] \ Special \subseteq Var
      BY DEF TypeOK, Facts, Target
    <3>3. \A w \in facts[l] \ Special : home[w] <= depth /\ Level[w] + 1 = Level[l]
      BY DEF ScopeInv, Scoped
    <3> QED
      BY <2>2, <3>1, <3>2, <3>3, DepthsAreNat
  <2> QED
    BY <1>2, <2>1, <2>2
<1>4. /\ new # {}
      /\ \A y \in new \ Special : y \in Var /\ home[y] <= depth /\ Level[y] + 1 = lev
  BY <1>1, <1>2, RhsScoped
<1> HIDE DEF lvars, new, lev
<1>5. ASSUME NEW v \in Var
      PROVE  /\ facts'[v] \in {new, facts[v] \cup new, facts[v]}
             /\ v \notin lvars => facts'[v] = facts[v]
  BY <1>1 DEF UpdateForAssign, TypeOK, Facts
<1>6. Scoped(home, facts', depth)
  <2> SUFFICES ASSUME NEW v \in Var
               PROVE  /\ home[v] <= depth /\ Level[v] > 0 => facts'[v] # {}
                      /\ home[v] > depth => facts'[v] = {}
                      /\ \A y \in facts'[v] \ Special :
                           home[y] <= depth /\ Level[y] + 1 = Level[v]
    BY DEF Scoped
  <2>1. /\ home[v] <= depth /\ Level[v] > 0 => facts[v] # {}
        /\ home[v] > depth => facts[v] = {}
        /\ \A y \in facts[v] \ Special : home[y] <= depth /\ Level[y] + 1 = Level[v]
    BY DEF ScopeInv, Scoped
  <2>2. CASE v \notin lvars
    BY <1>5, <2>1, <2>2
  <2>3. CASE v \in lvars
    <3>1. home[v] <= depth /\ Level[v] = lev
      BY <1>3, <2>3
    <3>2. ~(home[v] > depth)
      BY <3>1, DepthsAreNat
    <3> QED
      BY <1>4, <1>5, <2>1, <3>1, <3>2
  <2> QED
    BY <2>2, <2>3
<1> QED
  BY <1>1, <1>6 DEF ScopeInv

\* The facts saved before a branch are those in force at the "if".
LEMMA OpenIfScope ==
  ASSUME ScopeOK, OpenIf
  PROVE  ScopeInv'
<1> USE DEF ScopeOK
<1>1. /\ depth' = depth + 1 /\ depth + 1 \in Depths /\ depth \in Nat
      /\ side' = [side EXCEPT ![depth + 1] = "true"]
      /\ pre' = [pre EXCEPT ![depth + 1] = facts]
      /\ UNCHANGED <<home, out, facts>>
  BY DepthsAreNat DEF OpenIf, Depths
<1>2. Scoped(home, facts, depth + 1)
  <2>1. ASSUME NEW v \in Var
        PROVE  /\ home[v] <= depth + 1 /\ Level[v] > 0 => facts[v] # {}
               /\ home[v] > depth + 1 => facts[v] = {}
               /\ \A y \in facts[v] \ Special :
                    home[y] <= depth + 1 /\ Level[y] + 1 = Level[v]
    <3>1. home[v] # depth + 1
      <4>1. home[v] <= depth \/ home[v] > MaxDepth
        BY DEF ScopeInv
      <4> QED
        BY <1>1, <4>1, DepthsAreNat DEF Depths
    <3>2. /\ home[v] <= depth /\ Level[v] > 0 => facts[v] # {}
          /\ home[v] > depth => facts[v] = {}
          /\ \A y \in facts[v] \ Special : home[y] <= depth /\ Level[y] + 1 = Level[v]
      BY DEF ScopeInv, Scoped
    <3>3. facts[v] \ Special \subseteq Var
      BY DEF TypeOK, Facts, Target
    <3> QED
      BY <3>1, <3>2, <3>3, DepthsAreNat
  <2> QED
    BY <2>1 DEF Scoped
<1>3. \A v \in Var : home[v] <= depth + 1 \/ home[v] > MaxDepth
  BY <1>1, DepthsAreNat DEF ScopeInv
<1>4. ASSUME NEW d \in 2 .. depth + 1
      PROVE  /\ Scoped(home, pre'[d], d - 1)
             /\ side'[d] = "false" => Scoped(home, out[d], d - 1)
  <2>1. d \in Depths
    BY <1>1, DepthsAreNat DEF Depths
  <2>2. CASE d = depth + 1
    <3>1. pre'[d] = facts /\ side'[d] = "true" /\ d - 1 = depth
      BY <1>1, <2>1, <2>2 DEF TypeOK
    <3> QED
      BY <3>1 DEF ScopeInv
  <2>3. CASE d \in 2 .. depth
    <3>1. pre'[d] = pre[d] /\ side'[d] = side[d]
      BY <1>1, <2>1, <2>3 DEF TypeOK
    <3> QED
      BY <2>3, <3>1 DEF ScopeInv
  <2> QED
    BY <1>1, <2>2, <2>3
<1> QED
  BY <1>1, <1>2, <1>3, <1>4 DEF ScopeInv

\* The block that is left: what its end makes of the facts is in order at the
\* block around it.
LEMMA BlockOutScoped ==
  ASSUME ScopeOK, depth > 1
  PROVE  BlockOut \in Facts /\ Scoped(home, BlockOut, depth - 1)
<1> USE DEF ScopeOK
<1>1. /\ depth \in Nat \ {0} /\ \A v \in Var : home[v] \in Nat
      /\ facts \in Facts /\ Scoped(home, facts, depth)
  BY DepthsAreNat DEF ScopeInv, TypeOK
<1>2. BlockOut = UpdateForOosVars(facts, {v \in Var : home[v] = depth})
  BY DEF BlockOut, Locals
<1> QED
  BY <1>1, <1>2, OutScoped, UpdateForOosVarsType

\* The variables of the block that is left are nowhere any more.
LEMMA LeaveHomes ==
  ASSUME ScopeOK, LeaveBlock
  PROVE  \A v \in Var : home'[v] <= depth - 1 \/ home'[v] > MaxDepth
<1> SUFFICES ASSUME NEW v \in Var
             PROVE  home'[v] <= depth - 1 \/ home'[v] > MaxDepth
  OBVIOUS
<1>1. home'[v] = IF home[v] = depth THEN Dead ELSE home[v]
  BY DEF LeaveBlock
<1>2. home[v] <= depth \/ home[v] > MaxDepth
  BY DEF ScopeOK, ScopeInv
<1> QED
  BY <1>1, <1>2, DepthsAreNat DEF ScopeOK, Dead

\* The false branch starts with the facts saved before the true one.
LEMMA ElseBranchScope ==
  ASSUME ScopeOK, ElseBranch
  PROVE  ScopeInv'
<1> USE DEF ScopeOK
<1>1. /\ depth > 1 /\ LeaveBlock /\ UNCHANGED <<depth, pre>>
      /\ out' = [out EXCEPT ![depth] = BlockOut]
      /\ facts' = pre[depth]
      /\ side' = [side EXCEPT ![depth] = "false"]
  BY DEF ElseBranch
<1>2. depth \in 2 .. depth /\ depth \in Nat /\ 2 .. depth \subseteq Depths
  BY <1>1, DepthsAreNat DEF Depths
<1>3. /\ Scoped(home, pre[depth], depth - 1) /\ pre[depth] \in Facts
      /\ Scoped(home, BlockOut, depth - 1) /\ BlockOut \in Facts
  BY <1>1, <1>2, BlockOutScoped DEF ScopeInv, TypeOK
<1>4. \A v \in Var : home'[v] <= depth \/ home'[v] > MaxDepth
  <2>1. \A v \in Var : home'[v] <= depth - 1 \/ home'[v] > MaxDepth
    BY <1>1, LeaveHomes
  <2>2. \A v \in Var : home'[v] \in Nat
    <3>1. \A v \in Var : home'[v] = IF home[v] = depth THEN Dead ELSE home[v]
      BY <1>1 DEF LeaveBlock
    <3> QED
      BY <3>1, DepthsAreNat
  <2> QED
    BY <1>2, <2>1, <2>2
<1>5. Scoped(home', facts', depth)
  <2>1. Scoped(home', pre[depth], depth - 1)
    BY <1>1, <1>2, <1>3, LeaveScoped
  <2>2. ASSUME NEW v \in Var
        PROVE  home'[v] # depth /\ home'[v] \in Nat
    <3>1. home'[v] = IF home[v] = depth THEN Dead ELSE home[v]
      BY <1>1 DEF LeaveBlock
    <3> QED
      BY <3>1, DepthsAreNat
  <2>3. \A v \in Var : /\ home'[v] <= depth - 1 <=> home'[v] <= depth
                       /\ home'[v] > depth - 1 <=> home'[v] > depth
    BY <1>2, <2>2
  <2>4. \A v \in Var : pre[depth][v] \ Special \subseteq Var
    BY <1>3 DEF Facts, Target
  <2> QED
    BY <1>1, <2>1, <2>3, <2>4 DEF Scoped
<1>6. ASSUME NEW d \in 2 .. depth
      PROVE  /\ Scoped(home', pre[d], d - 1)
             /\ side'[d] = "false" => Scoped(home', out'[d], d - 1)
  <2>1. d - 1 \in 0 .. depth - 1 /\ d \in Depths
    BY <1>2
  <2>2. Scoped(home', pre[d], d - 1)
    BY <1>1, <2>1, LeaveScoped DEF ScopeInv, TypeOK
  <2>3. CASE d = depth
    <3>1. out'[d] = BlockOut
      BY <1>1, <2>1, <2>3 DEF TypeOK
    <3> QED
      BY <1>1, <1>3, <2>1, <2>2, <2>3, <3>1, LeaveScoped
  <2>4. CASE d # depth
    <3>1. out'[d] = out[d] /\ side'[d] = side[d]
      BY <1>1, <2>1, <2>4 DEF TypeOK
    <3> QED
      BY <1>1, <2>1, <2>2, <3>1, LeaveScoped DEF ScopeInv, TypeOK
  <2> QED
    BY <2>3, <2>4
<1> QED
  BY <1>1, <1>4, <1>5, <1>6 DEF ScopeInv

\* Whatever way the branches end, the facts after the "if" are those of the
\* block around it.
LEMMA EndIfScope ==
  ASSUME ScopeOK, EndIf
  PROVE  ScopeInv'
<1> USE DEF ScopeOK
<1>1. /\ depth > 1 /\ side[depth] = "false" /\ LeaveBlock
      /\ facts' = CombineBranchFacts /\ depth' = depth - 1
      /\ side' = [side EXCEPT ![depth] = "true"]
      /\ pre' = [pre EXCEPT ![depth] = NoFacts]
      /\ out' = [out EXCEPT ![depth] = NoFacts]
  BY DEF EndIf
<1>2. depth \in 2 .. depth /\ depth \in Nat /\ 2 .. depth \subseteq Depths
  BY <1>1, DepthsAreNat DEF Depths
<1>3. /\ Scoped(home, pre[depth], depth - 1) /\ pre[depth] \in Facts
      /\ Scoped(home, out[depth], depth - 1) /\ out[depth] \in Facts
      /\ Scoped(home, BlockOut, depth - 1) /\ BlockOut \in Facts
  BY <1>1, <1>2, BlockOutScoped DEF ScopeInv, TypeOK
<1>4. CombineBranchFacts \in Facts /\ Scoped(home, CombineBranchFacts, depth - 1)
  <2>1. /\ MergeFacts(out[depth], BlockOut) \in Facts
        /\ Scoped(home, MergeFacts(out[depth], BlockOut), depth - 1)
    BY <1>3, MergeFactsType, MergeScoped
  <2>2. CombineBranchFacts \in {pre[depth], BlockOut, out[depth], MergeFacts(out[depth], BlockOut)}
    BY DEF CombineBranchFacts, TypeOK
  <2> QED
    BY <1>3, <2>1, <2>2
<1>5. Scoped(home', facts', depth - 1)
  BY <1>1, <1>2, <1>4, LeaveScoped
<1>6. ASSUME NEW d \in 2 .. depth - 1
      PROVE  /\ Scoped(home', pre'[d], d - 1)
             /\ side'[d] = "false" => Scoped(home', out'[d], d - 1)
  <2>1. d - 1 \in 0 .. depth - 1 /\ d \in Depths /\ d # depth /\ d \in 2 .. depth
    BY <1>2
  <2>2. pre'[d] = pre[d] /\ out'[d] = out[d] /\ side'[d] = side[d]
    BY <1>1, <2>1 DEF TypeOK
  <2> QED
    BY <1>1, <2>1, <2>2, LeaveScoped DEF ScopeInv, TypeOK
<1> QED
  BY <1>1, <1>5, <1>6, LeaveHomes DEF ScopeInv

-----------------------------------------------------------------------------
LEMMA ScopeStep ==
  ASSUME ScopeOK, [Next]_vars
  PROVE  ScopeInv'
<1>1. ASSUME NEW v \in Var, NEW d \in 0 .. MaxDepth, NewVar(v, d)
      PROVE  ScopeInv'
  BY <1>1, NewVarScope
<1>2. ASSUME NEW l \in Var, NEW n \in 0 .. MaxIndirect - 1, NEW r \in Rhs, Assign(l, n, r)
      PROVE  ScopeInv'
  BY <1>2, AssignScope
<1>3. CASE OpenIf
  BY <1>3, OpenIfScope
<1>4. CASE ElseBranch
  BY <1>4, ElseBranchScope
<1>5. CASE EndIf
  BY <1>5, EndIfScope
<1>6. CASE UNCHANGED <<home, depth, side, pre, out, facts>>
  BY <1>6 DEF ScopeOK, ScopeInv, Scoped
<1>7. ASSUME NEW v \in Var, ReadThrough(v)
      PROVE  ScopeInv'
  BY <1>6, <1>7 DEF ReadThrough, genVars
<1>8. CASE Return
  BY <1>6, <1>8 DEF Return
<1>9. CASE UNCHANGED vars
  BY <1>6, <1>9 DEF vars, genVars
<1> QED
  BY <1>1, <1>2, <1>3, <1>4, <1>5, <1>7, <1>8, <1>9 DEF Next

LEMMA ScopeInvImplies == ScopeOK => FactsWellScoped
<1> SUFFICES ASSUME ScopeOK, NEW v \in Var
             PROVE  /\ v \in Live /\ Level[v] > 0 => facts[v] # {}
                    /\ v \notin Live => facts[v] = {}
                    /\ facts[v] \subseteq Live \cup Special
  BY DEF FactsWellScoped
<1>1. facts \in Facts /\ Scoped(home, facts, depth)
  BY DEF ScopeOK, ScopeInv, TypeOK
<1>2. v \notin Live => home[v] > depth
  BY DepthsAreNat DEF ScopeOK, Live
<1> QED
  BY <1>1, <1>2 DEF Scoped, Live, Facts, Target

\* Every pointer in scope has a fact and no fact mentions a variable out of
\* scope, after any sequence of statements, branches and new variables
\* (FactMgr::global_facts).
THEOREM WellScoped == Spec => []FactsWellScoped
<1>1. Init => ScopeOK
  BY InitType, ScopeInit DEF ScopeOK
<1>2. ScopeOK /\ [Next]_vars => ScopeOK'
  BY TypeStep, ScopeStep DEF ScopeOK
<1> QED
  BY <1>1, <1>2, ScopeInvImplies, PTL DEF Spec

=============================================================================
