------------------------------ MODULE Effects -------------------------------
(***************************************************************************)
(* Effect.cpp: what an expression reads and writes, and what that says of  *)
(* variables that share memory with those.  Fields, structs and unions are *)
(* variables of their own, tied by field_var_of; an array and its elements *)
(* are one variable, its collective.  Purity is left out: no decision of   *)
(* the generator reads it.                                                 *)
(***************************************************************************)
EXTENDS Integers

CONSTANTS
  Var,        \* variables
  None,       \* no variable
  FieldOf,    \* Variable::field_var_of
  Unions,     \* the variables of a union type
  Volatile,   \* Variable::is_volatile
  Global      \* Variable::is_global

ASSUME EffectConstantsOK ==
  /\ None \notin Var
  /\ FieldOf \in [Var -> Var \cup {None}]
  /\ Unions \subseteq Var /\ Volatile \subseteq Var /\ Global \subseteq Var

\* no variable is inside itself
ASSUME FieldsNest ==
  \A S \in SUBSET Var : S # {} => \E v \in S : FieldOf[v] \notin S

\* GenerateAllTypes makes the structs before the unions, and make_one_union_field
\* takes no union: a union is nobody's field
ASSUME UnionsOutermost == \A c \in Unions : FieldOf[c] = None

\* Type::is_volatile_struct_union: what has a volatile field is volatile
ASSUME VolatileFields ==
  \A v \in Volatile : FieldOf[v] \in Volatile \cup {None}

Effect == [r : SUBSET Var, w : SUBSET Var, lw : SUBSET Var, sef : BOOLEAN]

EmptyEffect == [r |-> {}, w |-> {}, lw |-> {}, sef |-> TRUE]

----------------------------------------------------------------------------
(* Variables inside variables *)

\* v and all it is a field of
Enclosing[v \in Var] ==
  {v} \cup IF FieldOf[v] = None THEN {} ELSE Enclosing[FieldOf[v]]

\* the same, up to the first union
EnclosingStructs[v \in Var] ==
  {v} \cup IF FieldOf[v] \in {None} \cup Unions THEN {} ELSE EnclosingStructs[FieldOf[v]]

\* the innermost union that v is, or is in
ContainerUnion[v \in Var] ==
  IF v \in Unions THEN v
  ELSE IF FieldOf[v] = None THEN None ELSE ContainerUnion[FieldOf[v]]

FieldsOf(v) == {f \in Var \ {v} : v \in Enclosing[f]}

SameUnion(u, v) == ContainerUnion[u] # None /\ ContainerUnion[u] = ContainerUnion[v]

LooseMatch(u, v) == u \in Enclosing[v] \/ SameUnion(u, v)

----------------------------------------------------------------------------
(* Queries *)

\* reading a struct reads its fields; of a union that is not said
IsRead(e, v)    == EnclosingStructs[v] \cap e.r # {}
IsWritten(e, v) == Enclosing[v] \cap e.w # {}

FieldIsRead(e, v)    == \E f \in FieldsOf(v) : IsRead(e, f)
FieldIsWritten(e, v) == \E f \in FieldsOf(v) : IsWritten(e, f)

SiblingUnionFieldIsRead(e, v)    == \E u \in e.r : SameUnion(u, v)
SiblingUnionFieldIsWritten(e, v) == \E u \in e.w : SameUnion(u, v)

IsReadPartially(e, v) ==
  IsRead(e, v) \/ FieldIsRead(e, v) \/ SiblingUnionFieldIsRead(e, v)

IsWrittenPartially(e, v) ==
  IsWritten(e, v) \/ FieldIsWritten(e, v) \/ SiblingUnionFieldIsWritten(e, v)

----------------------------------------------------------------------------
(* Updates *)

\* Effect::read_var and write_var for each of a set; one that the effect
\* covers by then adds nothing to it
ReadVarSet(e, vs) ==
  [e EXCEPT !.r = @ \cup {v \in vs : ~IsRead(e, v)}, !.sef = @ /\ vs \cap Volatile = {}]

WriteVarSet(e, vs) ==
  [e EXCEPT !.w = @ \cup {v \in vs : ~IsWritten(e, v)}, !.sef = @ /\ vs \cap Volatile = {}]

\* the writes of assignments inside an expression are passed on if asked for
AddEffect(e, f, lhs) ==
  [r   |-> e.r \cup {v \in f.r : ~IsRead(e, v)},
   w   |-> e.w \cup {v \in f.w : ~IsWritten(e, v)},
   lw  |-> IF lhs THEN e.lw \cup f.lw ELSE e.lw,
   sef |-> e.sef /\ f.sef]

\* what of f is seen outside: globals, and the locals of the blocks given
AddExternalEffect(e, f, stack) ==
  AddEffect(e, [f EXCEPT !.r = @ \cap (Global \cup stack), !.w = @ \cap (Global \cup stack)],
            FALSE)

----------------------------------------------------------------------------
(* What the queries stand for: one object inside the other, or two objects *)
(* inside one union, share memory.                                         *)

Overlap(u, v) ==
  \/ u \in Enclosing[v]
  \/ v \in Enclosing[u]
  \/ Enclosing[u] \cap Enclosing[v] \cap Unions # {}

\* Effect::has_race_with, on the memory itself
Clash(S, T) == \E u \in S, v \in T : Overlap(u, v)
=============================================================================
