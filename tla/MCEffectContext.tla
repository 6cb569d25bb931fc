-------------------------- MODULE MCEffectContext --------------------------
(***************************************************************************)
(* A global x that indexes an array a, a union uni with a volatile field sf*)
(* and a plain one sg, a pointer p, a volatile local l of a caller; the    *)
(* function use stores through p, copy copies sg to x and sets p, and read *)
(* reads the union.                                                        *)
(***************************************************************************)
EXTENDS EffectContext

CONSTANTS x, uni, sf, sg, a, p, l, use, copy, read

MCVar     == {x, uni, sf, sg, a, p, l}
MCFieldOf == [v \in MCVar |-> IF v \in {sf, sg} THEN uni ELSE None]
MCIndex   == [v \in {a} |-> x]

MCLeaves ==
  {[k |-> "var", v |-> sf], [k |-> "elem", v |-> a], [k |-> "star", v |-> p],
   [k |-> "addr", v |-> x]}

MCTargets ==
  {[k |-> "var", v |-> x], [k |-> "var", v |-> sg], [k |-> "star", v |-> p],
   [k |-> "var", v |-> p]}

NoSet == [q \in {} |-> {}]
MCBody ==
  use  :> [r |-> {}, w |-> {}, deref |-> {}, store |-> {p}, set |-> NoSet] @@
  copy :> [r |-> {sg}, w |-> {x}, deref |-> {}, store |-> {}, set |-> [q \in {p} |-> {x}]] @@
  read :> [r |-> {uni}, w |-> {}, deref |-> {}, store |-> {}, set |-> NoSet]

Points(v) == [q \in {p} |-> {v}]
MCEntries ==
  {[facts |-> Points(l), ctx |-> EmptyEffect],
   [facts |-> Points(x), ctx |-> [EmptyEffect EXCEPT !.r = {sg}]]}
=============================================================================
