-------------------------- MODULE MCBlockFixpoint ---------------------------
EXTENDS BlockFixpointInvariant

CONSTANTS p, q, l, obj, tmp

MCInitOf == [v \in {l} |-> {obj}]

MCAssigns ==
  {[k |-> "copy", to |-> p, of |-> q], [k |-> "value", to |-> q, of |-> Null],
   [k |-> "value", to |-> q, of |-> tmp]}

MCNulling == {st \in MCAssigns : st.of # tmp}

MCEntries == {[v \in {p, q} |-> {obj}], [v \in {p, q} |-> IF v = q THEN {obj, Null} ELSE {obj}]}
=============================================================================
