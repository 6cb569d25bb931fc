------------------------ MODULE ExhaustiveEnumeration ------------------------
(* What csmith's exhaustive mode promises: every program of a set, those that
   the choices of the generator make within the depth limit and its depth
   guards, is output exactly once, in the order of the choices, and then the
   search stops. *)
EXTENDS Naturals, Sequences, SequencesExt

VARIABLES
  Programs,  \* the programs there are, each the sequence of its choices
  emitted,   \* the programs output so far
  done

\* p makes a smaller choice than q where they first differ
Before(p, q) ==
  \E i \in 1 .. Len(p) :
    /\ i <= Len(q) /\ p[i] < q[i]
    /\ SubSeq(p, 1, i - 1) = SubSeq(q, 1, i - 1)

Remaining == Programs \ ToSet(emitted)

Init == emitted = <<>> /\ done = FALSE

Emit ==
  /\ ~done
  /\ \E p \in Remaining :
       /\ \A q \in Remaining \ {p} : Before(p, q)
       /\ emitted' = Append(emitted, p)
  /\ UNCHANGED <<Programs, done>>

Finish ==
  /\ ~done /\ Remaining = {}
  /\ done' = TRUE
  /\ UNCHANGED <<Programs, emitted>>

Next == Emit \/ Finish

vars == <<Programs, emitted, done>>

\* what may be output, and when the search may stop
Safety == Init /\ [][Next]_vars

Spec == Safety /\ WF_vars(Next)
=============================================================================
