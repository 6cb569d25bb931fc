--------------------------- MODULE MCLoopControl ---------------------------
(* A signed and an unsigned variable of 5 bits: like a char, they hold the
   parameters of a loop and a step more.  The longer array is long enough
   for steps of two. *)
EXTENDS LoopControl, TLC

CONSTANTS s, u

MCVar    == {s, u}
MCSigned == {s}
MCBits   == s :> 5 @@ u :> 5
=============================================================================
