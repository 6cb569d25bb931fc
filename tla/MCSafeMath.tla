----------------------------- MODULE MCSafeMath ------------------------------
EXTENDS SafeMath

\* small widths: two are narrower than int, which holds the products of both, one wider
MCBits == [s \in Size |-> CASE s = "int8" -> 2 [] s = "int16" -> 3
                            [] s = "int32" -> 6 [] s = "int64" -> 7]

MCHalf == [s \in Size |-> 2 ^ (MCBits[s] - 1)]

MCPower(n) == 2 ^ n
=============================================================================
