----------------------------- MODULE LoopProofs ------------------------------
(***************************************************************************)
(* Array indices stay in bounds and plain loops do not wrap around, for    *)
(* every nest of loops, every length and every width that can hold the     *)
(* lengths and the numbers that parameters are drawn from.                 *)
(***************************************************************************)
EXTENDS LoopControl, TLAPS

-----------------------------------------------------------------------------
(* Arithmetic *)

LEMMA MaxOfTwo ==
  ASSUME NEW a \in Int, NEW b \in Int
  PROVE  Max({a, b}) = IF a >= b THEN a ELSE b
<1>1. \E x \in {a, b} : \A y \in {a, b} : x >= y
  OBVIOUS
<1>2. Max({a, b}) \in {a, b} /\ Max({a, b}) >= a /\ Max({a, b}) >= b
  BY <1>1 DEF Max
<1> QED
  BY <1>2

LEMMA UpToRange ==
  ASSUME NEW n \in Int
  PROVE  UpTo(n) = 0 .. (IF n >= 1 THEN n - 1 ELSE 0)
<1>1. Max({n - 1, 0}) = IF n - 1 >= 0 THEN n - 1 ELSE 0
  BY MaxOfTwo
<1> QED
  BY <1>1 DEF UpTo

\* The last value below a bound, counted in steps from 0.
LEMMA MultiplesBelow ==
  ASSUME NEW a \in Nat, NEW n \in Nat \ {0}, NEW k \in Nat, k * n <= a
  PROVE  k * n <= (a \div n) * n /\ a \div n \in Nat
<1> DEFINE q == a \div n
           r == a % n
<1>1. q \in Int /\ r \in 0 .. n - 1 /\ a = n * q + r
  OBVIOUS
<1> HIDE DEF q, r
<1>2. q >= 0
  <2> SUFFICES ASSUME q <= -1 PROVE FALSE
    BY <1>1
  <2>1. n * q <= n * (-1)
    BY <1>1
  <2> QED
    BY <1>1, <2>1
<1>3. k <= q
  <2> SUFFICES ASSUME k >= q + 1 PROVE FALSE
    BY <1>1
  <2>1. k * n >= (q + 1) * n
    BY <1>1
  <2>2. (q + 1) * n = n * q + n
    BY <1>1
  <2> QED
    BY <1>1, <2>1, <2>2
<1>4. k * n <= q * n
  BY <1>1, <1>3
<1> QED
  BY <1>1, <1>2, <1>4 DEF q

Half(v) == 2^(Bits[v] - 1)

LEMMA HalfFits ==
  ASSUME NEW v \in Var
  PROVE  /\ Half(v) \in Nat \ {0} /\ 2^Bits[v] = 2 * Half(v)
         /\ \A len \in Lengths : len < Half(v) /\ len + len \div 4 <= Half(v)
BY LengthsFit DEF Half

\* A number that the type of v holds is not changed by the conversion to it.
LEMMA ConvertFits ==
  ASSUME NEW v \in Var, NEW n \in Int, n < Half(v),
         n >= 0 \/ (v \in Signed /\ -Half(v) <= n)
  PROVE  ConvertTo(v, n) = n /\ n \in Values(v)
<1> DEFINE h == Half(v)
           P == 2^Bits[v]
           m == IF n >= 0 THEN n ELSE n + P
<1>1. h \in Nat /\ P = 2 * h /\ h > 0
  <2>1. h \in Nat /\ P = 2 * h
    BY HalfFits
  <2> QED
    BY <2>1
<1>2. ConvertTo(v, n) = IF v \in Signed /\ n % P >= h THEN (n % P) - P ELSE n % P
  BY DEF ConvertTo, Wrap, Half
<1>3. ConvertTo(v, m) = IF v \in Signed /\ m % P >= h THEN (m % P) - P ELSE m % P
  BY DEF ConvertTo, Wrap, Half
<1>4. Values(v) = {ConvertTo(v, i) : i \in 0 .. P - 1}
  BY DEF Values
<1> HIDE DEF h, P
<1>5. m \in 0 .. P - 1
  BY <1>1 DEF h
<1>6. n % P = m /\ m % P = m
  <2>1. \A i \in 0 .. P - 1 : i % P = i
    BY <1>1
  <2>2. \A i \in Int : i < 0 /\ i + P >= 0 => i % P = i + P
    BY <1>1
  <2> QED
    BY <1>1, <1>5, <2>1, <2>2
<1>7. ConvertTo(v, n) = n /\ ConvertTo(v, m) = n
  <2>1. CASE n >= 0
    BY <1>1, <1>2, <1>3, <1>6, <2>1 DEF h
  <2>2. CASE n < 0
    BY <1>1, <1>2, <1>3, <1>6, <2>2 DEF h
  <2> QED
    BY <2>1, <2>2
<1> QED
  BY <1>4, <1>5, <1>7
-----------------------------------------------------------------------------
(* Array loops *)

\* make_random_array_control, counting upwards: limit is the last index
Upward(l) ==
  /\ l.test = "<=" /\ l.init \in Nat /\ l.step \in Nat \ {0} /\ l.limit \in Nat
  /\ l.init <= l.limit /\ l.limit + l.step < Half(l.iv)
  /\ l.bound = LastIndex(l.limit, l.init, l.step)

\* and downwards
Downward(l) ==
  /\ l.iv \in Signed /\ l.test = ">=" /\ l.init \in Nat /\ l.limit \in Nat
  /\ l.step \in Int /\ l.step < 0 /\ l.init < Half(l.iv) /\ l.limit + l.step >= -Half(l.iv)
  /\ l.bound = l.init

\* and the loops of make_random_array_init
Fills(l) ==
  /\ l.test = "<" /\ l.init = 0 /\ l.step = 1 /\ l.limit \in Nat /\ l.limit < Half(l.iv)
  /\ l.bound = l.limit

IsArrayLoop(l) ==
  /\ l.iv \in Var
  /\ \/ l.op = "array" /\ (Upward(l) \/ Downward(l))
     \/ l.op = "fill" /\ Fills(l)

\* and general loops that count by one, make_random_loop_control
Counts(l) ==
  /\ l.iv \in Signed /\ l.test \in Tests
  /\ l.init \in Int /\ -Half(l.iv) < l.init /\ l.init < Half(l.iv)
  /\ l.limit \in Int /\ -Half(l.iv) < l.limit /\ l.limit + 1 < Half(l.iv)
  /\ l.step = IF UnaryDown(l.init, l.limit, l.test) THEN -1 ELSE 1

IsPlainLoop(l) == IsArrayLoop(l) \/ (l.op = "unary" /\ Counts(l))

\* x is a value of the induction variable of an array loop before a test
Reached(l, x) ==
  /\ x \in Int
  /\ l.test = "<=" => \E k \in Nat : x = l.init + k * l.step
  /\ l.test = "<" => x >= l.init
  /\ l.test = ">=" => x <= l.init

\* and in the body
Inside(l, x) == Reached(l, x) /\ Holds(l.test, x, l.limit)

\* the same for a loop that counts: one that is never entered stays where it starts
CountedTo(l, x) ==
  IF l.step = 1
  THEN /\ x \in l.init .. l.limit + 1
       /\ l.test \in {">", ">="} => x = l.init
       /\ l.test = "!=" => x <= l.limit
  ELSE /\ x \in l.limit - 1 .. l.init
       /\ l.test \in {"<", "<=", "=="} => x = l.init
       /\ l.test = "!=" => x >= l.limit

AtTest(l, x) == IF l.op = "unary" THEN CountedTo(l, x) ELSE Reached(l, x)
InBody(l, x) == AtTest(l, x) /\ Holds(l.test, x, l.limit)

\* The parameters drawn for an array of len elements.
LEMMA ArrayControl ==
  ASSUME NEW v \in Var, NEW len \in Lengths, NEW l \in ArrayControls(v, LastOf(len))
  PROVE  l.iv = v /\ l.op = "array" /\ IsArrayLoop(l)
<1> DEFINE b == len - 1
           Up(i, n) == [iv |-> v, init |-> i, limit |-> b, test |-> "<=", op |-> "array",
                        step |-> n, wrapper |-> Raw, bound |-> LastIndex(b, i, n)]
           Down(j, m, n) == [iv |-> v, init |-> b - j, limit |-> m, test |-> ">=", op |-> "array",
                             step |-> -n, wrapper |-> Raw, bound |-> b - j]
<1>1. len \in Nat /\ b \in Nat /\ LastOf(len) = b
  BY LoopConstantsOK DEF LastOf
<1>2. \/ \E i \in UpTo(b \div 2), n \in Steps(b) : l = Up(i, n)
      \/ v \in Signed /\ \E j, m \in UpTo(b \div 2), n \in Steps(b) : l = Down(j, m, n)
  BY <1>1 DEF ArrayControls
<1>3. \A i \in UpTo(b \div 2) : i \in 0 .. b
  <2> DEFINE h == b \div 2
  <2>1. h \in Nat /\ h <= b
    BY <1>1
  <2> HIDE DEF h, b
  <2>2. \A i \in UpTo(h) : i \in 0 .. b
    <3> SUFFICES ASSUME NEW i \in UpTo(h)
                 PROVE  i \in 0 .. b
      OBVIOUS
    <3>1. i = 0 \/ i \in 0 .. h - 1
      BY <2>1, UpToRange
    <3> QED
      BY <1>1, <2>1, <3>1
  <2> QED
    BY <2>2 DEF h
<1>4. \A n \in Steps(b) : n \in Nat \ {0} /\ b + n < Half(v) /\ n <= Half(v)
  <2> SUFFICES ASSUME NEW n \in Steps(b)
               PROVE  n \in Nat \ {0} /\ b + n < Half(v) /\ n <= Half(v)
    OBVIOUS
  <2>1. n \in Nat \ {0} /\ (n = 1 \/ n <= b \div 4)
    BY <1>1, UpToRange DEF Steps
  <2>2. /\ Half(v) \in Nat /\ len < Half(v) /\ len + len \div 4 <= Half(v)
    BY HalfFits
  <2>3. b \div 4 <= len \div 4 /\ b \div 4 \in Nat /\ len \div 4 \in Nat
    BY <1>1
  <2> QED
    BY <1>1, <2>1, <2>2, <2>3
<1>5. Half(v) \in Nat /\ b < Half(v)
  BY <1>1, HalfFits
<1>6. ASSUME NEW i \in UpTo(b \div 2), NEW n \in Steps(b), l = Up(i, n)
      PROVE  l.iv = v /\ l.op = "array" /\ IsArrayLoop(l)
  <2>1. /\ l.iv = v /\ l.init = i /\ l.limit = b /\ l.test = "<=" /\ l.op = "array"
        /\ l.step = n /\ l.bound = LastIndex(b, i, n)
    BY <1>6
  <2>2. i \in Nat /\ i <= b
    BY <1>1, <1>3
  <2> HIDE DEF b, Up
  <2>3. Upward(l)
    BY <1>1, <1>4, <2>1, <2>2 DEF Upward
  <2> QED
    BY <2>1, <2>3 DEF IsArrayLoop
<1>7. ASSUME v \in Signed, NEW j \in UpTo(b \div 2), NEW m \in UpTo(b \div 2), NEW n \in Steps(b),
             l = Down(j, m, n)
      PROVE  l.iv = v /\ l.op = "array" /\ IsArrayLoop(l)
  <2>1. /\ l.iv = v /\ l.init = b - j /\ l.limit = m /\ l.test = ">=" /\ l.op = "array"
        /\ l.step = -n /\ l.bound = b - j
    BY <1>7
  <2>2. j \in 0 .. b /\ m \in 0 .. b
    BY <1>3
  <2> HIDE DEF b, Down
  <2>3. /\ b - j \in Nat /\ b - j < Half(v) /\ m \in Nat
        /\ -n \in Int /\ -n < 0 /\ m + (-n) >= -Half(v)
    BY <1>1, <1>4, <1>5, <2>2
  <2>4. Downward(l)
    BY <1>7, <2>1, <2>3 DEF Downward
  <2> QED
    BY <2>1, <2>4 DEF IsArrayLoop
<1> QED
  BY <1>2, <1>6, <1>7

LEMMA GeneralControl ==
  ASSUME NEW v \in Var, NEW l \in GeneralControls(v)
  PROVE  /\ l.iv = v /\ l.bound = Invalid /\ l.op \in {"compound", "unary"}
         /\ l.init \in Int /\ l.step \in Int /\ l.wrapper \in Wrappers \cup {Raw}
         /\ l.op = "compound" => l.wrapper \in Wrappers
         /\ Plain(l) => IsPlainLoop(l)
<1> DEFINE H == Span \div 2
           Inits == {0} \cup (-H .. H - 1)
           Limits == IF v \in Signed THEN -H .. H - 1 ELSE 1 .. Span
           Compound(i, m, t, n, w) ==
             [iv |-> v, init |-> i, limit |-> m, test |-> t, op |-> "compound",
              step |-> IF m >= i THEN n ELSE -n, wrapper |-> w, bound |-> Invalid]
           Unary(i, m, t) ==
             [iv |-> v, init |-> i, limit |-> m, test |-> t, op |-> "unary",
              step |-> IF UnaryDown(i, m, t) THEN -1 ELSE 1, wrapper |-> Raw, bound |-> Invalid]
<1>1. \/ \E i \in Inits, m \in Limits, t \in Tests, n \in 1 .. MaxIncr, w \in Wrappers :
           l = Compound(i, m, t, n, w)
      \/ \E i \in Inits, m \in Limits, t \in Tests : l = Unary(i, m, t)
  BY DEF GeneralControls
<1>2. H \in Nat /\ Span \in Nat /\ Inits \subseteq Int /\ MaxIncr \in Nat
  BY LoopConstantsOK
<1>3. ASSUME NEW i \in Inits, NEW m \in Limits, NEW t \in Tests, NEW n \in 1 .. MaxIncr,
             NEW w \in Wrappers, l = Compound(i, m, t, n, w)
      PROVE  /\ l.iv = v /\ l.bound = Invalid /\ l.op = "compound"
             /\ l.init \in Int /\ l.step \in Int /\ l.wrapper \in Wrappers
  BY <1>2, <1>3
<1>4. ASSUME NEW i \in Inits, NEW m \in Limits, NEW t \in Tests, l = Unary(i, m, t)
      PROVE  /\ l.iv = v /\ l.bound = Invalid /\ l.op = "unary"
             /\ l.init \in Int /\ l.step \in Int /\ l.wrapper = Raw
             /\ v \in Signed => Counts(l)
  <2>1. /\ l.iv = v /\ l.bound = Invalid /\ l.op = "unary" /\ l.init = i /\ l.limit = m
        /\ l.test = t /\ l.step = (IF UnaryDown(i, m, t) THEN -1 ELSE 1) /\ l.wrapper = Raw
    BY <1>4
  <2>2. ASSUME v \in Signed
        PROVE  /\ -Half(v) < i /\ i < Half(v) /\ m \in Int /\ -Half(v) < m /\ m + 1 < Half(v)
    <3>1. H < Half(v) /\ Half(v) \in Nat
      BY <2>2, SpanFits, HalfFits DEF Half
    <3>2. m \in -H .. H - 1
      BY <2>2
    <3> HIDE DEF H
    <3> QED
      BY <1>2, <3>1, <3>2
  <2> QED
    BY <1>2, <2>1, <2>2 DEF Counts
<1> QED
  BY <1>1, <1>3, <1>4 DEF Plain, IsPlainLoop

LEMMA FillControlOK ==
  ASSUME NEW v \in Var, NEW len \in Lengths
  PROVE  LET l == FillControl(v, len)
         IN  l.iv = v /\ l.bound # Invalid /\ IsArrayLoop(l)
<1>1. len \in Nat /\ len < Half(v)
  BY LoopConstantsOK, HalfFits
<1> QED
  BY <1>1 DEF FillControl, IsArrayLoop, Fills, Invalid

\* A loop that fills an array stays below its length.
LEMMA FillsInside ==
  ASSUME NEW l, Fills(l), NEW x, Inside(l, x)
  PROVE  x \in 0 .. l.limit - 1
BY DEF Fills, Inside, Reached, Holds

\* In its body the induction variable indexes no element behind the bound.
LEMMA InsideIsIndex ==
  ASSUME NEW l, IsArrayLoop(l), NEW x, Inside(l, x)
  PROVE  x \in 0 .. l.bound
<1>1. CASE Upward(l)
  <2>1. /\ l.init \in Nat /\ l.step \in Nat \ {0} /\ l.limit \in Nat /\ l.init <= l.limit
        /\ l.bound = ((l.limit - l.init) \div l.step) * l.step + l.init /\ l.test = "<="
    BY <1>1 DEF Upward, LastIndex
  <2>2. PICK k \in Nat : x = l.init + k * l.step
    BY <2>1 DEF Inside, Reached
  <2>3. x \in Int /\ x <= l.limit
    BY <2>1 DEF Inside, Reached, Holds
  <2>4. k * l.step \in Nat
    BY <2>1
  <2>5. l.limit - l.init \in Nat /\ k * l.step <= l.limit - l.init
    BY <2>1, <2>2, <2>3, <2>4
  <2>6. /\ k * l.step <= ((l.limit - l.init) \div l.step) * l.step
        /\ (l.limit - l.init) \div l.step \in Nat
    BY <2>1, <2>5, MultiplesBelow
  <2>7. ((l.limit - l.init) \div l.step) * l.step \in Nat
    BY <2>1, <2>6
  <2> QED
    BY <2>1, <2>2, <2>4, <2>6, <2>7
<1>2. CASE Downward(l)
  BY <1>2 DEF Downward, Inside, Reached, Holds
<1>3. CASE Fills(l)
  <2>1. x \in 0 .. l.limit - 1
    BY <1>3, FillsInside
  <2> QED
    BY <1>3, <2>1 DEF Fills
<1> QED
  BY <1>1, <1>2, <1>3 DEF IsArrayLoop

\* The first value and the next one, as the program computes them.
LEMMA FirstValueOfArrayLoop ==
  ASSUME NEW l, IsArrayLoop(l)
  PROVE  ConvertTo(l.iv, l.init) = l.init /\ Reached(l, l.init)
<1>1. l.iv \in Var /\ l.init \in Nat /\ l.init < Half(l.iv)
  <2>1. CASE Upward(l)
    BY <2>1, HalfFits DEF IsArrayLoop, Upward
  <2>2. CASE Downward(l)
    BY <2>2 DEF IsArrayLoop, Downward
  <2>3. CASE Fills(l)
    <3>1. Half(l.iv) \in Nat /\ l.init = 0 /\ l.limit \in Nat /\ l.limit < Half(l.iv)
      BY <2>3, HalfFits DEF IsArrayLoop, Fills
    <3> QED
      BY <3>1 DEF IsArrayLoop
  <2> QED
    BY <2>1, <2>2, <2>3 DEF IsArrayLoop
<1>2. ConvertTo(l.iv, l.init) = l.init
  BY <1>1, ConvertFits
<1>3. l.test = "<=" => l.step \in Int
  BY DEF IsArrayLoop, Upward, Downward, Fills
<1>4. l.test = "<=" => l.init = l.init + 0 * l.step
  BY <1>1, <1>3
<1> QED
  BY <1>1, <1>2, <1>4 DEF Reached

LEMMA NextValueOfArrayLoop ==
  ASSUME NEW l, IsArrayLoop(l), NEW x, Inside(l, x), NEW n \in Updated(l.iv, x, l)
  PROVE  n = x + l.step /\ Reached(l, n)
<1>1. /\ x \in Int /\ l.step \in Int /\ l.iv \in Var /\ l.op # "compound"
  BY DEF IsArrayLoop, Upward, Downward, Fills, Inside, Reached
<1>2. /\ x + l.step < Half(l.iv)
      /\ x + l.step >= 0 \/ (l.iv \in Signed /\ -Half(l.iv) <= x + l.step)
  <2>1. CASE Upward(l)
    <3>1. x >= 0 /\ x <= l.limit
      <4>1. x \in 0 .. l.bound
        BY InsideIsIndex
      <4>2. x <= l.limit
        BY <2>1 DEF Upward, Inside, Holds
      <4> QED
        BY <1>1, <4>1, <4>2, <2>1 DEF Upward
    <3> QED
      BY <1>1, <2>1, <3>1, HalfFits DEF Upward
  <2>2. CASE Downward(l)
    <3>1. x <= l.init /\ x >= l.limit
      BY <2>2 DEF Downward, Inside, Reached, Holds
    <3> QED
      BY <1>1, <2>2, <3>1, HalfFits DEF Downward
  <2>3. CASE Fills(l)
    <3>1. x \in 0 .. l.limit - 1
      BY <2>3, FillsInside
    <3> QED
      BY <1>1, <2>3, <3>1, HalfFits DEF Fills
  <2> QED
    BY <2>1, <2>2, <2>3 DEF IsArrayLoop
<1>3. ConvertTo(l.iv, x + l.step) = x + l.step /\ x + l.step \in Values(l.iv)
  BY <1>1, <1>2, ConvertFits
<1>4. n = x + l.step
  BY <1>1, <1>3 DEF Updated
<1>5. CASE Upward(l)
  <2>1. PICK k \in Nat : x = l.init + k * l.step
    BY <1>5 DEF Upward, Inside, Reached
  <2>2. l.init \in Int /\ (k + 1) * l.step = k * l.step + l.step /\ k * l.step \in Int
    BY <1>1, <1>5 DEF Upward
  <2>3. n = l.init + (k + 1) * l.step
    BY <1>1, <1>4, <2>1, <2>2
  <2> QED
    BY <1>1, <1>4, <1>5, <2>3 DEF Reached, Upward
<1>6. CASE Downward(l)
  BY <1>1, <1>4, <1>6 DEF Downward, Inside, Reached
<1>7. CASE Fills(l)
  BY <1>1, <1>4, <1>7 DEF Fills, Inside, Reached
<1> QED
  BY <1>4, <1>5, <1>6, <1>7 DEF IsArrayLoop

\* A loop that counts by one meets its limit before its type ends.
LEMMA CountedNext ==
  ASSUME NEW l, Counts(l), NEW x, CountedTo(l, x), Holds(l.test, x, l.limit)
  PROVE  /\ CountedTo(l, x + l.step)
         /\ x \in Int /\ x + l.step < Half(l.iv) /\ -Half(l.iv) <= x + l.step
<1>1. /\ l.init \in Int /\ l.limit \in Int /\ Half(l.iv) \in Nat /\ l.test \in Tests
      /\ -Half(l.iv) < l.init /\ l.init < Half(l.iv)
      /\ -Half(l.iv) < l.limit /\ l.limit + 1 < Half(l.iv)
  BY HalfFits, LoopConstantsOK DEF Counts
<1>0. /\ l.test = "<"  => x < l.limit
      /\ l.test = "<=" => x <= l.limit
      /\ l.test = ">"  => x > l.limit
      /\ l.test = ">=" => x >= l.limit
      /\ l.test = "==" => x = l.limit
      /\ l.test = "!=" => x # l.limit
  BY DEF Holds
<1>2. CASE UnaryDown(l.init, l.limit, l.test)
  <2>1. l.step = -1 /\ (l.limit < l.init \/ (l.limit = l.init /\ l.test = ">="))
    BY <1>2 DEF Counts, UnaryDown
  <2>2. /\ x \in l.limit - 1 .. l.init
        /\ l.test \in {"<", "<=", "=="} => x = l.init
        /\ l.test = "!=" => x >= l.limit
    BY <2>1 DEF CountedTo
  <2>3. l.test \in {">", ">=", "!="} /\ x >= l.limit /\ (l.test # ">=" => x > l.limit)
    BY <1>0, <1>1, <2>1, <2>2 DEF Tests
  <2> QED
    BY <1>1, <2>1, <2>2, <2>3 DEF CountedTo
<1>3. CASE ~UnaryDown(l.init, l.limit, l.test)
  <2>1. l.step = 1 /\ l.init <= l.limit /\ ~(l.init = l.limit /\ l.test = ">=")
    BY <1>1, <1>3 DEF Counts, UnaryDown
  <2>2. /\ x \in l.init .. l.limit + 1
        /\ l.test \in {">", ">="} => x = l.init
        /\ l.test = "!=" => x <= l.limit
    BY <2>1 DEF CountedTo
  <2>3. /\ l.test \in {"<", "<=", "==", "!="} /\ x <= l.limit
        /\ l.test \in {"<", "!="} => x < l.limit
    BY <1>0, <1>1, <2>1, <2>2 DEF Tests
  <2> QED
    BY <1>1, <2>1, <2>2, <2>3 DEF CountedTo
<1> QED
  BY <1>2, <1>3

LEMMA FirstValue ==
  ASSUME NEW l, IsPlainLoop(l)
  PROVE  AtTest(l, ConvertTo(l.iv, l.init))
<1>1. CASE IsArrayLoop(l)
  <2>1. l.op # "unary"
    BY <1>1 DEF IsArrayLoop
  <2> QED
    BY <1>1, <2>1, FirstValueOfArrayLoop DEF AtTest
<1>2. CASE l.op = "unary" /\ Counts(l)
  <2>1. ConvertTo(l.iv, l.init) = l.init
    <3>1. l.iv \in Var /\ l.iv \in Signed /\ -Half(l.iv) <= l.init
      BY <1>2, LoopConstantsOK, HalfFits DEF Counts
    <3> QED
      BY <1>2, <3>1, ConvertFits DEF Counts
  <2>2. CountedTo(l, l.init)
    BY <1>2 DEF Counts, CountedTo, UnaryDown
  <2> QED
    BY <1>2, <2>1, <2>2 DEF AtTest
<1> QED
  BY <1>1, <1>2 DEF IsPlainLoop

LEMMA NextValue ==
  ASSUME NEW l, IsPlainLoop(l), NEW x, InBody(l, x), NEW n \in Updated(l.iv, x, l)
  PROVE  n = x + l.step /\ AtTest(l, n)
<1>1. CASE IsArrayLoop(l)
  <2>1. l.op # "unary"
    BY <1>1 DEF IsArrayLoop
  <2>2. Inside(l, x)
    BY <2>1 DEF InBody, AtTest, Inside
  <2> QED
    BY <1>1, <2>1, <2>2, NextValueOfArrayLoop DEF AtTest
<1>2. CASE l.op = "unary" /\ Counts(l)
  <2>1. /\ CountedTo(l, x + l.step)
        /\ x \in Int /\ x + l.step < Half(l.iv) /\ -Half(l.iv) <= x + l.step
    BY <1>2, CountedNext DEF InBody, AtTest
  <2>2. l.iv \in Var /\ l.iv \in Signed /\ l.step \in Int
    BY <1>2, LoopConstantsOK DEF Counts
  <2>3. ConvertTo(l.iv, x + l.step) = x + l.step /\ x + l.step \in Values(l.iv)
    BY <2>1, <2>2, ConvertFits
  <2>4. n = x + l.step
    BY <1>2, <2>3 DEF Updated
  <2> QED
    BY <1>2, <2>1, <2>4 DEF AtTest
<1> QED
  BY <1>1, <1>2 DEF IsPlainLoop

-----------------------------------------------------------------------------
(* The invariant *)

\* the loops that were generated
NestOK ==
  /\ nest \in 0 .. MaxNest /\ DOMAIN loop = Depths
  /\ \A d \in 1 .. nest :
       /\ loop[d].iv \in Var
       /\ Plain(loop[d]) => IsPlainLoop(loop[d])
       /\ loop[d].bound # Invalid => loop[d].op \in {"array", "fill"}
       /\ loop[d].op = "fill" => loop[d].bound # Invalid
  /\ \A d, e \in 1 .. nest : loop[d].iv = loop[e].iv => d = e

\* the values of the induction variables of loops that run
ValuesOK ==
  /\ DOMAIN val = Var
  /\ pc \in {"init", "test", "body", "update"}
  /\ phase = "generate" => at = 0 /\ pc = "init"
  /\ phase = "run" => at \in 1 .. nest
  /\ phase = "run" => \A e \in 1 .. at :
       Plain(loop[e]) =>
         /\ e < at \/ pc \in {"body", "update"} => InBody(loop[e], val[loop[e].iv])
         /\ e = at /\ pc = "test" => AtTest(loop[e], val[loop[e].iv])

LoopInv == NestOK /\ ValuesOK

LEMMA LoopInit == Init => LoopInv
BY LoopConstantsOK DEF Init, LoopInv, NestOK, ValuesOK, Depths

LEMMA NestedOK ==
  ASSUME LoopInv, phase = "generate", Generating, NEW l, Nested(l), nest < MaxNest,
         l.iv \in Var, l.iv \notin Nonwritable(nest), Plain(l) => IsPlainLoop(l),
         l.bound # Invalid => l.op \in {"array", "fill"},
         l.op = "fill" => l.bound # Invalid
  PROVE  LoopInv'
<1>1. nest' = nest + 1 /\ nest \in Nat /\ MaxNest \in Nat /\ nest + 1 \in Depths
  BY LoopConstantsOK DEF Nested, LoopInv, NestOK, Depths
<1>2. DOMAIN loop' = Depths /\ \A d \in 1 .. nest + 1 : loop'[d] = IF d = nest + 1 THEN l ELSE loop[d]
  BY <1>1 DEF Nested, LoopInv, NestOK, Depths
<1>3. \A d \in 1 .. nest : loop[d].iv # l.iv
  BY DEF Nonwritable, IVs
<1>4. NestOK'
  <2>1. \A d \in 1 .. nest + 1 :
          /\ loop'[d].iv \in Var
          /\ Plain(loop'[d]) => IsPlainLoop(loop'[d])
          /\ loop'[d].bound # Invalid => loop'[d].op \in {"array", "fill"}
          /\ loop'[d].op = "fill" => loop'[d].bound # Invalid
    BY <1>1, <1>2 DEF LoopInv, NestOK
  <2>2. \A d, e \in 1 .. nest + 1 : loop'[d].iv = loop'[e].iv => d = e
    BY <1>1, <1>2, <1>3 DEF LoopInv, NestOK
  <2>3. nest + 1 \in 0 .. MaxNest
    BY <1>1 DEF Depths
  <2> QED
    BY <1>1, <1>2, <2>1, <2>2, <2>3 DEF NestOK
<1>5. ValuesOK'
  BY DEF LoopInv, ValuesOK, Generating, runVars
<1> QED
  BY <1>4, <1>5 DEF LoopInv

LEMMA GenerateOK ==
  ASSUME LoopInv, NEW v \in Var,
         \/ \E m \in Lengths : ArrayLoop(v, m)
         \/ GeneralLoop(v)
         \/ \E len \in Lengths : FillLoop(v, len)
  PROVE  LoopInv'
<1>0. MaxNest \in Nat /\ MixedNest \in 0 .. MaxNest /\ nest \in Nat
  BY LoopConstantsOK DEF LoopInv, NestOK
<1>1. ASSUME NEW m \in Lengths, ArrayLoop(v, m)
      PROVE  LoopInv'
  <2>1. PICK l \in ArrayControls(v, LastOf(m)) : Nested(l)
    BY <1>1 DEF ArrayLoop
  <2>2. l.iv = v /\ l.op = "array" /\ IsPlainLoop(l)
    BY ArrayControl DEF IsPlainLoop
  <2>3. nest < MaxNest
    BY <1>0, <1>1 DEF ArrayLoop
  <2> QED
    BY <1>1, <2>1, <2>2, <2>3, NestedOK DEF ArrayLoop, CtrlVars, Generating
<1>2. CASE GeneralLoop(v)
  <2>1. PICK l \in GeneralControls(v) : Nested(l)
    BY <1>2 DEF GeneralLoop
  <2>2. /\ l.iv = v /\ l.bound = Invalid /\ l.op \in {"compound", "unary"}
        /\ Plain(l) => IsPlainLoop(l)
    BY GeneralControl
  <2>3. nest < MaxNest
    BY <1>0, <1>2 DEF GeneralLoop
  <2> QED
    BY <1>2, <2>1, <2>2, <2>3, NestedOK DEF GeneralLoop, CtrlVars, Generating
<1>3. ASSUME NEW len \in Lengths, FillLoop(v, len)
      PROVE  LoopInv'
  <2> DEFINE l == FillControl(v, len)
  <2>1. l.iv = v /\ l.bound # Invalid /\ l.op = "fill" /\ IsPlainLoop(l)
    BY FillControlOK DEF IsPlainLoop, FillControl
  <2>2. nest < MaxNest
    BY <1>0, <1>3 DEF FillLoop
  <2>3. Nested(l) /\ Generating /\ v \notin Nonwritable(nest)
    BY <1>3 DEF FillLoop, CtrlVars
  <2> HIDE DEF l
  <2> QED
    BY <2>1, <2>2, <2>3, NestedOK DEF Generating
<1> QED
  BY <1>1, <1>2, <1>3

LEMMA FinishOK ==
  ASSUME LoopInv, Finish
  PROVE  LoopInv'
<1>1. /\ phase' = "run" /\ at' = 1 /\ pc' = "init" /\ 1 \in 1 .. nest
      /\ UNCHANGED <<nest, loop, val>>
  BY DEF Finish, LoopInv, NestOK, ValuesOK, genVars
<1>2. NestOK'
  BY <1>1 DEF LoopInv, NestOK
<1>3. ValuesOK'
  BY <1>1 DEF LoopInv, ValuesOK
<1> QED
  BY <1>2, <1>3 DEF LoopInv

\* While the nest runs its loops stay as they are.
LEMMA RunningNest ==
  ASSUME LoopInv, NEW part, Running(part)
  PROVE  /\ NestOK' /\ UNCHANGED <<nest, loop>> /\ phase = "run" /\ pc = part
         /\ at \in 1 .. nest /\ nest \in Nat
BY DEF Running, genVars, LoopInv, NestOK, ValuesOK

LEMMA InitIVOK ==
  ASSUME LoopInv, InitIV
  PROVE  LoopInv'
<1>1. /\ NestOK' /\ UNCHANGED <<nest, loop, phase, at>> /\ phase = "run"
      /\ at \in 1 .. nest /\ nest \in Nat /\ pc = "init" /\ pc' = "test"
      /\ val' = [val EXCEPT ![iv] = ConvertTo(iv, loop[at].init)]
  BY RunningNest DEF InitIV
<1>2. /\ \A e \in 1 .. at : e # at => val'[loop[e].iv] = val[loop[e].iv]
      /\ val'[loop[at].iv] = ConvertTo(loop[at].iv, loop[at].init) /\ DOMAIN val' = Var
  BY <1>1 DEF LoopInv, NestOK, ValuesOK, iv
<1>3. ASSUME NEW e \in 1 .. at, Plain(loop[e])
      PROVE  /\ e < at => InBody(loop[e], val'[loop[e].iv])
             /\ e = at => AtTest(loop[e], val'[loop[e].iv])
  <2>1. CASE e = at
    BY <1>1, <1>2, <1>3, <2>1, FirstValue DEF LoopInv, NestOK
  <2>2. CASE e # at
    BY <1>1, <1>2, <1>3, <2>2 DEF LoopInv, ValuesOK
  <2> QED
    BY <1>1, <2>1, <2>2
<1> QED
  BY <1>1, <1>2, <1>3 DEF LoopInv, ValuesOK

LEMMA EnterBodyOK ==
  ASSUME LoopInv, EnterBody
  PROVE  LoopInv'
<1>1. /\ NestOK' /\ UNCHANGED <<nest, loop, phase, at, val>> /\ phase = "run"
      /\ at \in 1 .. nest /\ nest \in Nat /\ pc = "test" /\ pc' = "body" /\ TestHolds
  BY RunningNest DEF EnterBody
<1>2. ASSUME NEW e \in 1 .. at, Plain(loop[e])
      PROVE  InBody(loop[e], val[loop[e].iv])
  <2>1. CASE e = at
    BY <1>1, <1>2, <2>1 DEF LoopInv, ValuesOK, InBody, TestHolds, iv
  <2>2. CASE e # at
    BY <1>1, <1>2, <2>2 DEF LoopInv, ValuesOK
  <2> QED
    BY <2>1, <2>2
<1> QED
  BY <1>1, <1>2 DEF LoopInv, ValuesOK

LEMMA LeaveLoopOK ==
  ASSUME LoopInv, LeaveLoop
  PROVE  LoopInv'
<1>1. /\ NestOK' /\ UNCHANGED <<nest, loop, val>> /\ phase = "run" /\ pc = "test"
      /\ at \in 1 .. nest /\ nest \in Nat
      /\ IF at = 1 THEN phase' = "end" /\ UNCHANGED <<at, pc>>
                   ELSE at' = at - 1 /\ pc' = "update" /\ UNCHANGED phase
  BY RunningNest DEF LeaveLoop
<1>2. CASE at = 1
  BY <1>1, <1>2 DEF LoopInv, ValuesOK
<1>3. CASE at # 1
  <2>1. at - 1 \in 1 .. nest /\ at' = at - 1 /\ pc' = "update" /\ phase' = "run"
    BY <1>1, <1>3
  <2>2. \A e \in 1 .. at - 1 : e \in 1 .. at /\ e < at
    BY <1>1
  <2>3. \A e \in 1 .. at - 1 : Plain(loop[e]) => InBody(loop[e], val[loop[e].iv])
    BY <1>1, <2>2 DEF LoopInv, ValuesOK
  <2> QED
    BY <1>1, <2>1, <2>2, <2>3 DEF LoopInv, ValuesOK
<1> QED
  BY <1>2, <1>3

\* A body writes no induction variable of a loop around it.
LEMMA RunBodyOK ==
  ASSUME LoopInv, RunBody
  PROVE  LoopInv'
<1>1. /\ NestOK' /\ UNCHANGED <<nest, loop, phase>> /\ phase = "run" /\ pc = "body"
      /\ at \in 1 .. nest /\ nest \in Nat
      /\ IF at < nest THEN at' = at + 1 /\ pc' = "init" ELSE pc' = "update" /\ UNCHANGED at
  BY RunningNest DEF RunBody
<1>2. /\ DOMAIN val' = Var
      /\ \A e \in 1 .. at : val'[loop[e].iv] = val[loop[e].iv]
  <2>1. CASE UNCHANGED val
    BY <2>1 DEF LoopInv, ValuesOK
  <2>2. ASSUME NEW v \in Writable(at), NEW n, val' = [val EXCEPT ![v] = n]
        PROVE  DOMAIN val' = Var /\ \A e \in 1 .. at : val'[loop[e].iv] = val[loop[e].iv]
    <3>1. \A e \in 1 .. at : loop[e].iv # v
      BY DEF Writable, Nonwritable, IVs
    <3>2. \A e \in 1 .. at : loop[e].iv \in Var
      BY <1>1 DEF LoopInv, NestOK
    <3> QED
      BY <2>2, <3>1, <3>2 DEF LoopInv, ValuesOK
  <2> QED
    BY <2>1, <2>2 DEF RunBody
<1>3. \A e \in 1 .. at : Plain(loop[e]) => InBody(loop[e], val'[loop[e].iv])
  BY <1>1, <1>2 DEF LoopInv, ValuesOK
<1>4. CASE at < nest
  <2>1. \A e \in 1 .. at + 1 : e < at + 1 => e \in 1 .. at
    BY <1>1
  <2>2. at' = at + 1 /\ pc' = "init" /\ at + 1 \in 1 .. nest
    BY <1>1, <1>4
  <2> QED
    BY <1>1, <1>2, <1>3, <2>1, <2>2 DEF LoopInv, ValuesOK
<1>5. CASE ~(at < nest)
  BY <1>1, <1>2, <1>3, <1>5 DEF LoopInv, ValuesOK
<1> QED
  BY <1>4, <1>5

LEMMA UpdateOK ==
  ASSUME LoopInv, Update
  PROVE  LoopInv'
<1>1. /\ NestOK' /\ UNCHANGED <<nest, loop, phase, at>> /\ phase = "run" /\ pc = "update"
      /\ at \in 1 .. nest /\ nest \in Nat /\ pc' = "test"
  BY RunningNest DEF Update
<1>2. PICK n \in Updated(iv, val[iv], loop[at]) : val' = [val EXCEPT ![iv] = n]
  BY DEF Update
<1>3. /\ \A e \in 1 .. at : e # at => val'[loop[e].iv] = val[loop[e].iv]
      /\ val'[loop[at].iv] = n /\ DOMAIN val' = Var
  BY <1>1, <1>2 DEF LoopInv, NestOK, ValuesOK, iv
<1>4. ASSUME NEW e \in 1 .. at, Plain(loop[e])
      PROVE  /\ e < at => InBody(loop[e], val'[loop[e].iv])
             /\ e = at => AtTest(loop[e], val'[loop[e].iv])
  <2>1. CASE e = at
    <3>1. IsPlainLoop(loop[at]) /\ InBody(loop[at], val[loop[at].iv])
      BY <1>1, <1>4, <2>1 DEF LoopInv, NestOK, ValuesOK
    <3>2. AtTest(loop[at], n)
      BY <1>2, <3>1, NextValue DEF iv
    <3> QED
      BY <1>1, <1>3, <2>1, <3>2
  <2>2. CASE e # at
    BY <1>1, <1>3, <1>4, <2>2 DEF LoopInv, ValuesOK
  <2> QED
    BY <2>1, <2>2
<1> QED
  BY <1>1, <1>3, <1>4 DEF LoopInv, ValuesOK

LEMMA LoopStep ==
  ASSUME LoopInv, [Next]_vars
  PROVE  LoopInv'
<1>1. CASE UNCHANGED vars
  BY <1>1 DEF vars, genVars, runVars, LoopInv, NestOK, ValuesOK
<1> QED
  BY <1>1, GenerateOK, FinishOK, InitIVOK, EnterBodyOK, LeaveLoopOK, RunBodyOK, UpdateOK DEF Next

\* A loop whose variable can index is an array loop.
LEMMA BoundedLoop ==
  ASSUME LoopInv, phase = "run", pc = "body", NEW e \in 1 .. at, loop[e].bound # Invalid
  PROVE  IsArrayLoop(loop[e]) /\ Inside(loop[e], val[loop[e].iv])
<1>1. e \in 1 .. nest /\ loop[e].op \in {"array", "fill"}
  BY DEF LoopInv, NestOK, ValuesOK
<1>2. Plain(loop[e]) /\ loop[e].op # "unary"
  BY <1>1 DEF Plain
<1>3. IsPlainLoop(loop[e]) /\ InBody(loop[e], val[loop[e].iv])
  BY <1>1, <1>2 DEF LoopInv, NestOK, ValuesOK
<1> QED
  BY <1>2, <1>3 DEF IsPlainLoop, InBody, AtTest, Inside

LEMMA ItemizedInBounds ==
  ASSUME LoopInv, phase = "run", pc = "body", NEW a \in Itemized(at)
  PROVE  val[a.iv] + a.offset \in 0 .. a.len - 1
<1>1. PICK e \in 1 .. at : a \in UNION {{[iv |-> loop[e].iv, offset |-> o, len |-> len]
                                       : o \in UpTo(len - loop[e].bound)}
                     : len \in {n \in Lengths : IndexFits(loop[e].bound, n)}}
  BY DEF Itemized
<1>2. PICK len \in Lengths :
        /\ IndexFits(loop[e].bound, len)
        /\ \E o \in UpTo(len - loop[e].bound) :
             a = [iv |-> loop[e].iv, offset |-> o, len |-> len]
  BY <1>1
<1>3. at \in 1 .. nest /\ nest \in Nat /\ e \in 1 .. nest /\ len \in Nat
  BY LoopConstantsOK DEF LoopInv, NestOK, ValuesOK
<1>4. loop[e].bound # Invalid /\ loop[e].bound < len
  BY <1>2 DEF IndexFits
<1>5. val[loop[e].iv] \in 0 .. loop[e].bound
  <2>1. IsArrayLoop(loop[e]) /\ Inside(loop[e], val[loop[e].iv])
    BY <1>4, BoundedLoop
  <2> QED
    BY <2>1, InsideIsIndex
<1>6. loop[e].bound \in Int
  <2>1. IsArrayLoop(loop[e])
    BY <1>4, BoundedLoop
  <2> QED
    BY <2>1 DEF IsArrayLoop, Upward, Downward, LastIndex, Fills
<1>7. UpTo(len - loop[e].bound) = 0 .. len - loop[e].bound - 1
  BY <1>3, <1>4, <1>6, UpToRange
<1>8. PICK o \in UpTo(len - loop[e].bound) : a = [iv |-> loop[e].iv, offset |-> o, len |-> len]
  BY <1>2
<1>9. a.iv = loop[e].iv /\ a.len = len /\ a.offset = o
  BY <1>8
<1>10. o \in 0 .. len - loop[e].bound - 1
  BY <1>7, <1>8
<1> QED
  BY <1>3, <1>5, <1>6, <1>9, <1>10

LEMMA FilledInBounds ==
  ASSUME LoopInv, phase = "run", pc = "body", NEW a \in Filled(at)
  PROVE  val[a.iv] + a.offset \in 0 .. a.len - 1
<1>1. PICK e \in 1 .. at :
        loop[e].op = "fill" /\ a = [iv |-> loop[e].iv, offset |-> 0, len |-> loop[e].limit]
  BY DEF Filled
<1>2. a.iv = loop[e].iv /\ a.offset = 0 /\ a.len = loop[e].limit
  BY <1>1
<1>3. e \in 1 .. nest /\ loop[e].bound # Invalid
  BY <1>1 DEF LoopInv, NestOK, ValuesOK
<1>4. IsArrayLoop(loop[e]) /\ Inside(loop[e], val[loop[e].iv])
  BY <1>3, BoundedLoop
<1>5. Fills(loop[e])
  BY <1>1, <1>4 DEF IsArrayLoop
<1>6. val[loop[e].iv] \in 0 .. loop[e].limit - 1 /\ loop[e].limit \in Nat
  BY <1>4, <1>5, FillsInside DEF Fills
<1> QED
  BY <1>2, <1>6

LEMMA AccessInBounds ==
  ASSUME LoopInv
  PROVE  IndexInBounds
BY ItemizedInBounds, FilledInBounds DEF IndexInBounds, Accesses

\* No body of a loop accesses an element that does not exist: what itemize_array
\* draws fits what make_random_array_control returned, in nests of any depth, for
\* all lengths the types can hold.
THEOREM IndicesInBounds == Spec => []IndexInBounds
<1>1. Init => LoopInv
  BY LoopInit
<1>2. LoopInv /\ [Next]_vars => LoopInv'
  BY LoopStep
<1> QED
  BY <1>1, <1>2, AccessInBounds, PTL DEF Spec

-----------------------------------------------------------------------------
(* Types, and the loops that do not wrap around *)

LEMMA ConvertTyped ==
  ASSUME NEW v \in Var, NEW n \in Int
  PROVE  ConvertTo(v, n) \in Values(v)
<1> DEFINE P == 2^Bits[v]
<1>1. P \in Nat \ {0}
  BY HalfFits
<1>2. /\ Values(v) = {ConvertTo(v, i) : i \in 0 .. P - 1}
      /\ \A i : ConvertTo(v, i) = IF v \in Signed /\ i % P >= Half(v) THEN (i % P) - P ELSE i % P
  BY DEF Values, ConvertTo, Wrap, Half
<1> HIDE DEF P
<1>3. n % P \in 0 .. P - 1
  BY <1>1
<1>4. \A i \in 0 .. P - 1 : i % P = i
  BY <1>1
<1>5. ConvertTo(v, n % P) = ConvertTo(v, n)
  BY <1>2, <1>3, <1>4
<1> QED
  BY <1>2, <1>3, <1>5

\* What a body writes is of the type of the variable.
LEMMA WrittenTyped ==
  ASSUME NEW v \in Var
  PROVE  Written(v) \subseteq Values(v)
<1> DEFINE h == Half(v)
           P == 2^Bits[v]
           M == IF v \in Signed THEN h - 1 ELSE P - 1
<1>1. h \in Nat \ {0} /\ P = 2 * h
  BY HalfFits
<1>2. /\ Values(v) = {ConvertTo(v, i) : i \in 0 .. P - 1}
      /\ \A i : ConvertTo(v, i) = IF v \in Signed /\ i % P >= h THEN (i % P) - P ELSE i % P
  BY DEF Values, ConvertTo, Wrap, Half
<1>3. 0 \in Values(v)
  BY <1>1, ConvertFits
<1> HIDE DEF h, P
<1>4. \A i \in 0 .. P - 1 : i % P = i
  BY <1>1
<1>5. M \in 0 .. P - 1 /\ ConvertTo(v, M) = M
  BY <1>1, <1>2, <1>4
<1>6. \A y \in Values(v) : y \in Int /\ M >= y
  BY <1>1, <1>2, <1>4
<1>7. M \in Values(v)
  BY <1>2, <1>5
<1>8. \E x \in Values(v) : \A y \in Values(v) : x >= y
  BY <1>6, <1>7
<1>9. Max(Values(v)) \in Values(v)
  BY <1>8 DEF Max
<1> QED
  BY <1>3, <1>9 DEF Written

LEMMA WrapInt ==
  ASSUME NEW w \in WrapperBits, NEW sgn, NEW n \in Int
  PROVE  Wrap(n, w, sgn) \in Int
<1>1. 2^w \in Nat \ {0}
  BY LoopConstantsOK
<1>2. n % 2^w \in Int /\ (n % 2^w) - 2^w \in Int
  BY <1>1
<1> QED
  BY <1>2 DEF Wrap

LEMMA StepInt ==
  ASSUME NEW wr \in Wrappers, NEW n \in Int, NEW step \in Int
  PROVE  SafeStep(wr, n, step) \in Int
<1> DEFINE a == Wrap(n, wr.bits, wr.signed)
<1>1. wr.bits \in WrapperBits
  BY DEF Wrappers
<1>2. a \in Int
  BY <1>1, WrapInt
<1>3. Wrap(a + step, wr.bits, wr.signed) \in Int
  <2> HIDE DEF a
  <2>1. a + step \in Int
    BY <1>2
  <2> QED
    BY <1>1, <2>1, WrapInt
<1> QED
  BY <1>2, <1>3 DEF SafeStep

\* An update leaves a value of the type, also where an int overflows.
LEMMA UpdatedTyped ==
  ASSUME NEW v \in Var, NEW x \in Values(v), NEW l, l.step \in Int,
         l.op = "compound" => l.wrapper \in Wrappers, NEW n \in Updated(v, x, l)
  PROVE  n \in Values(v)
<1>1. x \in Int
  <2>1. 2^Bits[v] \in Nat \ {0}
    BY HalfFits
  <2>2. \A i \in Int : ConvertTo(v, i) \in Int
    BY <2>1 DEF ConvertTo, Wrap
  <2> QED
    BY <2>1, <2>2 DEF Values
<1>2. CASE l.op = "compound"
  <2>1. n = ConvertTo(v, SafeStep(l.wrapper, x, l.step))
    BY <1>2 DEF Updated
  <2> QED
    BY <1>1, <1>2, <2>1, StepInt, ConvertTyped
<1>3. CASE l.op # "compound"
  <2>1. n \in Values(v) \/ n = ConvertTo(v, x + l.step)
    BY <1>3 DEF Updated
  <2>2. x + l.step \in Int
    BY <1>1
  <2> QED
    BY <2>1, <2>2, ConvertTyped
<1> QED
  BY <1>2, <1>3

\* what the parameters of a loop are drawn from
BoundOK(l) ==
  l.bound \in IF l.op = "fill" THEN Lengths
              ELSE {Invalid} \cup UNION {0 .. len - 1 : len \in Lengths}

ParametersOK(l) ==
  /\ l.init \in Int /\ l.step \in Int
  /\ l.op = "compound" => l.wrapper \in Wrappers
  /\ BoundOK(l)

\* The bound of an array loop indexes the array it was made for.
LEMMA ArrayParameters ==
  ASSUME NEW v \in Var, NEW len \in Lengths, NEW l \in ArrayControls(v, LastOf(len))
  PROVE  ParametersOK(l)
<1>1. l.op = "array" /\ IsArrayLoop(l) /\ len \in Nat \ {0}
  BY ArrayControl, LoopConstantsOK
<1>2. l.bound \in 0 .. len - 1
  <2>1. CASE Upward(l)
    <3>1. PICK a \in Nat, n \in Nat \ {0}, i \in Nat :
            /\ i <= a /\ l.limit = a /\ l.step = n /\ l.init = i /\ l.bound = ((a - i) \div n) * n + i
      BY <2>1 DEF Upward, LastIndex
    <3>2. l.limit = len - 1
      <4>1. \A d \in ArrayControls(v, LastOf(len)) : d.test = "<=" => d.limit = LastOf(len)
        BY DEF ArrayControls
      <4> QED
        BY <2>1, <4>1 DEF Upward, LastOf
    <3>3. a - i \in Nat
      BY <3>1
    <3>4. (a - i) \div n \in Nat /\ n * ((a - i) \div n) <= a - i
      BY <3>1, <3>3
    <3>5. ((a - i) \div n) * n \in 0 .. a - i
      BY <3>1, <3>3, <3>4
    <3> QED
      BY <1>1, <3>1, <3>2, <3>5
  <2>2. CASE Downward(l)
    <3>1. \A d \in ArrayControls(v, LastOf(len)) :
            d.test = ">=" => \E j \in UpTo(LastOf(len) \div 2) : d.init = LastOf(len) - j
      BY DEF ArrayControls
    <3>2. PICK j \in UpTo((len - 1) \div 2) : l.init = len - 1 - j
      BY <2>2, <3>1 DEF Downward, LastOf
    <3>3. j \in Nat
      <4>1. (len - 1) \div 2 \in Int
        BY <1>1
      <4> QED
        BY <4>1, UpToRange
    <3> QED
      BY <1>1, <2>2, <3>2, <3>3 DEF Downward
  <2> QED
    BY <1>1, <2>1, <2>2 DEF IsArrayLoop
<1>3. l.init \in Int /\ l.step \in Int
  BY <1>1 DEF IsArrayLoop, Upward, Downward
<1> QED
  BY <1>1, <1>2, <1>3 DEF ParametersOK, BoundOK

\* The rest of the invariant: types, and that no plain loop has wrapped around.
TypesInv ==
  /\ \A d \in 1 .. nest : ParametersOK(loop[d])
  /\ phase \in {"generate", "run", "end"}
  /\ \A v \in Var : val[v] \in Values(v)
  /\ at \in 0 .. nest
  /\ wrapped \in [Depths -> BOOLEAN]
  /\ PlainLoopsDoNotWrap
  /\ phase = "generate" => \A d \in Depths : ~wrapped[d]

LEMMA TypesInit == Init => TypesInv
<1> SUFFICES ASSUME Init PROVE TypesInv
  OBVIOUS
<1>1. \A v \in Var : 0 \in Values(v)
  BY HalfFits, ConvertFits
<1> QED
  BY <1>1 DEF Init, TypesInv, PlainLoopsDoNotWrap

LEMMA TypesNested ==
  ASSUME LoopInv, TypesInv, Generating, NEW l, Nested(l), nest < MaxNest, ParametersOK(l)
  PROVE  TypesInv'
<1>1. /\ nest' = nest + 1 /\ nest \in Nat /\ MaxNest \in Nat /\ 1 .. nest' \subseteq Depths
      /\ phase' = "generate" /\ phase = "generate" /\ UNCHANGED <<val, at, wrapped>>
  BY LoopConstantsOK DEF Nested, Generating, runVars, LoopInv, NestOK, Depths
<1>2. \A d \in 1 .. nest + 1 : loop'[d] = IF d = nest + 1 THEN l ELSE loop[d]
  BY <1>1 DEF Nested, LoopInv, NestOK, Depths
<1>3. \A d \in 1 .. nest' : ParametersOK(loop'[d])
  BY <1>1, <1>2 DEF TypesInv
<1>4. at' \in 0 .. nest'
  BY <1>1 DEF TypesInv
<1>5. PlainLoopsDoNotWrap'
  BY <1>1 DEF TypesInv, PlainLoopsDoNotWrap
<1> QED
  BY <1>1, <1>3, <1>4, <1>5 DEF TypesInv

LEMMA TypesGenerate ==
  ASSUME LoopInv, TypesInv, NEW v \in Var,
         \/ \E m \in Lengths : ArrayLoop(v, m)
         \/ GeneralLoop(v)
         \/ \E len \in Lengths : FillLoop(v, len)
  PROVE  TypesInv'
<1>0. MaxNest \in Nat /\ MixedNest \in 0 .. MaxNest /\ nest \in Nat
  BY LoopConstantsOK DEF LoopInv, NestOK
<1>1. ASSUME NEW m \in Lengths, ArrayLoop(v, m)
      PROVE  TypesInv'
  <2>1. nest < MaxNest
    BY <1>0, <1>1 DEF ArrayLoop
  <2> QED
    BY <1>1, <2>1, ArrayParameters, TypesNested DEF ArrayLoop
<1>2. CASE GeneralLoop(v)
  <2>1. nest < MaxNest
    BY <1>0, <1>2 DEF GeneralLoop
  <2>2. PICK l \in GeneralControls(v) : Nested(l)
    BY <1>2 DEF GeneralLoop
  <2>3. ParametersOK(l)
    BY GeneralControl DEF ParametersOK, BoundOK
  <2> QED
    BY <1>2, <2>1, <2>2, <2>3, TypesNested DEF GeneralLoop
<1>3. ASSUME NEW len \in Lengths, FillLoop(v, len)
      PROVE  TypesInv'
  <2>1. nest < MaxNest
    BY <1>0, <1>3 DEF FillLoop
  <2>2. ParametersOK(FillControl(v, len))
    BY DEF FillControl, ParametersOK, BoundOK
  <2> QED
    BY <1>3, <2>1, <2>2, TypesNested DEF FillLoop
<1> QED
  BY <1>1, <1>2, <1>3

\* The execution keeps the parameters, and the actions that write one variable its type.
LEMMA TypesRun ==
  ASSUME LoopInv, TypesInv, UNCHANGED <<nest, loop>>, phase' \in {"run", "end"}, at' \in 0 .. nest,
         \A v \in Var : val'[v] \in Values(v), UNCHANGED wrapped
  PROVE  TypesInv'
BY DEF TypesInv, PlainLoopsDoNotWrap

LEMMA TypesStep ==
  ASSUME LoopInv, TypesInv, [Next]_vars
  PROVE  TypesInv'
<1>0. /\ nest \in Nat /\ (phase = "run" => at \in 1 .. nest) /\ DOMAIN val = Var
      /\ 1 .. nest \subseteq Depths
  BY LoopConstantsOK DEF LoopInv, NestOK, ValuesOK, Depths
<1>1. CASE UNCHANGED vars
  BY <1>1 DEF vars, genVars, runVars, TypesInv, PlainLoopsDoNotWrap
<1>2. CASE Finish
  <2>1. phase' = "run" /\ at' \in 0 .. nest /\ UNCHANGED <<nest, loop, val, wrapped>>
    BY <1>0, <1>2 DEF Finish, genVars
  <2> QED
    BY <2>1, TypesRun DEF TypesInv
<1>3. CASE InitIV
  <2>1. /\ UNCHANGED <<nest, loop, phase, at>> /\ phase = "run" /\ at \in 1 .. nest
        /\ val' = [val EXCEPT ![iv] = ConvertTo(iv, loop[at].init)]
        /\ wrapped' = [wrapped EXCEPT ![at] = FALSE]
    BY <1>3, RunningNest DEF InitIV
  <2>2. iv \in Var /\ loop[at].init \in Int
    BY <2>1 DEF iv, LoopInv, NestOK, TypesInv, ParametersOK
  <2>3. \A v \in Var : val'[v] \in Values(v)
    BY <1>0, <2>1, <2>2, ConvertTyped DEF TypesInv
  <2>4. wrapped' \in [Depths -> BOOLEAN] /\ PlainLoopsDoNotWrap'
    <3>1. wrapped \in [Depths -> BOOLEAN] /\ at \in Depths
      BY <1>0, <2>1 DEF TypesInv
    <3>2. wrapped' \in [Depths -> BOOLEAN] /\ \A d \in Depths : wrapped'[d] => wrapped[d]
      BY <2>1, <3>1, Zenon
    <3> QED
      BY <1>0, <2>1, <3>2 DEF TypesInv, PlainLoopsDoNotWrap
  <2> QED
    BY <1>0, <2>1, <2>3, <2>4 DEF TypesInv
<1>4. CASE EnterBody
  <2>1. phase' = "run" /\ at' \in 0 .. nest /\ UNCHANGED <<nest, loop, val, wrapped>>
    BY <1>0, <1>4, RunningNest DEF EnterBody
  <2> QED
    BY <2>1, TypesRun DEF TypesInv
<1>5. CASE LeaveLoop
  <2>1. phase' \in {"run", "end"} /\ at' \in 0 .. nest /\ UNCHANGED <<nest, loop, val, wrapped>>
    BY <1>0, <1>5, RunningNest DEF LeaveLoop
  <2> QED
    BY <2>1, TypesRun DEF TypesInv
<1>6. CASE RunBody
  <2>1. phase' = "run" /\ at' \in 0 .. nest /\ UNCHANGED <<nest, loop, wrapped>>
    BY <1>0, <1>6, RunningNest DEF RunBody
  <2>2. \A v \in Var : val'[v] \in Values(v)
    <3>1. CASE UNCHANGED val
      BY <3>1 DEF TypesInv
    <3>2. ASSUME NEW w \in Writable(at), NEW n \in Written(w), val' = [val EXCEPT ![w] = n]
          PROVE  \A v \in Var : val'[v] \in Values(v)
      <4>1. w \in Var
        BY DEF Writable
      <4>2. n \in Values(w)
        BY <4>1, WrittenTyped
      <4> QED
        BY <1>0, <3>2, <4>1, <4>2 DEF TypesInv
    <3> QED
      BY <1>6, <3>1, <3>2 DEF RunBody
  <2> QED
    BY <2>1, <2>2, TypesRun
<1>7. CASE Update
  <2>1. /\ UNCHANGED <<nest, loop, phase, at>> /\ phase = "run" /\ at \in 1 .. nest /\ pc = "update"
    BY <1>7, RunningNest DEF Update
  <2>2. PICK n \in Updated(iv, val[iv], loop[at]) :
          /\ val' = [val EXCEPT ![iv] = n]
          /\ wrapped' = [wrapped EXCEPT ![at] = @ \/ n # val[iv] + loop[at].step]
    BY <1>7 DEF Update
  <2>3. iv \in Var /\ ParametersOK(loop[at]) /\ at \in Depths
    BY <1>0, <2>1 DEF iv, LoopInv, NestOK, TypesInv
  <2>4. n \in Values(iv)
    BY <2>2, <2>3, UpdatedTyped DEF TypesInv, ParametersOK
  <2>5. \A v \in Var : val'[v] \in Values(v)
    BY <1>0, <2>2, <2>3, <2>4 DEF TypesInv
  <2>6. wrapped' \in [Depths -> BOOLEAN]
    BY <2>2 DEF TypesInv
  <2>7. PlainLoopsDoNotWrap'
    <3>1. ASSUME Plain(loop[at])
          PROVE  n = val[iv] + loop[at].step
      <4>1. IsPlainLoop(loop[at]) /\ InBody(loop[at], val[loop[at].iv])
        BY <1>0, <2>1, <3>1 DEF LoopInv, NestOK, ValuesOK
      <4> QED
        BY <2>2, <4>1, NextValue DEF iv
    <3>2. \A d \in Depths : wrapped'[d] =>
            wrapped[d] \/ (d = at /\ n # val[iv] + loop[at].step)
      BY <2>2, <2>3 DEF TypesInv
    <3> QED
      BY <1>0, <2>1, <3>1, <3>2 DEF TypesInv, PlainLoopsDoNotWrap
  <2> QED
    BY <1>0, <2>1, <2>5, <2>6, <2>7 DEF TypesInv
<1> QED
  BY <1>1, <1>2, <1>3, <1>4, <1>5, <1>6, <1>7, TypesGenerate DEF Next

LEMMA LoopInvariant == Spec => [](LoopInv /\ TypesInv)
<1>1. Init => LoopInv /\ TypesInv
  BY LoopInit, TypesInit
<1>2. LoopInv /\ TypesInv /\ [Next]_vars => LoopInv' /\ TypesInv'
  BY LoopStep, TypesStep
<1> QED
  BY <1>1, <1>2, PTL DEF Spec

\* The parameters that are drawn, and every value that the loops and their bodies
\* compute, raw, through wrappers of any width or by overflow, keep their types; a
\* bound that itemize_array uses is an index of the array it was made for.
THEOREM LoopTypes == Spec => []TypeOK
<1>1. LoopInv /\ TypesInv => TypeOK
  BY DEF LoopInv, NestOK, ValuesOK, TypesInv, ParametersOK, BoundOK, TypeOK
<1> QED
  BY <1>1, LoopInvariant, PTL

\* Loops over arrays, and those by "++" or "--" on a signed variable, reach their
\* limit without wrap-around, in any nest and for all numbers that their type
\* holds (make_random_loop_control, "make sure the limit can be reached").
THEOREM PlainLoopsReachTheirLimit == Spec => []PlainLoopsDoNotWrap
<1>1. TypesInv => PlainLoopsDoNotWrap
  BY DEF TypesInv
<1> QED
  BY <1>1, LoopInvariant, PTL
=============================================================================
