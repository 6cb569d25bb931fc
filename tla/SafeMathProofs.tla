--------------------------- MODULE SafeMathProofs ----------------------------
(***************************************************************************)
(* For every choice of the widths, no wrapper computes anything that is    *)
(* undefined in C, and each returns the result of its operation wherever   *)
(* that fits.  The invariant is that the operands are in the ranges of     *)
(* their types and the value is what is returned for them; the rest is     *)
(* arithmetic, one lemma for each operator with h and k for the limits of  *)
(* its type and of the promoted type.                                      *)
(***************************************************************************)
EXTENDS SafeMath, TLAPS

Signed(h) == [s |-> TRUE, h |-> h]

IsType(t) == t.s \in BOOLEAN /\ t.h \in Nat \ {0}

\* What the division of natural numbers returns.
LEMMA Division ==
  ASSUME NEW a \in Nat, NEW b \in Nat \ {0}
  PROVE  /\ a \div b \in Nat /\ a \div b <= a
         /\ b * (a \div b) <= a
         /\ \A c \in Nat : c <= a \div b => c * b <= a
         /\ b >= 2 /\ a > 0 => a \div b < a
  OBVIOUS

\* The test of the addition computes numbers that fit, and what it lets through fits.
LEMMA AddSafe ==
  ASSUME NEW h \in Nat \ {0, 1}, NEW v \in -h .. h - 1, NEW u \in -h .. h - 1
  PROVE  /\ \A x \in AddSteps(Signed(h), v, u) : Fits(Signed(h), x)
         /\ ~AddFalls(Signed(h), v, u) => Fits(Signed(h), v + u)
  BY SMT DEF AddSteps, AddFalls, Fits, Hi, Lo, Signed

\* The test of the subtraction, in the type itself.
LEMMA SubSafe ==
  ASSUME NEW h \in Nat \ {0, 1}, Half[IntSize] <= h, Half[IntSize] \in Nat,
         NEW v \in -h .. h - 1, NEW u \in -h .. h - 1
  PROVE  /\ Fits(Signed(h), SubStep(Signed(h), v, u))
         /\ ~SubFalls(Signed(h), v, u) => Fits(Signed(h), v - u)
<1>0. Signed(h).h = h /\ Signed(h).s = TRUE
  BY DEF Signed
<1>1. Promote(Signed(h)) = Signed(h)
  <2>1. ~(h < Half[IntSize])
    OBVIOUS
  <2> QED BY <1>0, <2>1 DEF Promote
<1>2. Flipped(Signed(h), v) = IF v < 0 THEN v + h ELSE v - h
  BY <1>0, <1>1 DEF Flipped
<1>3. SubStep(Signed(h), v, u) \in -h .. h - 1
  BY <1>2 DEF SubStep
<1>4. ~SubFalls(Signed(h), v, u) => v - u \in -h .. h - 1
  BY <1>2, <1>3 DEF SubFalls, SubStep
<1> QED BY <1>0, <1>3, <1>4 DEF Fits, Hi, Lo

\* The test of the subtraction, in an int that has bits to spare.
LEMMA NarrowSubSafe ==
  ASSUME NEW h \in Nat \ {0, 1}, Half[IntSize] \in Nat, 4 * h <= Half[IntSize],
         NEW v \in -h .. h - 1, NEW u \in -h .. h - 1
  PROVE  Fits(Int32(TRUE), SubStep(Signed(h), v, u)) /\ Fits(Int32(TRUE), v - u)
  BY SMT DEF SubStep, Flipped, Promote, Fits, Hi, Lo, Signed, Int32

\* Quotients and remainders of signed numbers.
LEMMA QuotientBound ==
  ASSUME NEW v \in Int, NEW u \in Int, u # 0
  PROVE  /\ Quotient(v, u) \in Int
         /\ Abs(Quotient(v, u)) <= Abs(v)
         /\ Abs(u) >= 2 /\ v # 0 => Abs(Quotient(v, u)) < Abs(v)
         /\ v >= 0 => Remainder(v, u) \in 0 .. v
         /\ v < 0 => Remainder(v, u) \in v .. 0
<1>1. /\ Abs(v) \in Nat /\ Abs(u) \in Nat \ {0}
      /\ v >= 0 => Abs(v) = v
      /\ v < 0 => Abs(v) = -v
      /\ u > 0 => Abs(u) = u
      /\ u < 0 => Abs(u) = -u
  BY DEF Abs
<1> DEFINE q == Abs(v) \div Abs(u)
<1>2. /\ q \in Nat /\ q <= Abs(v) /\ Abs(u) * q <= Abs(v)
      /\ Abs(u) >= 2 /\ Abs(v) > 0 => q < Abs(v)
  BY <1>1, Division
<1> HIDE DEF q
<1>3. Quotient(v, u) = IF (v < 0) = (u < 0) THEN q ELSE -q
  BY DEF Quotient, q
<1>4. Abs(u) * q \in Nat
  BY <1>1, <1>2
<1>5. u * Quotient(v, u) = IF v < 0 THEN -(Abs(u) * q) ELSE Abs(u) * q
  <2>1. CASE u > 0
    BY <2>1, <1>1, <1>2, <1>3
  <2>2. CASE u < 0
    BY <2>2, <1>1, <1>2, <1>3
  <2> QED BY <2>1, <2>2
<1>6. /\ v >= 0 => Remainder(v, u) \in 0 .. v
      /\ v < 0 => Remainder(v, u) \in v .. 0
  BY <1>1, <1>2, <1>4, <1>5 DEF Remainder
<1>7. Abs(Quotient(v, u)) = q /\ Quotient(v, u) \in Int
  BY <1>2, <1>3 DEF Abs
<1> QED BY <1>1, <1>2, <1>6, <1>7

\* Quotients and remainders fit the type, but the quotient of the least number by -1.
LEMMA DivisionFits ==
  ASSUME NEW t, IsType(t), NEW v \in Lo(t) .. Hi(t), NEW u \in Lo(t) .. Hi(t),
         u # 0, ~(t.s /\ v = Lo(t) /\ u = -1)
  PROVE  /\ Quotient(v, u) \in Int /\ Fits(t, Quotient(v, u))
         /\ Remainder(v, u) \in Int /\ Fits(t, Remainder(v, u))
<1> DEFINE h == t.h
<1>1. /\ h \in Nat \ {0} /\ v \in Int /\ u \in Int
      /\ t.s => Lo(t) = -h /\ Hi(t) = h - 1
      /\ ~t.s => Lo(t) = 0 /\ Hi(t) = 2 * h - 1
  BY DEF IsType, Lo, Hi
<1> HIDE DEF h
<1>2. /\ Quotient(v, u) \in Int
      /\ Abs(Quotient(v, u)) <= Abs(v)
      /\ Abs(u) >= 2 /\ v # 0 => Abs(Quotient(v, u)) < Abs(v)
      /\ v >= 0 => Remainder(v, u) \in 0 .. v
      /\ v < 0 => Remainder(v, u) \in v .. 0
  BY <1>1, QuotientBound
<1>3. Remainder(v, u) \in Int /\ Fits(t, Remainder(v, u))
  BY <1>1, <1>2 DEF Fits
<1>4. CASE t.s
  <2>1. Quotient(v, u) # h
    <3>1. CASE u = 1
      BY <1>1, <1>4, <3>1, Division DEF Quotient, Abs
    <3>2. CASE u # 1 /\ v = -h
      BY <1>1, <1>2, <1>4, <3>2 DEF Abs
    <3>3. CASE v # -h
      BY <1>1, <1>2, <1>4, <3>3 DEF Abs
    <3> QED BY <3>1, <3>2, <3>3
  <2> QED BY <1>1, <1>2, <1>3, <1>4, <2>1 DEF Fits, Abs
<1>5. CASE ~t.s
  <2>1. v \in Nat /\ u \in Nat \ {0} /\ v <= Hi(t) /\ Lo(t) = 0 /\ Hi(t) \in Nat
    BY <1>1, <1>5
  <2>2. Quotient(v, u) \in 0 .. v
    BY <2>1, Division DEF Quotient, Abs
  <2> QED BY <1>3, <2>1, <2>2 DEF Fits
<1> QED BY <1>4, <1>5

\* The test of the multiplication, in the type itself.
LEMMA MulSafe ==
  ASSUME NEW h \in Nat \ {0, 1}, NEW v \in -h .. h - 1, NEW u \in -h .. h - 1
  PROVE  /\ \A x \in MulSteps(Signed(h), v, u) : Fits(Signed(h), x)
         /\ ~MulFalls(Signed(h), v, u) => Fits(Signed(h), v * u)
<1> DEFINE t == Signed(h)
<1>0. Hi(t) = h - 1 /\ Lo(t) = -h /\ v \in Int /\ u \in Int
  BY DEF Hi, Lo, Signed
<1>1. \A x \in MulSteps(t, v, u) : Fits(t, x)
  <2>1. ASSUME NEW n \in Int, n # 0
        PROVE  Fits(t, Quotient(h - 1, n))
    <3>1. Quotient(h - 1, n) \in Int /\ Abs(Quotient(h - 1, n)) <= h - 1
      BY <2>1, QuotientBound DEF Abs
    <3> QED BY <1>0, <3>1 DEF Fits, Abs
  <2>2. ASSUME NEW n \in Nat \ {0}
        PROVE  Fits(t, Quotient(-h, n))
    <3>1. Quotient(-h, n) = -(h \div n) /\ h \div n \in 0 .. h
      BY Division DEF Quotient, Abs
    <3> QED BY <1>0, <3>1 DEF Fits
  <2> QED BY <1>0, <2>1, <2>2 DEF MulSteps
<1>2. ASSUME ~MulFalls(t, v, u)
      PROVE  Fits(t, v * u)
  <2>1. CASE v > 0 /\ u > 0
    <3>1. Quotient(h - 1, u) = (h - 1) \div u
      BY <2>1 DEF Quotient, Abs
    <3>2. v <= (h - 1) \div u
      BY <1>0, <1>2, <2>1, <3>1, Division DEF MulFalls
    <3>3. v * u <= h - 1
      BY <2>1, <3>2, Division
    <3> QED BY <1>0, <2>1, <3>3 DEF Fits
  <2>2. CASE v > 0 /\ u <= 0
    <3>1. Quotient(-h, v) = -(h \div v)
      BY <2>2 DEF Quotient, Abs
    <3>2. -u <= h \div v
      BY <1>0, <1>2, <2>2, <3>1, Division DEF MulFalls
    <3>3. (-u) * v <= h
      BY <2>2, <3>2, Division
    <3> QED BY <1>0, <2>2, <3>3 DEF Fits
  <2>3. CASE v <= 0 /\ u > 0
    <3>1. Quotient(-h, u) = -(h \div u)
      BY <2>3 DEF Quotient, Abs
    <3>2. -v <= h \div u
      BY <1>0, <1>2, <2>3, <3>1, Division DEF MulFalls
    <3>3. (-v) * u <= h
      BY <2>3, <3>2, Division
    <3> QED BY <1>0, <2>3, <3>3 DEF Fits
  <2>4. CASE v < 0 /\ u <= 0
    <3>1. Quotient(h - 1, v) = -((h - 1) \div (-v))
      BY <2>4 DEF Quotient, Abs
    <3>2. -u <= (h - 1) \div (-v)
      BY <1>0, <1>2, <2>4, <3>1, Division DEF MulFalls
    <3>3. (-u) * (-v) <= h - 1
      BY <2>4, <3>2, Division
    <3> QED BY <1>0, <2>4, <3>3 DEF Fits
  <2>5. CASE v = 0
    BY <1>0, <2>5 DEF Fits
  <2> QED BY <2>1, <2>2, <2>3, <2>4, <2>5
<1> QED BY <1>1, <1>2

\* The product of two narrow numbers fits an int.
LEMMA NarrowMulSafe ==
  ASSUME NEW h \in Nat \ {0, 1}, NEW k \in Nat, h * h < k,
         NEW v \in -h .. h, NEW u \in -h .. h
  PROVE  v * u \in -k .. k - 1
<1>1. Abs(v) \in 0 .. h /\ Abs(u) \in 0 .. h
  BY DEF Abs
<1>2. Abs(v) * Abs(u) <= Abs(v) * h /\ Abs(v) * h <= h * h
  BY <1>1
<1>3. v * u = Abs(v) * Abs(u) \/ v * u = -(Abs(v) * Abs(u))
  BY DEF Abs
<1>4. Abs(v) * Abs(u) \in Nat
  BY <1>1
<1> QED BY <1>1, <1>2, <1>3, <1>4

\* What fits a type fits the type that the integer promotions make of it.
LEMMA Widen ==
  ASSUME NEW w \in Wrappers, NEW x \in Int, Fits(Type(w), x)
  PROVE  Fits(Promote(Type(w)), x)
<1>1. /\ Half[w.size] \in Nat \ {0, 1} /\ Half[IntSize] \in Nat
      /\ Narrow(w.size) => 4 * Half[w.size] <= Half[IntSize]
  BY SafeMathConstantsOK, NarrowFits DEF Wrappers
<1>2. CASE Narrow(w.size)
  <2>1. Promote(Type(w)) = Int32(TRUE)
    BY <1>2 DEF Promote, Type, Narrow
  <2>2. -(2 * Half[w.size]) <= x /\ x <= 2 * Half[w.size] - 1
    BY <1>1 DEF Fits, Lo, Hi, Type
  <2> QED BY <1>1, <1>2, <2>1, <2>2 DEF Fits, Lo, Hi, Int32
<1>3. CASE ~Narrow(w.size)
  BY <1>3 DEF Promote, Type, Narrow
<1> QED BY <1>2, <1>3

\* No wrapper computes what is undefined, whatever its operands; masks apart.
LEMMA WrapperSafe ==
  ASSUME NEW w \in Wrappers,
         NEW v \in Lo(Type(w)) .. Hi(Type(w)),
         NEW u \in Lo(RightType(w)) .. Hi(RightType(w))
  PROVE  /\ \A x \in Steps(w, v, u) : Fits(Promote(Type(w)), x)
         /\ ~Falls(w, v, u) => DefinedInC(w, v, u)
<1> DEFINE h == Half[w.size]
           k == Half[IntSize]
<1>1. /\ h \in Nat \ {0, 1} /\ k \in Nat \ {0, 1} /\ w.size \in Size
      /\ w.signed \in BOOLEAN /\ w.op \in Ops /\ w.kind \in Kinds
      /\ Narrow(w.size) => 4 * h <= k
      /\ ~Narrow(w.size) => k <= h
  BY SafeMathConstantsOK, NarrowFits DEF Wrappers, Narrow
<1>2. /\ Type(w).h = h /\ Type(w).s = w.signed
      /\ w.signed => Type(w) = Signed(h)
  BY DEF Type, Signed
<1>3. /\ v \in Int
      /\ w.signed => v \in -h .. h - 1
      /\ ~w.signed => v \in 0 .. 2 * h - 1
  BY <1>1, <1>2 DEF Lo, Hi
<1>4. /\ u \in Int
      /\ w.op \notin Shifts /\ w.signed => u \in -h .. h - 1
      /\ w.op \notin Shifts /\ ~w.signed => u \in 0 .. 2 * h - 1
  <2>1. CASE w.op \in Shifts
    BY <1>1, <2>1 DEF RightType, Int32, Lo, Hi
  <2>2. CASE w.op \notin Shifts
    BY <1>1, <1>2, <2>2 DEF RightType, Lo, Hi
  <2> QED BY <2>1, <2>2
<1>5. /\ Narrow(w.size) => Promote(Type(w)) = Int32(TRUE)
      /\ ~Narrow(w.size) => Promote(Type(w)) = Type(w)
  BY DEF Promote, Type, Narrow
<1>6. /\ Int32(TRUE).s = TRUE /\ Int32(TRUE).h = k
      /\ \A x \in Int : Fits(Int32(TRUE), x) <=> x \in -k .. k - 1
      /\ \A x \in Int : Fits(Signed(h), x) <=> x \in -h .. h - 1
  BY <1>1 DEF Int32, Fits, Lo, Hi, Signed
<1>0. Narrow(w.size) => h * h < k
  <2>1. h * h \in Nat \ {0}
    BY <1>1
  <2>2. Narrow(w.size) => 2 * (h * h) <= k
    BY NarrowFits DEF Wrappers
  <2> QED BY <1>1, <2>1, <2>2
<1> HIDE DEF h, k
<1>7. CASE w.op = "minus"
  <2>1. Steps(w, v, u) = {}
    BY <1>7 DEF Steps
  <2>2. OpType(w) = Promote(Type(w)) /\ Exact(w.op, v, u) = -v /\ -v \in Int
    BY <1>3, <1>7 DEF OpType, Exact
  <2>3. ASSUME ~Falls(w, v, u), Promote(Type(w)).s
        PROVE  Fits(Promote(Type(w)), -v)
    <3>1. CASE Narrow(w.size)
      <4>1. -v \in -k .. k - 1
        BY <1>1, <1>3, <3>1
      <4> QED BY <1>5, <1>6, <2>2, <3>1, <4>1
    <3>2. CASE ~Narrow(w.size)
      <4>1. w.signed /\ Type(w) = Signed(h)
        BY <1>2, <1>5, <2>3, <3>2
      <4>2. Checked(w) /\ Lo(Type(w)) = -h
        BY <1>1, <3>2, <4>1 DEF Checked, Lo, Signed
      <4>3. v # -h
        BY <1>7, <2>3, <4>1, <4>2 DEF Falls
      <4> QED BY <1>1, <1>3, <1>5, <1>6, <3>2, <4>1, <4>3
    <3> QED BY <3>1, <3>2
  <2> QED BY <1>7, <2>1, <2>2, <2>3 DEF DefinedInC, Shifts
<1>8. CASE w.op = "add"
  <2>1. OpType(w) = Promote(Type(w)) /\ Exact(w.op, v, u) = v + u /\ v + u \in Int
    BY <1>3, <1>4, <1>8 DEF OpType, Exact, Shifts
  <2>2. w.op \notin Shifts
    BY <1>8 DEF Shifts
  <2>3. CASE w.signed /\ Checked(w)
    <3>1. Steps(w, v, u) = AddSteps(Signed(h), v, u)
      BY <1>2, <1>8, <2>3 DEF Steps
    <3>3. Falls(w, v, u) <=> AddFalls(Signed(h), v, u)
      BY <1>2, <1>8, <2>3 DEF Falls
    <3>4. /\ \A x \in AddSteps(Signed(h), v, u) : Fits(Signed(h), x)
          /\ ~AddFalls(Signed(h), v, u) => Fits(Signed(h), v + u)
      BY <1>1, <1>3, <1>4, <2>2, <2>3, AddSafe
    <3>2. AddSteps(Signed(h), v, u) \subseteq Int
      BY <1>1, <1>3, <1>4 DEF AddSteps, Hi, Lo, Signed
    <3> QED BY <1>2, <1>8, <2>1, <2>2, <2>3, <3>1, <3>2, <3>3, <3>4, Widen DEF DefinedInC
  <2>4. CASE ~(w.signed /\ Checked(w))
    <3>1. Steps(w, v, u) = {}
      BY <2>4 DEF Steps
    <3>2. ASSUME Promote(Type(w)).s
          PROVE  Fits(Promote(Type(w)), v + u)
      <4>1. Narrow(w.size)
        BY <1>2, <1>5, <2>4, <3>2 DEF Checked
      <4>2. v + u \in -k .. k - 1
        BY <1>1, <1>3, <1>4, <2>2, <4>1
      <4> QED BY <1>5, <1>6, <2>1, <4>1, <4>2
    <3> QED BY <1>8, <2>1, <2>2, <3>1, <3>2 DEF DefinedInC
  <2> QED BY <2>3, <2>4
<1>9. CASE w.op = "sub"
  <2>1. OpType(w) = Promote(Type(w)) /\ Exact(w.op, v, u) = v - u /\ v - u \in Int
    BY <1>3, <1>4, <1>9 DEF OpType, Exact, Shifts
  <2>2. w.op \notin Shifts
    BY <1>9 DEF Shifts
  <2>3. CASE w.signed /\ ~Narrow(w.size)
    <3>1. Steps(w, v, u) = {SubStep(Signed(h), v, u)}
      BY <1>2, <1>9, <2>3 DEF Steps, Checked
    <3>4. Falls(w, v, u) <=> SubFalls(Signed(h), v, u)
      BY <1>2, <1>9, <2>3 DEF Falls, Checked
    <3>2. k \in Nat /\ k <= h
      BY <1>1, <2>3
    <3>3. /\ Fits(Signed(h), SubStep(Signed(h), v, u))
          /\ ~SubFalls(Signed(h), v, u) => Fits(Signed(h), v - u)
      BY <1>1, <1>3, <1>4, <2>2, <2>3, <3>2, SubSafe DEF k
    <3> QED BY <1>2, <1>5, <1>9, <2>1, <2>2, <2>3, <3>1, <3>3, <3>4 DEF DefinedInC
  <2>4. CASE Narrow(w.size)
    <3>1. Fits(Int32(TRUE), v - u)
      <4>1. v - u \in -k .. k - 1
        BY <1>1, <1>3, <1>4, <2>2, <2>4
      <4> QED BY <1>6, <2>1, <4>1
    <3>2. w.signed => Fits(Int32(TRUE), SubStep(Signed(h), v, u))
      BY <1>1, <1>3, <1>4, <2>2, <2>4, NarrowSubSafe DEF k
    <3>3. \A x \in Steps(w, v, u) : w.signed /\ x = SubStep(Signed(h), v, u)
      BY <1>2, <1>9 DEF Steps
    <3> QED BY <1>5, <1>9, <2>1, <2>2, <2>4, <3>1, <3>2, <3>3 DEF DefinedInC
  <2>5. CASE ~w.signed /\ ~Narrow(w.size)
    <3>1. Steps(w, v, u) = {} /\ ~OpType(w).s
      BY <1>2, <1>5, <2>1, <2>5 DEF Steps
    <3> QED BY <1>9, <2>2, <3>1 DEF DefinedInC
  <2> QED BY <1>1, <2>3, <2>4, <2>5
<1>10. CASE w.op = "mul"
  <2>1. Exact(w.op, v, u) = v * u /\ v * u \in Int /\ w.op \notin Shifts
    BY <1>3, <1>4, <1>10 DEF Exact, Shifts
  <2>2. CASE w.signed /\ Checked(w)
    <3>1. Steps(w, v, u) = MulSteps(Signed(h), v, u)
      BY <1>2, <1>10, <2>2 DEF Steps
    <3>5. Falls(w, v, u) <=> MulFalls(Signed(h), v, u)
      BY <1>2, <1>10, <2>2 DEF Falls
    <3>2. /\ \A x \in MulSteps(Signed(h), v, u) : Fits(Signed(h), x)
          /\ ~MulFalls(Signed(h), v, u) => Fits(Signed(h), v * u)
      BY <1>1, <1>3, <1>4, <2>1, <2>2, MulSafe
    <3>3. MulSteps(Signed(h), v, u) \subseteq Int
      <4>1. Hi(Signed(h)) \in Int /\ Lo(Signed(h)) \in Int
        BY <1>1 DEF Hi, Lo, Signed
      <4>2. \A a, b \in Int : b # 0 => Quotient(a, b) \in Int
        BY QuotientBound
      <4> QED BY <1>3, <1>4, <4>1, <4>2 DEF MulSteps
    <3>4. OpType(w) = Promote(Type(w))
      BY <2>2 DEF OpType
    <3> QED BY <1>2, <1>10, <2>1, <2>2, <3>1, <3>2, <3>3, <3>4, <3>5, Widen DEF DefinedInC
  <2>3. CASE w.signed /\ ~Checked(w)
    <3>1. Steps(w, v, u) = {} /\ OpType(w) = Int32(TRUE) /\ Narrow(w.size)
      BY <1>5, <2>3 DEF Steps, OpType, Checked
    <3>2. v * u \in -k .. k - 1
      BY <1>1, <1>3, <1>4, <2>1, <2>3, <3>1, <1>0, NarrowMulSafe
    <3> QED BY <1>6, <1>10, <2>1, <3>1, <3>2 DEF DefinedInC
  <2>4. CASE ~w.signed
    <3>1. Steps(w, v, u) = {}
      BY <2>4 DEF Steps
    <3>2. ~OpType(w).s
      BY <1>2, <1>5, <1>10, <2>4 DEF OpType, Int32
    <3> QED BY <1>10, <2>1, <3>1, <3>2 DEF DefinedInC
  <2> QED BY <1>1, <2>2, <2>3, <2>4
<1>11. CASE w.op \in {"mod", "div"}
  <2>1. Steps(w, v, u) = {} /\ OpType(w) = Promote(Type(w)) /\ w.op \notin Shifts
    BY <1>11 DEF Steps, OpType, Shifts
  <2>2. ASSUME ~Falls(w, v, u)
        PROVE  /\ u # 0
               /\ Quotient(v, u) \in Int /\ Fits(Type(w), Quotient(v, u))
               /\ Exact(w.op, v, u) \in Int /\ Fits(Type(w), Exact(w.op, v, u))
    <3>1. u # 0 /\ ~(Type(w).s /\ v = Lo(Type(w)) /\ u = -1)
      BY <1>11, <2>2 DEF Falls, DivFalls
    <3>2. IsType(Type(w)) /\ RightType(w) = Type(w)
      BY <1>1, <1>2, <2>1 DEF IsType, RightType
    <3> QED BY <1>11, <3>1, <3>2, DivisionFits DEF Exact
  <2> QED BY <2>1, <2>2, Widen DEF DefinedInC
<1>12. CASE w.op \in Shifts
  <2>1. Steps(w, v, u) = {} /\ OpType(w) = Promote(Type(w)) /\ w.op \notin {"mod", "div"}
    BY <1>12 DEF Steps, OpType, Shifts
  <2>2. ASSUME ~Falls(w, v, u)
        PROVE  /\ v >= 0 /\ u \in 0 .. OpBits(w) - 1
               /\ Exact(w.op, v, u) \in Int /\ Fits(Type(w), Exact(w.op, v, u))
    <3>1. v >= 0 /\ u >= 0 /\ u < Limit(w)
      <4>1. ~ShiftFalls(w, v, u)
        BY <1>12, <2>2 DEF Falls, LshiftFalls, Shifts
      <4>2. Limit(w) \in Int
        BY <1>1, SafeMathConstantsOK DEF Limit
      <4> QED BY <1>3, <1>4, <4>1, <4>2 DEF ShiftFalls
    <3>2. /\ MaxShift \in Nat /\ Bits[w.size] \in Nat /\ OpBits(w) \in Nat
          /\ MaxShift <= OpBits(w) /\ Bits[w.size] <= OpBits(w)
      BY <1>1, SafeMathConstantsOK, ShiftsFit DEF OpBits
    <3>3. u \in 0 .. OpBits(w) - 1 /\ u \in 0 .. MaxShift + Bits[w.size]
      BY <1>4, <3>1, <3>2 DEF Limit
    <3>4. Power(u) \in Nat \ {0}
      BY <1>1, <3>3, SafeMathConstantsOK
    <3>5. Hi(Type(w)) \in Nat /\ v <= Hi(Type(w)) /\ Lo(Type(w)) <= 0 /\ Lo(Type(w)) \in Int
      BY <1>1, <1>2, <1>3 DEF Hi, Lo
    <3>6. CASE w.op = "lshift"
      <4>1. v <= Hi(Type(w)) \div Power(u)
        BY <1>3, <2>2, <3>4, <3>5, <3>6, Division DEF Falls, LshiftFalls
      <4>2. v * Power(u) <= Hi(Type(w)) /\ v * Power(u) \in Nat
        BY <1>3, <3>1, <3>4, <3>5, <4>1, Division
      <4> QED BY <3>1, <3>3, <3>5, <3>6, <4>2 DEF Exact, Fits
    <3>7. CASE w.op = "rshift"
      <4>1. v \div Power(u) \in Nat /\ v \div Power(u) <= v
        BY <1>3, <3>1, <3>4, Division
      <4> QED BY <1>3, <3>1, <3>3, <3>5, <3>7, <4>1 DEF Exact, Fits
    <3> QED BY <1>12, <3>6, <3>7 DEF Shifts
  <2> QED BY <2>1, <2>2, Widen DEF DefinedInC
<1> QED BY <1>1, <1>7, <1>8, <1>9, <1>10, <1>11, <1>12 DEF Ops
----------------------------------------------------------------------------
(* The results *)

\* The conversion to a type gives a value of the type, the same if it was one.
LEMMA WrapFits ==
  ASSUME NEW t, IsType(t), NEW x \in Int
  PROVE  /\ Wrap(t, x) \in Int /\ Fits(t, Wrap(t, x))
         /\ Fits(t, x) => Wrap(t, x) = x
<1> DEFINE h == t.h
           r == x % (2 * h)
<1>1. h \in Nat \ {0} /\ t.s \in BOOLEAN
  BY DEF IsType
<1>2. Wrap(t, x) = IF t.s /\ r >= h THEN r - 2 * h ELSE r
  BY DEF Wrap
<1>3. /\ t.s => Lo(t) = -h /\ Hi(t) = h - 1
      /\ ~t.s => Lo(t) = 0 /\ Hi(t) = 2 * h - 1
  BY DEF Lo, Hi
<1> HIDE DEF h
<1>4. r \in 0 .. 2 * h - 1
  BY <1>1
<1>5. /\ x \in 0 .. 2 * h - 1 => r = x
      /\ x < 0 /\ x + 2 * h >= 0 => r = x + 2 * h
  BY <1>1
<1> HIDE DEF r
<1>6. CASE t.s
  BY <1>1, <1>2, <1>3, <1>4, <1>5, <1>6 DEF Fits
<1>7. CASE ~t.s
  BY <1>1, <1>2, <1>3, <1>4, <1>5, <1>7 DEF Fits
<1> QED BY <1>6, <1>7

\* The tests of addition and subtraction reject only what does not fit.
LEMMA AddExact ==
  ASSUME NEW h \in Nat \ {0, 1}, NEW v \in -h .. h - 1, NEW u \in -h .. h - 1
  PROVE  AddFalls(Signed(h), v, u) <=> ~Fits(Signed(h), v + u)
  BY SMT DEF AddFalls, Fits, Hi, Lo, Signed

LEMMA SubExact ==
  ASSUME NEW h \in Nat \ {0, 1}, Half[IntSize] <= h, Half[IntSize] \in Nat,
         NEW v \in -h .. h - 1, NEW u \in -h .. h - 1
  PROVE  SubFalls(Signed(h), v, u) <=> ~Fits(Signed(h), v - u)
<1>0. Signed(h).h = h /\ Signed(h).s = TRUE
  BY DEF Signed
<1>1. Promote(Signed(h)) = Signed(h)
  <2>1. ~(h < Half[IntSize])
    OBVIOUS
  <2> QED BY <1>0, <2>1 DEF Promote
<1>2. Flipped(Signed(h), v) = IF v < 0 THEN v + h ELSE v - h
  BY <1>0, <1>1 DEF Flipped
<1>3. SubFalls(Signed(h), v, u) <=> v - u \notin -h .. h - 1
  BY <1>2 DEF SubFalls, SubStep
<1> QED BY <1>0, <1>3 DEF Fits, Hi, Lo

\* A quotient that is exceeded is that of a smaller product.
LEMMA QuotientExceeded ==
  ASSUME NEW a \in Nat, NEW b \in Nat \ {0}, NEW c \in Nat
  PROVE  c > a \div b <=> c * b > a
<1>1. c <= a \div b => c * b <= a
  BY Division
<1> DEFINE q == a \div b
<1>2. q \in Nat /\ a < (q + 1) * b
  OBVIOUS
<1> HIDE DEF q
<1>3. ASSUME c > q PROVE c * b > a
  <2>1. c * b >= (q + 1) * b
    BY <1>2, <1>3
  <2> QED BY <1>2, <2>1
<1> QED BY <1>1, <1>2, <1>3 DEF q

\* The test of the multiplication rejects only what does not fit.
LEMMA MulExact ==
  ASSUME NEW h \in Nat \ {0, 1}, NEW v \in -h .. h - 1, NEW u \in -h .. h - 1
  PROVE  MulFalls(Signed(h), v, u) <=> ~Fits(Signed(h), v * u)
<1> DEFINE t == Signed(h)
<1>0. Hi(t) = h - 1 /\ Lo(t) = -h /\ v \in Int /\ u \in Int
  BY DEF Hi, Lo, Signed
<1>1. ~MulFalls(t, v, u) => Fits(t, v * u)
  BY MulSafe
<1>2. ASSUME MulFalls(t, v, u)
      PROVE  ~Fits(t, v * u)
  <2>1. CASE v > 0 /\ u > 0
    <3>1. Quotient(h - 1, u) = (h - 1) \div u
      BY <2>1 DEF Quotient, Abs
    <3>2. v > (h - 1) \div u
      BY <1>0, <1>2, <2>1, <3>1 DEF MulFalls
    <3>3. v * u > h - 1
      BY <2>1, <3>2, QuotientExceeded
    <3> QED BY <1>0, <3>3 DEF Fits
  <2>2. CASE v > 0 /\ u <= 0
    <3>1. Quotient(-h, v) = -(h \div v) /\ h \div v \in Nat
      BY <2>2 DEF Quotient, Abs
    <3>2. -u > h \div v
      BY <1>0, <1>2, <2>2, <3>1 DEF MulFalls
    <3>3. (-u) * v > h
      BY <2>2, <3>2, QuotientExceeded
    <3> QED BY <1>0, <2>2, <3>3 DEF Fits
  <2>3. CASE v <= 0 /\ u > 0
    <3>1. Quotient(-h, u) = -(h \div u) /\ h \div u \in Nat
      BY <2>3 DEF Quotient, Abs
    <3>2. -v > h \div u
      BY <1>0, <1>2, <2>3, <3>1 DEF MulFalls
    <3>3. (-v) * u > h
      BY <2>3, <3>2, QuotientExceeded
    <3> QED BY <1>0, <2>3, <3>3 DEF Fits
  <2>4. CASE v < 0 /\ u <= 0
    <3>1. Quotient(h - 1, v) = -((h - 1) \div (-v)) /\ (h - 1) \div (-v) \in Nat
      BY <2>4 DEF Quotient, Abs
    <3>2. -u > (h - 1) \div (-v)
      BY <1>0, <1>2, <2>4, <3>1 DEF MulFalls
    <3>3. (-u) * (-v) > h - 1
      BY <2>4, <3>2, QuotientExceeded
    <3> QED BY <1>0, <2>4, <3>3 DEF Fits
  <2> QED BY <1>2, <2>1, <2>2, <2>3, <2>4 DEF MulFalls
<1> QED BY <1>1, <1>2

\* The sizes, for a wrapper and the operands it may be called with.
LEMMA Ranges ==
  ASSUME NEW w \in Wrappers,
         NEW v \in Lo(Type(w)) .. Hi(Type(w)),
         NEW u \in Lo(RightType(w)) .. Hi(RightType(w))
  PROVE  /\ Half[w.size] \in Nat \ {0, 1} /\ Half[IntSize] \in Nat \ {0, 1}
         /\ w.size \in Size /\ w.signed \in BOOLEAN /\ w.op \in Ops /\ w.kind \in Kinds
         /\ Narrow(w.size) => 2 * (Half[w.size] * Half[w.size]) <= Half[IntSize]
         /\ ~Narrow(w.size) => Half[IntSize] <= Half[w.size]
         /\ IsType(Type(w)) /\ IsType(OpType(w)) /\ Type(w).s = w.signed
         /\ w.signed => Type(w) = Signed(Half[w.size])
         /\ v \in Int /\ u \in Int /\ Fits(Type(w), v)
         /\ w.signed => v \in -Half[w.size] .. Half[w.size] - 1
         /\ ~w.signed => v \in 0 .. 2 * Half[w.size] - 1
         /\ w.op \notin Shifts /\ w.signed => u \in -Half[w.size] .. Half[w.size] - 1
         /\ w.op \notin Shifts /\ ~w.signed => u \in 0 .. 2 * Half[w.size] - 1
<1> DEFINE h == Half[w.size]
           k == Half[IntSize]
<1>1. /\ h \in Nat \ {0, 1} /\ k \in Nat \ {0, 1} /\ w.size \in Size
      /\ w.signed \in BOOLEAN /\ w.op \in Ops /\ w.kind \in Kinds
      /\ Narrow(w.size) => 2 * (h * h) <= k
      /\ ~Narrow(w.size) => k <= h
  BY SafeMathConstantsOK, NarrowFits DEF Wrappers, Narrow
<1>2. /\ Type(w).h = h /\ Type(w).s = w.signed
      /\ w.signed => Type(w) = Signed(h)
  BY DEF Type, Signed
<1>3. /\ v \in Int /\ Fits(Type(w), v)
      /\ w.signed => v \in -h .. h - 1
      /\ ~w.signed => v \in 0 .. 2 * h - 1
  BY <1>1, <1>2 DEF Lo, Hi, Fits
<1>4. /\ u \in Int
      /\ w.op \notin Shifts /\ w.signed => u \in -h .. h - 1
      /\ w.op \notin Shifts /\ ~w.signed => u \in 0 .. 2 * h - 1
  <2>1. CASE w.op \in Shifts
    BY <1>1, <2>1 DEF RightType, Int32, Lo, Hi
  <2>2. CASE w.op \notin Shifts
    BY <1>1, <1>2, <2>2 DEF RightType, Lo, Hi
  <2> QED BY <2>1, <2>2
<1>5. IsType(Type(w))
  BY <1>1, <1>2 DEF IsType
<1>6. IsType(OpType(w))
  <2>1. \A sign \in BOOLEAN : IsType(Int32(sign))
    BY <1>1 DEF IsType, Int32
  <2> QED BY <1>5, <2>1 DEF OpType, Promote
<1> QED BY <1>1, <1>2, <1>3, <1>4, <1>5, <1>6

\* What is computed when the first operand is not returned is a number.
LEMMA ExactIsNumber ==
  ASSUME NEW w \in Wrappers,
         NEW v \in Lo(Type(w)) .. Hi(Type(w)),
         NEW u \in Lo(RightType(w)) .. Hi(RightType(w)),
         ~Falls(w, v, u)
  PROVE  Exact(w.op, v, u) \in Int
<1>1. v \in Int /\ u \in Int /\ w.op \in Ops /\ DefinedInC(w, v, u)
  BY Ranges, WrapperSafe
<1>2. CASE w.op \in {"minus", "add", "sub", "mul"}
  BY <1>1, <1>2 DEF Exact
<1>3. CASE w.op \in {"mod", "div"}
  <2>1. u # 0
    BY <1>1, <1>3 DEF DefinedInC
  <2>2. Quotient(v, u) \in Int /\ Remainder(v, u) \in Int
    BY <1>1, <2>1, QuotientBound
  <2> QED BY <1>3, <2>2 DEF Exact
<1>4. CASE w.op \in Shifts
  <2>1. w.size \in Size
    BY DEF Wrappers
  <2>2. ~ShiftFalls(w, v, u)
    BY <1>4 DEF Falls, LshiftFalls, Shifts
  <2>3. MaxShift \in Nat /\ Bits[w.size] \in Nat
    BY <2>1, SafeMathConstantsOK
  <2>4. u \in 0 .. MaxShift + Bits[w.size]
    BY <1>1, <2>2, <2>3 DEF Limit, ShiftFalls
  <2>5. Power(u) \in Nat \ {0}
    BY <2>1, <2>4, SafeMathConstantsOK
  <2> QED BY <1>1, <1>4, <2>5 DEF Exact, Shifts
<1> QED BY <1>1, <1>2, <1>3, <1>4 DEF Ops

\* The type in which an operation is done, when it has no sign.
LEMMA UnsignedOpType ==
  ASSUME NEW w \in Wrappers, ~OpType(w).s
  PROVE  OpType(w) = Type(w) \/ (w.op = "mul" /\ ~w.signed /\ Narrow(w.size) /\ OpType(w) = Int32(FALSE))
<1>1. /\ Narrow(w.size) => Promote(Type(w)) = Int32(TRUE)
      /\ ~Narrow(w.size) => Promote(Type(w)) = Type(w)
  BY DEF Promote, Type, Narrow
<1> QED BY <1>1 DEF OpType, Int32

\* A wrapper that computes gives the result of the operation in its type.
LEMMA ComputedResult ==
  ASSUME NEW w \in Wrappers,
         NEW v \in Lo(Type(w)) .. Hi(Type(w)),
         NEW u \in Lo(RightType(w)) .. Hi(RightType(w)),
         ~Falls(w, v, u)
  PROVE  /\ Wrap(Type(w), Result(w, v, u)) = Wrap(Type(w), Exact(w.op, v, u))
         /\ Fits(IF Converted(w) THEN Type(w) ELSE OpType(w), Result(w, v, u))
<1> DEFINE raw == Exact(w.op, v, u)
           t == OpType(w)
           val == IF t.s THEN raw ELSE Wrap(t, raw)
<1>1. raw \in Int /\ IsType(Type(w)) /\ IsType(t)
  BY ExactIsNumber, Ranges
<1>2. t.s => Fits(t, raw)
  BY WrapperSafe DEF DefinedInC
<1>3. Result(w, v, u) = IF Converted(w) THEN Wrap(Type(w), val) ELSE val
  BY DEF Result
<1>4. val \in Int /\ Fits(t, val)
  BY <1>1, <1>2, WrapFits
<1>5. Wrap(Type(w), val) = Wrap(Type(w), raw)
  <2>1. CASE t.s
    BY <2>1
  <2>2. CASE ~t.s /\ t = Type(w)
    <3>1. val = Wrap(Type(w), raw) /\ Wrap(Type(w), raw) \in Int /\ Fits(Type(w), Wrap(Type(w), raw))
      BY <1>1, <2>2, WrapFits
    <3> QED BY <1>1, <3>1, WrapFits
  <2>3. CASE w.op = "mul" /\ ~w.signed /\ Narrow(w.size) /\ t = Int32(FALSE)
    <3>1. raw = v * u
      BY <2>3 DEF Exact
    <3>2. PICK h \in Nat \ {0, 1}, k \in Nat :
            /\ h = Half[w.size] /\ k = Half[IntSize] /\ 2 * (h * h) <= k
            /\ v \in 0 .. 2 * h - 1 /\ u \in 0 .. 2 * h - 1
      BY <2>3, Ranges DEF Shifts
    <3>3. v * u <= (2 * h - 1) * (2 * h - 1)
      <4>1. v * u <= v * (2 * h - 1) /\ v * (2 * h - 1) <= (2 * h - 1) * (2 * h - 1)
        BY <3>2
      <4> QED BY <3>2, <4>1
    <3>4. v * u \in 0 .. 2 * k - 1
      <4>1. (2 * h - 1) * (2 * h - 1) = 4 * (h * h) - 4 * h + 1 /\ v * u \in Nat
        BY <3>2
      <4>2. h * h \in Nat
        BY <3>2
      <4> QED BY <3>2, <3>3, <4>1, <4>2
    <3>5. Fits(t, raw)
      BY <2>3, <3>1, <3>2, <3>4 DEF Fits, Lo, Hi, Int32
    <3> QED BY <1>1, <3>5, WrapFits
  <2> QED BY <2>1, <2>2, <2>3, UnsignedOpType
<1>6. Wrap(Type(w), val) \in Int /\ Fits(Type(w), Wrap(Type(w), val))
  BY <1>1, <1>4, WrapFits
<1>7. Wrap(Type(w), Wrap(Type(w), val)) = Wrap(Type(w), val)
  BY <1>1, <1>6, WrapFits
<1> HIDE DEF val
<1> QED BY <1>3, <1>4, <1>5, <1>6, <1>7

\* The tests reject exactly the operands whose result does not fit.
Undefined(w, v, u) ==
  CASE w.op \in {"mod", "div"} -> u = 0 \/ ~Fits(Type(w), Quotient(v, u))
    [] w.op \in Shifts -> v < 0 \/ u \notin 0 .. Limit(w) - 1 \/ ~Fits(Type(w), Exact(w.op, v, u))
    [] OTHER -> w.signed /\ Checked(w) /\ ~Fits(Type(w), Exact(w.op, v, u))

LEMMA FallsExactly ==
  ASSUME NEW w \in Wrappers,
         NEW v \in Lo(Type(w)) .. Hi(Type(w)),
         NEW u \in Lo(RightType(w)) .. Hi(RightType(w)),
         ~(w.op = "sub" /\ w.kind = "macro" /\ Narrow(w.size))
  PROVE  Falls(w, v, u) <=> Undefined(w, v, u)
<1> DEFINE h == Half[w.size]
<1>1. /\ h \in Nat \ {0, 1} /\ Half[IntSize] \in Nat
      /\ w.size \in Size /\ w.signed \in BOOLEAN /\ w.op \in Ops /\ w.kind \in Kinds
      /\ ~Narrow(w.size) => Half[IntSize] <= h
      /\ w.signed => Type(w) = Signed(h)
      /\ v \in Int /\ u \in Int /\ Fits(Type(w), v) /\ Type(w).s = w.signed /\ Type(w).h = h
      /\ w.signed => v \in -h .. h - 1
      /\ ~w.signed => v \in 0 .. 2 * h - 1
      /\ w.op \notin Shifts /\ w.signed => u \in -h .. h - 1
      /\ w.op \notin Shifts /\ ~w.signed => u \in 0 .. 2 * h - 1
  BY Ranges DEF Type
<1>0. \A x \in Int : Fits(Signed(h), x) <=> x \in -h .. h - 1
  BY <1>1 DEF Fits, Lo, Hi, Signed
<1> HIDE DEF h
<1>2. CASE w.op = "minus"
  <2>1. Undefined(w, v, u) <=> w.signed /\ Checked(w) /\ ~Fits(Type(w), -v)
    BY <1>2 DEF Undefined, Exact, Shifts
  <2>2. Falls(w, v, u) <=> w.signed /\ Checked(w) /\ v = Lo(Type(w))
    BY <1>2 DEF Falls
  <2>3. ASSUME w.signed
        PROVE  ~Fits(Type(w), -v) <=> v = Lo(Type(w))
    <3>1. Lo(Type(w)) = -h
      BY <1>1, <2>3 DEF Lo
    <3>2. -v \notin -h .. h - 1 <=> v = -h
      BY <1>1, <2>3
    <3> QED BY <1>0, <1>1, <2>3, <3>1, <3>2
  <2> QED BY <2>1, <2>2, <2>3
<1>3. CASE w.op = "add"
  <2>1. Undefined(w, v, u) <=> w.signed /\ Checked(w) /\ ~Fits(Type(w), v + u)
    BY <1>3 DEF Undefined, Exact, Shifts
  <2>2. Falls(w, v, u) <=> w.signed /\ Checked(w) /\ AddFalls(Type(w), v, u)
    BY <1>3 DEF Falls
  <2>3. w.signed => (AddFalls(Signed(h), v, u) <=> ~Fits(Signed(h), v + u))
    BY <1>1, <1>3, AddExact DEF Shifts
  <2> QED BY <1>1, <2>1, <2>2, <2>3
<1>4. CASE w.op = "sub"
  <2>1. Undefined(w, v, u) <=> w.signed /\ Checked(w) /\ ~Fits(Type(w), v - u)
    BY <1>4 DEF Undefined, Exact, Shifts
  <2>2. Falls(w, v, u) <=> w.signed /\ Checked(w) /\ SubFalls(Type(w), v, u)
    BY <1>4 DEF Falls
  <2>3. Checked(w) => ~Narrow(w.size)
    BY <1>1, <1>4 DEF Checked
  <2>4. w.signed /\ ~Narrow(w.size) => (SubFalls(Signed(h), v, u) <=> ~Fits(Signed(h), v - u))
    BY <1>1, <1>4, SubExact DEF Shifts
  <2> QED BY <1>1, <2>1, <2>2, <2>3, <2>4
<1>5. CASE w.op = "mul"
  <2>1. Undefined(w, v, u) <=> w.signed /\ Checked(w) /\ ~Fits(Type(w), v * u)
    BY <1>5 DEF Undefined, Exact, Shifts
  <2>2. Falls(w, v, u) <=> w.signed /\ Checked(w) /\ MulFalls(Type(w), v, u)
    BY <1>5 DEF Falls
  <2>3. w.signed => (MulFalls(Signed(h), v, u) <=> ~Fits(Signed(h), v * u))
    BY <1>1, <1>5, MulExact DEF Shifts
  <2> QED BY <1>1, <2>1, <2>2, <2>3
<1>6. CASE w.op \in {"mod", "div"}
  <2>1. Undefined(w, v, u) <=> u = 0 \/ ~Fits(Type(w), Quotient(v, u))
    BY <1>6 DEF Undefined, Shifts
  <2>2. Falls(w, v, u) <=> DivFalls(Type(w), v, u)
    BY <1>6 DEF Falls
  <2>3. ASSUME u # 0, w.signed, v = -h, u = -1
        PROVE  ~Fits(Type(w), Quotient(v, u))
    <3>1. Quotient(v, u) = h \div 1
      BY <1>1, <2>3 DEF Quotient, Abs
    <3>2. h \div 1 = h
      BY <1>1
    <3> QED BY <1>0, <1>1, <2>3, <3>1, <3>2
  <2>4. ASSUME u # 0, ~(Type(w).s /\ v = Lo(Type(w)) /\ u = -1)
        PROVE  Fits(Type(w), Quotient(v, u))
    <3>1. IsType(Type(w)) /\ RightType(w) = Type(w)
      BY <1>1, <1>6 DEF IsType, RightType, Shifts
    <3> QED BY <2>4, <3>1, DivisionFits
  <2>5. w.signed => Lo(Type(w)) = -h
    BY <1>1 DEF Lo
  <2> QED BY <1>1, <2>1, <2>2, <2>3, <2>4, <2>5 DEF DivFalls
<1>7. CASE w.op \in Shifts
  <2>1. /\ Undefined(w, v, u) <=> \/ v < 0 \/ u \notin 0 .. Limit(w) - 1
                                  \/ ~Fits(Type(w), Exact(w.op, v, u))
        /\ Limit(w) \in Int
    <3>1. Limit(w) \in Int
      BY <1>1, SafeMathConstantsOK DEF Limit
    <3>2. w.op \notin {"mod", "div"}
      BY <1>7 DEF Shifts
    <3> QED BY <1>7, <3>1, <3>2 DEF Undefined
  <2>2. ShiftFalls(w, v, u) <=> v < 0 \/ u \notin 0 .. Limit(w) - 1
    BY <1>1, <2>1 DEF ShiftFalls
  <2>3. ASSUME ~ShiftFalls(w, v, u)
        PROVE  Falls(w, v, u) <=> ~Fits(Type(w), Exact(w.op, v, u))
    <3>1. v >= 0 /\ u \in Nat /\ u < Limit(w) /\ v \in Nat
      BY <1>1, <2>1, <2>3 DEF ShiftFalls
    <3>2. Power(u) \in Nat \ {0}
      <4>1. MaxShift \in Nat /\ Bits[w.size] \in Nat
        BY <1>1, SafeMathConstantsOK
      <4>2. u \in 0 .. MaxShift + Bits[w.size]
        BY <3>1, <4>1 DEF Limit
      <4> QED BY <1>1, <4>2, SafeMathConstantsOK
    <3>3. Hi(Type(w)) \in Nat /\ v <= Hi(Type(w)) /\ Lo(Type(w)) <= 0 /\ Lo(Type(w)) \in Int
      BY <1>1 DEF Hi, Lo
    <3>4. CASE w.op = "lshift"
      <4>1. Falls(w, v, u) <=> v > Hi(Type(w)) \div Power(u)
        BY <2>3, <3>4 DEF Falls, LshiftFalls
      <4>2. v > Hi(Type(w)) \div Power(u) <=> v * Power(u) > Hi(Type(w))
        BY <3>1, <3>2, <3>3, QuotientExceeded
      <4>3. v * Power(u) \in Nat /\ Exact(w.op, v, u) = v * Power(u)
        BY <3>1, <3>2, <3>4 DEF Exact
      <4> QED BY <3>3, <4>1, <4>2, <4>3 DEF Fits
    <3>5. CASE w.op = "rshift"
      <4>1. ~Falls(w, v, u) /\ Exact(w.op, v, u) = v \div Power(u)
        BY <2>3, <3>5 DEF Falls, Exact
      <4>2. v \div Power(u) \in Nat /\ v \div Power(u) <= v
        BY <3>1, <3>2, Division
      <4> QED BY <3>1, <3>3, <4>1, <4>2 DEF Fits
    <3> QED BY <1>7, <3>4, <3>5 DEF Shifts
  <2>4. ShiftFalls(w, v, u) => Falls(w, v, u)
    BY <1>7 DEF Falls, LshiftFalls, Shifts
  <2> QED BY <2>1, <2>2, <2>3, <2>4
<1> QED BY <1>1, <1>2, <1>3, <1>4, <1>5, <1>6, <1>7 DEF Ops

----------------------------------------------------------------------------
\* What a call gives, from a wrapper and operands in the ranges of their types.
Called(v, u) ==
  /\ v \in Lo(Type(wrapper)) .. Hi(Type(wrapper))
  /\ u \in Lo(RightType(wrapper)) .. Hi(RightType(wrapper))
  /\ args = <<v, u>>
  /\ value = Result(wrapper, v, u)

CallInv ==
  /\ wrapper \in Wrappers
  /\ (args = <<>> /\ value = 0) \/ \E v, u : Called(v, u)

LEMMA CallInvariant == Spec => []CallInv
<1>1. Init => CallInv
  BY DEF Init, CallInv
<1>2. CallInv /\ [Next]_vars => CallInv'
  BY DEF CallInv, Called, Next, Invoke, vars
<1> QED BY <1>1, <1>2, PTL DEF Spec

\* The mask of a macro that subtracts numbers narrower than int is an int.
LEMMA NarrowMaskFits ==
  ASSUME NEW w \in Wrappers, Narrow(w.size), NEW x \in MaskSteps(w)
  PROVE  Fits(Promote(Type(w)), x)
<1>1. /\ Half[w.size] \in Nat \ {0, 1} /\ Half[IntSize] \in Nat
      /\ 4 * Half[w.size] <= Half[IntSize]
  BY SafeMathConstantsOK, NarrowFits DEF Wrappers
<1>2. Promote(Type(w)) = Int32(TRUE) /\ x = Half[w.size]
  BY DEF Promote, Type, Narrow, MaskSteps
<1> QED BY <1>1, <1>2 DEF Fits, Lo, Hi, Int32

\* The widths play no part: with the limits of any platform, no wrapper computes
\* anything that is undefined in C, but for the mask of the macros that subtract
\* int32_t and int64_t.
THEOREM Safe == Spec => []NoUndefinedOperation
<1>1. CallInv => NoUndefinedOperation
  <2> SUFFICES ASSUME CallInv, args # <<>>
               PROVE  /\ \A x \in Steps(wrapper, args[1], args[2]) : Fits(Promote(Type(wrapper)), x)
                      /\ Narrow(wrapper.size) =>
                           \A x \in MaskSteps(wrapper) : Fits(Promote(Type(wrapper)), x)
                      /\ ~Falls(wrapper, args[1], args[2]) => DefinedInC(wrapper, args[1], args[2])
    BY DEF NoUndefinedOperation
  <2>1. PICK v, u : Called(v, u)
    BY DEF CallInv
  <2>2. args[1] = v /\ args[2] = u /\ wrapper \in Wrappers
    BY <2>1 DEF CallInv, Called
  <2>3. Narrow(wrapper.size) => \A x \in MaskSteps(wrapper) : Fits(Promote(Type(wrapper)), x)
    BY <2>2, NarrowMaskFits
  <2> QED BY <2>1, <2>2, <2>3, WrapperSafe DEF Called
<1> QED BY <1>1, CallInvariant, PTL

\* What a wrapper returns is a value of the type it is declared with, for a macro the
\* promoted type, also where it returns its operand.
THEOREM WrapperTypes == Spec => []TypeOK
<1>1. CallInv => TypeOK
  <2>1. ASSUME CallInv, NEW v, NEW u, Called(v, u)
        PROVE  TypeOK
    <3>1. Fits(IF Converted(wrapper) THEN Type(wrapper) ELSE OpType(wrapper), Result(wrapper, v, u))
      <4>1. CASE Falls(wrapper, v, u)
        <5>1. Result(wrapper, v, u) = v
          BY <4>1 DEF Result
        <5>2. v \in Int /\ Fits(Type(wrapper), v)
          BY <2>1, Ranges DEF CallInv, Called
        <5>3. ~Converted(wrapper) => OpType(wrapper) = Promote(Type(wrapper))
          BY DEF Converted, OpType
        <5> QED BY <2>1, <5>1, <5>2, <5>3, Widen DEF CallInv
      <4>2. CASE ~Falls(wrapper, v, u)
        BY <2>1, <4>2, ComputedResult DEF CallInv, Called
      <4> QED BY <4>1, <4>2
    <3> QED BY <2>1, <3>1 DEF CallInv, Called, TypeOK
  <2>2. ASSUME CallInv, args = <<>>, value = 0
        PROVE  TypeOK
    BY <2>2 DEF CallInv, TypeOK
  <2> QED BY <2>1, <2>2 DEF CallInv
<1> QED BY <1>1, CallInvariant, PTL

\* Each wrapper returns what its operation gives in its type, and the first operand
\* exactly where that does not fit: for all widths its tests are not too strict.
THEOREM ResultsExact == Spec => []ResultAsInC
<1>1. CallInv => ResultAsInC
  <2> SUFFICES ASSUME CallInv, args # <<>>,
                      ~(wrapper.op = "sub" /\ wrapper.kind = "macro" /\ Narrow(wrapper.size))
               PROVE  Wrap(Type(wrapper), value) = Expected(wrapper, args[1], args[2])
    BY DEF ResultAsInC
  <2>1. PICK v, u : Called(v, u)
    BY DEF CallInv
  <2>2. /\ args[1] = v /\ args[2] = u /\ wrapper \in Wrappers /\ value = Result(wrapper, v, u)
        /\ v \in Lo(Type(wrapper)) .. Hi(Type(wrapper))
        /\ u \in Lo(RightType(wrapper)) .. Hi(RightType(wrapper))
    BY <2>1 DEF CallInv, Called
  <2>3. Expected(wrapper, v, u) =
          IF Undefined(wrapper, v, u) THEN v ELSE Wrap(Type(wrapper), Exact(wrapper.op, v, u))
    BY DEF Expected, Undefined
  <2>4. CASE Falls(wrapper, v, u)
    <3>1. Result(wrapper, v, u) = v /\ Undefined(wrapper, v, u)
      BY <2>2, <2>4, FallsExactly DEF Result
    <3>2. Wrap(Type(wrapper), v) = v
      BY <2>2, Ranges, WrapFits
    <3> QED BY <2>2, <2>3, <3>1, <3>2
  <2>5. CASE ~Falls(wrapper, v, u)
    BY <2>2, <2>3, <2>5, FallsExactly, ComputedResult
  <2> QED BY <2>4, <2>5
<1> QED BY <1>1, CallInvariant, PTL
=============================================================================
