------------------------------ MODULE SafeMath -------------------------------
(***************************************************************************)
(* The wrappers of the arithmetic operators: the generator picks signs and *)
(* a size for an operator (SafeOpFlags) and prints a call of the wrapper   *)
(* of that name, a function of safe_math.m4 or a macro of                  *)
(* safe_math_macros.m4.  A wrapper returns its first operand where the     *)
(* operator would be undefined.                                            *)
(*                                                                         *)
(* The widths are constants, given by the limit of each signed type, so    *)
(* that small widths in the proportions of the real ones can be checked    *)
(* for all operands.  Floating point is left out.                          *)
(***************************************************************************)
EXTENDS Integers

CONSTANTS
  Size,       \* SafeOpSize: sInt8, sInt16, sInt32, sInt64
  IntSize,    \* the size of the type int
  Half,       \* INT8_MAX + 1 and so on
  Bits,       \* the width of each size
  MaxShift,   \* maxshift, which is 32 for every type: m4 is not told the type
  Power(_)    \* powers of two

ASSUME SafeMathConstantsOK ==
  /\ IntSize \in Size
  /\ Half \in [Size -> Nat \ {0, 1}]
  /\ Bits \in [Size -> Nat \ {0}]
  /\ MaxShift \in Nat
  /\ \A s \in Size : \A n \in 0 .. MaxShift + Bits[s] : Power(n) \in Nat \ {0}

Narrow(s) == Half[s] < Half[IntSize]

\* an int has the values of narrower types to spare, and holds the product of two;
\* without a sign, too
ASSUME NarrowFits ==
  \A s \in Size :
    Narrow(s) => 4 * Half[s] <= Half[IntSize] /\ 2 * (Half[s] * Half[s]) <= Half[IntSize]

\* shifts stay below the width of the promoted operand; where int has 16 bits they do not
ASSUME ShiftsFit ==
  \A s \in Size : LET b == Bits[IF Narrow(s) THEN IntSize ELSE s] IN MaxShift <= b /\ Bits[s] <= b

VARIABLES
  wrapper,   \* which wrapper is called
  args,      \* its operands
  value      \* what it returns

vars == <<wrapper, args, value>>

Kinds == {"function", "macro"}
Shifts == {"lshift", "rshift"}
Ops == {"minus", "add", "sub", "mul", "mod", "div"} \cup Shifts

\* SafeOpFlags: rsigned is the sign of the right operand of a shift
Wrappers ==
  [kind : Kinds, op : Ops, size : Size, signed : BOOLEAN, rsigned : BOOLEAN]
----------------------------------------------------------------------------
(* Integer types: [s |-> signed, h |-> Half] *)

Type(w) == [s |-> w.signed, h |-> Half[w.size]]
Int32(sign) == [s |-> sign, h |-> Half[IntSize]]
RightType(w) == IF w.op \in Shifts THEN Int32(w.rsigned) ELSE Type(w)

Lo(t) == IF t.s THEN -t.h ELSE 0
Hi(t) == IF t.s THEN t.h - 1 ELSE 2 * t.h - 1
Fits(t, v) == Lo(t) <= v /\ v <= Hi(t)

\* the integer promotions
Promote(t) == IF t.h < Half[IntSize] THEN Int32(TRUE) ELSE t

Wrap(t, v) == LET u == v % (2 * t.h) IN IF t.s /\ u >= t.h THEN u - 2 * t.h ELSE u

Abs(v) == IF v < 0 THEN -v ELSE v

\* division truncates
Quotient(v, w) ==
  IF (v < 0) = (w < 0) THEN Abs(v) \div Abs(w) ELSE -(Abs(v) \div Abs(w))
Remainder(v, w) == v - w * Quotient(v, w)
----------------------------------------------------------------------------
(* Wrappers of signed operators.  Steps, MaskSteps: what the test computes *)
(* on the way; Falls: whether the first operand is returned.               *)

\* #if ($3 >= INT_MAX); the macros have no such condition
Checked(w) == w.kind = "macro" \/ ~Narrow(w.size)

AddSteps(t, v, u) ==
  (IF v > 0 /\ u > 0 THEN {Hi(t) - u} ELSE {}) \cup
  (IF v < 0 /\ u < 0 THEN {Lo(t) - u} ELSE {})
AddFalls(t, v, u) ==
  \/ v > 0 /\ u > 0 /\ v > Hi(t) - u
  \/ v < 0 /\ u < 0 /\ v < Lo(t) - u

\* The mask with the sign bit.  The function has a constant for it, ~INT32_MAX; the
\* macro shifts a 1 to it, whatever the operands.
MaskSteps(w) == IF w.op = "sub" /\ w.signed /\ w.kind = "macro" THEN {Half[w.size]} ELSE {}

\* (si1 ^ ((si1 ^ si2) & mask)) - si2: when the signs differ si1 with the other sign
\* bit.  In an int of more bits the sign bit of a narrower type counts as a digit.
\* Where the macro's shift does not fit the mask is taken to be as in the function,
\* which is what compilers make of it.
Flipped(t, v) ==
  IF t.h = Promote(t).h
  THEN IF v < 0 THEN v + t.h ELSE v - t.h
  ELSE IF v < 0 THEN v - t.h ELSE v + t.h
SubStep(t, v, u) == (IF (v < 0) = (u < 0) THEN v ELSE Flipped(t, v)) - u
SubFalls(t, v, u) == (v < 0) # (u < 0) /\ (SubStep(t, v, u) < 0) # (u < 0)

MulSteps(t, v, u) ==
  CASE v > 0 /\ u > 0            -> {Quotient(Hi(t), u)}
    [] v > 0 /\ u <= 0           -> {Quotient(Lo(t), v)}
    [] v <= 0 /\ u > 0           -> {Quotient(Lo(t), u)}
    [] v < 0 /\ u <= 0           -> {Quotient(Hi(t), v)}
    [] OTHER                     -> {}
MulFalls(t, v, u) ==
  \/ v > 0 /\ u > 0 /\ v > Quotient(Hi(t), u)
  \/ v > 0 /\ u <= 0 /\ u < Quotient(Lo(t), v)
  \/ v <= 0 /\ u > 0 /\ v < Quotient(Lo(t), u)
  \/ v < 0 /\ u <= 0 /\ u < Quotient(Hi(t), v)

\* also the wrappers of unsigned % and /
DivFalls(t, v, u) == u = 0 \/ (t.s /\ v = Lo(t) /\ u = -1)

Limit(w) == IF w.kind = "function" THEN MaxShift ELSE Bits[w.size]

\* mutant: allows one shift too many
ShiftFallsLate(w, v, u) == v < 0 \/ u < 0 \/ u > Limit(w)

ShiftFalls(w, v, u) == v < 0 \/ u < 0 \/ u >= Limit(w)

LshiftFalls(w, v, u) ==
  ShiftFalls(w, v, u) \/ v > Hi(Type(w)) \div Power(u)

Falls(w, v, u) ==
  CASE w.op = "minus"  -> w.signed /\ Checked(w) /\ v = Lo(Type(w))
    [] w.op = "add"    -> w.signed /\ Checked(w) /\ AddFalls(Type(w), v, u)
    [] w.op = "sub"    -> w.signed /\ Checked(w) /\ SubFalls(Type(w), v, u)
    [] w.op = "mul"    -> w.signed /\ Checked(w) /\ MulFalls(Type(w), v, u)
    [] w.op \in {"mod", "div"} -> DivFalls(Type(w), v, u)
    [] w.op = "lshift" -> LshiftFalls(w, v, u)
    [] w.op = "rshift" -> ShiftFalls(w, v, u)

Steps(w, v, u) ==
  IF ~w.signed \/ ~Checked(w) THEN {}
  ELSE CASE w.op = "add" -> AddSteps(Type(w), v, u)
         [] w.op = "sub" -> {SubStep(Type(w), v, u)}
         [] w.op = "mul" -> MulSteps(Type(w), v, u)
         [] OTHER -> {}

\* mutant: multiplies what the integer promotions give
OpTypeUncast(w) == Promote(Type(w))

\* the operands of an unsigned multiplication are cast: promote2
OpType(w) ==
  IF w.op = "mul" /\ ~w.signed /\ Narrow(w.size) THEN Int32(FALSE)
  ELSE Promote(Type(w))

Exact(op, v, u) ==
  CASE op = "minus"  -> -v
    [] op = "add"    -> v + u
    [] op = "sub"    -> v - u
    [] op = "mul"    -> v * u
    [] op = "mod"    -> Remainder(v, u)
    [] op = "div"    -> Quotient(v, u)
    [] op = "lshift" -> v * Power(u)
    [] op = "rshift" -> v \div Power(u)

\* mutant: the function returns what it computed, too wide
ResultWide(w, v, u) == IF Falls(w, v, u) THEN v ELSE Exact(w.op, v, u)

\* converted to the return type of the function; a macro has the type of its
\* expression, which is a cast for the multiplication of unsigned numbers
Converted(w) == w.kind = "function" \/ (w.op = "mul" /\ ~w.signed)

Result(w, v, u) ==
  LET raw == Exact(w.op, v, u)
      t == OpType(w)
      val == IF t.s THEN raw ELSE Wrap(t, raw)
  IN  IF Falls(w, v, u) THEN v
      ELSE IF Converted(w) THEN Wrap(Type(w), val) ELSE val
----------------------------------------------------------------------------
(* Specification *)

Init ==
  /\ wrapper \in {w \in Wrappers : w.rsigned => w.op \in Shifts}
  /\ args = <<>> /\ value = 0

\* the operands, converted to the declared types
Invoke(v, u) ==
  /\ wrapper.op = "minus" => u = 0
  /\ args' = <<v, u>>
  /\ value' = Result(wrapper, v, u)
  /\ UNCHANGED wrapper

Next ==
  /\ args = <<>>
  /\ \E v \in Lo(Type(wrapper)) .. Hi(Type(wrapper)) :
       \E u \in Lo(RightType(wrapper)) .. Hi(RightType(wrapper)) : Invoke(v, u)

Spec == Init /\ [][Next]_vars
----------------------------------------------------------------------------
(* Properties *)

TypeOK ==
  /\ wrapper \in Wrappers
  /\ \/ args = <<>> /\ value = 0
     \/ /\ args \in (Lo(Type(wrapper)) .. Hi(Type(wrapper))) \X
                   (Lo(RightType(wrapper)) .. Hi(RightType(wrapper)))
        /\ Fits(IF Converted(wrapper) THEN Type(wrapper) ELSE OpType(wrapper), value)

OpBits(w) == Bits[IF Narrow(w.size) THEN IntSize ELSE w.size]

DefinedInC(w, v, u) ==
  /\ w.op \in {"mod", "div"} => u # 0 /\ (OpType(w).s => Fits(OpType(w), Quotient(v, u)))
  /\ w.op \in Shifts => v >= 0 /\ u \in 0 .. OpBits(w) - 1
  /\ OpType(w).s => Fits(OpType(w), Exact(w.op, v, u))

\* Nothing that a wrapper computes is undefined in C, neither the operation nor the
\* tests that guard it, with one exception: the mask of the macro that subtracts is
\* (($1)1) << (sizeof($1)*CHAR_BIT-1), which C99 6.5.7p4 defines only for types
\* narrower than int, not for int32_t and int64_t.
NoUndefinedOperation ==
  args # <<>> =>
    /\ \A s \in Steps(wrapper, args[1], args[2]) : Fits(Promote(Type(wrapper)), s)
    /\ Narrow(wrapper.size) => \A s \in MaskSteps(wrapper) : Fits(Promote(Type(wrapper)), s)
    /\ ~Falls(wrapper, args[1], args[2]) => DefinedInC(wrapper, args[1], args[2])

\* what a wrapper is for: the operation, unless its result does not fit
Expected(w, v, u) ==
  LET undefined ==
        CASE w.op \in {"mod", "div"} -> u = 0 \/ ~Fits(Type(w), Quotient(v, u))
          [] w.op \in Shifts -> \/ v < 0 \/ u \notin 0 .. Limit(w) - 1
                                \/ ~Fits(Type(w), Exact(w.op, v, u))
          [] OTHER -> w.signed /\ Checked(w) /\ ~Fits(Type(w), Exact(w.op, v, u))
  IN  IF undefined THEN v ELSE Wrap(Type(w), Exact(w.op, v, u))

\* A wrapper returns the result of the operation in its type, and its first operand
\* exactly where that does not fit: no test rejects too much.  The macro for the
\* subtraction of narrow types is left out: it rejects any operands of different sign.
ResultAsInC ==
  args # <<>> /\ ~(wrapper.op = "sub" /\ wrapper.kind = "macro" /\ Narrow(wrapper.size)) =>
    Wrap(Type(wrapper), value) = Expected(wrapper, args[1], args[2])
=============================================================================
