----------------------------- MODULE SafeNumbers -----------------------------
(***************************************************************************)
(* The checked functions of namespace eint on two operands of built-in     *)
(* integer types.  A type has a sign and a greatest value (with more       *)
(* digits, a greater one); a conversion to it keeps the value modulo the   *)
(* size of the type.                                                       *)
(***************************************************************************)
EXTENDS Integers

CONSTANT Maxima   \* the greatest values of the types, 2^digits - 1

ASSUME SafeNumbersConstants == Maxima \subseteq Nat

VARIABLES ta, tb,     \* the types of the two operands
          a, b,       \* their values
          operation,  \* what was computed
          result      \* <<value>>, or <<>> when it threw; a truth value is 0 or 1

numberVars == <<ta, tb, a, b, operation, result>>

Types == [signed : BOOLEAN, max : Maxima]
TypeMin(t) == IF t.signed THEN -(t.max + 1) ELSE 0
Values(t) == TypeMin(t) .. t.max
static_cast(t, v) == ((v - TypeMin(t)) % (t.max - TypeMin(t) + 1)) + TypeMin(t)

\* Mutant: off by one at the least value.
MutMinusEdge(t, x, y) ==
  IF (y < 0 /\ t.max + y < x) \/ (y > 0 /\ TypeMin(t) + y > x + 1)
  THEN <<>> ELSE <<static_cast(t, x - y)>>

\* eint_minus and eint_plus take two operands of one type, and the result has this type.
eint_minus(t, x, y) ==
  IF (y < 0 /\ t.max + y < x) \/ (y > 0 /\ TypeMin(t) + y > x)
  THEN <<>> ELSE <<static_cast(t, x - y)>>

eint_plus(t, x, y) ==
  IF (x > 0 /\ t.max - x < y) \/ (x < 0 /\ TypeMin(t) - x > y)
  THEN <<>> ELSE <<static_cast(t, x + y)>>

\* u is of the unsigned type tu and s, not negative, of the signed type ts: the one of the
\* smaller type is converted.
Widened(tu, u, ts, s) ==
  IF tu.max >= ts.max THEN <<u, static_cast(tu, s)>> ELSE <<static_cast(ts, u), s>>

eint_less(tx, x, ty, y) ==
  \/ ~tx.signed /\ ty.signed /\ y >= 0 /\ LET w == Widened(tx, x, ty, y) IN w[1] < w[2]
  \/ tx.signed /\ ~ty.signed /\ (x < 0 \/ LET w == Widened(ty, y, tx, x) IN w[2] < w[1])
  \/ tx.signed = ty.signed /\ x < y

eint_equal(tx, x, ty, y) ==
  \/ ~tx.signed /\ ty.signed /\ y >= 0 /\ LET w == Widened(tx, x, ty, y) IN w[1] = w[2]
  \/ tx.signed /\ ~ty.signed /\ x >= 0 /\ LET w == Widened(ty, y, tx, x) IN w[1] = w[2]
  \/ tx.signed = ty.signed /\ x = y

eint_greater(tx, x, ty, y) == ~(eint_less(tx, x, ty, y) \/ eint_equal(tx, x, ty, y))

Truth(p) == IF p THEN 1 ELSE 0

NumberInit ==
  /\ ta \in Types /\ tb \in Types /\ a \in Values(ta) /\ b \in Values(tb)
  /\ operation = "none" /\ result = <<>>

Compute(op, r) ==
  /\ operation = "none" /\ operation' = op /\ result' = r /\ UNCHANGED <<ta, tb, a, b>>

NumberNext ==
  \/ ta = tb /\ Compute("minus", eint_minus(ta, a, b))
  \/ ta = tb /\ Compute("plus", eint_plus(ta, a, b))
  \/ Compute("less", <<Truth(eint_less(ta, a, tb, b))>>)
  \/ Compute("equal", <<Truth(eint_equal(ta, a, tb, b))>>)
  \/ Compute("greater", <<Truth(eint_greater(ta, a, tb, b))>>)

-----------------------------------------------------------------------------

NumberTypeOK ==
  /\ ta \in Types /\ tb \in Types /\ a \in Values(ta) /\ b \in Values(tb)
  /\ operation \in {"none", "minus", "plus", "less", "equal", "greater"}
  /\ operation \in {"minus", "plus"} /\ result # <<>> => result[1] \in Values(ta)

Exact(t, v) == IF v \in Values(t) THEN <<v>> ELSE <<>>

\* Each function gives the mathematical result, or throws exactly when the type cannot hold it;
\* comparisons across signs and sizes are those of the numbers (eint.hpp:24-167).
EintIsExact ==
  /\ operation = "minus" => result = Exact(ta, a - b)
  /\ operation = "plus" => result = Exact(ta, a + b)
  /\ operation = "less" => result = <<Truth(a < b)>>
  /\ operation = "equal" => result = <<Truth(a = b)>>
  /\ operation = "greater" => result = <<Truth(a > b)>>
=============================================================================
