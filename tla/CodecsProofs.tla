---------------------------- MODULE CodecsProofs ----------------------------
(***************************************************************************)
(* The formats that a node reads and writes, for every value that may come *)
(* up in them: eint is exact for every width of the built-in types, what   *)
(* goes through a device comes back as it was, a reference is split into   *)
(* its parts, and what was pushed is popped.                               *)
(***************************************************************************)
EXTENDS SafeNumbers, TunFrames, PeerReferences, Serialization, SequenceTheorems, WellFoundedInduction, TLAPS

NumberSpec == NumberInit /\ [][NumberNext]_numberVars
FrameSpec == FrameInit /\ [][FrameNext]_frameVars
ReferenceSpec == ReferenceInit /\ [][ReferenceNext]_referenceVars
SerialSpec == SerialInit /\ [][SerialNext]_serialVars

\* A remainder of a number below the divisor is the number.
LEMMA SmallRemainder ==
  ASSUME NEW n \in Nat, NEW v \in Nat, v < n PROVE v % n = v
  BY SMT

\* A conversion to a type that holds the value keeps it.
LEMMA CastKeeps ==
  ASSUME NEW t \in Types, NEW v \in Values(t) PROVE static_cast(t, v) = v
<1>0. t.max \in Nat
  BY SafeNumbersConstants DEF Types
<1>1. t.max \in Nat /\ TypeMin(t) \in Int
  BY <1>0 DEF TypeMin
<1>2. v \in Int /\ v - TypeMin(t) \in Nat /\ t.max - TypeMin(t) + 1 \in Nat
      /\ v - TypeMin(t) < t.max - TypeMin(t) + 1
  BY <1>1 DEF Values, TypeMin
<1>3. (v - TypeMin(t)) % (t.max - TypeMin(t) + 1) = v - TypeMin(t)
  BY <1>2, SmallRemainder
<1> QED
  BY <1>1, <1>2, <1>3 DEF static_cast

\* The types of operands are integer intervals around zero.
LEMMA TypeFacts ==
  ASSUME NEW t \in Types
  PROVE  /\ t.max \in Nat /\ TypeMin(t) \in Int /\ TypeMin(t) <= 0
         /\ t.signed => TypeMin(t) = -(t.max + 1)
         /\ ~t.signed => TypeMin(t) = 0
         /\ \A v : v \in Values(t) <=> v \in Int /\ TypeMin(t) <= v /\ v <= t.max
<1>1. t.max \in Nat
  BY SafeNumbersConstants DEF Types
<1>2. TypeMin(t) \in Int /\ TypeMin(t) <= 0
  BY <1>1 DEF TypeMin
<1>3. (t.signed => TypeMin(t) = -(t.max + 1)) /\ (~t.signed => TypeMin(t) = 0)
  BY DEF TypeMin
<1>4. \A v : v \in Values(t) <=> v \in Int /\ TypeMin(t) <= v /\ v <= t.max
  BY <1>1, <1>2 DEF Values
<1> QED
  BY <1>1, <1>2, <1>3, <1>4

\* eint_minus and eint_plus give the exact result or throw.
LEMMA ExactSums ==
  ASSUME NEW t \in Types, NEW x \in Values(t), NEW y \in Values(t)
  PROVE  eint_minus(t, x, y) = Exact(t, x - y) /\ eint_plus(t, x, y) = Exact(t, x + y)
<1>1. x \in Int /\ y \in Int /\ t.max \in Nat /\ TypeMin(t) \in Int /\ TypeMin(t) <= 0
      /\ TypeMin(t) <= x /\ x <= t.max /\ TypeMin(t) <= y /\ y <= t.max
  BY TypeFacts
<1>2. ((y < 0 /\ t.max + y < x) \/ (y > 0 /\ TypeMin(t) + y > x)) <=> x - y \notin Values(t)
  BY <1>1 DEF Values
<1>3. ((x > 0 /\ t.max - x < y) \/ (x < 0 /\ TypeMin(t) - x > y)) <=> x + y \notin Values(t)
  BY <1>1 DEF Values
<1>4. eint_minus(t, x, y) = Exact(t, x - y)
  <2>1. CASE x - y \in Values(t)
    BY <2>1, <1>2, CastKeeps DEF eint_minus, Exact
  <2>2. CASE x - y \notin Values(t)
    BY <2>2, <1>2 DEF eint_minus, Exact
  <2> QED
    BY <2>1, <2>2
<1>5. eint_plus(t, x, y) = Exact(t, x + y)
  <2>1. CASE x + y \in Values(t)
    BY <2>1, <1>3, CastKeeps DEF eint_plus, Exact
  <2>2. CASE x + y \notin Values(t)
    BY <2>2, <1>3 DEF eint_plus, Exact
  <2> QED
    BY <2>1, <2>2
<1> QED
  BY <1>4, <1>5

\* The conversion before a comparison across signs changes neither operand.
LEMMA WidenedKeeps ==
  ASSUME NEW tu \in Types, NEW ts \in Types, ~tu.signed, ts.signed,
         NEW u \in Values(tu), NEW s \in Values(ts), s >= 0
  PROVE  Widened(tu, u, ts, s) = <<u, s>>
<1>1. /\ tu.max \in Nat /\ ts.max \in Nat /\ TypeMin(tu) = 0 /\ TypeMin(ts) = -(ts.max + 1)
      /\ u \in Int /\ s \in Int /\ 0 <= u /\ u <= tu.max /\ s <= ts.max
  BY TypeFacts
<1>2. CASE tu.max >= ts.max
  <2>1. s \in Values(tu)
    BY <1>1, <1>2 DEF Values
  <2> QED
    BY <2>1, <1>2, CastKeeps DEF Widened
<1>3. CASE ~(tu.max >= ts.max)
  <2>1. u \in Values(ts)
    BY <1>1, <1>3 DEF Values
  <2> QED
    BY <2>1, <1>3, CastKeeps DEF Widened
<1> QED
  BY <1>2, <1>3

\* The comparisons are those of the numbers.
LEMMA ExactComparisons ==
  ASSUME NEW tx \in Types, NEW ty \in Types, NEW x \in Values(tx), NEW y \in Values(ty)
  PROVE  /\ eint_less(tx, x, ty, y) <=> x < y
         /\ eint_equal(tx, x, ty, y) <=> x = y
         /\ eint_greater(tx, x, ty, y) <=> x > y
<1>0. x \in Int /\ y \in Int
  BY TypeFacts
<1>1. /\ x \in Int /\ y \in Int /\ tx.signed \in BOOLEAN /\ ty.signed \in BOOLEAN
      /\ ~tx.signed => x >= 0
      /\ ~ty.signed => y >= 0
  BY TypeFacts DEF Types
<1>2. eint_less(tx, x, ty, y) <=> x < y
  <2>1. CASE ~tx.signed /\ ty.signed
    <3>1. eint_less(tx, x, ty, y)
            <=> (y >= 0 /\ Widened(tx, x, ty, y)[1] < Widened(tx, x, ty, y)[2])
      BY <2>1, Zenon DEF eint_less
    <3>2. y >= 0 => Widened(tx, x, ty, y) = <<x, y>>
      BY <2>1, WidenedKeeps
    <3>3. x >= 0
      BY <1>1, <2>1
    <3> QED
      BY <1>0, <3>1, <3>2, <3>3
  <2>2. CASE tx.signed /\ ~ty.signed
    <3>1. eint_less(tx, x, ty, y)
            <=> (x < 0 \/ Widened(ty, y, tx, x)[2] < Widened(ty, y, tx, x)[1])
      BY <2>2, Zenon DEF eint_less
    <3>2. x >= 0 => Widened(ty, y, tx, x) = <<y, x>>
      BY <2>2, WidenedKeeps
    <3>3. y >= 0
      BY <1>1, <2>2
    <3> QED
      BY <1>0, <3>1, <3>2, <3>3
  <2>3. CASE tx.signed = ty.signed
    BY <2>3, Zenon DEF eint_less
  <2> QED
    BY <1>1, <2>1, <2>2, <2>3
<1>3. eint_equal(tx, x, ty, y) <=> x = y
  <2>1. CASE ~tx.signed /\ ty.signed
    <3>1. eint_equal(tx, x, ty, y)
            <=> (y >= 0 /\ Widened(tx, x, ty, y)[1] = Widened(tx, x, ty, y)[2])
      BY <2>1, Zenon DEF eint_equal
    <3>2. y >= 0 => Widened(tx, x, ty, y) = <<x, y>>
      BY <2>1, WidenedKeeps
    <3>3. x >= 0
      BY <1>1, <2>1
    <3> QED
      BY <1>0, <3>1, <3>2, <3>3
  <2>2. CASE tx.signed /\ ~ty.signed
    <3>1. eint_equal(tx, x, ty, y)
            <=> (x >= 0 /\ Widened(ty, y, tx, x)[1] = Widened(ty, y, tx, x)[2])
      BY <2>2, Zenon DEF eint_equal
    <3>2. x >= 0 => Widened(ty, y, tx, x) = <<y, x>>
      BY <2>2, WidenedKeeps
    <3>3. y >= 0
      BY <1>1, <2>2
    <3> QED
      BY <1>0, <3>1, <3>2, <3>3
  <2>3. CASE tx.signed = ty.signed
    BY <2>3, Zenon DEF eint_equal
  <2> QED
    BY <1>1, <2>1, <2>2, <2>3
<1>4. eint_greater(tx, x, ty, y) <=> x > y
  BY <1>1, <1>2, <1>3 DEF eint_greater
<1> QED
  BY <1>2, <1>3, <1>4

\* The operands keep their types.
OperandsOK == ta \in Types /\ tb \in Types /\ a \in Values(ta) /\ b \in Values(tb)

\* Whatever the widths and signs of the operands, each function of eint.hpp gives the
\* mathematical result, or throws exactly when its type cannot hold it.
THEOREM EintExactness == NumberSpec => []EintIsExact
<1>1. NumberInit => OperandsOK /\ EintIsExact
  BY DEF NumberInit, OperandsOK, EintIsExact
<1>2. OperandsOK /\ EintIsExact /\ [NumberNext]_numberVars => OperandsOK' /\ EintIsExact'
  <2> SUFFICES ASSUME OperandsOK, EintIsExact, [NumberNext]_numberVars
               PROVE  OperandsOK' /\ EintIsExact'
    OBVIOUS
  <2> USE DEF OperandsOK, EintIsExact
  <2>1. CASE ta = tb /\ Compute("minus", eint_minus(ta, a, b))
    BY <2>1, ExactSums DEF Compute, Exact, Values, TypeMin
  <2>2. CASE ta = tb /\ Compute("plus", eint_plus(ta, a, b))
    BY <2>2, ExactSums DEF Compute, Exact, Values, TypeMin
  <2>3. CASE Compute("less", <<Truth(eint_less(ta, a, tb, b))>>)
    <3>1. Truth(eint_less(ta, a, tb, b)) = Truth(a < b)
      BY ExactComparisons DEF Truth
    <3> QED
      BY <2>3, <3>1 DEF Compute, Values, TypeMin
  <2>4. CASE Compute("equal", <<Truth(eint_equal(ta, a, tb, b))>>)
    <3>1. Truth(eint_equal(ta, a, tb, b)) = Truth(a = b)
      BY ExactComparisons DEF Truth
    <3> QED
      BY <2>4, <3>1 DEF Compute, Values, TypeMin
  <2>5. CASE Compute("greater", <<Truth(eint_greater(ta, a, tb, b))>>)
    <3>1. Truth(eint_greater(ta, a, tb, b)) = Truth(a > b)
      BY ExactComparisons DEF Truth
    <3> QED
      BY <2>5, <3>1 DEF Compute, Values, TypeMin
  <2>6. CASE UNCHANGED numberVars
    BY <2>6 DEF numberVars, Exact, Values, TypeMin
  <2> QED
    BY <2>1, <2>2, <2>3, <2>4, <2>5, <2>6 DEF NumberNext
<1> QED
  BY <1>1, <1>2, PTL DEF NumberSpec
\* What was computed is one of the functions.
Named == operation \in {"none", "minus", "plus", "less", "equal", "greater"}

\* A sum or difference that was computed is a value of the operands' type.
LEMMA NumberTypesHold == NumberSpec => []NumberTypeOK
<1>1. NumberInit => OperandsOK /\ Named
  BY DEF NumberInit, OperandsOK, Named
<1>2. OperandsOK /\ Named /\ [NumberNext]_numberVars => OperandsOK' /\ Named'
  <2> SUFFICES ASSUME OperandsOK, Named, [NumberNext]_numberVars PROVE OperandsOK' /\ Named'
    OBVIOUS
  <2>1. UNCHANGED <<ta, tb, a, b>>
    BY DEF NumberNext, Compute, numberVars
  <2>2. operation' \in {operation, "minus", "plus", "less", "equal", "greater"}
    BY DEF NumberNext, Compute, numberVars
  <2> QED
    BY <2>1, <2>2 DEF OperandsOK, Named, Values, TypeMin
<1>3. OperandsOK /\ Named /\ EintIsExact => NumberTypeOK
  <2> SUFFICES ASSUME OperandsOK, Named, EintIsExact, operation \in {"minus", "plus"}, result # <<>>
               PROVE  result[1] \in Values(ta)
    BY DEF NumberTypeOK, OperandsOK, Named
  <2>1. \E v : result = Exact(ta, v)
    BY DEF EintIsExact
  <2>2. PICK v : result = Exact(ta, v)
    BY <2>1
  <2>3. v \in Values(ta) /\ result = <<v>>
    BY <2>2 DEF Exact
  <2> QED
    BY <2>3
<1> QED
  BY <1>1, <1>2, <1>3, EintExactness, PTL DEF NumberSpec


-----------------------------------------------------------------------------
\* What is used of numbers and sequences.

\* Nonempty sets of naturals have a least element.
LEMMA LeastNatural ==
  ASSUME NEW T, T \subseteq Nat, T # {}
  PROVE  \E x \in T : \A y \in T : x <= y
<1>1. PICK x \in T : \A y \in T : ~ (<<y, x>> \in OpToRel(<, Nat))
  BY WFMin, NatLessThanWellFounded, Zenon
<1>2. \A y \in T : y \in Nat /\ x \in Nat
  OBVIOUS
<1>3. \A y \in T : <<y, x>> \in Nat \X Nat
  BY <1>2
<1>4. \A y \in T : ~(y < x)
  BY <1>1, <1>3 DEF OpToRel
<1> QED
  BY <1>2, <1>4

\* A set of the first naturals that has 0, and with every number the next, has them all.
LEMMA AllFromZero ==
  ASSUME NEW T, 0 \in T, \A k \in Nat : k \in T => k + 1 \in T
  PROVE  \A k \in Nat : k \in T
<1> SUFFICES ASSUME NEW m \in Nat, m \notin T PROVE FALSE
  OBVIOUS
<1> DEFINE U == { k \in Nat : k \notin T }
<1>1. U \subseteq Nat /\ U # {}
  OBVIOUS
<1>2. PICK x \in U : \A y \in U : x <= y
  <2> HIDE DEF U
  <2> QED
    BY <1>1, LeastNatural
<1>3. x \in Nat /\ x # 0 /\ x \notin T
  BY <1>2
<1>4. x - 1 \in Nat /\ x - 1 \notin U
  BY <1>2, <1>3
<1>5. (x - 1) + 1 = x
  BY <1>3
<1> QED
  BY <1>3, <1>4, <1>5

\* The greatest element of some of the first naturals.
LEMMA MaxOfSome ==
  ASSUME NEW n \in Nat, NEW S \in SUBSET (1 .. n), S # {}
  PROVE  Max(S) \in S /\ \A y \in S : Max(S) >= y
<1> DEFINE T == { n - y : y \in S }
<1>0. \A y \in S : y \in Int /\ n - y \in Nat
  OBVIOUS
<1>1. T \subseteq Nat /\ T # {}
  BY <1>0
<1>2. PICK x \in T : \A y \in T : x <= y
  <2> HIDE DEF T
  <2> QED
    BY <1>1, LeastNatural
<1>3. PICK z \in S : x = n - z
  BY <1>2
<1>4. \A y \in S : z >= y
  <2> SUFFICES ASSUME NEW y \in S PROVE z >= y
    OBVIOUS
  <2>1. n - y \in T
    OBVIOUS
  <2>2. n - z <= n - y /\ y \in Nat /\ z \in Nat
    BY <1>2, <1>3, <2>1
  <2> QED
    BY <2>2
<1> QED
  BY <1>3, <1>4 DEF Max

\* The greatest of a set with n + 1 is n + 1, and without it the first n are left.
LEMMA MaxIsNext ==
  ASSUME NEW n \in Nat, NEW S \in SUBSET (1 .. n + 1), n + 1 \in S
  PROVE  Max(S) = n + 1 /\ S \ {Max(S)} \in SUBSET (1 .. n)
<1>0. n + 1 \in Nat /\ S # {}
  OBVIOUS
<1>1. Max(S) \in S /\ \A y \in S : Max(S) >= y
  BY <1>0, MaxOfSome
<1>2. Max(S) \in 1 .. n + 1 /\ Max(S) >= n + 1
  BY <1>1
<1>3. Max(S) = n + 1
  BY <1>2
<1> QED
  BY <1>3

\* A function over the sets of places that goes from a set to the one without its greatest
\* element, which is how FoldLeft is made.
SetFold(step, first, n, h) ==
  \A s \in SUBSET (1 .. n) : h[s] = IF s = {} THEN first ELSE step[<<h[s \ {Max(s)}], Max(s)>>]

\* There is one for every function that makes a step.
LEMMA FoldExists ==
  ASSUME NEW X, NEW first \in X, NEW n \in Nat, NEW step \in [X \X (1 .. n) -> X]
  PROVE  \E h \in [SUBSET (1 .. n) -> X] : SetFold(step, first, n, h)
<1> DEFINE Made(k) == \E h \in [SUBSET (1 .. k) -> X] : SetFold(step, first, k, h)
           T == { k \in Nat : k <= n => Made(k) }
<1> HIDE DEF Made
<1>1. 0 \in T
  <2> DEFINE h == [s \in SUBSET (1 .. 0) |-> first]
  <2>1. 1 .. 0 = {}
    OBVIOUS
  <2>2. \A s \in SUBSET (1 .. 0) : s = {} /\ h[s] = first
    BY <2>1
  <2>3. h \in [SUBSET (1 .. 0) -> X]
    OBVIOUS
  <2> HIDE DEF h
  <2>4. SetFold(step, first, 0, h)
    BY <2>2 DEF SetFold
  <2>5. Made(0)
    BY <2>3, <2>4 DEF Made
  <2> QED
    BY <2>5
<1>2. ASSUME NEW k \in Nat, k \in T PROVE k + 1 \in T
  <2> SUFFICES ASSUME k + 1 <= n PROVE Made(k + 1)
    OBVIOUS
  <2>1. PICK g \in [SUBSET (1 .. k) -> X] : SetFold(step, first, k, g)
    <3>1. k <= n
      OBVIOUS
    <3>2. Made(k)
      BY <1>2, <3>1
    <3> QED
      BY <3>2 DEF Made
  <2> DEFINE h == [s \in SUBSET (1 .. k + 1) |->
                     IF k + 1 \in s THEN step[<<g[s \ {k + 1}], k + 1>>] ELSE g[s]]
  <2>3. ASSUME NEW s \in SUBSET (1 .. k + 1)
        PROVE  h[s] \in X /\ h[s] = IF s = {} THEN first ELSE step[<<h[s \ {Max(s)}], Max(s)>>]
    <3>1. CASE k + 1 \in s
      <4>1. Max(s) = k + 1 /\ s \ {k + 1} \in SUBSET (1 .. k)
        <5>1. Max(s) = k + 1
          BY <3>1, MaxIsNext
        <5> QED
          BY <5>1
      <4>2. h[s] = step[<<g[s \ {k + 1}], k + 1>>]
        BY <3>1
      <4>3. s \ {k + 1} \in SUBSET (1 .. k + 1) /\ k + 1 \notin s \ {k + 1}
        OBVIOUS
      <4>4. h[s \ {k + 1}] = g[s \ {k + 1}]
        BY <4>3
      <4>5. g[s \ {k + 1}] \in X /\ k + 1 \in 1 .. n
        BY <4>1
      <4> HIDE DEF h
      <4>6. step[<<g[s \ {k + 1}], k + 1>>] \in X
        BY <4>5
      <4> QED
        BY <3>1, <4>1, <4>2, <4>4, <4>6
    <3>2. CASE k + 1 \notin s
      <4>1. s \in SUBSET (1 .. k)
        BY <3>2
      <4>2. h[s] = g[s] /\ g[s] \in X
        BY <3>2, <4>1
      <4>3. CASE s = {}
        BY <2>1, <4>1, <4>2, <4>3 DEF SetFold
      <4>4. CASE s # {}
        <5>1. Max(s) \in s /\ s \ {Max(s)} \in SUBSET (1 .. k) /\ k + 1 \notin s \ {Max(s)}
          BY <3>2, <4>1, <4>4, MaxOfSome
        <5>2. g[s] = step[<<g[s \ {Max(s)}], Max(s)>>]
          BY <2>1, <4>1, <4>4 DEF SetFold
        <5>3. s \ {Max(s)} \in SUBSET (1 .. k + 1)
          OBVIOUS
        <5>4. h[s \ {Max(s)}] = g[s \ {Max(s)}]
          BY <5>1, <5>3
        <5> HIDE DEF h
        <5> QED
          BY <4>2, <4>4, <5>2, <5>4
      <4> QED
        BY <4>3, <4>4
    <3> QED
      BY <3>1, <3>2
  <2>4. h = [s \in SUBSET (1 .. k + 1) |-> h[s]]
    OBVIOUS
  <2> HIDE DEF h
  <2>5. h \in [SUBSET (1 .. k + 1) -> X]
    BY <2>3, <2>4
  <2>6. SetFold(step, first, k + 1, h)
    BY <2>3 DEF SetFold
  <2> QED
    BY <2>5, <2>6 DEF Made
<1> HIDE DEF T
<1>3. \A k \in Nat : k \in T
  BY <1>1, <1>2, AllFromZero
<1>4. n \in T
  BY <1>3
<1>5. Made(n)
  BY <1>4 DEF T
<1> QED
  BY <1>5 DEF Made

\* The greatest of the first naturals.
LEMMA MaxOfAll ==
  ASSUME NEW k \in Nat, k >= 1
  PROVE  Max(1 .. k) = k /\ (1 .. k) \ {Max(1 .. k)} = 1 .. (k - 1) /\ 1 .. k # {}
<1>1. k - 1 \in Nat /\ (k - 1) + 1 = k /\ k \in 1 .. k
  OBVIOUS
<1>2. Max(1 .. k) = k
  BY <1>1, MaxIsNext
<1> QED
  BY <1>1, <1>2

\* Such a function from the first places on: what a recursion over the naturals gives.
StepsMade(X, first, n, step) ==
  \E val \in [0 .. n -> X] : val[0] = first /\ \A k \in 1 .. n : val[k] = step[<<val[k - 1], k>>]

\* There is one for every step.
LEMMA StepsExist ==
  ASSUME NEW X, NEW first \in X, NEW n \in Nat, NEW step \in [X \X (1 .. n) -> X]
  PROVE  StepsMade(X, first, n, step)
<1>1. PICK h \in [SUBSET (1 .. n) -> X] : SetFold(step, first, n, h)
  BY FoldExists
<1> DEFINE val == [k \in 0 .. n |-> h[1 .. k]]
<1>2. \A k \in 0 .. n : 1 .. k \in SUBSET (1 .. n)
  OBVIOUS
<1>3. val \in [0 .. n -> X]
  BY <1>2
<1>4. val[0] = first
  <2>1. 1 .. 0 = {} /\ 0 \in 0 .. n
    OBVIOUS
  <2>2. val[0] = h[{}]
    BY <2>1
  <2> HIDE DEF val
  <2> QED
    BY <1>1, <2>2 DEF SetFold
<1>5. ASSUME NEW k \in 1 .. n PROVE val[k] = step[<<val[k - 1], k>>]
  <2>1. k \in Nat /\ k >= 1 /\ k \in 0 .. n /\ k - 1 \in 0 .. n
    OBVIOUS
  <2>2. Max(1 .. k) = k /\ (1 .. k) \ {Max(1 .. k)} = 1 .. (k - 1) /\ 1 .. k # {}
    BY <2>1, MaxOfAll
  <2>3. val[k] = h[1 .. k] /\ val[k - 1] = h[1 .. (k - 1)]
    BY <2>1
  <2> HIDE DEF val
  <2>4. h[1 .. k] = step[<<h[(1 .. k) \ {Max(1 .. k)}], Max(1 .. k)>>]
    BY <1>1, <1>2, <2>1, <2>2 DEF SetFold
  <2> QED
    BY <2>2, <2>3, <2>4
<1> HIDE DEF val
<1> QED
  BY <1>3, <1>4, <1>5 DEF StepsMade

\* The number that digits give, the first one the greatest.
Value(base, digits) == FoldLeft(LAMBDA value, octet : value * base + octet, 0, digits)

\* It is reached digit by digit.
LEMMA ValueByDigits ==
  ASSUME NEW base \in Nat, NEW digits \in Seq(Nat)
  PROVE  \E val \in [0 .. Len(digits) -> Nat] :
           /\ val[0] = 0 /\ \A k \in 1 .. Len(digits) : val[k] = val[k - 1] * base + digits[k]
           /\ Value(base, digits) = val[Len(digits)]
<1> DEFINE n == Len(digits)
           Rec(h) == h = [s \in SUBSET (1 .. n) |-> IF s = {} THEN 0 ELSE h[s \ {Max(s)}] * base + digits[Max(s)]]
           iter == CHOOSE h : Rec(h)
           step == [p \in Nat \X (1 .. n) |-> p[1] * base + digits[p[2]]]
<1>1. n \in Nat /\ DOMAIN digits = 1 .. n /\ \A k \in 1 .. n : digits[k] \in Nat
  OBVIOUS
<1> HIDE DEF n
<1>2. \A x \in Nat, k \in 1 .. n : x * base + digits[k] \in Nat
  BY <1>1
<1>3. step \in [Nat \X (1 .. n) -> Nat] /\ \A x \in Nat, k \in 1 .. n : step[<<x, k>>] = x * base + digits[k]
  BY <1>2
<1> HIDE DEF step
<1>4. PICK g \in [SUBSET (1 .. n) -> Nat] : SetFold(step, 0, n, g)
  BY <1>1, <1>3, FoldExists
<1>5. \A s \in SUBSET (1 .. n) : s # {} => Max(s) \in 1 .. n /\ s \ {Max(s)} \in SUBSET (1 .. n)
  BY <1>1, MaxOfSome
<1>6. \A s \in SUBSET (1 .. n) : g[s] = IF s = {} THEN 0 ELSE g[s \ {Max(s)}] * base + digits[Max(s)]
  BY <1>3, <1>4, <1>5 DEF SetFold
<1>7. Rec(g)
  BY <1>4, <1>6
<1>8. Rec(iter)
  <2> HIDE DEF Rec
  <2> QED
    BY <1>7
<1>9. Value(base, digits) = iter[1 .. n]
  BY <1>1, Zenon DEF Value, FoldLeft, MapThenFoldSet
<1>10. \A s \in SUBSET (1 .. n) : iter[s] = IF s = {} THEN 0 ELSE iter[s \ {Max(s)}] * base + digits[Max(s)]
  <2> HIDE DEF iter
  <2> QED
    BY <1>8
<1> HIDE DEF iter, Rec
<1> DEFINE val == [k \in 0 .. n |-> g[1 .. k]]
           T == { k \in Nat : k <= n => iter[1 .. k] = g[1 .. k] }
<1>11. \A k \in 0 .. n : 1 .. k \in SUBSET (1 .. n)
  BY <1>1
<1>12. val \in [0 .. n -> Nat]
  BY <1>11
<1>13. 0 \in T /\ val[0] = 0
  <2>1. 1 .. 0 = {} /\ 0 \in 0 .. n /\ {} \in SUBSET (1 .. n)
    BY <1>1
  <2>2. iter[{}] = 0 /\ g[{}] = 0
    BY <1>6, <1>10, <2>1
  <2>3. val[0] = g[1 .. 0]
    BY <2>1
  <2> QED
    BY <2>1, <2>2, <2>3
<1>14. ASSUME NEW k \in 1 .. n
       PROVE  /\ g[1 .. k] = g[1 .. (k - 1)] * base + digits[k]
              /\ iter[1 .. k] = iter[1 .. (k - 1)] * base + digits[k]
  <2>1. k \in Nat /\ k >= 1 /\ 1 .. k \in SUBSET (1 .. n)
    BY <1>1
  <2>2. Max(1 .. k) = k /\ (1 .. k) \ {Max(1 .. k)} = 1 .. (k - 1) /\ 1 .. k # {}
    BY <2>1, MaxOfAll
  <2> QED
    BY <1>6, <1>10, <2>1, <2>2
<1>15. ASSUME NEW k \in Nat, k \in T PROVE k + 1 \in T
  <2> SUFFICES ASSUME k + 1 <= n PROVE iter[1 .. (k + 1)] = g[1 .. (k + 1)]
    OBVIOUS
  <2>1. k + 1 \in 1 .. n /\ k <= n /\ (k + 1) - 1 = k
    BY <1>1
  <2>2. iter[1 .. k] = g[1 .. k]
    BY <1>15, <2>1
  <2> DEFINE j == k + 1
  <2>3. j \in 1 .. n /\ j - 1 = k
    BY <2>1
  <2> HIDE DEF j
  <2>4. g[1 .. j] = g[1 .. k] * base + digits[j] /\ iter[1 .. j] = iter[1 .. k] * base + digits[j]
    BY <1>14, <2>3
  <2> QED
    BY <2>2, <2>4 DEF j
<1>16. \A k \in 1 .. n : val[k] = val[k - 1] * base + digits[k]
  <2> SUFFICES ASSUME NEW k \in 1 .. n PROVE val[k] = val[k - 1] * base + digits[k]
    OBVIOUS
  <2>1. k \in 0 .. n /\ k - 1 \in 0 .. n
    BY <1>1
  <2>2. val[k] = g[1 .. k] /\ val[k - 1] = g[1 .. (k - 1)]
    BY <2>1
  <2> HIDE DEF val
  <2> QED
    BY <1>14, <2>2
<1> HIDE DEF T
<1>17. \A k \in Nat : k \in T
  BY <1>13, <1>15, AllFromZero
<1>18. iter[1 .. n] = g[1 .. n] /\ val[n] = g[1 .. n]
  BY <1>1, <1>17 DEF T
<1> HIDE DEF val
<1>19. Value(base, digits) = val[n]
  BY <1>9, <1>18
<1> QED
  BY <1>12, <1>13, <1>16, <1>19 DEF n

\* A sum is reached word by word.
LEMMA TotalByWords ==
  ASSUME NEW words \in Seq(Nat)
  PROVE  \E val \in [0 .. Len(words) -> Nat] :
           /\ val[0] = 0 /\ \A k \in 1 .. Len(words) : val[k] = val[k - 1] + words[k]
           /\ Total(words) = val[Len(words)]
<1> DEFINE n == Len(words)
           Rec(h) == h = [s \in SUBSET (1 .. n) |-> IF s = {} THEN 0 ELSE h[s \ {Max(s)}] + words[Max(s)]]
           iter == CHOOSE h : Rec(h)
           step == [p \in Nat \X (1 .. n) |-> p[1] + words[p[2]]]
<1>1. n \in Nat /\ DOMAIN words = 1 .. n /\ \A k \in 1 .. n : words[k] \in Nat
  OBVIOUS
<1> HIDE DEF n
<1>2. \A x \in Nat, k \in 1 .. n : x + words[k] \in Nat
  BY <1>1
<1>3. step \in [Nat \X (1 .. n) -> Nat] /\ \A x \in Nat, k \in 1 .. n : step[<<x, k>>] = x + words[k]
  BY <1>2
<1> HIDE DEF step
<1>4. PICK g \in [SUBSET (1 .. n) -> Nat] : SetFold(step, 0, n, g)
  BY <1>1, <1>3, FoldExists
<1>5. \A s \in SUBSET (1 .. n) : s # {} => Max(s) \in 1 .. n /\ s \ {Max(s)} \in SUBSET (1 .. n)
  BY <1>1, MaxOfSome
<1>6. \A s \in SUBSET (1 .. n) : g[s] = IF s = {} THEN 0 ELSE g[s \ {Max(s)}] + words[Max(s)]
  BY <1>3, <1>4, <1>5 DEF SetFold
<1>7. Rec(g)
  BY <1>4, <1>6
<1>8. Rec(iter)
  <2> HIDE DEF Rec
  <2> QED
    BY <1>7
<1>9. Total(words) = iter[1 .. n]
  BY <1>1, Zenon DEF Total, FoldLeft, MapThenFoldSet
<1>10. \A s \in SUBSET (1 .. n) : iter[s] = IF s = {} THEN 0 ELSE iter[s \ {Max(s)}] + words[Max(s)]
  <2> HIDE DEF iter
  <2> QED
    BY <1>8
<1> HIDE DEF iter, Rec
<1> DEFINE val == [k \in 0 .. n |-> g[1 .. k]]
           T == { k \in Nat : k <= n => iter[1 .. k] = g[1 .. k] }
<1>11. \A k \in 0 .. n : 1 .. k \in SUBSET (1 .. n)
  BY <1>1
<1>12. val \in [0 .. n -> Nat]
  BY <1>11
<1>13. 0 \in T /\ val[0] = 0
  <2>1. 1 .. 0 = {} /\ 0 \in 0 .. n /\ {} \in SUBSET (1 .. n)
    BY <1>1
  <2>2. iter[{}] = 0 /\ g[{}] = 0
    BY <1>6, <1>10, <2>1
  <2>3. val[0] = g[1 .. 0]
    BY <2>1
  <2> QED
    BY <2>1, <2>2, <2>3
<1>14. ASSUME NEW k \in 1 .. n
       PROVE  /\ g[1 .. k] = g[1 .. (k - 1)] + words[k]
              /\ iter[1 .. k] = iter[1 .. (k - 1)] + words[k]
  <2>1. k \in Nat /\ k >= 1 /\ 1 .. k \in SUBSET (1 .. n)
    BY <1>1
  <2>2. Max(1 .. k) = k /\ (1 .. k) \ {Max(1 .. k)} = 1 .. (k - 1) /\ 1 .. k # {}
    BY <2>1, MaxOfAll
  <2> QED
    BY <1>6, <1>10, <2>1, <2>2
<1>15. ASSUME NEW k \in Nat, k \in T PROVE k + 1 \in T
  <2> SUFFICES ASSUME k + 1 <= n PROVE iter[1 .. (k + 1)] = g[1 .. (k + 1)]
    OBVIOUS
  <2>1. k + 1 \in 1 .. n /\ k <= n /\ (k + 1) - 1 = k
    BY <1>1
  <2>2. iter[1 .. k] = g[1 .. k]
    BY <1>15, <2>1
  <2> DEFINE j == k + 1
  <2>3. j \in 1 .. n /\ j - 1 = k
    BY <2>1
  <2> HIDE DEF j
  <2>4. g[1 .. j] = g[1 .. k] + words[j] /\ iter[1 .. j] = iter[1 .. k] + words[j]
    BY <1>14, <2>3
  <2> QED
    BY <2>2, <2>4 DEF j
<1>16. \A k \in 1 .. n : val[k] = val[k - 1] + words[k]
  <2> SUFFICES ASSUME NEW k \in 1 .. n PROVE val[k] = val[k - 1] + words[k]
    OBVIOUS
  <2>1. k \in 0 .. n /\ k - 1 \in 0 .. n
    BY <1>1
  <2>2. val[k] = g[1 .. k] /\ val[k - 1] = g[1 .. (k - 1)]
    BY <2>1
  <2> HIDE DEF val
  <2> QED
    BY <1>14, <2>2
<1> HIDE DEF T
<1>17. \A k \in Nat : k \in T
  BY <1>13, <1>15, AllFromZero
<1>18. iter[1 .. n] = g[1 .. n] /\ val[n] = g[1 .. n]
  BY <1>1, <1>17 DEF T
<1> HIDE DEF val
<1>19. Total(words) = val[n]
  BY <1>9, <1>18
<1> QED
  BY <1>12, <1>13, <1>16, <1>19 DEF n

-----------------------------------------------------------------------------
\* Frames and advertisements.

\* What is left of a number when its carries have been added: its remainder by 65535,
\* which is 65535 instead of zero.
Folded(n) == IF n = 0 THEN 0 ELSE ((n - 1) % 65535) + 1

\* A carry that is added keeps it.
LEMMA CarryKeeps ==
  ASSUME NEW n \in Nat, n >= 65536
  PROVE  LET m == (n \div 65536) + (n % 65536) IN m \in Nat /\ m < n /\ Folded(m) = Folded(n)
<1> DEFINE q == n \div 65536
           r == n % 65536
           m == q + r
<1>1. n = 65536 * q + r /\ q \in Nat /\ r \in 0 .. 65535 /\ q >= 1
  OBVIOUS
<1> HIDE DEF q, r
<1>2. m \in Nat /\ m >= 1 /\ m < n /\ n - 1 = (m - 1) + 65535 * q
  BY <1>1
<1>3. \A x \in Nat, k \in Nat : (x + 65535 * k) % 65535 = x % 65535
  OBVIOUS
<1>4. (n - 1) % 65535 = (m - 1) % 65535
  BY <1>1, <1>2, <1>3
<1>5. Folded(m) = Folded(n)
  BY <1>2, <1>4 DEF Folded
<1> HIDE DEF m
<1> QED
  BY <1>2, <1>5 DEF m, q, r

\* FoldWords ends, and this is what it gives.
LEMMA FoldWordsIs == \A n \in Nat : FoldWords[n] = Folded(n)
<1> DEFINE Next_(n) == (n \div 65536) + (n % 65536)
           Rec(f) == f = [n \in Nat |-> IF n < 65536 THEN n ELSE f[Next_(n)]]
           G == [n \in Nat |-> Folded(n)]
<1>1. ASSUME NEW n \in Nat, n >= 65536
      PROVE  Next_(n) \in Nat /\ Next_(n) < n /\ Folded(Next_(n)) = Folded(n)
  BY <1>1, CarryKeeps
<1>2. ASSUME NEW n \in Nat, n < 65536 PROVE Folded(n) = n
  BY <1>2 DEF Folded
<1> HIDE DEF Next_
<1>3. \A n \in Nat : G[n] = IF n < 65536 THEN n ELSE G[Next_(n)]
  BY <1>1, <1>2
<1>4. Rec(G)
  <2> HIDE DEF G
  <2>1. G = [n \in Nat |-> G[n]]
    BY DEF G
  <2> QED
    BY <1>3, <2>1
<1>5. FoldWords = CHOOSE f : Rec(f)
  BY DEF FoldWords, Next_
<1>6. Rec(FoldWords)
  <2> HIDE DEF Rec, G
  <2> QED
    BY <1>4, <1>5
<1>7. \A n \in Nat : FoldWords[n] = IF n < 65536 THEN n ELSE FoldWords[Next_(n)]
  BY <1>6
<1> DEFINE T == { n \in Nat : FoldWords[n] # Folded(n) }
<1>8. SUFFICES ASSUME T # {} PROVE FALSE
  OBVIOUS
<1>9. PICK x \in T : \A y \in T : x <= y
  <2>1. T \subseteq Nat
    OBVIOUS
  <2> HIDE DEF T
  <2> QED
    BY <1>8, <2>1, LeastNatural
<1>10. x \in Nat /\ FoldWords[x] # Folded(x)
  OBVIOUS
<1>11. x >= 65536
  BY <1>2, <1>7, <1>10
<1>12. Next_(x) \in Nat /\ Next_(x) < x /\ Folded(Next_(x)) = Folded(x)
  BY <1>1, <1>10, <1>11
<1>13. Next_(x) \notin T
  BY <1>9, <1>10, <1>12
<1>14. FoldWords[Next_(x)] = Folded(Next_(x))
  BY <1>12, <1>13
<1> QED
  BY <1>7, <1>10, <1>11, <1>12, <1>14

\* The complement of a sum that was carried, added to the sum, carries to all ones.
LEMMA ComplementFolds ==
  ASSUME NEW t \in Nat, t > 0
  PROVE  /\ MaxWord - FoldWords[t] \in Nat /\ MaxWord - FoldWords[t] <= MaxWord
         /\ FoldWords[t + (MaxWord - FoldWords[t])] = MaxWord
<1> DEFINE x == t - 1
<1>1. x \in Nat
  OBVIOUS
<1>2. x = 65535 * (x \div 65535) + (x % 65535) /\ x \div 65535 \in Nat /\ x % 65535 \in Nat /\ x % 65535 <= 65534
  <2> HIDE DEF x
  <2> QED
    BY <1>1
<1> DEFINE q == x \div 65535
           r == x % 65535
<1>3. t - 1 = 65535 * q + r /\ q \in Nat /\ r \in Nat /\ r <= 65534
  BY <1>2
<1>4. FoldWords[t] = r + 1
  BY FoldWordsIs DEF Folded
<1> HIDE DEF x, q, r
<1> DEFINE u == 65535 * (q + 1)
           c == MaxWord - FoldWords[t]
<1>5. c \in Nat /\ c <= MaxWord /\ t + c = u
  BY <1>3, <1>4 DEF MaxWord
<1>6. u \in Nat /\ u # 0 /\ u - 1 = 65534 + 65535 * q
  BY <1>3
<1>7. \A k \in Nat : (65534 + 65535 * k) % 65535 = 65534
  OBVIOUS
<1> HIDE DEF u
<1>8. Folded(u) = 65535
  BY <1>3, <1>6, <1>7 DEF Folded
<1>9. FoldWords[t + c] = MaxWord
  BY <1>5, <1>6, <1>8, FoldWordsIs DEF MaxWord
<1> QED
  BY <1>5, <1>9

\* A word that is greater by c makes the sum greater by c.
LEMMA TotalOfOther ==
  ASSUME NEW u \in Seq(Nat), NEW w \in Seq(Nat), Len(u) = Len(w), NEW i \in 1 .. Len(u), NEW c \in Nat,
         w[i] = u[i] + c, \A j \in 1 .. Len(u) : j # i => w[j] = u[j]
  PROVE  Total(u) \in Nat /\ Total(w) = Total(u) + c
<1> DEFINE n == Len(u)
<1>1. PICK f \in [0 .. Len(u) -> Nat] :
        /\ f[0] = 0 /\ \A k \in 1 .. Len(u) : f[k] = f[k - 1] + u[k]
        /\ Total(u) = f[Len(u)]
  BY TotalByWords
<1>2. PICK g \in [0 .. Len(w) -> Nat] :
        /\ g[0] = 0 /\ \A k \in 1 .. Len(w) : g[k] = g[k - 1] + w[k]
        /\ Total(w) = g[Len(w)]
  BY TotalByWords
<1>3. n \in Nat /\ Len(w) = n /\ i \in 1 .. n /\ \A j \in 1 .. n : u[j] \in Nat
  OBVIOUS
<1>4. /\ f \in [0 .. n -> Nat] /\ f[0] = 0 /\ \A k \in 1 .. n : f[k] = f[k - 1] + u[k]
      /\ g \in [0 .. n -> Nat] /\ g[0] = 0 /\ \A k \in 1 .. n : g[k] = g[k - 1] + w[k]
      /\ Total(u) = f[n] /\ Total(w) = g[n]
  BY <1>1, <1>2, <1>3
<1> HIDE DEF n
<1> DEFINE T == { k \in Nat : k <= n => g[k] = f[k] + (IF k < i THEN 0 ELSE c) }
<1>5. 0 \in T
  BY <1>3, <1>4
<1>6. ASSUME NEW k \in Nat, k \in T PROVE k + 1 \in T
  <2> SUFFICES ASSUME k + 1 <= n PROVE g[k + 1] = f[k + 1] + (IF k + 1 < i THEN 0 ELSE c)
    OBVIOUS
  <2> DEFINE l == k + 1
  <2>1. l \in 1 .. n /\ l - 1 = k /\ k \in 0 .. n /\ k <= n
    BY <1>3
  <2>2. g[k] = f[k] + (IF k < i THEN 0 ELSE c) /\ f[k] \in Nat
    BY <1>4, <1>6, <2>1
  <2> HIDE DEF T
  <2>3. l \in Int /\ i \in Int /\ l = k + 1
    BY <1>3
  <2> HIDE DEF l
  <2>4. f[l] = f[k] + u[l] /\ g[l] = g[k] + w[l] /\ u[l] \in Nat
    BY <1>3, <1>4, <2>1
  <2>5. w[l] = IF l = i THEN u[l] + c ELSE u[l]
    BY <2>1 DEF n
  <2>7. g[l] = f[l] + (IF l < i THEN 0 ELSE c)
    <3>1. CASE l < i
      <4>1. k < i /\ l # i
        BY <2>3, <3>1
      <4> QED
        BY <2>2, <2>4, <2>5, <3>1, <4>1
    <3>2. CASE l = i
      <4>1. k < i /\ ~(l < i)
        BY <2>3, <3>2
      <4> QED
        BY <2>2, <2>4, <2>5, <3>2, <4>1
    <3>3. CASE l > i
      <4>1. ~(k < i) /\ l # i /\ ~(l < i)
        BY <2>3, <3>3
      <4> QED
        BY <2>2, <2>4, <2>5, <4>1
    <3> QED
      BY <2>3, <3>1, <3>2, <3>3
  <2> QED
    BY <2>7 DEF l
<1> HIDE DEF T
<1>7. \A k \in Nat : k \in T
  BY <1>5, <1>6, AllFromZero
<1>8. g[n] = f[n] + c /\ f[n] \in Nat
  BY <1>3, <1>4, <1>7 DEF T
<1> QED
  BY <1>4, <1>8

\* A sum of naturals is one.
LEMMA TotalIsNatural == ASSUME NEW words \in Seq(Nat) PROVE Total(words) \in Nat
<1>1. PICK f \in [0 .. Len(words) -> Nat] : Total(words) = f[Len(words)]
  BY TotalByWords
<1>2. Len(words) \in 0 .. Len(words)
  OBVIOUS
<1> QED
  BY <1>1, <1>2

\* The sequences of a set: those that are functions from the first numbers.
LEMMA FunctionIsSeq ==
  ASSUME NEW S, NEW n \in Nat, NEW f \in [1 .. n -> S]
  PROVE  f \in Seq(S) /\ Len(f) = n
<1>1. f \in Seq(S)
  BY SeqDef
<1>2. DOMAIN f = 1 .. n /\ DOMAIN f = 1 .. Len(f) /\ Len(f) \in Nat
  BY <1>1, LenProperties
<1> QED
  BY <1>1, <1>2

Word == 0 .. MaxWord
Packets == [src : Seq(Word), dst : Seq(Word), target : Seq(Word), checksum : Word, toMac : Seq(Word),
            optMac : Seq(Word)]

\* Words are numbers.
LEMMA WordsAreNumbers == Word \subseteq Nat /\ Seq(Word) \subseteq Seq(Nat) /\ 0 \in Word
<1>1. MaxWord \in Nat
  BY DEF MaxWord
<1>2. Word \subseteq Nat /\ 0 \in Word
  BY <1>1 DEF Word
<1> QED
  BY <1>2, SeqMonotonic, Zenon

\* Sequences may be joined in either order.
LEMMA JoinedTwice == \A S : \A s, t, u \in Seq(S) : (s \o t) \o u = s \o (t \o u)
  BY ConcatAssociative

\* The first of six sequences of S may be joined last.
SixJoined(S, h, t, k, l, m, n) ==
  /\ (((t \o k) \o l) \o m) \o n \in Seq(S)
  /\ ((((h \o t) \o k) \o l) \o m) \o n = h \o ((((t \o k) \o l) \o m) \o n)

\* It is so of any six.
LEMMA JoinedSix ==
  \A S, h, t, k, l, m, n :
     h \in Seq(S) /\ t \in Seq(S) /\ k \in Seq(S) /\ l \in Seq(S) /\ m \in Seq(S) /\ n \in Seq(S)
     => SixJoined(S, h, t, k, l, m, n)
<1> TAKE S, h, t, k, l, m, n
<1>0. SUFFICES ASSUME h \in Seq(S) /\ t \in Seq(S) /\ k \in Seq(S) /\ l \in Seq(S) /\ m \in Seq(S) /\ n \in Seq(S)
               PROVE  /\ (((t \o k) \o l) \o m) \o n \in Seq(S)
                      /\ ((((h \o t) \o k) \o l) \o m) \o n = h \o ((((t \o k) \o l) \o m) \o n)
  BY DEF SixJoined
<1> DEFINE u == t \o k
           v == u \o l
           w == v \o m
<1>h. h \in Seq(S)
  BY <1>0
<1>k. t \in Seq(S) /\ k \in Seq(S)
  BY <1>0
<1>l. l \in Seq(S)
  BY <1>0
<1>m. m \in Seq(S)
  BY <1>0
<1>n. n \in Seq(S)
  BY <1>0
<1>1. u \in Seq(S)
  BY <1>k
<1>2. (h \o t) \o k = h \o u
  BY <1>h, <1>k, JoinedTwice
<1> HIDE DEF u
<1>3. v \in Seq(S)
  BY <1>1, <1>l
<1>4. (h \o u) \o l = h \o v
  BY <1>h, <1>1, <1>l, JoinedTwice
<1> HIDE DEF v
<1>5. w \in Seq(S)
  BY <1>3, <1>m
<1>6. (h \o v) \o m = h \o w
  BY <1>h, <1>3, <1>m, JoinedTwice
<1> HIDE DEF w
<1>7. w \o n \in Seq(S)
  BY <1>5, <1>n
<1>8. (h \o w) \o n = h \o (w \o n)
  BY <1>h, <1>5, <1>n, JoinedTwice
<1> QED
  BY <1>2, <1>4, <1>6, <1>7, <1>8 DEF u, v, w

\* The checksum is the second word of the ICMPv6 part.
LEMMA IcmpParts ==
  ASSUME NEW p, p.target \in Seq(Nat), p.optMac \in Seq(Nat), p.checksum \in Nat
  PROVE  LET rest == p.target \o <<Option(2)>> \o SourceMac \o <<Option(1)>> \o p.optMac
         IN  rest \in Seq(Nat) /\ Icmp(p) = <<AdvertType, p.checksum, Flags, 0>> \o rest
<1> DEFINE h == <<AdvertType, p.checksum, Flags, 0>>
           t == p.target
           o2 == <<Option(2)>>
           s == SourceMac
           o1 == <<Option(1)>>
           m == p.optMac
<1>1. h \in Seq(Nat) /\ o2 \in Seq(Nat) /\ s \in Seq(Nat) /\ o1 \in Seq(Nat) /\ t \in Seq(Nat) /\ m \in Seq(Nat)
  BY DEF AdvertType, Flags, Option, SourceMac
<1>2. Icmp(p) = ((((h \o t) \o o2) \o s) \o o1) \o m
  BY DEF Icmp
<1> HIDE DEF h, t, o2, s, o1, m
<1>3. SixJoined(Nat, h, t, o2, s, o1, m)
  BY <1>1, JoinedSix, Zenon
<1>4. /\ (((t \o o2) \o s) \o o1) \o m \in Seq(Nat)
      /\ ((((h \o t) \o o2) \o s) \o o1) \o m = h \o ((((t \o o2) \o s) \o o1) \o m)
  BY <1>3 DEF SixJoined
<1> QED
  BY <1>2, <1>4, Zenon DEF h, t, o2, s, o1, m

\* The elements of what begins with four words.
LEMMA HeadedBy ==
  \A h, r \in Seq(Nat) : Len(h) = 4 =>
     /\ h \o r \in Seq(Nat) /\ Len(h \o r) = 4 + Len(r)
     /\ \A i \in 1 .. 4 + Len(r) : (h \o r)[i] = IF i <= 4 THEN h[i] ELSE r[i - 4]
<1>1. ASSUME NEW h \in Seq(Nat), NEW r \in Seq(Nat), Len(h) = 4
      PROVE  /\ h \o r \in Seq(Nat) /\ Len(h \o r) = 4 + Len(r)
             /\ \A i \in 1 .. 4 + Len(r) : (h \o r)[i] = IF i <= 4 THEN h[i] ELSE r[i - 4]
  <2>1. /\ h \o r \in Seq(Nat) /\ Len(h \o r) = Len(h) + Len(r)
        /\ \A i \in 1 .. Len(h) + Len(r) : (h \o r)[i] = IF i <= Len(h) THEN h[i] ELSE r[i - Len(h)]
    BY ConcatProperties, Zenon
  <2> QED
    BY <1>1, <2>1
<1> QED
  BY <1>1

\* A checksum that was zero and becomes c adds c to the sum of the packet.
LEMMA SumWithChecksum ==
  ASSUME NEW p, NEW q, NEW c \in Nat, p.src \in Seq(Nat), p.dst \in Seq(Nat), p.target \in Seq(Nat),
         p.optMac \in Seq(Nat), p.checksum = 0,
         q.src = p.src, q.dst = p.dst, q.target = p.target, q.optMac = p.optMac, q.checksum = c
  PROVE  PseudoSum(p) \in Nat /\ PseudoSum(p) > 0 /\ PseudoSum(q) = PseudoSum(p) + c
<1> DEFINE rest == p.target \o <<Option(2)>> \o SourceMac \o <<Option(1)>> \o p.optMac
           hp == <<AdvertType, 0, Flags, 0>>
           hq == <<AdvertType, c, Flags, 0>>
<1>0. p.checksum \in Nat /\ q.checksum \in Nat /\ q.target \in Seq(Nat) /\ q.optMac \in Seq(Nat)
  OBVIOUS
<1>1. rest \in Seq(Nat) /\ Icmp(p) = hp \o rest
  <2>1. rest \in Seq(Nat) /\ Icmp(p) = <<AdvertType, p.checksum, Flags, 0>> \o rest
    BY <1>0, IcmpParts, Zenon
  <2> QED
    BY <2>1
<1>2. Icmp(q) = hq \o rest
  <2>1. Icmp(q) = <<AdvertType, q.checksum, Flags, 0>>
                    \o (q.target \o <<Option(2)>> \o SourceMac \o <<Option(1)>> \o q.optMac)
    BY <1>0, IcmpParts, Zenon
  <2> QED
    BY <2>1
<1>3. hp \in Seq(Nat) /\ hq \in Seq(Nat) /\ Len(hp) = 4 /\ Len(hq) = 4
      /\ hq[2] = hp[2] + c /\ \A i \in 1 .. 4 : i # 2 => hq[i] = hp[i]
  BY DEF AdvertType, Flags
<1> HIDE DEF rest, hp, hq
<1> DEFINE u == hp \o rest
           w == hq \o rest
           l == Len(rest)
<1>4. l \in Nat
  BY <1>1
<1>5. /\ u \in Seq(Nat) /\ Len(u) = 4 + l
      /\ \A i \in 1 .. 4 + l : u[i] = IF i <= 4 THEN hp[i] ELSE rest[i - 4]
  BY <1>1, <1>3, HeadedBy
<1>6. /\ w \in Seq(Nat) /\ Len(w) = 4 + l
      /\ \A i \in 1 .. 4 + l : w[i] = IF i <= 4 THEN hq[i] ELSE rest[i - 4]
  BY <1>1, <1>3, HeadedBy
<1> HIDE DEF u, w, l
<1>61. 2 \in 1 .. 4 + l /\ 2 \in 1 .. Len(u)
  BY <1>4, <1>5
<1>62. u[2] = hp[2] /\ w[2] = hq[2]
  BY <1>5, <1>6, <1>61
<1>63. 2 \in 1 .. Len(u) /\ Len(u) = Len(w) /\ w[2] = u[2] + c
  BY <1>3, <1>5, <1>6, <1>61, <1>62
<1>7. \A j \in 1 .. Len(u) : j # 2 => w[j] = u[j]
  <2> SUFFICES ASSUME NEW j \in 1 .. Len(u), j # 2 PROVE w[j] = u[j]
    OBVIOUS
  <2>1. j \in 1 .. 4 + l /\ (j <= 4 => j \in 1 .. 4)
    BY <1>4, <1>5
  <2> QED
    BY <1>3, <1>5, <1>6, <2>1
<1>8. Total(u) \in Nat /\ Total(w) = Total(u) + c
  <2>1. u \in Seq(Nat) /\ w \in Seq(Nat) /\ Len(u) = Len(w) /\ 2 \in 1 .. Len(u) /\ w[2] = u[2] + c
    BY <1>5, <1>6, <1>63
  <2> QED
    BY <1>7, <2>1, TotalOfOther
<1>9. Total(p.src) \in Nat /\ Total(p.dst) \in Nat
  BY TotalIsNatural, Zenon
<1>10. Htonl(40) \in Nat /\ Htonl(58) \in Nat /\ Htonl(40) > 0
  BY DEF Htonl
<1> DEFINE x == Total(p.src) + Total(p.dst)
           y == Htonl(40)
           z == Htonl(58)
<1>11. PseudoSum(p) = x + Total(u) + y + z /\ PseudoSum(q) = x + Total(w) + y + z
  BY <1>1, <1>2, Zenon DEF PseudoSum, u, w
<1>12. x \in Nat /\ y \in Nat /\ z \in Nat /\ y > 0
  BY <1>9, <1>10
<1> DEFINE tu == Total(u)
           tw == Total(w)
<1>13. PseudoSum(p) = x + tu + y + z /\ PseudoSum(q) = x + tw + y + z /\ tu \in Nat /\ tw = tu + c
  BY <1>8, <1>11
<1> HIDE DEF x, y, z, tu, tw
<1> QED
  BY <1>12, <1>13

\* An advertisement adds up.
AddsUp(p) == FoldWords[PseudoSum(p)] = MaxWord

\* A packet whose checksum was computed adds up.
LEMMA ChecksumAddsUp ==
  ASSUME NEW p \in Packets, p.checksum = 0
  PROVE  LET q == [p EXCEPT !.checksum = checksum_ipv6_packet(p)] IN q \in Packets /\ AddsUp(q)
<1> DEFINE c == checksum_ipv6_packet(p)
           q == [p EXCEPT !.checksum = c]
           t == PseudoSum(p)
<1>1. /\ p.src \in Seq(Nat) /\ p.dst \in Seq(Nat) /\ p.target \in Seq(Nat) /\ p.optMac \in Seq(Nat)
  BY WordsAreNumbers DEF Packets
<1>2. c = MaxWord - FoldWords[t]
  BY DEF checksum_ipv6_packet, Carried
<1> HIDE DEF c
<1>3. q.src = p.src /\ q.dst = p.dst /\ q.target = p.target /\ q.optMac = p.optMac /\ q.checksum = c
  BY DEF Packets
<1>4. t \in Nat /\ t > 0
  <2>1. 0 \in Nat
    OBVIOUS
  <2> QED
    BY <1>1, <2>1, SumWithChecksum
<1> HIDE DEF t
<1>5. c \in Nat /\ c <= MaxWord /\ FoldWords[t + c] = MaxWord
  BY <1>2, <1>4, ComplementFolds
<1>6. PseudoSum(q) = t + c
  <2> HIDE DEF q
  <2> QED
    BY <1>1, <1>3, <1>5, SumWithChecksum DEF t
<1>7. c \in Word
  <2>1. MaxWord \in Nat
    BY DEF MaxWord
  <2> QED
    BY <1>5, <2>1 DEF Word
<1>8. q \in Packets
  <2> DEFINE W == Word
             Q == Seq(Word)
  <2> HIDE DEF W, Q
  <2>1. p \in [src : Q, dst : Q, target : Q, checksum : W, toMac : Q, optMac : Q]
    BY DEF Packets, W, Q
  <2>2. q \in [src : Q, dst : Q, target : Q, checksum : W, toMac : Q, optMac : Q]
    BY <1>7, <2>1 DEF W
  <2> QED
    BY <2>2 DEF Packets, W, Q
<1> QED
  BY <1>5, <1>6, <1>8 DEF AddsUp, c

\* Addresses and hardware addresses are made of words.
LEMMA AddressWords ==
  /\ \A f \in Word, l \in Word : Address(f, l) \in Seq(Word)
  /\ \A w \in Word : Mac(w) \in Seq(Word)
<1>1. ASSUME NEW f \in Word, NEW l \in Word PROVE Address(f, l) \in Seq(Word)
  <2> HIDE DEF Word
  <2>1. Address(f, l) \in [1 .. 8 -> Word]
    BY DEF Address
  <2> QED
    BY <2>1, FunctionIsSeq
<1>2. ASSUME NEW w \in Word PROVE Mac(w) \in Seq(Word)
  BY DEF Mac
<1> QED
  BY <1>1, <1>2

\* Both versions answer with a packet that adds up.
LEMMA AnswersAddUp ==
  ASSUME reply \in Packets, NEW mac \in Seq(Word), NEW src \in Seq(Word), NEW target \in Seq(Word)
  PROVE  /\ generate_neighbor_advertisement_new(mac, src, target) \in Packets
         /\ AddsUp(generate_neighbor_advertisement_new(mac, src, target))
         /\ generate_neighbor_advertisement(mac, src, target) \in Packets
         /\ AddsUp(generate_neighbor_advertisement(mac, src, target))
         /\ NewReply \in Packets
<1> DEFINE W == Word
           Q == Seq(Word)
<1>1. 0 \in W
  BY WordsAreNumbers
<1>2. Address(0, 0) \in Q /\ Mac(0) \in Q
  BY <1>1, AddressWords
<1> HIDE DEF W, Q
<1>3. Packets = [src : Q, dst : Q, target : Q, checksum : W, toMac : Q, optMac : Q]
  BY DEF Packets, W, Q
<1>4. NewReply \in Packets
  BY <1>1, <1>2, <1>3 DEF NewReply
<1>5. mac \in Q /\ src \in Q /\ target \in Q
  BY DEF Q
<1> DEFINE p == [reply EXCEPT !.toMac = mac, !.src = target, !.dst = src, !.target = target,
                              !.optMac = mac, !.checksum = 0]
           r == [NewReply EXCEPT !.toMac = mac, !.src = target, !.dst = src, !.target = target,
                                 !.optMac = mac]
<1>6. p \in Packets /\ p.checksum = 0
  BY <1>1, <1>3, <1>5
<1>7. r \in Packets /\ r.checksum = 0
  BY <1>1, <1>2, <1>3, <1>5 DEF NewReply
<1>8. /\ generate_neighbor_advertisement_new(mac, src, target) \in Packets
      /\ AddsUp(generate_neighbor_advertisement_new(mac, src, target))
  <2>1. generate_neighbor_advertisement_new(mac, src, target) = [p EXCEPT !.checksum = checksum_ipv6_packet(p)]
    BY DEF generate_neighbor_advertisement_new
  <2> HIDE DEF p
  <2> QED
    BY <1>6, <2>1, ChecksumAddsUp
<1>9. /\ generate_neighbor_advertisement(mac, src, target) \in Packets
      /\ AddsUp(generate_neighbor_advertisement(mac, src, target))
  <2>1. generate_neighbor_advertisement(mac, src, target) = [r EXCEPT !.checksum = checksum_ipv6_packet(r)]
    BY DEF generate_neighbor_advertisement
  <2> HIDE DEF r
  <2> QED
    BY <1>7, <2>1, ChecksumAddsUp
<1> QED
  BY <1>4, <1>8, <1>9

-----------------------------------------------------------------------------
\* What is between two parts of a sequence.

\* The part in the middle of three, cut out.
MiddleIs(l, m, r) == SubSeq((l \o m) \o r, Len(l) + 1, Len(l) + Len(m)) = m

\* It is the part.
LEMMA MiddleOfThree ==
  \A S, l, m, r : l \in Seq(S) /\ m \in Seq(S) /\ r \in Seq(S) => MiddleIs(l, m, r)
<1> TAKE S, l, m, r
<1>0. SUFFICES ASSUME l \in Seq(S), m \in Seq(S), r \in Seq(S)
               PROVE  SubSeq((l \o m) \o r, Len(l) + 1, Len(l) + Len(m)) = m
  BY DEF MiddleIs
<1> DEFINE lm == l \o m
           x == lm \o r
           i == Len(l)
           k == Len(m)
           t == SubSeq(x, i + 1, i + k)
<1>1. /\ lm \in Seq(S) /\ Len(lm) = i + k
      /\ \A j \in 1 .. i + k : lm[j] = IF j <= i THEN l[j] ELSE m[j - i]
  BY <1>0, ConcatProperties, Zenon
<1>0a. lm \in Seq(S) /\ r \in Seq(S)
  BY <1>0, <1>1
<1> HIDE DEF lm
<1>2. /\ x \in Seq(S) /\ Len(x) = Len(lm) + Len(r)
      /\ \A j \in 1 .. Len(lm) + Len(r) : x[j] = IF j <= Len(lm) THEN lm[j] ELSE r[j - Len(lm)]
  BY <1>0a, ConcatProperties, Zenon
<1> HIDE DEF x
<1>3. i \in Nat /\ k \in Nat /\ Len(r) \in Nat
  BY <1>0, LenProperties
<1>4. \A j \in 1 .. k : m[j] \in S
  BY <1>0, ElementOfSeq
<1> HIDE DEF i, k
<1>5. \A j \in 1 .. k : x[i + j] = m[j]
  <2> SUFFICES ASSUME NEW j \in 1 .. k PROVE x[i + j] = m[j]
    OBVIOUS
  <2>1. i + j \in 1 .. i + k /\ i + j \in 1 .. Len(lm) + Len(r) /\ ~(i + j <= i) /\ (i + j) - i = j
    BY <1>1, <1>3
  <2> QED
    BY <1>1, <1>2, <1>3, <2>1
<1>6. \A j \in i + 1 .. i + k : x[j] \in S
  <2> SUFFICES ASSUME NEW j \in i + 1 .. i + k PROVE x[j] \in S
    OBVIOUS
  <2>1. j - i \in 1 .. k /\ i + (j - i) = j
    BY <1>3
  <2> QED
    BY <1>4, <1>5, <2>1
<1>7. /\ t \in Seq(S) /\ Len(t) = IF i + 1 <= i + k THEN (i + k) - (i + 1) + 1 ELSE 0
      /\ \A j \in 1 .. (i + k) - (i + 1) + 1 : t[j] = x[(i + 1) + j - 1]
  <2>1. i + 1 \in Int /\ i + k \in Int
    BY <1>3
  <2> QED
    BY <1>6, <2>1, SubSeqProperties
<1> HIDE DEF t
<1>8. Len(t) = k
  BY <1>3, <1>7
<1>9. \A j \in 1 .. k : t[j] = m[j]
  <2> SUFFICES ASSUME NEW j \in 1 .. k PROVE t[j] = m[j]
    OBVIOUS
  <2>1. j \in 1 .. (i + k) - (i + 1) + 1 /\ (i + 1) + j - 1 = i + j
    BY <1>3
  <2> QED
    BY <1>5, <1>7, <2>1
<1>10. t = m
  <2>1. Len(t) = Len(m) /\ \A j \in 1 .. Len(t) : t[j] = m[j]
    BY <1>8, <1>9 DEF k
  <2> QED
    BY <1>0, <1>7, <2>1, SeqEqual
<1> QED
  BY <1>10 DEF t, x, lm, i, k

\* The octets of frames.
FrameOctets == {"head", "src", "dst", "payload", "tun", "eth"} \X Nat

\* Parts of frames.
LEMMA TaggedIs ==
  \A tag \in {"head", "src", "dst", "payload", "tun", "eth"}, n \in Nat :
     Tagged(tag, n) \in Seq(FrameOctets) /\ Len(Tagged(tag, n)) = n
<1> TAKE tag \in {"head", "src", "dst", "payload", "tun", "eth"}, n \in Nat
<1>1. \A i \in 1 .. n : <<tag, i>> \in FrameOctets
  BY DEF FrameOctets
<1> HIDE DEF FrameOctets
<1>2. Tagged(tag, n) \in [1 .. n -> FrameOctets]
  BY <1>1 DEF Tagged
<1> QED
  BY <1>2, FunctionIsSeq

\* Two ways to join five parts.
FiveJoined(S, l, h, s, d, p) ==
  /\ ((h \o s) \o d) \o p \in Seq(S)
  /\ (((l \o h) \o s) \o d) \o p = l \o (((h \o s) \o d) \o p)

\* They give the same.
LEMMA JoinedFive ==
  \A S, l, h, s, d, p :
     l \in Seq(S) /\ h \in Seq(S) /\ s \in Seq(S) /\ d \in Seq(S) /\ p \in Seq(S) => FiveJoined(S, l, h, s, d, p)
<1> TAKE S, l, h, s, d, p
<1>0. SUFFICES ASSUME l \in Seq(S), h \in Seq(S), s \in Seq(S), d \in Seq(S), p \in Seq(S)
               PROVE  /\ ((h \o s) \o d) \o p \in Seq(S)
                      /\ (((l \o h) \o s) \o d) \o p = l \o (((h \o s) \o d) \o p)
  BY DEF FiveJoined
<1> DEFINE u == h \o s
           v == u \o d
<1>l. l \in Seq(S)
  BY <1>0
<1>h. h \in Seq(S) /\ s \in Seq(S)
  BY <1>0
<1>d. d \in Seq(S)
  BY <1>0
<1>p. p \in Seq(S)
  BY <1>0
<1>1. u \in Seq(S)
  BY <1>h
<1>2. (l \o h) \o s = l \o u
  BY <1>l, <1>h, JoinedTwice
<1> HIDE DEF u
<1>3. v \in Seq(S)
  BY <1>1, <1>d
<1>4. (l \o u) \o d = l \o v
  BY <1>l, <1>1, <1>d, JoinedTwice
<1> HIDE DEF v
<1>5. v \o p \in Seq(S)
  BY <1>3, <1>p
<1>6. (l \o v) \o p = l \o (v \o p)
  BY <1>l, <1>3, <1>p, JoinedTwice
<1> QED
  BY <1>2, <1>4, <1>5, <1>6 DEF u, v

\* The five parts of a frame, where they are.
PartsFound(f, l, h, s, d, p) ==
  /\ Len(f) = Len(l) + Len(h) + Len(s) + Len(d) + Len(p)
  /\ SubSeq(f, Len(l) + 1, Len(l) + Len(h)) = h
  /\ SubSeq(f, Len(l) + Len(h) + 1, Len(l) + Len(h) + Len(s)) = s
  /\ SubSeq(f, Len(l) + Len(h) + Len(s) + 1, Len(l) + Len(h) + Len(s) + Len(d)) = d
  /\ SubSeq(f, Len(l) + Len(h) + Len(s) + Len(d) + 1, Len(f)) = p
  /\ SubSeq(f, Len(l) + 1, Len(f)) = ((h \o s) \o d) \o p

\* Five parts that are joined are found.
LEMMA FiveParts ==
  \A S, l, h, s, d, p :
     l \in Seq(S) /\ h \in Seq(S) /\ s \in Seq(S) /\ d \in Seq(S) /\ p \in Seq(S)
     => PartsFound(l \o (((h \o s) \o d) \o p), l, h, s, d, p)
<1> TAKE S, l, h, s, d, p
<1>0. SUFFICES ASSUME l \in Seq(S), h \in Seq(S), s \in Seq(S), d \in Seq(S), p \in Seq(S)
               PROVE  PartsFound(l \o (((h \o s) \o d) \o p), l, h, s, d, p)
  OBVIOUS
<1> DEFINE f == l \o (((h \o s) \o d) \o p)
           lh == l \o h
           ls == lh \o s
           ld == ls \o d
           hs == h \o s
           hd == hs \o d
           hp == hd \o p
           dp == d \o p
           sp == s \o dp
<1>e. <<>> \in Seq(S)
  OBVIOUS
<1>f. FiveJoined(S, l, h, s, d, p)
  BY <1>0, JoinedFive, Zenon
<1>1. f = ld \o p
  BY <1>f DEF FiveJoined
<1>2. hp \in Seq(S)
  BY <1>f DEF FiveJoined
<1>3. f = l \o hp
  OBVIOUS
<1>4. lh \in Seq(S) /\ Len(lh) = Len(l) + Len(h)
  BY <1>0, ConcatProperties
<1> HIDE DEF f, hp, lh
<1>5. ls \in Seq(S) /\ Len(ls) = Len(lh) + Len(s)
  BY <1>0, <1>4, ConcatProperties
<1>6. dp \in Seq(S)
  BY <1>0, ConcatProperties
<1> HIDE DEF ls, dp
<1>7. ld \in Seq(S) /\ Len(ld) = Len(ls) + Len(d)
  BY <1>0, <1>5, ConcatProperties
<1>8. sp \in Seq(S)
  BY <1>0, <1>6, ConcatProperties
<1>9. ld \o p = ls \o dp
  <2>1. d \in Seq(S) /\ p \in Seq(S)
    BY <1>0
  <2>0. ls \in Seq(S)
    BY <1>5
  <2>2. (ls \o d) \o p = ls \o (d \o p)
    BY <2>0, <2>1, JoinedTwice
  <2> QED
    BY <2>2 DEF dp
<1>10. ls \o dp = lh \o sp
  <2>1. s \in Seq(S)
    BY <1>0
  <2> QED
    BY <1>4, <1>6, <2>1, JoinedTwice DEF ls
<1> HIDE DEF ld, sp
<1>11. Len(ld \o p) = Len(ld) + Len(p)
  BY <1>0, <1>7, ConcatProperties
<1>12. Len(l) \in Nat /\ Len(h) \in Nat /\ Len(s) \in Nat /\ Len(d) \in Nat /\ Len(p) \in Nat
  BY <1>0, LenProperties
<1>13. Len(f) = Len(l) + Len(h) + Len(s) + Len(d) + Len(p)
  BY <1>1, <1>4, <1>5, <1>7, <1>11, <1>12
<1>14. MiddleIs(l, h, sp)
  BY <1>0, <1>8, MiddleOfThree, Zenon
<1>15. MiddleIs(lh, s, dp)
  BY <1>0, <1>4, <1>6, MiddleOfThree, Zenon
<1>16. MiddleIs(ls, d, p)
  BY <1>0, <1>5, MiddleOfThree, Zenon
<1>17. MiddleIs(ld, p, <<>>)
  BY <1>0, <1>e, <1>7, MiddleOfThree, Zenon
<1>18. MiddleIs(l, hp, <<>>)
  BY <1>0, <1>e, <1>2, MiddleOfThree, Zenon
<1>19. (ld \o p) \o <<>> = f
  <2>1. ld \o p \in Seq(S)
    BY <1>0, <1>7, ConcatProperties
  <2> QED
    BY <1>1, <2>1, ConcatEmptySeq
<1>20. (l \o hp) \o <<>> = f
  <2>1. l \o hp \in Seq(S)
    BY <1>0, <1>2, ConcatProperties
  <2> QED
    BY <1>3, <2>1, ConcatEmptySeq
<1>21. Len(f) = Len(l) + Len(hp)
  BY <1>0, <1>2, <1>3, ConcatProperties
<1>22. SubSeq(f, Len(l) + 1, Len(l) + Len(h)) = h
  BY <1>1, <1>9, <1>10, <1>14, Zenon DEF MiddleIs, lh
<1>23. SubSeq(f, Len(l) + Len(h) + 1, Len(l) + Len(h) + Len(s)) = s
  <2>1. SubSeq(ls \o dp, Len(lh) + 1, Len(lh) + Len(s)) = s
    BY <1>15, Zenon DEF MiddleIs, ls
  <2> QED
    BY <1>1, <1>4, <1>9, <2>1, Zenon
<1>24. SubSeq(f, Len(l) + Len(h) + Len(s) + 1, Len(l) + Len(h) + Len(s) + Len(d)) = d
  <2>1. SubSeq(ld \o p, Len(ls) + 1, Len(ls) + Len(d)) = d
    BY <1>16, Zenon DEF MiddleIs, ld
  <2> QED
    BY <1>1, <1>4, <1>5, <2>1, Zenon
<1>25. SubSeq(f, Len(l) + Len(h) + Len(s) + Len(d) + 1, Len(f)) = p
  <2>1. SubSeq(f, Len(ld) + 1, Len(ld) + Len(p)) = p
    BY <1>17, <1>19, Zenon DEF MiddleIs
  <2> QED
    BY <1>4, <1>5, <1>7, <1>13, <2>1, Zenon
<1>26. SubSeq(f, Len(l) + 1, Len(f)) = hp
  BY <1>18, <1>20, <1>21, Zenon DEF MiddleIs
<1> QED
  BY <1>13, <1>22, <1>23, <1>24, <1>25, <1>26, Zenon DEF PartsFound, f, hp

\* What LinkHeader adds, and the packet.
LEMMA FrameParts ==
  ASSUME NEW s \in {"linux", "macosx", "windows"}, NEW n \in Nat
  PROVE  /\ LinkHeader(s) \in Seq(FrameOctets)
         /\ Tagged("head", HeadLen) \in Seq(FrameOctets) /\ Len(Tagged("head", HeadLen)) = HeadLen
         /\ Tagged("src", AddrLen) \in Seq(FrameOctets) /\ Len(Tagged("src", AddrLen)) = AddrLen
         /\ Tagged("dst", AddrLen) \in Seq(FrameOctets) /\ Len(Tagged("dst", AddrLen)) = AddrLen
         /\ Tagged("payload", n) \in Seq(FrameOctets) /\ Len(Tagged("payload", n)) = n
         /\ s = "windows" => Len(LinkHeader(s)) = EthLen
         /\ Len(LinkHeader(s)) \in Nat
<1>1. HeadLen \in Nat /\ AddrLen \in Nat /\ EthLen \in Nat /\ TunLen \in Nat
  BY DEF HeadLen, AddrLen, EthLen, TunLen
<1>2. /\ Tagged("head", HeadLen) \in Seq(FrameOctets) /\ Len(Tagged("head", HeadLen)) = HeadLen
      /\ Tagged("src", AddrLen) \in Seq(FrameOctets) /\ Len(Tagged("src", AddrLen)) = AddrLen
      /\ Tagged("dst", AddrLen) \in Seq(FrameOctets) /\ Len(Tagged("dst", AddrLen)) = AddrLen
      /\ Tagged("payload", n) \in Seq(FrameOctets) /\ Len(Tagged("payload", n)) = n
      /\ Tagged("tun", TunLen) \in Seq(FrameOctets) /\ Tagged("eth", EthLen) \in Seq(FrameOctets)
      /\ Len(Tagged("tun", TunLen)) = TunLen /\ Len(Tagged("eth", EthLen)) = EthLen
  BY <1>1, TaggedIs
<1>3. <<>> \in Seq(FrameOctets) /\ Len(<<>>) = 0
  OBVIOUS
<1>4. LinkHeader(s) \in Seq(FrameOctets)
  BY <1>2, <1>3 DEF LinkHeader
<1>5. s = "windows" => Len(LinkHeader(s)) = EthLen
  BY <1>2 DEF LinkHeader
<1>6. Len(LinkHeader(s)) \in Nat
  BY <1>4, LenProperties
<1> QED
  BY <1>2, <1>4, <1>5, <1>6

\* A frame of the system s with n octets after the header of IPv6, and what is read from it.
FrameOf(s, n) == LinkHeader(s) \o Ipv6(n)
DataOf(n) == Tagged("head", HeadLen) \o Tagged("payload", n)

\* A frame has its five parts.
LEMMA FrameHasParts ==
  ASSUME NEW s \in {"linux", "macosx", "windows"}, NEW n \in Nat
  PROVE  PartsFound(FrameOf(s, n), LinkHeader(s), Tagged("head", HeadLen), Tagged("src", AddrLen),
                    Tagged("dst", AddrLen), Tagged("payload", n))
<1>1. /\ LinkHeader(s) \in Seq(FrameOctets)
      /\ Tagged("head", HeadLen) \in Seq(FrameOctets)
      /\ Tagged("src", AddrLen) \in Seq(FrameOctets)
      /\ Tagged("dst", AddrLen) \in Seq(FrameOctets)
      /\ Tagged("payload", n) \in Seq(FrameOctets)
  BY FrameParts
<1>2. PartsFound(LinkHeader(s) \o (((Tagged("head", HeadLen) \o Tagged("src", AddrLen)) \o Tagged("dst", AddrLen))
                                      \o Tagged("payload", n)),
                 LinkHeader(s), Tagged("head", HeadLen), Tagged("src", AddrLen),
                 Tagged("dst", AddrLen), Tagged("payload", n))
  BY <1>1, FiveParts, Zenon
<1> QED
  BY <1>2, Zenon DEF FrameOf, Ipv6

\* What is read: the header and what follows the addresses, and the addresses.
ReadIs(data, src, dst, size, n) ==
  /\ data = DataOf(n) /\ src = Tagged("src", AddrLen) /\ dst = Tagged("dst", AddrLen)
  /\ size = HeadLen + n

\* A scattered read of a frame.
LEMMA ScatteredRead ==
  ASSUME NEW s \in {"linux", "macosx", "windows"}, NEW n \in Nat
  PROVE  ReadIs(ReadData(s, FrameOf(s, n)), ReadSrc(s, FrameOf(s, n)), ReadDst(s, FrameOf(s, n)),
                Len(FrameOf(s, n)) - 2 * AddrLen - ReadAt(s), n)
<1> DEFINE f == FrameOf(s, n)
           l == Len(LinkHeader(s))
<1>1. l \in Nat /\ HeadLen = 8 /\ AddrLen = 16 /\ ReadAt(s) = l
  BY FrameParts DEF HeadLen, AddrLen, ReadAt
<1>2. PartsFound(f, LinkHeader(s), Tagged("head", HeadLen), Tagged("src", AddrLen),
                    Tagged("dst", AddrLen), Tagged("payload", n))
  BY FrameHasParts
<1>3. /\ Len(Tagged("head", HeadLen)) = HeadLen /\ Len(Tagged("src", AddrLen)) = AddrLen
      /\ Len(Tagged("dst", AddrLen)) = AddrLen /\ Len(Tagged("payload", n)) = n
  BY FrameParts
<1>4. /\ Len(f) = l + HeadLen + AddrLen + AddrLen + n
      /\ SubSeq(f, l + 1, l + HeadLen) = Tagged("head", HeadLen)
      /\ SubSeq(f, l + HeadLen + 1, l + HeadLen + AddrLen) = Tagged("src", AddrLen)
      /\ SubSeq(f, l + HeadLen + AddrLen + 1, l + HeadLen + AddrLen + AddrLen) = Tagged("dst", AddrLen)
      /\ SubSeq(f, l + HeadLen + AddrLen + AddrLen + 1, Len(f)) = Tagged("payload", n)
  BY <1>2, <1>3, Zenon DEF PartsFound
<1> HIDE DEF f, l
<1>5. ReadSrc(s, f) = Tagged("src", AddrLen)
  BY <1>1, <1>4, Zenon DEF ReadSrc, Scattered
<1>6. ReadDst(s, f) = Tagged("dst", AddrLen)
  BY <1>1, <1>4, Zenon DEF ReadDst, Scattered
<1>7. ReadData(s, f) = DataOf(n)
  <2>1. l + HeadLen + AddrLen + AddrLen + 1 = l + HeadLen + 2 * AddrLen + 1
    BY <1>1
  <2> QED
    BY <1>1, <1>4, <2>1, Zenon DEF ReadData, Scattered, DataOf
<1>8. Len(f) - 2 * AddrLen - ReadAt(s) = HeadLen + n
  BY <1>1, <1>4
<1> QED
  BY <1>5, <1>6, <1>7, <1>8, Zenon DEF ReadIs, f

\* A frame of Windows is read whole and split.
LEMMA SplitRead ==
  ASSUME NEW n \in Nat
  PROVE  LET r == ReadWindows(FrameOf("windows", n)) IN ReadIs(r.data, r.src, r.dst, r.size, n)
<1> DEFINE f == FrameOf("windows", n)
           packet == SubSeq(f, EthLen + 1, Len(f))
           h == Tagged("head", HeadLen)
           s == Tagged("src", AddrLen)
           d == Tagged("dst", AddrLen)
           p == Tagged("payload", n)
           r == ReadWindows(f)
<1>1. HeadLen = 8 /\ AddrLen = 16
  BY DEF HeadLen, AddrLen
<1>2. /\ h \in Seq(FrameOctets) /\ s \in Seq(FrameOctets) /\ d \in Seq(FrameOctets) /\ p \in Seq(FrameOctets)
      /\ Len(h) = HeadLen /\ Len(s) = AddrLen /\ Len(d) = AddrLen /\ Len(p) = n
      /\ Len(LinkHeader("windows")) = EthLen
  BY FrameParts
<1>3. PartsFound(f, LinkHeader("windows"), h, s, d, p)
  BY FrameHasParts
<1> HIDE DEF h, s, d, p
<1>4. packet = ((h \o s) \o d) \o p
  BY <1>2, <1>3, Zenon DEF PartsFound
<1>5. <<>> \in Seq(FrameOctets) /\ Len(<<>>) = 0
  OBVIOUS
<1>6. PartsFound(<<>> \o (((h \o s) \o d) \o p), <<>>, h, s, d, p)
  BY <1>2, <1>5, FiveParts, Zenon
<1>7. <<>> \o (((h \o s) \o d) \o p) = ((h \o s) \o d) \o p
  <2>1. FiveJoined(FrameOctets, <<>>, h, s, d, p)
    BY <1>2, <1>5, JoinedFive, Zenon
  <2>2. ((h \o s) \o d) \o p \in Seq(FrameOctets)
    BY <2>1 DEF FiveJoined
  <2> QED
    BY <2>2, ConcatEmptySeq
<1> HIDE DEF packet
<1>8. PartsFound(packet, <<>>, h, s, d, p)
  BY <1>4, <1>6, <1>7
<1>9. /\ Len(packet) = 0 + HeadLen + AddrLen + AddrLen + n
      /\ SubSeq(packet, 0 + 1, 0 + HeadLen) = h
      /\ SubSeq(packet, 0 + HeadLen + 1, 0 + HeadLen + AddrLen) = s
      /\ SubSeq(packet, 0 + HeadLen + AddrLen + 1, 0 + HeadLen + AddrLen + AddrLen) = d
      /\ SubSeq(packet, 0 + HeadLen + AddrLen + AddrLen + 1, Len(packet)) = p
  BY <1>2, <1>5, <1>8, Zenon DEF PartsFound
<1>10. /\ 0 + 1 = 1 /\ 0 + HeadLen = HeadLen /\ 0 + HeadLen + AddrLen + AddrLen = HeadLen + 2 * AddrLen
  BY <1>1
<1>11. r = [data |-> SubSeq(packet, 1, HeadLen) \o SubSeq(packet, HeadLen + 2 * AddrLen + 1, Len(packet)),
            src |-> SubSeq(packet, HeadLen + 1, HeadLen + AddrLen),
            dst |-> SubSeq(packet, HeadLen + AddrLen + 1, HeadLen + 2 * AddrLen),
            size |-> Len(packet) - 2 * AddrLen]
  BY DEF ReadWindows, packet
<1> HIDE DEF r
<1>12. r.data = h \o p
  <2>1. r.data = SubSeq(packet, 1, HeadLen) \o SubSeq(packet, HeadLen + 2 * AddrLen + 1, Len(packet))
    BY <1>11
  <2> QED
    BY <1>9, <1>10, <2>1, Zenon
<1>13. r.src = s
  <2>1. r.src = SubSeq(packet, HeadLen + 1, HeadLen + AddrLen)
    BY <1>11
  <2> QED
    BY <1>9, <1>10, <2>1, Zenon
<1>14. r.dst = d
  <2>1. r.dst = SubSeq(packet, HeadLen + AddrLen + 1, HeadLen + 2 * AddrLen)
    BY <1>11
  <2> QED
    BY <1>9, <1>10, <2>1, Zenon
<1>15. r.size = HeadLen + n
  <2>1. r.size = Len(packet) - 2 * AddrLen
    BY <1>11
  <2> QED
    BY <1>1, <1>9, <2>1
<1>16. ReadIs(r.data, r.src, r.dst, r.size, n)
  BY <1>12, <1>13, <1>14, <1>15, Zenon DEF ReadIs, DataOf, h, s, d, p
<1> QED
  BY <1>16 DEF r, f

\* What was read and is sent is the frame.
LEMMA SentIsRead ==
  ASSUME NEW s \in {"linux", "macosx", "windows"}, NEW n \in Nat
  PROVE  send_to_tun_separated_addresses(s, DataOf(n), Tagged("src", AddrLen), Tagged("dst", AddrLen))
           = FrameOf(s, n)
<1> DEFINE l == LinkHeader(s)
           h == Tagged("head", HeadLen)
           c == Tagged("src", AddrLen)
           d == Tagged("dst", AddrLen)
           p == Tagged("payload", n)
           x == h \o p
           e == <<>>
<1>1. HeadLen = 8
  BY DEF HeadLen
<1>2. /\ l \in Seq(FrameOctets) /\ h \in Seq(FrameOctets) /\ c \in Seq(FrameOctets) /\ d \in Seq(FrameOctets)
      /\ p \in Seq(FrameOctets) /\ Len(h) = HeadLen /\ Len(p) = n
  BY FrameParts
<1>3. e \in Seq(FrameOctets) /\ Len(e) = 0
  OBVIOUS
<1>4. FiveJoined(FrameOctets, l, h, c, d, p)
  BY <1>2, JoinedFive, Zenon
<1> HIDE DEF h, p, l, c, d, e
<1>5. MiddleIs(e, h, p) /\ MiddleIs(h, p, e)
  BY <1>2, <1>3, MiddleOfThree, Zenon
<1>6. x \in Seq(FrameOctets) /\ Len(x) = HeadLen + n
  BY <1>2, ConcatProperties
<1>7. e \o h = h /\ x \o e = x
  BY <1>2, <1>6, ConcatEmptySeq DEF e
<1>8. SubSeq(x, 0 + 1, 0 + HeadLen) = h
  BY <1>2, <1>3, <1>5, <1>7, Zenon DEF MiddleIs
<1>9. SubSeq(x, HeadLen + 1, Len(x)) = p
  BY <1>2, <1>5, <1>6, <1>7, Zenon DEF MiddleIs
<1>10. 0 + 1 = 1 /\ 0 + HeadLen = HeadLen
  BY <1>1
<1>11. x = DataOf(n)
  BY DEF DataOf, h, p
<1> HIDE DEF x
<1>12. send_to_tun_separated_addresses(s, x, c, d)
         = (((l \o h) \o c) \o d) \o p
  BY <1>8, <1>9, <1>10, Zenon DEF send_to_tun_separated_addresses, l
<1>13. (((l \o h) \o c) \o d) \o p = l \o (((h \o c) \o d) \o p)
  BY <1>4 DEF FiveJoined
<1>14. FrameOf(s, n) = l \o (((h \o c) \o d) \o p)
  BY DEF FrameOf, Ipv6, l, h, c, d, p
<1> QED
  BY <1>11, <1>12, <1>13, <1>14, Zenon DEF c, d

\* Nothing was read yet, or all was.
ReadOr(n) ==
  \/ readSize = 0 /\ readData = <<>> /\ written = <<>>
  \/ ReadIs(readData, readSrc, readDst, readSize, n) /\ written \in {<<>>, frame}

\* The frame that the system hands over and what became of it.
FrameIsRead ==
  \/ system = "ndp" /\ readSize = 0 /\ readData = <<>> /\ written = <<>>
  \/ /\ system \in {"linux", "macosx", "windows"}
     /\ \E n \in 0 .. MaxPayload : frame = FrameOf(system, n) /\ ReadOr(n)

\* The advertisement, and how often it was asked for.
ReplyAddsUp == reply \in Packets /\ answers \in 0 .. MaxAnswers /\ (answers > 0 => AddsUp(reply))

FrameInv == FrameIsRead /\ ReplyAddsUp

\* Frames begin so.
LEMMA FrameInvBegins == FrameInit => FrameInv
<1> SUFFICES ASSUME FrameInit PROVE FrameInv
  OBVIOUS
<1>1. FrameIsRead
  <2>1. PICK n \in 0 .. MaxPayload :
           frame = IF system = "ndp" THEN <<>> ELSE LinkHeader(system) \o Ipv6(n)
    BY DEF FrameInit
  <2> QED
    BY <2>1 DEF FrameInit, FrameIsRead, FrameOf, ReadOr
<1>2. ReplyAddsUp
  <2>1. NewReply \in Packets
    <3>1. 0 \in Word
      BY WordsAreNumbers
    <3>2. Address(0, 0) \in Seq(Word) /\ Mac(0) \in Seq(Word)
      BY <3>1, AddressWords
    <3> DEFINE W == Word
               Q == Seq(Word)
    <3>3. 0 \in W /\ Address(0, 0) \in Q /\ Mac(0) \in Q
      BY <3>1, <3>2
    <3>4. Packets = [src : Q, dst : Q, target : Q, checksum : W, toMac : Q, optMac : Q]
      BY DEF Packets
    <3> HIDE DEF W, Q
    <3> QED
      BY <3>3, <3>4 DEF NewReply
  <2>2. reply = NewReply /\ answers = 0 /\ MaxAnswers \in Nat
    BY TunFramesConstants DEF FrameInit
  <2> QED
    BY <2>1, <2>2 DEF ReplyAddsUp
<1> QED
  BY <1>1, <1>2 DEF FrameInv

\* Every step keeps it.
LEMMA FrameInvKept == FrameInv /\ [FrameNext]_frameVars => FrameInv'
<1> SUFFICES ASSUME FrameInv, [FrameNext]_frameVars PROVE FrameInv'
  OBVIOUS
<1>m. MaxPayload \in Nat /\ MaxAnswers \in Nat
  BY TunFramesConstants
<1>h. HeadLen \in Nat /\ HeadLen > 0
  BY DEF HeadLen
<1>i. FrameIsRead /\ ReplyAddsUp
  BY DEF FrameInv
<1>1. ASSUME ReadUnix PROVE FrameInv'
  <2>1. system \in {"linux", "macosx"} /\ UNCHANGED <<system, frame, written, reply, answers>> /\ readSize = 0
    BY <1>1 DEF ReadUnix
  <2>2. PICK n \in 0 .. MaxPayload : frame = FrameOf(system, n) /\ ReadOr(n)
    BY <1>i, <2>1 DEF FrameIsRead
  <2>3. n \in Nat
    BY <1>m
  <2>4. /\ readData' = ReadData(system, frame) /\ readSrc' = ReadSrc(system, frame)
        /\ readDst' = ReadDst(system, frame) /\ readSize' = Len(frame) - 2 * AddrLen - ReadAt(system)
    BY <1>1 DEF ReadUnix
  <2>5. ReadIs(readData, readSrc, readDst, readSize, n)'
    <3>1. ReadIs(ReadData(system, FrameOf(system, n)), ReadSrc(system, FrameOf(system, n)),
                 ReadDst(system, FrameOf(system, n)),
                 Len(FrameOf(system, n)) - 2 * AddrLen - ReadAt(system), n)
      BY <2>1, <2>3, ScatteredRead
    <3> QED
      BY <2>2, <2>4, <3>1 DEF ReadIs
  <2>6. written = <<>>
    BY <1>h, <2>1, <2>2, <2>3 DEF ReadOr, ReadIs
  <2> QED
    BY <1>i, <2>1, <2>2, <2>5, <2>6 DEF FrameInv, FrameIsRead, ReadOr, ReplyAddsUp, AddsUp
<1>2. ASSUME ReadTap PROVE FrameInv'
  <2>1. system = "windows" /\ UNCHANGED <<system, frame, written, reply, answers>> /\ readSize = 0
    BY <1>2 DEF ReadTap
  <2>2. PICK n \in 0 .. MaxPayload : frame = FrameOf(system, n) /\ ReadOr(n)
    BY <1>i, <2>1 DEF FrameIsRead
  <2>3. n \in Nat
    BY <1>m
  <2> DEFINE r == ReadWindows(FrameOf("windows", n))
  <2>4. /\ readData' = r.data /\ readSrc' = r.src /\ readDst' = r.dst /\ readSize' = r.size
    BY <1>2, <2>1, <2>2 DEF ReadTap
  <2>5. ReadIs(readData, readSrc, readDst, readSize, n)'
    <3>1. ReadIs(r.data, r.src, r.dst, r.size, n)
      BY <2>3, SplitRead
    <3> HIDE DEF r
    <3> QED
      BY <2>4, <3>1 DEF ReadIs
  <2>6. written = <<>>
    BY <1>h, <2>1, <2>2, <2>3 DEF ReadOr, ReadIs
  <2> QED
    BY <1>i, <2>1, <2>2, <2>5, <2>6 DEF FrameInv, FrameIsRead, ReadOr, ReplyAddsUp, AddsUp
<1>3. ASSUME SendBack PROVE FrameInv'
  <2>1. /\ system # "ndp" /\ readSize > 0
        /\ written' = send_to_tun_separated_addresses(system, readData, readSrc, readDst)
        /\ UNCHANGED <<system, frame, readData, readSrc, readDst, readSize, reply, answers>>
    BY <1>3 DEF SendBack
  <2>2. system \in {"linux", "macosx", "windows"}
    BY <1>i, <2>1 DEF FrameIsRead
  <2>3. PICK n \in 0 .. MaxPayload : frame = FrameOf(system, n) /\ ReadOr(n)
    BY <1>i, <2>1 DEF FrameIsRead
  <2>4. ReadIs(readData, readSrc, readDst, readSize, n)
    BY <2>1, <2>3 DEF ReadOr
  <2>5. written' = frame
    <3>1. n \in Nat
      BY <1>m
    <3> QED
      BY <2>1, <2>2, <2>3, <2>4, <3>1, SentIsRead DEF ReadIs
  <2> QED
    BY <1>i, <2>1, <2>2, <2>3, <2>4, <2>5 DEF FrameInv, FrameIsRead, ReadOr, ReadIs, ReplyAddsUp, AddsUp
<1>4. ASSUME AnswerSolicitation PROVE FrameInv'
  <2>1. /\ system = "ndp" /\ answers < MaxAnswers /\ answers' = answers + 1
        /\ UNCHANGED <<system, frame, readData, readSrc, readDst, readSize, written>>
    BY <1>4 DEF AnswerSolicitation
  <2>2. PICK mac \in {Mac(w) : w \in WordSet}, f, l, g \in WordSet :
           \/ reply' = generate_neighbor_advertisement_new(mac, Address(f, l), Address(g, g))
           \/ reply' = generate_neighbor_advertisement(mac, Address(f, l), Address(g, g))
    BY <1>4 DEF AnswerSolicitation
  <2>3. WordSet \subseteq Word
    BY TunFramesConstants DEF Word
  <2>4. mac \in Seq(Word) /\ Address(f, l) \in Seq(Word) /\ Address(g, g) \in Seq(Word)
    BY <2>3, AddressWords
  <2>5. reply \in Packets
    BY <1>i DEF ReplyAddsUp
  <2>6. reply' \in Packets /\ AddsUp(reply')
    BY <2>2, <2>4, <2>5, AnswersAddUp
  <2>7. ReplyAddsUp'
    <3>1. answers' \in 0 .. MaxAnswers
      BY <1>i, <1>m, <2>1 DEF ReplyAddsUp
    <3> QED
      BY <2>6, <3>1 DEF ReplyAddsUp, AddsUp
  <2>8. FrameIsRead'
    BY <1>i, <2>1 DEF FrameIsRead
  <2> QED
    BY <2>7, <2>8 DEF FrameInv
<1>5. CASE UNCHANGED frameVars
  BY <1>i, <1>5 DEF frameVars, FrameInv, FrameIsRead, ReadOr, ReadIs, ReplyAddsUp, AddsUp
<1> QED
  BY <1>1, <1>2, <1>3, <1>4, <1>5 DEF FrameNext

\* The types follow.
LEMMA FrameInvTypes == FrameInv => FrameTypeOK
<1> SUFFICES ASSUME FrameInv PROVE FrameTypeOK
  OBVIOUS
<1>1. reply.checksum \in 0 .. MaxWord /\ answers \in 0 .. MaxAnswers
  BY DEF FrameInv, ReplyAddsUp, Packets, Word
<1>2. MaxPayload \in Nat /\ HeadLen \in Nat
  BY TunFramesConstants DEF HeadLen
<1>3. readSize \in 0 .. HeadLen + MaxPayload /\ Len(readData) = readSize
  <2>1. CASE readSize = 0 /\ readData = <<>>
    BY <1>2, <2>1
  <2>2. CASE \E n \in 0 .. MaxPayload : readData = DataOf(n) /\ readSize = HeadLen + n
    <3>1. PICK n \in 0 .. MaxPayload : readData = DataOf(n) /\ readSize = HeadLen + n
      BY <2>2
    <3>2. n \in Nat
      BY <1>2
    <3> DEFINE h == Tagged("head", HeadLen)
               p == Tagged("payload", n)
    <3>3. h \in Seq(FrameOctets) /\ p \in Seq(FrameOctets) /\ Len(h) = HeadLen /\ Len(p) = n
      BY <3>2, FrameParts
    <3> HIDE DEF h, p
    <3>4. Len(h \o p) = HeadLen + n
      BY <3>3, ConcatProperties
    <3>5. Len(readData) = HeadLen + n
      BY <3>1, <3>4 DEF DataOf, h, p
    <3> QED
      BY <1>2, <3>1, <3>5
  <2> QED
    BY <2>1, <2>2 DEF FrameInv, FrameIsRead, ReadOr, ReadIs
<1> QED
  BY <1>1, <1>3 DEF FrameTypeOK

\* And the properties.
LEMMA FrameInvExact == FrameInv => FramesAreExact
<1> SUFFICES ASSUME FrameInv PROVE FramesAreExact
  OBVIOUS
<1>1. Len(readData) = readSize
  BY FrameInvTypes DEF FrameTypeOK
<1>2. readSize > 0 => readSrc = Tagged("src", AddrLen) /\ readDst = Tagged("dst", AddrLen)
  BY DEF FrameInv, FrameIsRead, ReadOr, ReadIs
<1>3. written # <<>> => written = frame
  BY DEF FrameInv, FrameIsRead, ReadOr
<1>4. answers > 0 => FoldWords[PseudoSum(reply)] = MaxWord
  BY DEF FrameInv, ReplyAddsUp, AddsUp
<1> QED
  BY <1>1, <1>2, <1>3, <1>4 DEF FramesAreExact

\* A packet that goes through a device keeps its octets and its addresses, for every length of
\* it, and every advertisement that c_ndp and c_tun_device_windows answer with adds up to all
\* ones, whatever the addresses are and whatever the answer before left in the static packet
\* (c_tuntap_linux_obj.cpp, c_tuntap_windows.cpp, c_ndp.cpp).
THEOREM FramesExact == FrameSpec => [](FrameTypeOK /\ FramesAreExact)
<1>1. FrameInv => FrameTypeOK /\ FramesAreExact
  BY FrameInvTypes, FrameInvExact
<1> QED
  BY <1>1, FrameInvBegins, FrameInvKept, PTL DEF FrameSpec

-----------------------------------------------------------------------------
\* The octets of numbers.

Octet == 0 .. OctetBase - 1

\* Octets are naturals.
LEMMA OctetsAre ==
  /\ OctetBase \in Nat /\ OctetBase >= 4 /\ Octet \subseteq Nat
  /\ \A x \in Seq(Octet) : x \in Seq(Nat) /\ Len(x) \in Nat
<1>1. OctetBase \in Nat /\ OctetBase >= 4
  BY SerializationConstants
<1>2. Octet \subseteq Nat
  BY <1>1 DEF Octet
<1>3. \A x \in Seq(Octet) : x \in Seq(Nat)
  BY <1>2, SeqMonotonic, Zenon
<1>4. \A x \in Seq(Octet) : Len(x) \in Nat
  BY LenProperties, Zenon
<1> QED
  BY <1>1, <1>2, <1>3, <1>4, Zenon

\* Powers of the base.
LEMMA Powers ==
  /\ \A k \in 0 .. 8 : Power[k] \in Nat /\ Power[k] > 0
  /\ Power[0] = 1 /\ \A k \in 1 .. 8 : Power[k] = OctetBase * Power[k - 1]
<1> DEFINE B == OctetBase
           step == [q \in Nat \X (1 .. 8) |-> B * q[1]]
           Rec(f) == f = [n \in 0 .. 8 |-> IF n = 0 THEN 1 ELSE B * f[n - 1]]
           pow == CHOOSE f : Rec(f)
<1>0. B \in Nat /\ B >= 4
  BY OctetsAre
<1> HIDE DEF B
<1>1. \A x \in Nat : B * x \in Nat
  BY <1>0
<1>2. step \in [Nat \X (1 .. 8) -> Nat] /\ \A x \in Nat, k \in 1 .. 8 : step[<<x, k>>] = B * x
  BY <1>1
<1> HIDE DEF step
<1>3. PICK val \in [0 .. 8 -> Nat] : val[0] = 1 /\ \A k \in 1 .. 8 : val[k] = step[<<val[k - 1], k>>]
  <2>1. 1 \in Nat /\ 8 \in Nat
    OBVIOUS
  <2>2. StepsMade(Nat, 1, 8, step)
    BY <1>2, <2>1, StepsExist, Zenon
  <2> QED
    BY <2>2 DEF StepsMade
<1>4. \A k \in 1 .. 8 : k - 1 \in 0 .. 8 /\ k \in 0 .. 8 /\ val[k - 1] \in Nat
  BY <1>3
<1>5. \A k \in 1 .. 8 : val[k] = B * val[k - 1]
  BY <1>2, <1>3, <1>4
<1>6. Rec(val)
  <2>1. \A n \in 0 .. 8 : val[n] = IF n = 0 THEN 1 ELSE B * val[n - 1]
    BY <1>3, <1>5
  <2> QED
    BY <1>3, <2>1
<1>7. Rec(pow)
  <2> HIDE DEF Rec
  <2> QED
    BY <1>6
<1> HIDE DEF pow
<1>8. pow = Power
  BY Zenon DEF Power, pow, Rec, B
<1>9. \A n \in 0 .. 8 : pow[n] = IF n = 0 THEN 1 ELSE B * pow[n - 1]
  BY <1>7
<1>10. pow[0] = 1 /\ \A k \in 1 .. 8 : pow[k] = B * pow[k - 1]
  BY <1>9
<1> DEFINE T == { k \in Nat : k <= 8 => pow[k] \in Nat /\ pow[k] > 0 }
<1>11. 0 \in T
  BY <1>10
<1>12. ASSUME NEW k \in Nat, k \in T PROVE k + 1 \in T
  <2> SUFFICES ASSUME k + 1 <= 8 PROVE pow[k + 1] \in Nat /\ pow[k + 1] > 0
    OBVIOUS
  <2>1. k <= 8 /\ k + 1 \in 1 .. 8 /\ (k + 1) - 1 = k
    OBVIOUS
  <2>2. pow[k] \in Nat /\ pow[k] > 0
    BY <1>12, <2>1
  <2>3. pow[k + 1] = B * pow[k]
    BY <1>10, <2>1
  <2> DEFINE x == pow[k]
  <2>4. x \in Nat /\ x > 0
    BY <2>2
  <2> HIDE DEF x
  <2>5. B * x \in Nat /\ B * x > 0
    BY <1>0, <2>4
  <2> QED
    BY <2>3, <2>5 DEF x
<1> HIDE DEF T
<1>13. \A k \in Nat : k \in T
  BY <1>11, <1>12, AllFromZero
<1>14. \A k \in 0 .. 8 : pow[k] \in Nat /\ pow[k] > 0
  <2> SUFFICES ASSUME NEW k \in 0 .. 8 PROVE pow[k] \in Nat /\ pow[k] > 0
    OBVIOUS
  <2>1. k \in Nat /\ k <= 8 /\ k \in T
    BY <1>13
  <2> QED
    BY <2>1 DEF T
<1> QED
  BY <1>8, <1>10, <1>14 DEF B

\* A number is divided by a product in two steps.
LEMMA DividedTwice ==
  \A x \in Nat, d \in Nat, e \in Nat : d > 0 /\ e > 0 =>
     /\ x \div d \in Nat /\ (x \div d) % e \in 0 .. e - 1
     /\ x \div d = ((x \div d) \div e) * e + ((x \div d) % e)
     /\ x \div (e * d) = (x \div d) \div e
<1> TAKE x \in Nat, d \in Nat, e \in Nat
<1> SUFFICES ASSUME d > 0, e > 0
             PROVE  /\ x \div d \in Nat /\ (x \div d) % e \in 0 .. e - 1
                    /\ x \div d = ((x \div d) \div e) * e + ((x \div d) % e)
                    /\ x \div (e * d) = (x \div d) \div e
  OBVIOUS
<1> DEFINE q == x \div d
           m == x % d
           u == q \div e
           w == q % e
<1>1. x = d * q + m /\ q \in Nat /\ m \in 0 .. d - 1
  OBVIOUS
<1> HIDE DEF q, m
<1>2. q = e * u + w /\ u \in Nat /\ w \in 0 .. e - 1
  BY <1>1
<1> HIDE DEF u, w
<1>3. x = (e * d) * u + (d * w + m)
  BY <1>1, <1>2
<1>4. d * w + m \in Nat /\ d * w + m < e * d
  <2>1. w + 1 <= e /\ w \in Nat /\ m \in Nat /\ m < d
    BY <1>1, <1>2
  <2>2. d * (w + 1) <= d * e
    BY <2>1
  <2> QED
    BY <2>1, <2>2
<1> DEFINE g == e * d
           r == d * w + m
<1>5. g \in Nat /\ g > 0
  OBVIOUS
<1>6. x = g * u + r /\ r \in Nat /\ r < g
  BY <1>3, <1>4
<1> HIDE DEF g, r
<1>7. x \div g = u
  BY <1>2, <1>5, <1>6
<1>8. q = u * e + w
  BY <1>2
<1> QED
  BY <1>1, <1>2, <1>7, <1>8 DEF q, u, w, g

\* The octets of a number, the first one the greatest.
Digits(S, value) == [i \in 1 .. S |-> (value \div Power[S - i]) % OctetBase]

\* They are octets, and give the number.
LEMMA DigitsGive ==
  ASSUME NEW S \in 1 .. 8, NEW value \in Nat
  PROVE  /\ Digits(S, value) \in Seq(Octet) /\ Len(Digits(S, value)) = S
         /\ value < Power[S] => Value(OctetBase, Digits(S, value)) = value
<1> DEFINE B == OctetBase
           d == Digits(S, value)
<1>0. B \in Nat /\ B >= 4
  BY OctetsAre
<1>1. \A i \in 0 .. S : S - i \in 0 .. 8 /\ Power[S - i] \in Nat /\ Power[S - i] > 0
  BY Powers
<1>2. \A i \in 1 .. S : d[i] = (value \div Power[S - i]) % B
  BY DEF Digits
<1> HIDE DEF B
<1>3. \A i \in 1 .. S : d[i] \in 0 .. B - 1
  <2> SUFFICES ASSUME NEW i \in 1 .. S PROVE d[i] \in 0 .. B - 1
    OBVIOUS
  <2>1. i \in 0 .. S
    OBVIOUS
  <2>2. Power[S - i] \in Nat /\ Power[S - i] > 0
    BY <1>1, <2>1
  <2> QED
    BY <1>0, <1>2, <2>2, DividedTwice
<1>4. d \in [1 .. S -> Octet]
  <2>1. \A i \in 1 .. S : d[i] \in Octet
    BY <1>3 DEF Octet, B
  <2>2. d = [i \in 1 .. S |-> d[i]]
    BY DEF Digits
  <2> HIDE DEF d
  <2> QED
    BY <2>1, <2>2
<1> HIDE DEF d
<1>5. d \in Seq(Octet) /\ Len(d) = S
  <2>1. S \in Nat
    OBVIOUS
  <2> QED
    BY <1>4, <2>1, FunctionIsSeq
<1>6. ASSUME value < Power[S] PROVE Value(B, d) = value
  <2>1. d \in Seq(Nat)
    BY <1>5, OctetsAre
  <2>2. PICK val \in [0 .. Len(d) -> Nat] :
           /\ val[0] = 0 /\ \A k \in 1 .. Len(d) : val[k] = val[k - 1] * B + d[k]
           /\ Value(B, d) = val[Len(d)]
    BY <1>0, <2>1, ValueByDigits
  <2> DEFINE T == { k \in Nat : k <= S => val[k] = value \div Power[S - k] }
  <2>3. 0 \in T
    <3>1. S - 0 = S /\ S \in 0 .. 8
      OBVIOUS
    <3> DEFINE z == Power[S]
    <3>2. z \in Nat /\ z > 0 /\ value < z
      BY <1>6, <3>1, Powers
    <3> HIDE DEF z
    <3>3. value \div z = 0
      BY <3>2
    <3> QED
      BY <2>2, <3>1, <3>3 DEF z
  <2>4. ASSUME NEW k \in Nat, k \in T PROVE k + 1 \in T
    <3> SUFFICES ASSUME k + 1 <= S PROVE val[k + 1] = value \div Power[S - (k + 1)]
      OBVIOUS
    <3>1. k <= S /\ k + 1 \in 1 .. S /\ (k + 1) - 1 = k /\ k + 1 \in 0 .. S /\ S - k \in 1 .. 8
          /\ (S - k) - 1 = S - (k + 1)
      OBVIOUS
    <3>2. val[k] = value \div Power[S - k]
      BY <2>4, <3>1
    <3> DEFINE y == Power[S - (k + 1)]
    <3>3. y \in Nat /\ y > 0
      BY <1>1, <3>1
    <3>4. Power[S - k] = B * y
      BY <3>1, Powers DEF B
    <3>5. val[k + 1] = val[k] * B + d[k + 1]
      BY <1>5, <2>2, <3>1
    <3>6. d[k + 1] = (value \div y) % B
      BY <1>2, <3>1
    <3> HIDE DEF y
    <3>7. value \div (B * y) = (value \div y) \div B
      BY <1>0, <3>3, DividedTwice
    <3>8. value \div y = ((value \div y) \div B) * B + ((value \div y) % B)
      BY <1>0, <3>3, DividedTwice
    <3>9. val[k + 1] = value \div y
      BY <3>2, <3>4, <3>5, <3>6, <3>7, <3>8
    <3> QED
      BY <3>9 DEF y
  <2> HIDE DEF T
  <2>5. \A k \in Nat : k \in T
    BY <2>3, <2>4, AllFromZero
  <2>6. val[S] = value \div Power[S - S]
    <3>1. S \in Nat /\ S \in T
      BY <2>5
    <3> QED
      BY <3>1 DEF T
  <2>7. S - S = 0 /\ value \div 1 = value
    OBVIOUS
  <2> QED
    BY <1>5, <2>2, <2>6, <2>7, Powers
<1> QED
  BY <1>5, <1>6 DEF d, B

-----------------------------------------------------------------------------
\* What a push appends.

\* It appends octets, also if it throws.
Makes(p) == p \in [ok : BOOLEAN, octets : Seq(Octet)]

\* One push after the other.
LEMMA ThenMakes ==
  \A p, q : Makes(p) /\ Makes(q) =>
     /\ Makes(Then(p, q)) /\ (Then(p, q).ok <=> p.ok /\ q.ok)
     /\ (Then(p, q).ok => Then(p, q).octets = p.octets \o q.octets)
<1> TAKE p, q
<1> DEFINE Q == Seq(Octet)
<1>1. SUFFICES ASSUME p \in [ok : BOOLEAN, octets : Q], q \in [ok : BOOLEAN, octets : Q]
               PROVE  /\ Then(p, q) \in [ok : BOOLEAN, octets : Q]
                      /\ (Then(p, q).ok <=> p.ok /\ q.ok)
                      /\ Then(p, q).ok => Then(p, q).octets = p.octets \o q.octets
  BY DEF Makes
<1>2. \A x, y \in Q : x \o y \in Q
  OBVIOUS
<1> HIDE DEF Q
<1>3. p.octets \in Q /\ q.octets \in Q /\ p.ok \in BOOLEAN /\ q.ok \in BOOLEAN
  BY <1>1
<1>4. CASE p.ok
  <2>1. Then(p, q) = [ok |-> q.ok, octets |-> p.octets \o q.octets]
    BY <1>4 DEF Then
  <2>2. p.octets \o q.octets \in Q
    BY <1>2, <1>3
  <2> DEFINE x == p.octets \o q.octets
  <2>3. Then(p, q) = [ok |-> q.ok, octets |-> x] /\ x \in Q
    BY <2>1, <2>2
  <2>4. x = p.octets \o q.octets
    OBVIOUS
  <2> HIDE DEF x
  <2> QED
    <3>1. Then(p, q) \in [ok : BOOLEAN, octets : Q]
      BY <1>3, <2>3
    <3>2. Then(p, q).ok = q.ok /\ Then(p, q).octets = x
      BY <2>3
    <3> QED
      BY <1>4, <2>4, <3>1, <3>2, Zenon
<1>5. CASE ~p.ok
  <2>1. Then(p, q) = p
    BY <1>5 DEF Then
  <2> QED
    BY <1>1, <1>5, <2>1
<1> QED
  BY <1>3, <1>4, <1>5

\* Octets that are appended, and none.
LEMMA OutMakes ==
  /\ \A x \in Seq(Octet) : Makes(Out(x)) /\ Out(x).ok /\ Out(x).octets = x
  /\ Makes(TooBig) /\ ~TooBig.ok
<1>1. <<>> \in Seq(Octet)
  OBVIOUS
<1> DEFINE Q == Seq(Octet)
<1>2. <<>> \in Q
  BY <1>1
<1> HIDE DEF Q
<1>3. /\ \A x \in Q : Out(x) \in [ok : BOOLEAN, octets : Q] /\ Out(x).ok /\ Out(x).octets = x
      /\ TooBig \in [ok : BOOLEAN, octets : Q] /\ ~TooBig.ok
  BY <1>2 DEF Out, TooBig
<1> QED
  BY <1>3 DEF Makes, Q

\* A number that fits.
LEMMA IntegerMakes ==
  \A S \in 1 .. 8, val \in Nat :
     /\ Makes(push_integer_u(S, val)) /\ (push_integer_u(S, val).ok <=> val < Power[S] - 1)
     /\ push_integer_u(S, val).ok => push_integer_u(S, val).octets = Digits(S, val) /\ val < Power[S]
<1> TAKE S \in 1 .. 8, val \in Nat
<1>1. Power[S] \in Nat
  BY Powers
<1>2. Digits(S, val) \in Seq(Octet)
  BY DigitsGive
<1>3. push_integer_u(S, val) = IF val >= Power[S] - 1 THEN TooBig ELSE Out(Digits(S, val))
  BY DEF push_integer_u, get_max_value_of_S_octet_uint, Digits
<1>4. Makes(Out(Digits(S, val))) /\ Out(Digits(S, val)).ok /\ Out(Digits(S, val)).octets = Digits(S, val)
  BY <1>2, OutMakes, Zenon
<1>5. Makes(TooBig) /\ ~TooBig.ok
  BY OutMakes, Zenon
<1>6. CASE val >= Power[S] - 1
  BY <1>1, <1>3, <1>5, <1>6
<1>7. CASE ~(val >= Power[S] - 1)
  BY <1>1, <1>3, <1>4, <1>7
<1> QED
  BY <1>6, <1>7

\* The three markers.
Marker(S) == IF S = 2 THEN OctetBase - 3 ELSE IF S = 4 THEN OctetBase - 2 ELSE OctetBase - 1

\* A number of any size is one octet, or a marker and 2, 4 or 8 octets.
UvarintIs(val, p) ==
  /\ Makes(p)
  /\ p.ok => \/ val < OctetBase - 3 /\ val < Power[1] /\ p.octets = Digits(1, val)
             \/ \E S \in {2, 4, 8} : val < Power[S] /\ p.octets = <<Marker(S)>> \o Digits(S, val)

\* A marker before a number.
LEMMA MarkedMakes ==
  ASSUME NEW S \in {2, 4, 8}, NEW val \in Nat
  PROVE  UvarintIs(val, Then(Out(<<Marker(S)>>), push_integer_u(S, val)))
<1> DEFINE m == <<Marker(S)>>
           q == push_integer_u(S, val)
           p == Then(Out(m), q)
<1>1. m \in Seq(Octet)
  <2>1. Marker(S) \in Octet
    BY OctetsAre DEF Marker, Octet
  <2> HIDE DEF Octet
  <2> QED
    BY <2>1
<1>2. Makes(Out(m)) /\ Out(m).ok /\ Out(m).octets = m
  BY <1>1, OutMakes, Zenon
<1>3. S \in 1 .. 8
  OBVIOUS
<1>4. Makes(q) /\ (q.ok => q.octets = Digits(S, val) /\ val < Power[S])
  BY <1>3, IntegerMakes, Zenon
<1> HIDE DEF q, m
<1>5. Makes(p) /\ (p.ok <=> Out(m).ok /\ q.ok) /\ (p.ok => p.octets = Out(m).octets \o q.octets)
  BY <1>2, <1>4, ThenMakes, Zenon
<1> HIDE DEF p
<1>6. p.ok => val < Power[S] /\ p.octets = m \o Digits(S, val)
  BY <1>2, <1>4, <1>5
<1>7. UvarintIs(val, p)
  BY <1>5, <1>6 DEF UvarintIs, m
<1> QED
  BY <1>7 DEF p, q, m

\* All numbers are pushed so.
LEMMA UvarintMakes == \A val \in Nat : UvarintIs(val, push_integer_uvarint(val))
<1> TAKE val \in Nat
<1>0. OctetBase \in Nat /\ OctetBase >= 4 /\ Power[1] = OctetBase /\ Power[2] \in Nat /\ Power[4] \in Nat
  <2>1. Power[1] = OctetBase * Power[1 - 1] /\ 1 - 1 = 0 /\ Power[0] = 1
    BY Powers
  <2>2. Power[2] \in Nat /\ Power[4] \in Nat
    BY Powers
  <2> QED
    BY <2>1, <2>2, OctetsAre
<1>1. CASE val < OctetBase - 3
  <2>1. push_integer_uvarint(val) = push_integer_u(1, val)
    <3>1. val \notin (OctetBase - 3) .. (Power[2] - 2) /\ val \notin (Power[2] - 1) .. (Power[4] - 2)
      <4>1. Power[2] = OctetBase * Power[2 - 1] /\ 2 - 1 = 1
        BY Powers
      <4>2. Power[2] >= OctetBase
        BY <1>0, <4>1
      <4> QED
        BY <1>0, <1>1, <4>2
    <3> QED
      BY <1>1, <3>1, Zenon DEF push_integer_uvarint
  <2>2. 1 \in 1 .. 8
    OBVIOUS
  <2>3. Makes(push_integer_u(1, val)) /\ (push_integer_u(1, val).ok => push_integer_u(1, val).octets = Digits(1, val))
    BY <2>2, IntegerMakes, Zenon
  <2>4. val < Power[1]
    BY <1>0, <1>1
  <2> QED
    BY <1>1, <2>1, <2>3, <2>4 DEF UvarintIs
<1>2. CASE ~(val < OctetBase - 3)
  <2>1. UvarintIs(val, Then(Out(<<OctetBase - 3>>), push_integer_u(2, val)))
    BY MarkedMakes DEF Marker
  <2>2. UvarintIs(val, Then(Out(<<OctetBase - 2>>), push_integer_u(4, val)))
    BY MarkedMakes DEF Marker
  <2>3. UvarintIs(val, Then(Out(<<OctetBase - 1>>), push_integer_u(8, val)))
    BY MarkedMakes DEF Marker
  <2>4. \/ push_integer_uvarint(val) = Then(Out(<<OctetBase - 3>>), push_integer_u(2, val))
        \/ push_integer_uvarint(val) = Then(Out(<<OctetBase - 2>>), push_integer_u(4, val))
        \/ push_integer_uvarint(val) = Then(Out(<<OctetBase - 1>>), push_integer_u(8, val))
    BY <1>2 DEF push_integer_uvarint
  <2> QED
    BY <2>1, <2>2, <2>3, <2>4, Zenon
<1> QED
  BY <1>1, <1>2

-----------------------------------------------------------------------------
\* What a pop reads.

\* The string that arrived agrees with w from a place on, as far as it goes.
Agrees(now, w) == \A j \in 1 .. Len(w) : now + j <= Len(m_str) => m_str[now + j] = w[j]

\* A pop throws and leaves the parser within the string.
ThrowsHere(p) == p = [ok |-> FALSE, v |-> p.v, now |-> p.now] /\ p.now \in 0 .. Len(m_str)

\* A pop returns v if all the octets of it, n from a place on, arrived, and throws if not.
ReadsAs(p, v, now, n) == IF now + n <= Len(m_str) THEN p = Got(v, now + n) ELSE ThrowsHere(p)

\* What is about two parts is about each.
AgreesBoth(now, u, w) ==
  /\ Agrees(now, u) /\ Agrees(now + Len(u), w) /\ now + Len(u) \in Nat
  /\ Len(u \o w) = Len(u) + Len(w) /\ Len(u) \in Nat /\ Len(w) \in Nat
Joined(u, w) == u \o w

\* It agrees with both.
LEMMA AgreesParts ==
  \A now, u, w : now \in Nat /\ u \in Seq(Octet) /\ w \in Seq(Octet) /\ Agrees(now, Joined(u, w))
                 => AgreesBoth(now, u, w)
<1> SUFFICES ASSUME NEW now \in Nat, NEW u \in Seq(Octet), NEW w \in Seq(Octet), Agrees(now, Joined(u, w))
             PROVE  AgreesBoth(now, u, w)
  OBVIOUS
<1>1. Agrees(now, u \o w)
  BY DEF Joined
<1> DEFINE x == u \o w
           k == Len(u)
           n == Len(w)
<1>2. /\ Len(x) = k + n /\ \A i \in 1 .. k + n : x[i] = IF i <= k THEN u[i] ELSE w[i - k]
  BY ConcatProperties, Zenon
<1>3. k \in Nat /\ n \in Nat
  BY LenProperties
<1>4. \A j \in 1 .. Len(x) : now + j <= Len(m_str) => m_str[now + j] = x[j]
  BY <1>1 DEF Agrees
<1> HIDE DEF x, k, n
<1>5. ASSUME NEW j \in 1 .. k, now + j <= Len(m_str) PROVE m_str[now + j] = u[j]
  <2>1. j \in 1 .. k + n /\ j <= k
    BY <1>3
  <2> QED
    BY <1>2, <1>4, <1>5, <2>1
<1>6. ASSUME NEW j \in 1 .. n, (now + k) + j <= Len(m_str) PROVE m_str[(now + k) + j] = w[j]
  <2> DEFINE i == k + j
  <2>1. i \in 1 .. k + n /\ ~(i <= k) /\ i - k = j /\ now + i = (now + k) + j
    BY <1>3
  <2> HIDE DEF i
  <2>2. m_str[now + i] = x[i] /\ x[i] = w[i - k]
    BY <1>2, <1>4, <1>6, <2>1
  <2> QED
    BY <2>1, <2>2
<1>7. Agrees(now, u) /\ Agrees(now + Len(u), w)
  BY <1>5, <1>6 DEF Agrees, k, n
<1>8. now + k \in Nat
  BY <1>3
<1> QED
  BY <1>2, <1>3, <1>7, <1>8 DEF k, n, x, AgreesBoth

\* What arrived whole is cut out whole.
LEMMA CutOut ==
  ASSUME m_str \in Seq(Octet), NEW now \in Nat, NEW w \in Seq(Octet), Agrees(now, w),
         now + Len(w) <= Len(m_str)
  PROVE  SubSeq(m_str, now + 1, now + Len(w)) = w
<1> DEFINE n == Len(w)
           t == SubSeq(m_str, now + 1, now + n)
<1>1. n \in Nat /\ Len(m_str) \in Nat /\ \A i \in 1 .. Len(m_str) : m_str[i] \in Octet
  BY LenProperties, ElementOfSeq
<1>2. \A j \in 1 .. n : now + j <= Len(m_str) => m_str[now + j] = w[j]
  BY DEF Agrees
<1>0. now + n <= Len(m_str)
  OBVIOUS
<1> HIDE DEF n
<1>3. \A i \in now + 1 .. now + n : m_str[i] \in Octet
  <2> SUFFICES ASSUME NEW i \in now + 1 .. now + n PROVE m_str[i] \in Octet
    OBVIOUS
  <2>1. i \in 1 .. Len(m_str)
    BY <1>0, <1>1
  <2> QED
    BY <1>1, <2>1
<1>4. /\ t \in Seq(Octet) /\ Len(t) = IF now + 1 <= now + n THEN (now + n) - (now + 1) + 1 ELSE 0
      /\ \A i \in 1 .. (now + n) - (now + 1) + 1 : t[i] = m_str[(now + 1) + i - 1]
  <2>1. now + 1 \in Int /\ now + n \in Int
    BY <1>1
  <2> QED
    BY <1>3, <2>1, SubSeqProperties
<1> HIDE DEF t
<1>5. Len(t) = n
  BY <1>1, <1>4
<1>6. \A j \in 1 .. n : t[j] = w[j]
  <2> SUFFICES ASSUME NEW j \in 1 .. n PROVE t[j] = w[j]
    OBVIOUS
  <2>1. j \in 1 .. (now + n) - (now + 1) + 1 /\ (now + 1) + j - 1 = now + j /\ now + j <= Len(m_str)
    BY <1>0, <1>1
  <2> QED
    BY <1>2, <1>4, <2>1
<1>7. t = w
  <2>1. Len(t) = Len(w) /\ \A j \in 1 .. Len(t) : t[j] = w[j]
    BY <1>5, <1>6 DEF n
  <2>2. t \in Seq(Octet)
    BY <1>4
  <2> QED
    BY <2>1, <2>2, SeqEqual
<1> QED
  BY <1>7 DEF t, n

\* The octets of a number are read as it was.
LEMMA IntegerRead ==
  ASSUME m_str \in Seq(Octet), NEW S \in 1 .. 8, NEW val \in Nat, val < Power[S],
         NEW now \in 0 .. Len(m_str), Agrees(now, Digits(S, val))
  PROVE  ReadsAs(pop_integer_u(S, now), val, now, S)
<1> DEFINE w == Digits(S, val)
           p == pop_integer_u(S, now)
<1>1. w \in Seq(Octet) /\ Len(w) = S /\ Value(OctetBase, w) = val
  BY DigitsGive
<1>2. now \in Nat /\ Len(m_str) \in Nat
  BY LenProperties
<1>3. CASE now + S > Len(m_str)
  <2>1. p = [ok |-> FALSE, v |-> <<>>, now |-> Len(m_str)]
    BY <1>3, Zenon DEF pop_integer_u, format_error_read
  <2>2. ThrowsHere(p)
    <3> HIDE DEF p
    <3> QED
      BY <1>2, <2>1 DEF ThrowsHere
  <2>3. ~(now + S <= Len(m_str))
    BY <1>2, <1>3
  <2> QED
    BY <2>2, <2>3 DEF ReadsAs
<1>4. CASE ~(now + S > Len(m_str))
  <2>1. now + S <= Len(m_str)
    BY <1>2, <1>4
  <2>2. p = Got(Value(OctetBase, SubSeq(m_str, now + 1, now + S)), now + S)
    BY <1>4, Zenon DEF pop_integer_u, Value
  <2>3. SubSeq(m_str, now + 1, now + Len(w)) = w
    <3>1. Agrees(now, w) /\ now + Len(w) <= Len(m_str)
      BY <1>1, <2>1
    <3> HIDE DEF w
    <3> QED
      BY <1>1, <1>2, <3>1, CutOut
  <2>4. p = Got(val, now + S)
    <3> HIDE DEF p, w
    <3> QED
      BY <1>1, <2>2, <2>3
  <2> QED
    BY <2>1, <2>4 DEF ReadsAs
<1> QED
  BY <1>3, <1>4

\* Octets are read as they were.
LEMMA BytesRead ==
  ASSUME m_str \in Seq(Octet), NEW w \in Seq(Octet), NEW now \in 0 .. Len(m_str), Agrees(now, w)
  PROVE  ReadsAs(pop_bytes_n(Len(w), now), w, now, Len(w))
<1> DEFINE n == Len(w)
           p == pop_bytes_n(n, now)
<1>1. now \in Nat /\ Len(m_str) \in Nat /\ n \in Nat /\ now <= Len(m_str)
  BY LenProperties
<1>2. n = 0 => w = <<>>
  OBVIOUS
<1>0. n = Len(w)
  OBVIOUS
<1> HIDE DEF n
<1>3. CASE n = 0
  <2>1. p = Got(<<>>, now)
    BY <1>3 DEF pop_bytes_n
  <2>2. now + n <= Len(m_str) /\ now + n = now
    BY <1>1, <1>3
  <2> QED
    BY <1>0, <1>2, <1>3, <2>1, <2>2 DEF ReadsAs
<1>4. CASE n > 0 /\ Len(m_str) - now < n
  <2>1. p = [ok |-> FALSE, v |-> <<>>, now |-> now]
    BY <1>1, <1>4 DEF pop_bytes_n, format_error_read
  <2>2. ThrowsHere(p)
    <3> HIDE DEF p
    <3> QED
      BY <1>1, <2>1 DEF ThrowsHere
  <2>3. ~(now + n <= Len(m_str))
    BY <1>1, <1>4
  <2> QED
    BY <1>0, <2>2, <2>3 DEF ReadsAs
<1>5. CASE n > 0 /\ ~(Len(m_str) - now < n)
  <2>1. p = Got(SubSeq(m_str, now + 1, now + n), now + n)
    BY <1>1, <1>5 DEF pop_bytes_n
  <2>2. now + n <= Len(m_str)
    BY <1>1, <1>5
  <2>3. SubSeq(m_str, now + 1, now + n) = w
    BY <1>0, <1>1, <2>2, CutOut
  <2> QED
    BY <1>0, <2>1, <2>2, <2>3 DEF ReadsAs
<1> QED
  BY <1>1, <1>3, <1>4, <1>5

\* An octet is read as it was.
LEMMA ByteRead ==
  ASSUME m_str \in Seq(Octet), NEW o \in Octet, NEW now \in 0 .. Len(m_str), Agrees(now, <<o>>)
  PROVE  ReadsAs(pop_byte_u(now), o, now, 1)
<1>1. now \in Nat /\ Len(m_str) \in Nat /\ now <= Len(m_str)
  BY LenProperties
<1>2. CASE now < Len(m_str)
  <2>1. now + 1 <= Len(m_str)
    BY <1>1, <1>2
  <2>2. m_str[now + 1] = o
    <3>1. Len(<<o>>) = 1 /\ <<o>>[1] = o /\ 1 \in 1 .. 1
      OBVIOUS
    <3> QED
      BY <2>1, <3>1 DEF Agrees
  <2>3. pop_byte_u(now) = Got(o, now + 1)
    BY <1>2, <2>2 DEF pop_byte_u
  <2> QED
    BY <2>1, <2>3 DEF ReadsAs
<1>3. CASE ~(now < Len(m_str))
  <2>1. pop_byte_u(now) = [ok |-> FALSE, v |-> <<>>, now |-> now]
    BY <1>3 DEF pop_byte_u, format_error_read
  <2>2. ThrowsHere(pop_byte_u(now))
    <3> DEFINE p == pop_byte_u(now)
    <3>1. p = [ok |-> FALSE, v |-> <<>>, now |-> now] /\ now \in 0 .. Len(m_str)
      BY <2>1
    <3> HIDE DEF p
    <3>2. ThrowsHere(p)
      BY <3>1 DEF ThrowsHere
    <3> QED
      BY <3>2 DEF p
  <2>3. ~(now + 1 <= Len(m_str))
    BY <1>1, <1>3
  <2> QED
    BY <2>2, <2>3 DEF ReadsAs
<1> QED
  BY <1>2, <1>3

\* What a pop that reads leaves.
LeavesAt(p, v, now, n) ==
  /\ p.ok => p = Got(v, now + n) /\ p.v = v /\ p.now = now + n /\ now + n \in 0 .. Len(m_str)
  /\ ~p.ok => ThrowsHere(p) /\ ~(now + n <= Len(m_str))
  /\ p.ok \in BOOLEAN

\* It is so of every pop.
LEMMA ReadsLeaves ==
  \A p, v, now, n : now \in Nat /\ n \in Nat /\ ReadsAs(p, v, now, n) => LeavesAt(p, v, now, n)
<1> TAKE p, v, now, n
<1>1. SUFFICES ASSUME now \in Nat, n \in Nat, ReadsAs(p, v, now, n)
               PROVE  /\ p.ok => p = Got(v, now + n) /\ p.v = v /\ p.now = now + n /\ now + n \in 0 .. Len(m_str)
                      /\ ~p.ok => ThrowsHere(p) /\ ~(now + n <= Len(m_str))
                      /\ p.ok \in BOOLEAN
  BY Zenon DEF LeavesAt
<1>2. CASE now + n <= Len(m_str)
  <2>1. p = Got(v, now + n)
    BY <1>1, <1>2 DEF ReadsAs
  <2>2. p.ok = TRUE /\ p.v = v /\ p.now = now + n
    BY <2>1 DEF Got
  <2>3. now + n \in 0 .. Len(m_str)
    BY <1>1, <1>2
  <2> QED
    BY <2>1, <2>2, <2>3
<1>3. CASE ~(now + n <= Len(m_str))
  <2>1. ThrowsHere(p)
    BY <1>1, <1>3 DEF ReadsAs
  <2>2. p.ok = FALSE
    BY <2>1 DEF ThrowsHere
  <2> QED
    BY <1>3, <2>1, <2>2
<1> QED
  BY <1>2, <1>3

\* One pop after the other.
LEMMA ReadThen ==
  ASSUME NEW p, NEW q, NEW u, NEW v, NEW now \in Nat, NEW k \in Nat, NEW n \in Nat, Len(m_str) \in Nat,
         ReadsAs(p, u, now, k), p.ok => ReadsAs(q, v, now + k, n)
  PROVE  ReadsAs(IF p.ok THEN q ELSE p, v, now, k + n)
<1>1. /\ p.ok => p = Got(u, now + k) /\ now + k \in 0 .. Len(m_str)
      /\ ~p.ok => ThrowsHere(p) /\ ~(now + k <= Len(m_str))
  <2>1. LeavesAt(p, u, now, k)
    BY ReadsLeaves, Zenon
  <2> QED
    BY <2>1, Zenon DEF LeavesAt
<1>2. (now + k) + n = now + (k + n)
  OBVIOUS
<1>3. CASE p.ok
  <2>1. ReadsAs(q, v, now, k + n)
    BY <1>2, <1>3, Zenon DEF ReadsAs
  <2> QED
    BY <1>3, <2>1
<1>4. CASE ~p.ok
  <2>1. ~(now + (k + n) <= Len(m_str))
    BY <1>1, <1>4
  <2>2. ReadsAs(p, v, now, k + n)
    BY <1>1, <1>4, <2>1 DEF ReadsAs
  <2> QED
    BY <1>4, <2>2
<1> QED
  BY <1>3, <1>4

\* A number of any size is read as it was.
LEMMA UvarintRead ==
  ASSUME m_str \in Seq(Octet), NEW val \in Nat, push_integer_uvarint(val).ok,
         NEW now \in 0 .. Len(m_str), Agrees(now, push_integer_uvarint(val).octets)
  PROVE  ReadsAs(pop_integer_uvarint(now), val, now, Len(push_integer_uvarint(val).octets))
<1> DEFINE p == push_integer_uvarint(val)
           first == pop_byte_u(now)
           pop == pop_integer_uvarint(now)
<1>0. now \in Nat /\ Len(m_str) \in Nat /\ OctetBase \in Nat /\ OctetBase >= 4
  BY LenProperties, OctetsAre
<1>1. \/ val < OctetBase - 3 /\ val < Power[1] /\ p.octets = Digits(1, val)
      \/ \E S \in {2, 4, 8} : val < Power[S] /\ p.octets = <<Marker(S)>> \o Digits(S, val)
  BY UvarintMakes DEF UvarintIs
<1>2. CASE val < OctetBase - 3 /\ val < Power[1] /\ p.octets = Digits(1, val)
  <2>1. p.octets = <<val>>
    <3>1. \A i \in 1 .. 1 : i = 1 /\ 1 - i = 0
      OBVIOUS
    <3>2. Power[0] = 1
      BY Powers
    <3>4. val \div 1 = val /\ val % OctetBase = val
      BY <1>0, <1>2
    <3>3. Digits(1, val) = [i \in 1 .. 1 |-> val]
      BY <3>1, <3>2, <3>4 DEF Digits
    <3> QED
      BY <1>2, <3>3
  <2>2. val \in Octet
    BY <1>0, <1>2 DEF Octet
  <2>3. Agrees(now, <<val>>)
    BY <2>1
  <2>4. ReadsAs(first, val, now, 1)
    BY <2>2, <2>3, ByteRead
  <2>5. first.ok => first.v = val
    <3>1. 1 \in Nat
      OBVIOUS
    <3>2. LeavesAt(first, val, now, 1)
      BY <1>0, <2>4, <3>1, ReadsLeaves, Zenon
    <3> QED
      BY <3>2, Zenon DEF LeavesAt
  <2>6. pop = first
    <3>1. CASE first.ok
      <4>1. /\ first.v < OctetBase - 3 /\ ~(first.v = OctetBase - 3) /\ ~(first.v = OctetBase - 2)
            /\ ~(first.v = OctetBase - 1)
        <5> HIDE DEF first
        <5> QED
          BY <1>0, <1>2, <2>5, <3>1
      <4> QED
        BY <3>1, <4>1, Zenon DEF pop_integer_uvarint
    <3>2. CASE ~first.ok
      BY <3>2 DEF pop_integer_uvarint
    <3> QED
      BY <3>1, <3>2
  <2>7. Len(p.octets) = 1
    BY <2>1
  <2> HIDE DEF p, first, pop
  <2>8. ReadsAs(pop, val, now, Len(p.octets))
    BY <2>4, <2>6, <2>7
  <2> QED
    BY <2>8 DEF p, pop
<1>3. ASSUME NEW S \in {2, 4, 8}, val < Power[S], p.octets = <<Marker(S)>> \o Digits(S, val)
      PROVE  ReadsAs(pop, val, now, Len(p.octets))
  <2> DEFINE m == <<Marker(S)>>
             w == Digits(S, val)
             q == pop_integer_u(S, now + 1)
  <2>1. Marker(S) \in Octet /\ S \in 1 .. 8 /\ S \in Nat
    BY <1>0 DEF Marker, Octet
  <2>2. m \in Seq(Octet) /\ Len(m) = 1
    <3> HIDE DEF Octet
    <3> QED
      BY <2>1
  <2>3. w \in Seq(Octet) /\ Len(w) = S
    BY <2>1, DigitsGive
  <2>4. Agrees(now, m \o w)
    <3>1. Agrees(now, p.octets)
      OBVIOUS
    <3> QED
      BY <1>3, <3>1
  <2> HIDE DEF m, w
  <2>5. Agrees(now, m) /\ Agrees(now + 1, w) /\ Len(m \o w) = 1 + S
    <3>1. Agrees(now, Joined(m, w))
      BY <2>4 DEF Joined
    <3>2. AgreesBoth(now, m, w)
      BY <1>0, <2>2, <2>3, <3>1, AgreesParts, Zenon
    <3> QED
      BY <2>2, <2>3, <3>2 DEF AgreesBoth
  <2>6. ReadsAs(first, Marker(S), now, 1)
    BY <2>1, <2>5, ByteRead DEF m
  <2>7. first.ok => first.v = Marker(S) /\ first.now = now + 1 /\ now + 1 \in 0 .. Len(m_str)
    <3>1. 1 \in Nat
      OBVIOUS
    <3>2. LeavesAt(first, Marker(S), now, 1)
      BY <1>0, <2>6, <3>1, ReadsLeaves, Zenon
    <3> QED
      BY <3>2, Zenon DEF LeavesAt
  <2>8. pop = IF first.ok THEN q ELSE first
    <3>1. CASE first.ok
      <4>1. first.v = Marker(S) /\ first.now = now + 1
        BY <2>7, <3>1
      <4> HIDE DEF first
      <4>2. CASE S = 2
        <5>1. first.v = OctetBase - 3 /\ ~(first.v < OctetBase - 3) /\ ~(first.v = OctetBase - 2)
              /\ ~(first.v = OctetBase - 1)
          BY <1>0, <4>1, <4>2 DEF Marker
        <5> QED
          BY <3>1, <4>1, <4>2, <5>1, Zenon DEF pop_integer_uvarint, first
      <4>3. CASE S = 4
        <5>1. first.v = OctetBase - 2 /\ ~(first.v < OctetBase - 3) /\ ~(first.v = OctetBase - 3)
              /\ ~(first.v = OctetBase - 1)
          BY <1>0, <4>1, <4>3 DEF Marker
        <5> QED
          BY <3>1, <4>1, <4>3, <5>1, Zenon DEF pop_integer_uvarint, first
      <4>4. CASE S = 8
        <5>1. first.v = OctetBase - 1 /\ ~(first.v < OctetBase - 3) /\ ~(first.v = OctetBase - 3)
              /\ ~(first.v = OctetBase - 2)
          BY <1>0, <4>1, <4>4 DEF Marker
        <5> QED
          BY <3>1, <4>1, <4>4, <5>1, Zenon DEF pop_integer_uvarint, first
      <4> QED
        BY <4>2, <4>3, <4>4
    <3>2. CASE ~first.ok
      BY <3>2 DEF pop_integer_uvarint
    <3> QED
      BY <3>1, <3>2
  <2>9. first.ok => ReadsAs(q, val, now + 1, S)
    <3>1. CASE first.ok
      <4>1. now + 1 \in 0 .. Len(m_str) /\ Agrees(now + 1, Digits(S, val))
        BY <2>5, <2>7, <3>1 DEF w
      <4> QED
        BY <1>3, <2>1, <4>1, IntegerRead
    <3> QED
      BY <3>1
  <2> HIDE DEF first, q, pop
  <2>10. ReadsAs(IF first.ok THEN q ELSE first, val, now, 1 + S)
    <3>1. 1 \in Nat /\ S \in Nat
      BY <2>1
    <3> QED
      BY <1>0, <2>6, <2>9, <3>1, ReadThen, Zenon
  <2>11. Len(p.octets) = 1 + S
    BY <1>3, <2>5 DEF m, w
  <2> QED
    BY <2>8, <2>10, <2>11
<1> QED
  BY <1>1, <1>2, <1>3

\* A string is its size and its octets.
LEMMA VarstringMakes ==
  ASSUME NEW data \in Seq(Octet)
  PROVE  /\ Makes(push_varstring(data))
         /\ push_varstring(data).ok =>
              /\ push_integer_uvarint(Len(data)).ok /\ push_integer_uvarint(Len(data)).octets \in Seq(Octet)
              /\ push_varstring(data).octets = push_integer_uvarint(Len(data)).octets \o data
<1> DEFINE n == push_integer_uvarint(Len(data))
           p == Then(n, Out(data))
<1>1. Makes(n)
  <2>1. Len(data) \in Nat
    BY LenProperties
  <2> QED
    BY <2>1, UvarintMakes DEF UvarintIs
<1>2. Makes(Out(data)) /\ Out(data).octets = data
  BY OutMakes, Zenon
<1>3. n.octets \in Seq(Octet)
  <2> HIDE DEF n
  <2> DEFINE Q == Seq(Octet)
  <2>1. n \in [ok : BOOLEAN, octets : Q]
    BY <1>1 DEF Makes
  <2> HIDE DEF Q
  <2>2. n.octets \in Q
    BY <2>1
  <2> QED
    BY <2>2 DEF Q
<1> HIDE DEF n
<1>4. Makes(p) /\ (p.ok => n.ok /\ p.octets = n.octets \o data)
  <2>1. Makes(p) /\ (p.ok <=> n.ok /\ Out(data).ok) /\ (p.ok => p.octets = n.octets \o Out(data).octets)
    BY <1>1, <1>2, ThenMakes, Zenon
  <2> HIDE DEF p
  <2> QED
    BY <1>2, <2>1
<1>5. p = push_varstring(data)
  BY DEF push_varstring, n
<1> HIDE DEF p
<1> QED
  BY <1>3, <1>4, <1>5 DEF n

\* The assertion of pop_varstring lets it pass.
Sane(data) == Len(data) <= SANE_MAX_SIZE_FOR_STRING

\* A string is read as it was.
LEMMA VarstringRead ==
  ASSUME m_str \in Seq(Octet), NEW data \in Seq(Octet), Sane(data), push_varstring(data).ok,
         NEW now \in 0 .. Len(m_str), Agrees(now, push_varstring(data).octets)
  PROVE  ReadsAs(pop_varstring(now), data, now, Len(push_varstring(data).octets))
<1> DEFINE u == push_integer_uvarint(Len(data)).octets
           size == pop_integer_uvarint(now)
           q == pop_bytes_n(Len(data), now + Len(u))
           pop == pop_varstring(now)
           n == Len(data)
<1>0. now \in Nat /\ Len(m_str) \in Nat /\ n \in Nat
  BY LenProperties
<1>1. push_integer_uvarint(n).ok /\ u \in Seq(Octet) /\ push_varstring(data).octets = u \o data
  BY VarstringMakes
<1>2. Agrees(now, u \o data)
  BY <1>1
<1> HIDE DEF u
<1>3. /\ Agrees(now, u) /\ Agrees(now + Len(u), data) /\ Len(u \o data) = Len(u) + n /\ Len(u) \in Nat
  <2>1. Agrees(now, Joined(u, data))
    BY <1>2 DEF Joined
  <2>2. AgreesBoth(now, u, data)
    BY <1>0, <1>1, <2>1, AgreesParts, Zenon
  <2> QED
    BY <2>2 DEF AgreesBoth
<1>4. ReadsAs(size, n, now, Len(u))
  BY <1>0, <1>1, <1>3, UvarintRead DEF u
<1>5. size.ok => size.v = n /\ size.now = now + Len(u) /\ now + Len(u) \in 0 .. Len(m_str)
  <2>1. LeavesAt(size, n, now, Len(u))
    BY <1>0, <1>3, <1>4, ReadsLeaves, Zenon
  <2> QED
    BY <2>1, Zenon DEF LeavesAt
<1>6. size.ok => ReadsAs(q, data, now + Len(u), n)
  BY <1>3, <1>5, BytesRead
<1>7. pop = IF size.ok THEN q ELSE size
  <2>1. size.ok => ~(size.v > SANE_MAX_SIZE_FOR_STRING)
    <3>1. n <= SANE_MAX_SIZE_FOR_STRING /\ SANE_MAX_SIZE_FOR_STRING \in Nat
      BY SerializationConstants DEF Sane
    <3> QED
      BY <1>0, <1>5, <3>1
  <2> QED
    BY <1>5, <2>1, Zenon DEF pop_varstring
<1> HIDE DEF size, q, pop, n
<1>8. ReadsAs(pop, data, now, Len(u) + n)
  BY <1>0, <1>3, <1>4, <1>6, <1>7, ReadThen, Zenon
<1> QED
  BY <1>1, <1>3, <1>8 DEF pop

\* So is one whose size is one octet.
LEMMA SizeoctetsRead ==
  ASSUME NEW data \in Seq(Octet)
  PROVE  /\ Makes(push_bytes_sizeoctets(data))
         /\ m_str \in Seq(Octet) /\ push_bytes_sizeoctets(data).ok =>
              \A now \in 0 .. Len(m_str) : Agrees(now, push_bytes_sizeoctets(data).octets)
                 => ReadsAs(pop_bytes_sizeoctets(now), data, now, Len(push_bytes_sizeoctets(data).octets))
<1> DEFINE n == Len(data)
           i == push_integer_u(1, n)
           p == Then(i, Out(data))
           u == Digits(1, n)
<1>0. n \in Nat /\ 1 \in 1 .. 8
  BY LenProperties
<1>1. Makes(i) /\ (i.ok => i.octets = u /\ n < Power[1])
  BY <1>0, IntegerMakes, Zenon
<1>2. Makes(Out(data)) /\ Out(data).octets = data
  BY OutMakes, Zenon
<1>3. u \in Seq(Octet) /\ Len(u) = 1
  BY <1>0, DigitsGive
<1>4. p = push_bytes_sizeoctets(data)
  BY DEF push_bytes_sizeoctets
<1> HIDE DEF i, u, n
<1>5. Makes(p) /\ (p.ok => n < Power[1] /\ p.octets = u \o data)
  <2>1. Makes(p) /\ (p.ok <=> i.ok /\ Out(data).ok) /\ (p.ok => p.octets = i.octets \o Out(data).octets)
    BY <1>1, <1>2, ThenMakes, Zenon
  <2> HIDE DEF p
  <2> QED
    BY <1>1, <1>2, <2>1
<1> HIDE DEF p
<1>6. ASSUME m_str \in Seq(Octet), p.ok, NEW now \in 0 .. Len(m_str), Agrees(now, p.octets)
      PROVE  ReadsAs(pop_bytes_sizeoctets(now), data, now, Len(p.octets))
  <2> DEFINE size == pop_integer_u(1, now)
             q == pop_bytes_n(n, now + 1)
             pop == pop_bytes_sizeoctets(now)
  <2>0. now \in Nat /\ Len(m_str) \in Nat /\ 1 \in Nat
    BY <1>6, LenProperties
  <2>1. Agrees(now, u) /\ Agrees(now + 1, data) /\ Len(u \o data) = 1 + n
    <3>1. Agrees(now, Joined(u, data))
      BY <1>5, <1>6 DEF Joined
    <3>2. AgreesBoth(now, u, data)
      BY <1>3, <2>0, <3>1, AgreesParts, Zenon
    <3> QED
      BY <1>3, <3>2 DEF n, AgreesBoth
  <2>2. ReadsAs(size, n, now, 1)
    <3>1. n < Power[1] /\ Agrees(now, Digits(1, n))
      BY <1>5, <1>6, <2>1 DEF u
    <3> QED
      BY <1>0, <1>6, <3>1, IntegerRead
  <2>3. size.ok => size.v = n /\ size.now = now + 1 /\ now + 1 \in 0 .. Len(m_str)
    <3>1. LeavesAt(size, n, now, 1)
      BY <1>0, <2>0, <2>2, ReadsLeaves, Zenon
    <3> QED
      BY <3>1, Zenon DEF LeavesAt
  <2>4. size.ok => ReadsAs(q, data, now + 1, n)
    BY <1>6, <2>1, <2>3, BytesRead DEF n
  <2>5. pop = IF size.ok THEN q ELSE size
    BY <2>3, Zenon DEF pop_bytes_sizeoctets
  <2> HIDE DEF size, q, pop
  <2>6. ReadsAs(pop, data, now, 1 + n)
    BY <1>0, <2>0, <2>2, <2>4, <2>5, ReadThen, Zenon
  <2> QED
    BY <1>5, <1>6, <2>1, <2>6 DEF pop
<1> QED
  BY <1>4, <1>5, <1>6

-----------------------------------------------------------------------------
\* Sequences of strings.

\* What several pushes make, one after the other.
PushedInOrder(first, parts) ==
  \E val \in [0 .. Len(parts) -> [ok : BOOLEAN, octets : Seq(Octet)]] :
    /\ val[0] = first /\ \A k \in 1 .. Len(parts) : val[k] = Then(val[k - 1], parts[k])
    /\ FoldLeft(Then, first, parts) = val[Len(parts)]

\* The fold makes it.
LEMMA PushesFold ==
  ASSUME NEW first, Makes(first), NEW parts, DOMAIN parts = 1 .. Len(parts), Len(parts) \in Nat,
         \A k \in 1 .. Len(parts) : Makes(parts[k])
  PROVE  PushedInOrder(first, parts)
<1> DEFINE n == Len(parts)
           X == [ok : BOOLEAN, octets : Seq(Octet)]
           Rec(h) == h = [s \in SUBSET (1 .. n) |-> IF s = {} THEN first ELSE Then(h[s \ {Max(s)}], parts[Max(s)])]
           iter == CHOOSE h : Rec(h)
           step == [p \in X \X (1 .. n) |-> Then(p[1], parts[p[2]])]
<1>0. first \in X /\ \A x \in X, k \in 1 .. n : Then(x, parts[k]) \in X
  <2>1. first \in X
    BY DEF Makes
  <2>2. ASSUME NEW x \in X, NEW k \in 1 .. n PROVE Then(x, parts[k]) \in X
    <3>1. Makes(x) /\ Makes(parts[k])
      BY DEF Makes
    <3>2. Makes(Then(x, parts[k]))
      BY <3>1, ThenMakes, Zenon
    <3> QED
      BY <3>2 DEF Makes
  <2> QED
    BY <2>1, <2>2
<1>1. n \in Nat
  OBVIOUS
<1> HIDE DEF n, X
<1>3. step \in [X \X (1 .. n) -> X] /\ \A x \in X, k \in 1 .. n : step[<<x, k>>] = Then(x, parts[k])
  BY <1>0
<1> HIDE DEF step
<1>4. PICK g \in [SUBSET (1 .. n) -> X] : SetFold(step, first, n, g)
  BY <1>0, <1>1, <1>3, FoldExists
<1>5. \A s \in SUBSET (1 .. n) : s # {} => Max(s) \in 1 .. n /\ s \ {Max(s)} \in SUBSET (1 .. n)
  BY <1>1, MaxOfSome
<1>6. \A s \in SUBSET (1 .. n) : g[s] = IF s = {} THEN first ELSE Then(g[s \ {Max(s)}], parts[Max(s)])
  BY <1>3, <1>4, <1>5 DEF SetFold
<1>7. Rec(g)
  BY <1>4, <1>6
<1>8. Rec(iter)
  <2> HIDE DEF Rec
  <2> QED
    BY <1>7
<1>9. FoldLeft(Then, first, parts) = iter[1 .. n]
  BY Zenon DEF FoldLeft, MapThenFoldSet, n
<1>10. \A s \in SUBSET (1 .. n) : iter[s] = IF s = {} THEN first ELSE Then(iter[s \ {Max(s)}], parts[Max(s)])
  <2> HIDE DEF iter
  <2> QED
    BY <1>8
<1> HIDE DEF iter, Rec
<1> DEFINE val == [k \in 0 .. n |-> g[1 .. k]]
           T == { k \in Nat : k <= n => iter[1 .. k] = g[1 .. k] }
<1>11. \A k \in 0 .. n : 1 .. k \in SUBSET (1 .. n)
  BY <1>1
<1>12. val \in [0 .. n -> X]
  BY <1>11
<1>13. 0 \in T /\ val[0] = first
  <2>1. 1 .. 0 = {} /\ 0 \in 0 .. n /\ {} \in SUBSET (1 .. n)
    BY <1>1
  <2>2. iter[{}] = first /\ g[{}] = first
    BY <1>6, <1>10, <2>1
  <2>3. val[0] = g[1 .. 0]
    BY <2>1
  <2> QED
    BY <2>1, <2>2, <2>3
<1>14. ASSUME NEW k \in 1 .. n
       PROVE  /\ g[1 .. k] = Then(g[1 .. (k - 1)], parts[k])
              /\ iter[1 .. k] = Then(iter[1 .. (k - 1)], parts[k])
  <2>1. k \in Nat /\ k >= 1 /\ 1 .. k \in SUBSET (1 .. n)
    BY <1>1
  <2>2. Max(1 .. k) = k /\ (1 .. k) \ {Max(1 .. k)} = 1 .. (k - 1) /\ 1 .. k # {}
    BY <2>1, MaxOfAll
  <2> QED
    BY <1>6, <1>10, <2>1, <2>2
<1>15. ASSUME NEW k \in Nat, k \in T PROVE k + 1 \in T
  <2> SUFFICES ASSUME k + 1 <= n PROVE iter[1 .. (k + 1)] = g[1 .. (k + 1)]
    OBVIOUS
  <2>1. k + 1 \in 1 .. n /\ k <= n /\ (k + 1) - 1 = k
    BY <1>1
  <2>2. iter[1 .. k] = g[1 .. k]
    BY <1>15, <2>1
  <2> DEFINE j == k + 1
  <2>3. j \in 1 .. n /\ j - 1 = k
    BY <2>1
  <2> HIDE DEF j
  <2>4. g[1 .. j] = Then(g[1 .. k], parts[j]) /\ iter[1 .. j] = Then(iter[1 .. k], parts[j])
    BY <1>14, <2>3
  <2> QED
    BY <2>2, <2>4 DEF j
<1>16. \A k \in 1 .. n : val[k] = Then(val[k - 1], parts[k])
  <2> SUFFICES ASSUME NEW k \in 1 .. n PROVE val[k] = Then(val[k - 1], parts[k])
    OBVIOUS
  <2>1. k \in 0 .. n /\ k - 1 \in 0 .. n
    BY <1>1
  <2>2. val[k] = g[1 .. k] /\ val[k - 1] = g[1 .. (k - 1)]
    BY <2>1
  <2> HIDE DEF val
  <2> QED
    BY <1>14, <2>2
<1> HIDE DEF T
<1>17. \A k \in Nat : k \in T
  BY <1>13, <1>15, AllFromZero
<1>18. iter[1 .. n] = g[1 .. n] /\ val[n] = g[1 .. n]
  BY <1>1, <1>17 DEF T
<1> HIDE DEF val
<1>19. FoldLeft(Then, first, parts) = val[n]
  BY <1>9, <1>18
<1> QED
  BY <1>12, <1>13, <1>16, <1>19 DEF n, X, PushedInOrder

\* The size and none, one or two values.
LEMMA SizedIs ==
  /\ Sized(<<>>) = push_integer_uvarint(0)
  /\ \A p : Makes(p) => Sized(<<p>>) = Then(push_integer_uvarint(1), p)
  /\ \A p, q : Makes(p) /\ Makes(q) => Sized(<<p, q>>) = Then(Then(push_integer_uvarint(2), p), q)
<1>0. \A n \in Nat : Makes(push_integer_uvarint(n))
  BY UvarintMakes DEF UvarintIs
<1>1. Sized(<<>>) = push_integer_uvarint(0)
  <2> DEFINE parts == <<>>
             first == push_integer_uvarint(0)
  <2>1. DOMAIN parts = 1 .. Len(parts) /\ Len(parts) = 0 /\ Makes(first)
    BY <1>0
  <2>2. Sized(parts) = FoldLeft(Then, first, parts)
    BY <2>1 DEF Sized
  <2> HIDE DEF parts, first
  <2>3. PICK val \in [0 .. Len(parts) -> [ok : BOOLEAN, octets : Seq(Octet)]] :
           /\ val[0] = first /\ \A k \in 1 .. Len(parts) : val[k] = Then(val[k - 1], parts[k])
           /\ FoldLeft(Then, first, parts) = val[Len(parts)]
    <3>1. \A k \in 1 .. Len(parts) : Makes(parts[k])
      BY <2>1
    <3>2. Len(parts) \in Nat
      BY <2>1
    <3>3. PushedInOrder(first, parts)
      BY <2>1, <3>1, <3>2, PushesFold, Zenon
    <3> QED
      BY <3>3, Zenon DEF PushedInOrder
  <2> QED
    BY <2>1, <2>2, <2>3 DEF parts, first
<1>2. ASSUME NEW p, Makes(p) PROVE Sized(<<p>>) = Then(push_integer_uvarint(1), p)
  <2> DEFINE parts == <<p>>
             first == push_integer_uvarint(1)
  <2>1. DOMAIN parts = 1 .. Len(parts) /\ Len(parts) = 1 /\ Makes(first) /\ parts[1] = p
    BY <1>0
  <2>2. Sized(parts) = FoldLeft(Then, first, parts)
    BY <2>1 DEF Sized
  <2> HIDE DEF parts, first
  <2>3. PICK val \in [0 .. Len(parts) -> [ok : BOOLEAN, octets : Seq(Octet)]] :
           /\ val[0] = first /\ \A k \in 1 .. Len(parts) : val[k] = Then(val[k - 1], parts[k])
           /\ FoldLeft(Then, first, parts) = val[Len(parts)]
    <3>1. \A k \in 1 .. Len(parts) : Makes(parts[k])
      BY <1>2, <2>1
    <3>2. Len(parts) \in Nat
      BY <2>1
    <3>3. PushedInOrder(first, parts)
      BY <2>1, <3>1, <3>2, PushesFold, Zenon
    <3> QED
      BY <3>3, Zenon DEF PushedInOrder
  <2>4. val[1] = Then(val[0], parts[1])
    <3>1. 1 \in 1 .. Len(parts) /\ 1 - 1 = 0
      BY <2>1
    <3> QED
      BY <2>3, <3>1
  <2>5. Sized(parts) = Then(first, p)
    BY <2>1, <2>2, <2>3, <2>4
  <2> QED
    BY <2>5 DEF parts, first
<1>3. ASSUME NEW p, NEW q, Makes(p), Makes(q)
      PROVE  Sized(<<p, q>>) = Then(Then(push_integer_uvarint(2), p), q)
  <2> DEFINE parts == <<p, q>>
             first == push_integer_uvarint(2)
  <2>1. DOMAIN parts = 1 .. Len(parts) /\ Len(parts) = 2 /\ Makes(first) /\ parts[1] = p /\ parts[2] = q
    BY <1>0
  <2>2. Sized(parts) = FoldLeft(Then, first, parts)
    BY <2>1 DEF Sized
  <2> HIDE DEF parts, first
  <2>3. PICK val \in [0 .. Len(parts) -> [ok : BOOLEAN, octets : Seq(Octet)]] :
           /\ val[0] = first /\ \A k \in 1 .. Len(parts) : val[k] = Then(val[k - 1], parts[k])
           /\ FoldLeft(Then, first, parts) = val[Len(parts)]
    <3>1. \A k \in 1 .. Len(parts) : Makes(parts[k])
      BY <1>3, <2>1
    <3>2. Len(parts) \in Nat
      BY <2>1
    <3>3. PushedInOrder(first, parts)
      BY <2>1, <3>1, <3>2, PushesFold, Zenon
    <3> QED
      BY <3>3, Zenon DEF PushedInOrder
  <2>4. val[1] = Then(val[0], parts[1]) /\ val[2] = Then(val[1], parts[2])
    <3>1. 1 \in 1 .. Len(parts) /\ 2 \in 1 .. Len(parts) /\ 1 - 1 = 0 /\ 2 - 1 = 1
      BY <2>1
    <3> QED
      BY <2>3, <3>1
  <2>5. Sized(parts) = Then(Then(first, p), q)
    BY <2>1, <2>2, <2>3, <2>4
  <2> QED
    BY <2>5 DEF parts, first
<1> QED
  BY <1>1, <1>2, <1>3

\* What was popped and the next string.
NextString(r) == Also(r, pop_varstring(r.now))

\* It is read as it was, and put behind the others.
LEMMA NextStringRead ==
  ASSUME m_str \in Seq(Octet), NEW r, NEW vs, NEW now \in Nat, NEW k \in Nat, ReadsAs(r, vs, now, k),
         NEW data \in Seq(Octet), Sane(data), push_varstring(data).ok,
         Agrees(now + k, push_varstring(data).octets)
  PROVE  ReadsAs(NextString(r), Append(vs, data), now, k + Len(push_varstring(data).octets))
<1> DEFINE n == Len(push_varstring(data).octets)
           q == pop_varstring(r.now)
           x == NextString(r)
<1>0. Len(m_str) \in Nat /\ n \in Nat
  <2>1. push_varstring(data).octets \in Seq(Octet)
    <3> DEFINE Q == Seq(Octet)
               p == push_varstring(data)
    <3>1. p \in [ok : BOOLEAN, octets : Q]
      BY VarstringMakes DEF Makes
    <3> HIDE DEF Q, p
    <3>2. p.octets \in Q
      BY <3>1
    <3> QED
      BY <3>2 DEF p, Q
  <2> QED
    BY <2>1, LenProperties
<1>1. /\ r.ok => r = Got(vs, now + k) /\ r.v = vs /\ r.now = now + k /\ now + k \in 0 .. Len(m_str)
      /\ ~r.ok => ThrowsHere(r) /\ ~(now + k <= Len(m_str))
  <2>1. LeavesAt(r, vs, now, k)
    BY ReadsLeaves, Zenon
  <2> QED
    BY <2>1, Zenon DEF LeavesAt
<1>2. x = IF r.ok THEN [q EXCEPT !.v = Append(r.v, q.v)] ELSE r
  BY DEF NextString, Also
<1>3. r.ok => ReadsAs(q, data, now + k, n)
  BY <1>1, VarstringRead
<1> HIDE DEF n, q, x
<1>4. (now + k) + n = now + (k + n)
  BY <1>0
<1>5. ASSUME r.ok PROVE ReadsAs(x, Append(vs, data), now, k + n)
  <2>1. ReadsAs(q, data, now + k, n)
    BY <1>3, <1>5
  <2>2. x = [q EXCEPT !.v = Append(vs, q.v)]
    BY <1>1, <1>2, <1>5
  <2>3. CASE now + (k + n) <= Len(m_str)
    <3>1. q = [ok |-> TRUE, v |-> data, now |-> now + (k + n)]
      BY <1>4, <2>1, <2>3, Zenon DEF ReadsAs, Got
    <3> DEFINE y == now + (k + n)
    <3>2. q = [ok |-> TRUE, v |-> data, now |-> y]
      BY <3>1
    <3> HIDE DEF y
    <3>3. x = [ok |-> TRUE, v |-> Append(vs, data), now |-> y]
      BY <2>2, <3>2
    <3> QED
      BY <2>3, <3>3 DEF ReadsAs, Got, y
  <2>4. CASE ~(now + (k + n) <= Len(m_str))
    <3>1. ThrowsHere(q)
      BY <1>4, <2>1, <2>4, Zenon DEF ReadsAs
    <3>2. q = [ok |-> FALSE, v |-> q.v, now |-> q.now] /\ q.now \in 0 .. Len(m_str)
      BY <3>1, Zenon DEF ThrowsHere
    <3> DEFINE y == Append(vs, q.v)
               z == q.now
               u == q.v
    <3>3. x = [q EXCEPT !.v = y] /\ q = [ok |-> FALSE, v |-> u, now |-> z] /\ z \in 0 .. Len(m_str)
      BY <2>2, <3>2
    <3> HIDE DEF y, z, u
    <3>4. x = [ok |-> FALSE, v |-> y, now |-> z]
      BY <3>3
    <3>6. x.v = y /\ x.now = z
      BY <3>4
    <3>5. ThrowsHere(x)
      BY <3>3, <3>4, <3>6, Zenon DEF ThrowsHere
    <3> QED
      BY <2>4, <3>5 DEF ReadsAs
  <2> QED
    BY <2>3, <2>4
<1>6. ASSUME ~r.ok PROVE ReadsAs(x, Append(vs, data), now, k + n)
  <2>1. ~(now + (k + n) <= Len(m_str))
    BY <1>0, <1>1, <1>6
  <2>2. ThrowsHere(x)
    BY <1>1, <1>2, <1>6
  <2> QED
    BY <2>1, <2>2 DEF ReadsAs
<1> QED
  BY <1>5, <1>6 DEF x, n

\* No string, two and four.
LEMMA PopStringsAre ==
  ASSUME NEW size, size.ok, NEW each, NEW n \in {0, 2, 4}, each * size.v = n
  PROVE  LET r0 == Got(<<>>, size.now)
             r2 == NextString(NextString(r0))
         IN  PopStrings(size, each) = IF n = 0 THEN r0 ELSE IF n = 2 THEN r2
                                      ELSE NextString(NextString(r2))
<1> DEFINE r0 == Got(<<>>, size.now)
           r1 == NextString(r0)
           r2 == NextString(r1)
           r3 == NextString(r2)
           r4 == NextString(r3)
           Rec(f) == f = [i \in 0 .. each * size.v |-> IF i = 0 THEN Got(<<>>, size.now)
                                                      ELSE Also(f[i - 1], pop_varstring(f[i - 1].now))]
           after == CHOOSE f : Rec(f)
           g == [i \in 0 .. n |-> IF i = 0 THEN r0 ELSE IF i = 1 THEN r1 ELSE IF i = 2 THEN r2
                                  ELSE IF i = 3 THEN r3 ELSE r4]
<1>1. PopStrings(size, each) = after[each * size.v]
  BY Zenon DEF PopStrings
<1>2. \A i \in 0 .. n : g[i] = IF i = 0 THEN r0 ELSE NextString(g[i - 1])
  <2> HIDE DEF r0
  <2>1. /\ r1 = NextString(r0) /\ r2 = NextString(r1) /\ r3 = NextString(r2) /\ r4 = NextString(r3)
    OBVIOUS
  <2> HIDE DEF r1, r2, r3, r4
  <2> SUFFICES ASSUME NEW i \in 0 .. n PROVE g[i] = IF i = 0 THEN r0 ELSE NextString(g[i - 1])
    OBVIOUS
  <2>2. i \in {0, 1, 2, 3, 4} /\ i <= n
    OBVIOUS
  <2>3. CASE i = 0
    BY <2>3
  <2>4. CASE i = 1
    <3>1. i - 1 = 0 /\ 0 \in 0 .. n
      BY <2>4
    <3> QED
      BY <2>1, <2>4, <3>1
  <2>5. CASE i = 2
    <3>1. i - 1 = 1 /\ 1 \in 0 .. n
      BY <2>5
    <3> QED
      BY <2>1, <2>5, <3>1
  <2>6. CASE i = 3
    <3>1. i - 1 = 2 /\ 2 \in 0 .. n
      BY <2>6
    <3> QED
      BY <2>1, <2>6, <3>1
  <2>7. CASE i = 4
    <3>1. i - 1 = 3 /\ 3 \in 0 .. n
      BY <2>7
    <3> QED
      BY <2>1, <2>7, <3>1
  <2> QED
    BY <2>2, <2>3, <2>4, <2>5, <2>6, <2>7
<1>3. Rec(g)
  <2>1. g = [i \in 0 .. n |-> g[i]]
    OBVIOUS
  <2> HIDE DEF g
  <2>2. g = [i \in 0 .. n |-> IF i = 0 THEN r0 ELSE NextString(g[i - 1])]
    BY <1>2, <2>1
  <2> QED
    BY <2>2 DEF NextString
<1> HIDE DEF g
<1>4. Rec(after)
  <2> HIDE DEF Rec
  <2> QED
    BY <1>3
<1> HIDE DEF after
<1>5. \A i \in 0 .. n : after[i] = IF i = 0 THEN r0 ELSE NextString(after[i - 1])
  BY <1>4 DEF NextString
<1> HIDE DEF Rec, r0
<1>6. after[0] = r0
  BY <1>5
<1>7. n >= 2 => after[1] = NextString(r0) /\ after[2] = NextString(NextString(r0))
  <2> SUFFICES ASSUME n >= 2 PROVE after[1] = NextString(r0) /\ after[2] = NextString(NextString(r0))
    OBVIOUS
  <2>1. 1 \in 0 .. n /\ 2 \in 0 .. n /\ 1 - 1 = 0 /\ 2 - 1 = 1
    OBVIOUS
  <2> QED
    BY <1>5, <1>6, <2>1
<1>8. n = 4 => after[4] = NextString(NextString(after[2]))
  <2> SUFFICES ASSUME n = 4 PROVE after[4] = NextString(NextString(after[2]))
    OBVIOUS
  <2>1. 3 \in 0 .. n /\ 4 \in 0 .. n /\ 3 - 1 = 2 /\ 4 - 1 = 3
    OBVIOUS
  <2> QED
    BY <1>5, <2>1
<1> QED
  BY <1>1, <1>6, <1>7, <1>8 DEF r0

\* What is popped when the size is known: no string yet.
Begun(size) == IF size.ok THEN Got(<<>>, size.now) ELSE size

\* It is read if the size was.
LEMMA BegunRead ==
  \A size, val, now, k : now \in Nat /\ k \in Nat /\ ReadsAs(size, val, now, k)
                          => ReadsAs(Begun(size), <<>>, now, k)
<1> SUFFICES ASSUME NEW size, NEW val, NEW now \in Nat, NEW k \in Nat, ReadsAs(size, val, now, k)
             PROVE  ReadsAs(Begun(size), <<>>, now, k)
  OBVIOUS
<1>1. LeavesAt(size, val, now, k)
  BY ReadsLeaves, Zenon
<1>2. CASE size.ok
  <2>1. Begun(size) = Got(<<>>, now + k)
    BY <1>1, <1>2, Zenon DEF LeavesAt, Begun
  <2>2. now + k <= Len(m_str)
    BY <1>1, <1>2 DEF LeavesAt
  <2> QED
    BY <2>1, <2>2 DEF ReadsAs
<1>3. CASE ~size.ok
  BY <1>1, <1>3, Zenon DEF LeavesAt, Begun, ReadsAs
<1> QED
  BY <1>2, <1>3

\* The strings that follow a size.
LEMMA PopStringsFrom ==
  ASSUME NEW size, NEW val, NEW now \in Nat, NEW k \in Nat, ReadsAs(size, val, now, k),
         NEW each, NEW n \in {0, 2, 4}, each * val = n
  PROVE  LET r0 == Begun(size)
             r2 == NextString(NextString(r0))
         IN  PopStrings(size, each) = IF n = 0 THEN r0 ELSE IF n = 2 THEN r2
                                      ELSE NextString(NextString(r2))
<1>1. LeavesAt(size, val, now, k)
  BY ReadsLeaves, Zenon
<1>2. CASE size.ok
  <2>1. each * size.v = n
    BY <1>1, <1>2, Zenon DEF LeavesAt
  <2>2. Begun(size) = Got(<<>>, size.now)
    BY <1>2 DEF Begun
  <2> QED
    BY <1>2, <2>1, <2>2, PopStringsAre
<1>3. CASE ~size.ok
  <2>1. PopStrings(size, each) = size
    BY <1>3, Zenon DEF PopStrings
  <2>2. Begun(size) = size /\ NextString(size) = size
    BY <1>3 DEF Begun, NextString, Also
  <2> QED
    BY <2>1, <2>2
<1> QED
  BY <1>2, <1>3

\* The octets of a string.
Octets(p) == p.octets

\* They are octets.
LEMMA MadeOctets ==
  \A p : Makes(p) => Octets(p) \in Seq(Octet) /\ Len(Octets(p)) \in Nat
<1> SUFFICES ASSUME NEW p, Makes(p) PROVE Octets(p) \in Seq(Octet) /\ Len(Octets(p)) \in Nat
  OBVIOUS
<1> DEFINE Q == Seq(Octet)
<1>1. p \in [ok : BOOLEAN, octets : Q]
  BY DEF Makes
<1> HIDE DEF Q
<1>2. p.octets \in Q
  BY <1>1
<1>3. Octets(p) \in Seq(Octet)
  BY <1>2 DEF Octets, Q
<1> QED
  BY <1>3, LenProperties

\* Two pushes, both of which return.
LEMMA BothMake ==
  \A p, q : Makes(p) /\ Makes(q) /\ Then(p, q).ok => p.ok /\ q.ok /\ Octets(Then(p, q)) = Joined(Octets(p), Octets(q))
  BY ThenMakes, Zenon DEF Octets, Joined

\* Reading two strings after what was read before.
TwoRead(r, vs, now, k, s, t) ==
  LET n == Len(Joined(Octets(push_varstring(s)), Octets(push_varstring(t))))
  IN  n \in Nat /\ ReadsAs(NextString(NextString(r)), Append(Append(vs, s), t), now, k + n)

\* They are read as they were.
LEMMA TwoStringsRead ==
  ASSUME m_str \in Seq(Octet), NEW r, NEW vs, NEW now \in Nat, NEW k \in Nat, ReadsAs(r, vs, now, k),
         NEW s \in Seq(Octet), NEW t \in Seq(Octet), Sane(s), Sane(t), push_varstring(s).ok, push_varstring(t).ok,
         Agrees(now + k, Joined(Octets(push_varstring(s)), Octets(push_varstring(t))))
  PROVE  TwoRead(r, vs, now, k, s, t)
<1> DEFINE u == Octets(push_varstring(s))
           w == Octets(push_varstring(t))
           n == Len(Joined(u, w))
<1>0. k + Len(u) \in Nat /\ now + k \in Nat /\ u \in Seq(Octet) /\ w \in Seq(Octet) /\ Len(u) \in Nat /\ Len(w) \in Nat
  <2>1. u \in Seq(Octet) /\ Len(u) \in Nat
    BY VarstringMakes, MadeOctets
  <2>2. w \in Seq(Octet) /\ Len(w) \in Nat
    BY VarstringMakes, MadeOctets
  <2> HIDE DEF u, w
  <2> QED
    BY <2>1, <2>2
<1>1. AgreesBoth(now + k, u, w)
  <2>1. Agrees(now + k, Joined(u, w))
    OBVIOUS
  <2> HIDE DEF u, w
  <2> QED
    BY <1>0, <2>1, AgreesParts, Zenon
<1>2. Agrees(now + k, push_varstring(s).octets) /\ Agrees((now + k) + Len(u), push_varstring(t).octets)
  BY <1>1, Zenon DEF AgreesBoth, Octets
<1>3. n = Len(u) + Len(w)
  BY <1>1, Zenon DEF AgreesBoth, Joined
<1>4. ReadsAs(NextString(r), Append(vs, s), now, k + Len(u))
  <2>1. ReadsAs(NextString(r), Append(vs, s), now, k + Len(push_varstring(s).octets))
    BY <1>2, NextStringRead
  <2> QED
    BY <2>1 DEF Octets
<1> DEFINE i == k + Len(u)
           r1 == NextString(r)
<1>5. i \in Nat /\ now + i = (now + k) + Len(u) /\ i + Len(w) = k + n
  <2> HIDE DEF u, w, n
  <2> QED
    BY <1>0, <1>3
<1>6. Agrees(now + i, push_varstring(t).octets)
  BY <1>2, <1>5
<1>7. ReadsAs(r1, Append(vs, s), now, i)
  BY <1>4
<1> HIDE DEF i, r1
<1>8. ReadsAs(NextString(r1), Append(Append(vs, s), t), now, i + Len(push_varstring(t).octets))
  BY <1>5, <1>6, <1>7, NextStringRead
<1>9. ReadsAs(NextString(r1), Append(Append(vs, s), t), now, k + n)
  BY <1>5, <1>8 DEF Octets
<1>10. n \in Nat
  <2> HIDE DEF u, w, n
  <2> QED
    BY <1>0, <1>3
<1> QED
  BY <1>9, <1>10 DEF r1, TwoRead

\* A size is read, and strings after it.
LEMMA SizeRead ==
  ASSUME m_str \in Seq(Octet), NEW val \in Nat, push_integer_uvarint(val).ok,
         NEW now \in 0 .. Len(m_str), Agrees(now, Octets(push_integer_uvarint(val)))
  PROVE  LET n == Len(Octets(push_integer_uvarint(val)))
         IN  /\ n \in Nat /\ now \in Nat
             /\ ReadsAs(pop_integer_uvarint(now), val, now, n)
             /\ ReadsAs(Begun(pop_integer_uvarint(now)), <<>>, now, n)
<1> DEFINE n == Len(Octets(push_integer_uvarint(val)))
<1>1. n \in Nat /\ now \in Nat
  <2>1. Makes(push_integer_uvarint(val))
    BY UvarintMakes DEF UvarintIs
  <2>2. Len(m_str) \in Nat
    BY LenProperties
  <2> QED
    BY <2>1, <2>2, MadeOctets
<1>2. ReadsAs(pop_integer_uvarint(now), val, now, n)
  BY UvarintRead DEF Octets
<1> HIDE DEF n
<1>3. ReadsAs(Begun(pop_integer_uvarint(now)), <<>>, now, n)
  BY <1>1, <1>2, BegunRead, Zenon
<1> QED
  BY <1>1, <1>2, <1>3 DEF n

\* Three may be joined in either order.
JoinedEither(x, y, z) ==
  /\ Joined(Joined(x, y), z) = Joined(x, Joined(y, z))
  /\ Joined(x, y) \in Seq(Octet) /\ Joined(y, z) \in Seq(Octet)

\* It is so of strings of octets.
LEMMA JoinedAgain ==
  \A x, y, z : x \in Seq(Octet) /\ y \in Seq(Octet) /\ z \in Seq(Octet) => JoinedEither(x, y, z)
<1> DEFINE S == Octet
<1> HIDE DEF S
<1>1. \A x, y, z \in Seq(S) : (x \o y) \o z = x \o (y \o z)
  BY JoinedTwice
<1>2. \A x, y \in Seq(S) : x \o y \in Seq(S)
  BY ConcatProperties
<1> QED
  BY <1>1, <1>2, Zenon DEF JoinedEither, Joined, S

\* Two that are appended to none.
LEMMA TwoAppended == \A x, y : Append(Append(<<>>, x), y) = <<x, y>>
<1> TAKE x, y
<1> DEFINE S == {x, y}
           t == Append(<<x>>, y)
<1>1. Append(<<>>, x) = <<x>>
  OBVIOUS
<1>2. x \in S /\ y \in S
  OBVIOUS
<1> HIDE DEF S
<1>3. <<x>> \in Seq(S) /\ <<x, y>> \in Seq(S) /\ Len(<<x>>) = 1 /\ Len(<<x, y>>) = 2
      /\ <<x, y>>[1] = x /\ <<x, y>>[2] = y /\ <<x>>[1] = x
  BY <1>2
<1>4. t \in Seq(S) /\ Len(t) = 2 /\ t[1] = x /\ t[2] = y
  <2>1. /\ t \in Seq(S) /\ Len(t) = Len(<<x>>) + 1
        /\ \A i \in 1 .. Len(<<x>>) : t[i] = <<x>>[i]
        /\ t[Len(<<x>>) + 1] = y
    BY <1>2, <1>3, AppendProperties
  <2>2. 1 \in 1 .. Len(<<x>>) /\ Len(<<x>>) + 1 = 2
    BY <1>3
  <2> HIDE DEF t
  <2> QED
    BY <1>3, <2>1, <2>2
<1> HIDE DEF t
<1>5. t = <<x, y>>
  <2>1. \A i \in 1 .. Len(t) : t[i] = <<x, y>>[i]
    <3>1. \A i \in 1 .. 2 : i = 1 \/ i = 2
      OBVIOUS
    <3> QED
      BY <1>3, <1>4, <3>1
  <2> QED
    BY <1>3, <1>4, <2>1, SeqEqual
<1> QED
  BY <1>1, <1>5 DEF t

-----------------------------------------------------------------------------
\* The values that are pushed.

\* Texts are strings of octets, none too long for the reader.
SaneString == { s \in Seq(Octet) : Len(s) <= SANE_MAX_SIZE_FOR_STRING }

LEMMA TextsAre == Texts \subseteq SaneString /\ \A s \in SaneString : s \in Seq(Octet) /\ Sane(s)
  BY SerializationConstants DEF Octet, SaneString, Sane

\* A vector of none, a map of none.
LEMMA NoneRead ==
  /\ push_vector_string(<<>>) = push_integer_uvarint(0) /\ push_map_object(<<>>) = push_integer_uvarint(0)
  /\ m_str \in Seq(Octet) /\ push_integer_uvarint(0).ok =>
       \A now \in 0 .. Len(m_str) : Agrees(now, Octets(push_integer_uvarint(0)))
         => /\ ReadsAs(pop_vector_string(now), <<>>, now, Len(Octets(push_integer_uvarint(0))))
            /\ ReadsAs(PopStrings(pop_integer_uvarint(now), 2), <<>>, now, Len(Octets(push_integer_uvarint(0))))
<1>1. push_vector_string(<<>>) = push_integer_uvarint(0)
  <2>1. [i \in DOMAIN <<>> |-> push_varstring(<<>>[i])] = <<>>
    OBVIOUS
  <2> QED
    BY <2>1, SizedIs DEF push_vector_string
<1>2. push_map_object(<<>>) = push_integer_uvarint(0)
  <2>1. [i \in DOMAIN <<>> |-> Then(push_varstring(<<>>[i][1]), push_varstring(<<>>[i][2]))] = <<>>
    OBVIOUS
  <2> QED
    BY <2>1, SizedIs DEF push_map_object
<1>3. ASSUME m_str \in Seq(Octet), push_integer_uvarint(0).ok, NEW now \in 0 .. Len(m_str),
             Agrees(now, Octets(push_integer_uvarint(0)))
      PROVE  /\ ReadsAs(pop_vector_string(now), <<>>, now, Len(Octets(push_integer_uvarint(0))))
             /\ ReadsAs(PopStrings(pop_integer_uvarint(now), 2), <<>>, now, Len(Octets(push_integer_uvarint(0))))
  <2> DEFINE n == Len(Octets(push_integer_uvarint(0)))
             size == pop_integer_uvarint(now)
  <2>1. /\ n \in Nat /\ now \in Nat /\ ReadsAs(size, 0, now, n) /\ ReadsAs(Begun(size), <<>>, now, n)
    <3>1. 0 \in Nat
      OBVIOUS
    <3> QED
      BY <1>3, <3>1, SizeRead
  <2> HIDE DEF n, size
  <2>2. PopStrings(size, 1) = Begun(size)
    <3>1. 1 * 0 = 0 /\ 0 \in {0, 2, 4}
      OBVIOUS
    <3> QED
      BY <2>1, <3>1, PopStringsFrom
  <2>3. PopStrings(size, 2) = Begun(size)
    <3>1. 2 * 0 = 0 /\ 0 \in {0, 2, 4}
      OBVIOUS
    <3> QED
      BY <2>1, <3>1, PopStringsFrom
  <2> QED
    BY <2>1, <2>2, <2>3 DEF pop_vector_string, n, size
<1> QED
  BY <1>1, <1>2, <1>3

\* A vector of two.
LEMMA VectorRead ==
  ASSUME NEW s \in Seq(Octet), NEW t \in Seq(Octet), Sane(s), Sane(t)
  PROVE  /\ Makes(push_vector_string(<<s, t>>))
         /\ m_str \in Seq(Octet) /\ push_vector_string(<<s, t>>).ok =>
              \A now \in 0 .. Len(m_str) : Agrees(now, Octets(push_vector_string(<<s, t>>)))
                => ReadsAs(pop_vector_string(now), <<s, t>>, now, Len(Octets(push_vector_string(<<s, t>>))))
<1> DEFINE u == push_integer_uvarint(2)
           p == push_varstring(s)
           q == push_varstring(t)
           up == Then(u, p)
           all == Then(up, q)
<1>1. push_vector_string(<<s, t>>) = all
  <2>1. [i \in DOMAIN <<s, t>> |-> push_varstring(<<s, t>>[i])] = <<p, q>>
    OBVIOUS
  <2>2. Makes(p) /\ Makes(q)
    BY VarstringMakes
  <2> QED
    BY <2>1, <2>2, SizedIs DEF push_vector_string
<1>2. Makes(u) /\ Makes(p) /\ Makes(q)
  BY VarstringMakes, UvarintMakes DEF UvarintIs
<1> HIDE DEF u, p, q
<1>3. Makes(up)
  BY <1>2, ThenMakes, Zenon
<1>4. Makes(all)
  BY <1>2, <1>3, ThenMakes, Zenon
<1>5. ASSUME m_str \in Seq(Octet), all.ok, NEW now \in 0 .. Len(m_str), Agrees(now, Octets(all))
      PROVE  ReadsAs(pop_vector_string(now), <<s, t>>, now, Len(Octets(all)))
  <2> DEFINE wu == Octets(u)
             wp == Octets(p)
             wq == Octets(q)
             size == pop_integer_uvarint(now)
             k == Len(wu)
             n == Len(Joined(wp, wq))
  <2>1. up.ok /\ q.ok /\ Octets(all) = Joined(Octets(up), wq)
    BY <1>2, <1>3, <1>5, BothMake, Zenon
  <2>2. u.ok /\ p.ok /\ Octets(up) = Joined(wu, wp)
    BY <1>2, <2>1, BothMake, Zenon
  <2>3. wu \in Seq(Octet) /\ wp \in Seq(Octet) /\ wq \in Seq(Octet) /\ k \in Nat
    BY <1>2, MadeOctets, Zenon
  <2> HIDE DEF all, up, size, wu, wp, wq
  <2>4. Octets(all) = Joined(wu, Joined(wp, wq)) /\ Joined(wp, wq) \in Seq(Octet)
    <3>1. JoinedEither(wu, wp, wq)
      BY <2>3, JoinedAgain, Zenon
    <3>2. Octets(all) = Joined(Joined(wu, wp), wq)
      BY <2>1, <2>2, Zenon
    <3> QED
      BY <3>1, <3>2, Zenon DEF JoinedEither
  <2>5. now \in Nat
    <3>1. Len(m_str) \in Nat
      BY <1>5, LenProperties
    <3> QED
      BY <3>1
  <2>6. AgreesBoth(now, wu, Joined(wp, wq))
    BY <1>5, <2>3, <2>4, <2>5, AgreesParts, Zenon
  <2>7. Agrees(now, wu) /\ Agrees(now + k, Joined(wp, wq)) /\ Len(Octets(all)) = k + n
    <3>1. Len(Joined(wu, Joined(wp, wq))) = k + n
      BY <2>6, Zenon DEF AgreesBoth, Joined
    <3> QED
      BY <2>4, <2>6, <3>1, Zenon DEF AgreesBoth
  <2>8. ReadsAs(size, 2, now, k) /\ ReadsAs(Begun(size), <<>>, now, k)
    <3>1. 2 \in Nat
      OBVIOUS
    <3> QED
      BY <1>5, <2>2, <2>7, <3>1, SizeRead DEF wu, size, u
  <2> HIDE DEF k
  <2>9. PopStrings(size, 1) = NextString(NextString(Begun(size)))
    <3>1. 1 * 2 = 2 /\ 2 \in {0, 2, 4} /\ 2 # 0
      OBVIOUS
    <3> QED
      BY <2>3, <2>5, <2>8, <3>1, PopStringsFrom
  <2>10. ReadsAs(NextString(NextString(Begun(size))), Append(Append(<<>>, s), t), now, k + n)
    <3>1. push_varstring(s).ok /\ push_varstring(t).ok
      BY <2>1, <2>2 DEF p, q
    <3>2. Agrees(now + k, Joined(Octets(push_varstring(s)), Octets(push_varstring(t))))
      BY <2>7 DEF wp, wq, p, q
    <3>3. TwoRead(Begun(size), <<>>, now, k, s, t)
      BY <1>5, <2>3, <2>5, <2>8, <3>1, <3>2, TwoStringsRead, Zenon
    <3> QED
      BY <3>3 DEF TwoRead, wp, wq, p, q
  <2>11. Append(Append(<<>>, s), t) = <<s, t>>
    BY TwoAppended
  <2> QED
    BY <2>7, <2>9, <2>10, <2>11, Zenon DEF pop_vector_string, size
<1> HIDE DEF all
<1> QED
  BY <1>1, <1>4, <1>5

\* The pairs of a sequence of strings, and their keys.
PairsOf(v) == [i \in 1 .. Len(v) \div 2 |-> <<v[2 * i - 1], v[2 * i]>>]
KeysOf(v) == [i \in DOMAIN PairsOf(v) |-> PairsOf(v)[i][1]]

\* A map is read if no key comes twice.
LEMMA PairsRead ==
  \A flat, v, now, n : now \in Nat /\ n \in Nat /\ ReadsAs(flat, v, now, n) =>
     /\ IsInjective(KeysOf(v)) => ReadsAs(PopPairs(flat), PairsOf(v), now, n)
     /\ ~IsInjective(KeysOf(v)) => ThrowsHere(PopPairs(flat))
<1> SUFFICES ASSUME NEW flat, NEW v, NEW now \in Nat, NEW n \in Nat, ReadsAs(flat, v, now, n)
             PROVE  /\ IsInjective(KeysOf(v)) => ReadsAs(PopPairs(flat), PairsOf(v), now, n)
                    /\ ~IsInjective(KeysOf(v)) => ThrowsHere(PopPairs(flat))
  OBVIOUS
<1>1. LeavesAt(flat, v, now, n)
  BY ReadsLeaves, Zenon
<1>2. CASE flat.ok
  <2>1. flat.v = v /\ flat.now = now + n /\ now + n \in 0 .. Len(m_str)
    BY <1>1, <1>2, Zenon DEF LeavesAt
  <2>2. ASSUME IsInjective(KeysOf(v)) PROVE ReadsAs(PopPairs(flat), PairsOf(v), now, n)
    <3>1. PopPairs(flat) = Got(PairsOf(v), now + n)
      BY <1>2, <2>1, <2>2, Zenon DEF PopPairs, PairsOf, KeysOf
    <3>2. now + n <= Len(m_str)
      BY <2>1
    <3> QED
      BY <3>1, <3>2 DEF ReadsAs
  <2>3. ASSUME ~IsInjective(KeysOf(v)) PROVE ThrowsHere(PopPairs(flat))
    <3>1. PopPairs(flat) = format_error_read(now + n)
      BY <1>2, <2>1, <2>3, Zenon DEF PopPairs, PairsOf, KeysOf
    <3> QED
      BY <2>1, <3>1 DEF ThrowsHere, format_error_read
  <2> QED
    BY <2>2, <2>3
<1>3. CASE ~flat.ok
  <2>1. PopPairs(flat) = flat
    BY <1>3, Zenon DEF PopPairs
  <2>2. ThrowsHere(flat) /\ ~(now + n <= Len(m_str))
    BY <1>1, <1>3, Zenon DEF LeavesAt
  <2> QED
    BY <2>1, <2>2, Zenon DEF ReadsAs
<1> QED
  BY <1>2, <1>3

\* The pairs of none, of two strings and of four.
LEMMA PairsAre ==
  /\ PairsOf(<<>>) = <<>> /\ IsInjective(KeysOf(<<>>))
  /\ \A s, t : PairsOf(<<s, t>>) = << <<s, t>> >> /\ IsInjective(KeysOf(<<s, t>>))
  /\ \A s, t : ~IsInjective(KeysOf(Append(Append(<<s, t>>, s), s)))
<1>1. PairsOf(<<>>) = <<>>
  <2>1. Len(<<>>) \div 2 = 0 /\ 1 .. 0 = {}
    BY EmptySeq
  <2>2. 1 .. (Len(<<>>) \div 2) = {}
    BY <2>1
  <2> QED
    BY <2>2 DEF PairsOf
<1>2. IsInjective(KeysOf(<<>>))
  BY <1>1 DEF KeysOf, IsInjective
<1>3. ASSUME NEW s, NEW t
      PROVE  PairsOf(<<s, t>>) = << <<s, t>> >> /\ IsInjective(KeysOf(<<s, t>>))
  <2> DEFINE v == <<s, t>>
  <2>1. Len(v) = 2 /\ v[1] = s /\ v[2] = t
    OBVIOUS
  <2> HIDE DEF v
  <2>2. 1 .. (Len(v) \div 2) = {1} /\ 2 * 1 - 1 = 1 /\ 2 * 1 = 2
    BY <2>1
  <2>3. PairsOf(v) = [i \in {1} |-> <<s, t>>]
    BY <2>1, <2>2 DEF PairsOf
  <2>4. PairsOf(v) = << <<s, t>> >>
    <3> DEFINE x == <<s, t>>
    <3>1. PairsOf(v) = [i \in {1} |-> x]
      BY <2>3
    <3> HIDE DEF x
    <3>2. [i \in {1} |-> x] = <<x>>
      OBVIOUS
    <3> QED
      BY <3>1, <3>2 DEF x
  <2>5. DOMAIN KeysOf(v) = {1}
    BY <2>3 DEF KeysOf
  <2>6. IsInjective(KeysOf(v))
    BY <2>5 DEF IsInjective
  <2> QED
    BY <2>4, <2>6 DEF v
<1>4. ASSUME NEW s, NEW t PROVE ~IsInjective(KeysOf(Append(Append(<<s, t>>, s), s)))
  <2> DEFINE S == {s, t}
             v == Append(<<s, t>>, s)
             w == Append(v, s)
  <2>1. s \in S /\ t \in S /\ <<s, t>> \in Seq(S) /\ Len(<<s, t>>) = 2 /\ <<s, t>>[1] = s
    OBVIOUS
  <2> HIDE DEF S
  <2>2. /\ v \in Seq(S) /\ Len(v) = Len(<<s, t>>) + 1
        /\ \A i \in 1 .. Len(<<s, t>>) : v[i] = <<s, t>>[i]
        /\ v[Len(<<s, t>>) + 1] = s
    BY <2>1, AppendProperties
  <2> HIDE DEF v
  <2>3. Len(v) = 3 /\ v[1] = s /\ v[3] = s
    <3>1. 1 \in 1 .. Len(<<s, t>>) /\ Len(<<s, t>>) + 1 = 3
      BY <2>1
    <3> QED
      BY <2>1, <2>2, <3>1
  <2>4. /\ w \in Seq(S) /\ Len(w) = Len(v) + 1 /\ \A i \in 1 .. Len(v) : w[i] = v[i]
    <3>1. v \in Seq(S) /\ s \in S
      BY <2>1, <2>2
    <3> QED
      BY <3>1, AppendProperties
  <2> HIDE DEF w
  <2>5. Len(w) = 4 /\ w[1] = s /\ w[3] = s
    <3>1. 1 \in 1 .. Len(v) /\ 3 \in 1 .. Len(v)
      BY <2>3
    <3> QED
      BY <2>3, <2>4, <3>1
  <2>6. 1 .. (Len(w) \div 2) = {1, 2} /\ 2 * 1 - 1 = 1 /\ 2 * 2 - 1 = 3
    BY <2>5
  <2>7. PairsOf(w) = [i \in {1, 2} |-> <<w[2 * i - 1], w[2 * i]>>]
    BY <2>6 DEF PairsOf
  <2>8. PairsOf(w)[1] = <<w[2 * 1 - 1], w[2 * 1]>> /\ PairsOf(w)[2] = <<w[2 * 2 - 1], w[2 * 2]>> /\ DOMAIN PairsOf(w) = {1, 2}
    BY <2>7
  <2>9. PairsOf(w)[1][1] = s /\ PairsOf(w)[2][1] = s
    BY <2>5, <2>6, <2>8
  <2>10. DOMAIN KeysOf(w) = {1, 2} /\ KeysOf(w)[1] = s /\ KeysOf(w)[2] = s
    BY <2>8, <2>9 DEF KeysOf
  <2>11. 1 # 2 /\ 1 \in {1, 2} /\ 2 \in {1, 2}
    OBVIOUS
  <2>12. ~IsInjective(KeysOf(w))
    BY <2>10, <2>11 DEF IsInjective
  <2> QED
    BY <2>12 DEF w, v
<1> QED
  BY <1>1, <1>2, <1>3, <1>4

\* A map of one pair.
LEMMA MapRead ==
  ASSUME NEW s \in Seq(Octet), NEW t \in Seq(Octet), Sane(s), Sane(t)
  PROVE  /\ Makes(push_map_object(<< <<s, t>> >>))
         /\ m_str \in Seq(Octet) /\ push_map_object(<< <<s, t>> >>).ok =>
              \A now \in 0 .. Len(m_str) : Agrees(now, Octets(push_map_object(<< <<s, t>> >>)))
                => ReadsAs(pop_map_object(now), << <<s, t>> >>, now, Len(Octets(push_map_object(<< <<s, t>> >>))))
<1> DEFINE u == push_integer_uvarint(1)
           p == push_varstring(s)
           q == push_varstring(t)
           pq == Then(p, q)
           all == Then(u, pq)
<1>2. Makes(u) /\ Makes(p) /\ Makes(q)
  BY VarstringMakes, UvarintMakes DEF UvarintIs
<1>3. Makes(pq)
  <2> HIDE DEF u, p, q
  <2> QED
    BY <1>2, ThenMakes, Zenon
<1>1. push_map_object(<< <<s, t>> >>) = all
  <2> DEFINE x == <<s, t>>
  <2>1. [i \in DOMAIN <<x>> |-> Then(push_varstring(<<x>>[i][1]), push_varstring(<<x>>[i][2]))]
        = << Then(push_varstring(x[1]), push_varstring(x[2])) >>
    <3> HIDE DEF x
    <3> QED
      OBVIOUS
  <2>2. x[1] = s /\ x[2] = t
    OBVIOUS
  <2>3. push_map_object(<<x>>) = Sized(<<pq>>)
    BY <2>1, <2>2 DEF push_map_object
  <2> HIDE DEF pq
  <2> QED
    BY <1>3, <2>3, SizedIs DEF x
<1> HIDE DEF u, p, q
<1>4. Makes(all)
  BY <1>2, <1>3, ThenMakes, Zenon
<1>5. ASSUME m_str \in Seq(Octet), all.ok, NEW now \in 0 .. Len(m_str), Agrees(now, Octets(all))
      PROVE  ReadsAs(pop_map_object(now), << <<s, t>> >>, now, Len(Octets(all)))
  <2> DEFINE wu == Octets(u)
             wp == Octets(p)
             wq == Octets(q)
             size == pop_integer_uvarint(now)
             k == Len(wu)
             n == Len(Joined(wp, wq))
             flat == PopStrings(size, 2)
  <2>1. u.ok /\ pq.ok /\ Octets(all) = Joined(wu, Octets(pq))
    BY <1>2, <1>3, <1>5, BothMake, Zenon
  <2>2. p.ok /\ q.ok /\ Octets(pq) = Joined(wp, wq)
    BY <1>2, <2>1, BothMake, Zenon
  <2>3. wu \in Seq(Octet) /\ Octets(pq) \in Seq(Octet) /\ k \in Nat
    BY <1>2, <1>3, MadeOctets, Zenon
  <2> HIDE DEF all, pq, size, wu, wp, wq
  <2>4. Octets(all) = Joined(wu, Joined(wp, wq)) /\ Joined(wp, wq) \in Seq(Octet)
    BY <2>1, <2>2, <2>3, Zenon
  <2>5. now \in Nat
    <3>1. Len(m_str) \in Nat
      BY <1>5, LenProperties
    <3> QED
      BY <3>1
  <2>6. AgreesBoth(now, wu, Joined(wp, wq))
    BY <1>5, <2>3, <2>4, <2>5, AgreesParts, Zenon
  <2>7. Agrees(now, wu) /\ Agrees(now + k, Joined(wp, wq)) /\ Len(Octets(all)) = k + n
    <3>1. Len(Joined(wu, Joined(wp, wq))) = k + n
      BY <2>6, Zenon DEF AgreesBoth, Joined
    <3> QED
      BY <2>4, <2>6, <3>1, Zenon DEF AgreesBoth
  <2>8. ReadsAs(size, 1, now, k) /\ ReadsAs(Begun(size), <<>>, now, k)
    <3>1. 1 \in Nat
      OBVIOUS
    <3> QED
      BY <1>5, <2>1, <2>7, <3>1, SizeRead DEF wu, size, u
  <2> HIDE DEF k
  <2>9. flat = NextString(NextString(Begun(size)))
    <3>1. 2 * 1 = 2 /\ 2 \in {0, 2, 4} /\ 2 # 0
      OBVIOUS
    <3> QED
      BY <2>3, <2>5, <2>8, <3>1, PopStringsFrom
  <2>10. ReadsAs(NextString(NextString(Begun(size))), Append(Append(<<>>, s), t), now, k + n) /\ n \in Nat
    <3>1. push_varstring(s).ok /\ push_varstring(t).ok
      BY <2>1, <2>2 DEF p, q
    <3>2. Agrees(now + k, Joined(Octets(push_varstring(s)), Octets(push_varstring(t))))
      BY <2>7 DEF wp, wq, p, q
    <3>3. TwoRead(Begun(size), <<>>, now, k, s, t)
      BY <1>5, <2>3, <2>5, <2>8, <3>1, <3>2, TwoStringsRead, Zenon
    <3> QED
      BY <3>3 DEF TwoRead, wp, wq, p, q
  <2>11. Append(Append(<<>>, s), t) = <<s, t>>
    BY TwoAppended
  <2>12. ReadsAs(flat, <<s, t>>, now, k + n)
    BY <2>9, <2>10, <2>11, Zenon
  <2> HIDE DEF flat, n
  <2>13. k + n \in Nat
    BY <2>3, <2>10
  <2>14. PairsOf(<<s, t>>) = << <<s, t>> >> /\ IsInjective(KeysOf(<<s, t>>))
    BY PairsAre, Zenon
  <2>15. ReadsAs(PopPairs(flat), PairsOf(<<s, t>>), now, k + n)
    BY <2>5, <2>12, <2>13, <2>14, PairsRead, Zenon
  <2> QED
    BY <2>7, <2>14, <2>15, Zenon DEF pop_map_object, flat, size
<1> HIDE DEF all
<1> QED
  BY <1>1, <1>4, <1>5

\* The same key twice.
LEMMA TwiceRead ==
  ASSUME NEW s \in Seq(Octet), NEW t \in Seq(Octet), Sane(s), Sane(t)
  PROVE  LET pairs == << <<s, t>>, <<s, s>> >>
         IN  /\ Makes(push_map_object(pairs))
             /\ m_str \in Seq(Octet) /\ push_map_object(pairs).ok =>
                  \A now \in 0 .. Len(m_str) : Agrees(now, Octets(push_map_object(pairs)))
                    => ThrowsHere(pop_map_object(now))
<1> DEFINE pairs == << <<s, t>>, <<s, s>> >>
           u == push_integer_uvarint(2)
           p == push_varstring(s)
           q == push_varstring(t)
           pq == Then(p, q)
           pp == Then(p, p)
           upq == Then(u, pq)
           all == Then(upq, pp)
<1>2. Makes(u) /\ Makes(p) /\ Makes(q)
  BY VarstringMakes, UvarintMakes DEF UvarintIs
<1>3. Makes(pq) /\ Makes(pp)
  <2> HIDE DEF u, p, q
  <2> QED
    BY <1>2, ThenMakes, Zenon
<1>1. push_map_object(pairs) = all
  <2> DEFINE x == <<s, t>>
             y == <<s, s>>
  <2>1. [i \in DOMAIN <<x, y>> |-> Then(push_varstring(<<x, y>>[i][1]), push_varstring(<<x, y>>[i][2]))]
        = << Then(push_varstring(x[1]), push_varstring(x[2])), Then(push_varstring(y[1]), push_varstring(y[2])) >>
    <3> HIDE DEF x, y
    <3> QED
      OBVIOUS
  <2>2. x[1] = s /\ x[2] = t /\ y[1] = s /\ y[2] = s
    OBVIOUS
  <2>3. push_map_object(<<x, y>>) = Sized(<<pq, pp>>)
    BY <2>1, <2>2 DEF push_map_object
  <2> HIDE DEF pq, pp
  <2> QED
    BY <1>3, <2>3, SizedIs DEF x, y
<1> HIDE DEF u, p, q
<1>6. Makes(upq)
  BY <1>2, <1>3, ThenMakes, Zenon
<1>4. Makes(all)
  BY <1>3, <1>6, ThenMakes, Zenon
<1>5. ASSUME m_str \in Seq(Octet), all.ok, NEW now \in 0 .. Len(m_str), Agrees(now, Octets(all))
      PROVE  ThrowsHere(pop_map_object(now))
  <2> DEFINE wu == Octets(u)
             wpq == Octets(pq)
             wpp == Octets(pp)
             rest == Joined(wpq, wpp)
             size == pop_integer_uvarint(now)
             k == Len(wu)
             n == Len(wpq)
             r2 == NextString(NextString(Begun(size)))
             r4 == NextString(NextString(r2))
             flat == PopStrings(size, 2)
             v == Append(Append(<<s, t>>, s), s)
  <2>1. upq.ok /\ pp.ok /\ Octets(all) = Joined(Octets(upq), wpp)
    BY <1>3, <1>5, <1>6, BothMake, Zenon
  <2>2. u.ok /\ pq.ok /\ Octets(upq) = Joined(wu, wpq)
    BY <1>2, <1>3, <2>1, BothMake, Zenon
  <2>3. p.ok /\ q.ok /\ wpq = Joined(Octets(p), Octets(q)) /\ wpp = Joined(Octets(p), Octets(p))
    BY <1>2, <2>1, <2>2, BothMake, Zenon
  <2>4. wu \in Seq(Octet) /\ wpq \in Seq(Octet) /\ wpp \in Seq(Octet) /\ k \in Nat /\ n \in Nat
    BY <1>2, <1>3, MadeOctets, Zenon
  <2>5. now \in Nat
    <3>1. Len(m_str) \in Nat
      BY <1>5, LenProperties
    <3> QED
      BY <3>1
  <2> HIDE DEF all, upq, pq, pp, size, wu, wpq, wpp
  <2>6. Octets(all) = Joined(wu, rest) /\ rest \in Seq(Octet)
    <3>1. JoinedEither(wu, wpq, wpp)
      BY <2>4, JoinedAgain, Zenon
    <3>2. Octets(all) = Joined(Joined(wu, wpq), wpp)
      BY <2>1, <2>2, Zenon
    <3> QED
      BY <3>1, <3>2, Zenon DEF JoinedEither
  <2> HIDE DEF k, n
  <2>7. AgreesBoth(now, wu, rest)
    BY <1>5, <2>4, <2>5, <2>6, AgreesParts, Zenon
  <2>8. Agrees(now, wu) /\ Agrees(now + k, rest)
    BY <2>7, Zenon DEF AgreesBoth, k
  <2>9. now + k \in Nat /\ k + n \in Nat /\ now + (k + n) = (now + k) + n
    BY <2>4, <2>5
  <2>10. AgreesBoth(now + k, wpq, wpp)
    BY <2>4, <2>8, <2>9, AgreesParts, Zenon
  <2>11. Agrees(now + k, wpq) /\ Agrees(now + (k + n), wpp)
    <3>1. Agrees(now + k, wpq) /\ Agrees((now + k) + n, wpp)
      BY <2>10, Zenon DEF AgreesBoth, n
    <3> QED
      BY <2>9, <3>1, Zenon
  <2>12. ReadsAs(size, 2, now, k) /\ ReadsAs(Begun(size), <<>>, now, k)
    <3>1. 2 \in Nat
      OBVIOUS
    <3> QED
      BY <1>5, <2>2, <2>8, <3>1, SizeRead DEF wu, size, u, k
  <2>13. flat = r4
    <3>1. 2 * 2 = 4 /\ 4 \in {0, 2, 4} /\ 4 # 0 /\ 4 # 2
      OBVIOUS
    <3> QED
      BY <2>4, <2>5, <2>12, <3>1, PopStringsFrom
  <2>14. push_varstring(s).ok /\ push_varstring(t).ok
    BY <2>3 DEF p, q
  <2>15. ReadsAs(r2, Append(Append(<<>>, s), t), now, k + n)
    <3>1. Agrees(now + k, Joined(Octets(push_varstring(s)), Octets(push_varstring(t))))
      BY <2>3, <2>11 DEF p, q
    <3>2. TwoRead(Begun(size), <<>>, now, k, s, t)
      BY <1>5, <2>4, <2>5, <2>12, <2>14, <3>1, TwoStringsRead, Zenon
    <3> QED
      BY <2>3, <3>2 DEF TwoRead, n, p, q
  <2>16. ReadsAs(r2, <<s, t>>, now, k + n)
    BY <2>15, TwoAppended, Zenon
  <2> DEFINE i == k + n
             m == Len(Joined(Octets(push_varstring(s)), Octets(push_varstring(s))))
  <2>17. i \in Nat /\ ReadsAs(r2, <<s, t>>, now, i)
    BY <2>9, <2>16
  <2>18. Agrees(now + i, Joined(Octets(push_varstring(s)), Octets(push_varstring(s))))
    BY <2>3, <2>11 DEF p
  <2> HIDE DEF i, r2, flat
  <2>19. TwoRead(r2, <<s, t>>, now, i, s, s)
    BY <1>5, <2>5, <2>14, <2>17, <2>18, TwoStringsRead, Zenon
  <2>20. m \in Nat /\ ReadsAs(flat, v, now, i + m)
    BY <2>13, <2>19 DEF TwoRead
  <2> HIDE DEF m, v
  <2>21. i + m \in Nat
    BY <2>17, <2>20
  <2>22. ~IsInjective(KeysOf(v))
    BY PairsAre, Zenon DEF v
  <2>23. ThrowsHere(PopPairs(flat))
    BY <2>5, <2>20, <2>21, <2>22, PairsRead, Zenon
  <2> QED
    BY <2>23, Zenon DEF pop_map_object, flat, size
<1> HIDE DEF all
<1> QED
  BY <1>1, <1>4, <1>5

-----------------------------------------------------------------------------
\* What is pushed and what is popped, kind by kind.

\* One kind is pushed as no other is.
LEMMA PushedIs ==
  \A item :
    /\ item.kind = "u1" => Pushed(item) = push_integer_u(1, item.v)
    /\ item.kind = "u2" => Pushed(item) = push_integer_u(2, item.v)
    /\ item.kind = "uvarint" => Pushed(item) = push_integer_uvarint(item.v)
    /\ item.kind = "varstring" => Pushed(item) = push_varstring(item.v)
    /\ item.kind = "sizeoctets" => Pushed(item) = push_bytes_sizeoctets(item.v)
    /\ item.kind = "vector" => Pushed(item) = push_vector_string(item.v)
    /\ item.kind \in {"map", "twice"} => Pushed(item) = push_map_object(item.v)
<1> TAKE item
<1> DEFINE k == item.kind
<1>1. CASE k = "u1"
  <2>1. k # "u2" /\ k # "uvarint" /\ k # "varstring" /\ k # "sizeoctets" /\ k # "vector" /\ k \notin {"map", "twice"}
    BY <1>1
  <2> QED
    BY <1>1, <2>1, Zenon DEF Pushed
<1>2. CASE k = "u2"
  <2>1. k # "u1" /\ k # "uvarint" /\ k # "varstring" /\ k # "sizeoctets" /\ k # "vector" /\ k \notin {"map", "twice"}
    BY <1>2
  <2> QED
    BY <1>2, <2>1, Zenon DEF Pushed
<1>3. CASE k = "uvarint"
  <2>1. k # "u1" /\ k # "u2" /\ k # "varstring" /\ k # "sizeoctets" /\ k # "vector" /\ k \notin {"map", "twice"}
    BY <1>3
  <2> QED
    BY <1>3, <2>1, Zenon DEF Pushed
<1>4. CASE k = "varstring"
  <2>1. k # "u1" /\ k # "u2" /\ k # "uvarint" /\ k # "sizeoctets" /\ k # "vector" /\ k \notin {"map", "twice"}
    BY <1>4
  <2> QED
    BY <1>4, <2>1, Zenon DEF Pushed
<1>5. CASE k = "sizeoctets"
  <2>1. k # "u1" /\ k # "u2" /\ k # "uvarint" /\ k # "varstring" /\ k # "vector" /\ k \notin {"map", "twice"}
    BY <1>5
  <2> QED
    BY <1>5, <2>1, Zenon DEF Pushed
<1>6. CASE k = "vector"
  <2>1. k # "u1" /\ k # "u2" /\ k # "uvarint" /\ k # "varstring" /\ k # "sizeoctets" /\ k \notin {"map", "twice"}
    BY <1>6
  <2> QED
    BY <1>6, <2>1, Zenon DEF Pushed
<1>7. CASE k \in {"map", "twice"}
  <2>1. k # "u1" /\ k # "u2" /\ k # "uvarint" /\ k # "varstring" /\ k # "sizeoctets" /\ k # "vector"
    BY <1>7
  <2> QED
    BY <1>7, <2>1, Zenon DEF Pushed
<1> QED
  BY <1>1, <1>2, <1>3, <1>4, <1>5, <1>6, <1>7, Zenon

\* And popped as no other is.
LEMMA PoppedIs ==
  \A kind, now :
    /\ kind = "u1" => Popped(kind, now) = pop_integer_u(1, now)
    /\ kind = "u2" => Popped(kind, now) = pop_integer_u(2, now)
    /\ kind = "uvarint" => Popped(kind, now) = pop_integer_uvarint(now)
    /\ kind = "varstring" => Popped(kind, now) = pop_varstring(now)
    /\ kind = "sizeoctets" => Popped(kind, now) = pop_bytes_sizeoctets(now)
    /\ kind = "vector" => Popped(kind, now) = pop_vector_string(now)
    /\ kind \in {"map", "twice"} => Popped(kind, now) = pop_map_object(now)
<1> TAKE kind, now
<1> DEFINE k == kind
<1>1. CASE k = "u1"
  <2>1. k # "u2" /\ k # "uvarint" /\ k # "varstring" /\ k # "sizeoctets" /\ k # "vector" /\ k \notin {"map", "twice"}
    BY <1>1
  <2> QED
    BY <1>1, <2>1, Zenon DEF Popped
<1>2. CASE k = "u2"
  <2>1. k # "u1" /\ k # "uvarint" /\ k # "varstring" /\ k # "sizeoctets" /\ k # "vector" /\ k \notin {"map", "twice"}
    BY <1>2
  <2> QED
    BY <1>2, <2>1, Zenon DEF Popped
<1>3. CASE k = "uvarint"
  <2>1. k # "u1" /\ k # "u2" /\ k # "varstring" /\ k # "sizeoctets" /\ k # "vector" /\ k \notin {"map", "twice"}
    BY <1>3
  <2> QED
    BY <1>3, <2>1, Zenon DEF Popped
<1>4. CASE k = "varstring"
  <2>1. k # "u1" /\ k # "u2" /\ k # "uvarint" /\ k # "sizeoctets" /\ k # "vector" /\ k \notin {"map", "twice"}
    BY <1>4
  <2> QED
    BY <1>4, <2>1, Zenon DEF Popped
<1>5. CASE k = "sizeoctets"
  <2>1. k # "u1" /\ k # "u2" /\ k # "uvarint" /\ k # "varstring" /\ k # "vector" /\ k \notin {"map", "twice"}
    BY <1>5
  <2> QED
    BY <1>5, <2>1, Zenon DEF Popped
<1>6. CASE k = "vector"
  <2>1. k # "u1" /\ k # "u2" /\ k # "uvarint" /\ k # "varstring" /\ k # "sizeoctets" /\ k \notin {"map", "twice"}
    BY <1>6
  <2> QED
    BY <1>6, <2>1, Zenon DEF Popped
<1>7. CASE k \in {"map", "twice"}
  <2>1. k # "u1" /\ k # "u2" /\ k # "uvarint" /\ k # "varstring" /\ k # "sizeoctets" /\ k # "vector"
    BY <1>7
  <2> QED
    BY <1>7, <2>1, Zenon DEF Popped
<1> QED
  BY <1>1, <1>2, <1>3, <1>4, <1>5, <1>6, <1>7, Zenon

\* What is pushed is popped again, or the parser throws.
PopsBack(item) ==
  /\ Makes(Pushed(item))
  /\ m_str \in Seq(Octet) /\ Pushed(item).ok =>
       \A now \in 0 .. Len(m_str) : Agrees(now, Octets(Pushed(item))) =>
         IF item.kind = "twice" THEN ThrowsHere(Popped(item.kind, now))
         ELSE ReadsAs(Popped(item.kind, now), item.v, now, Len(Octets(Pushed(item))))

\* What an item holds, kind by kind.
KindIs(item) ==
  \/ item.kind = "u1" /\ item.v \in Nat
  \/ item.kind = "u2" /\ item.v \in Nat
  \/ item.kind = "uvarint" /\ item.v \in Nat
  \/ item.kind = "varstring" /\ item.v \in SaneString
  \/ item.kind = "sizeoctets" /\ item.v \in SaneString
  \/ item.kind \in {"vector", "map"} /\ item.v = <<>>
  \/ item.kind = "vector" /\ \E s, t \in SaneString : item.v = <<s, t>>
  \/ item.kind = "map" /\ \E s, t \in SaneString : item.v = << <<s, t>> >>
  \/ item.kind = "twice" /\ \E s, t \in SaneString : item.v = << <<s, t>>, <<s, s>> >>

\* Every item is of one kind.
LEMMA KindsAre == \A item \in Items \cup TwiceTheKey : KindIs(item)
<1> SUFFICES ASSUME NEW item \in Items \cup TwiceTheKey PROVE KindIs(item)
  OBVIOUS
<1>1. KindIs(item)
  <2> DEFINE Q == SaneString
             Two == {<<s, t>> : s, t \in Texts}
             Pair == {<< <<s, t>> >> : s, t \in Texts}
  <2>1. Numbers \subseteq Nat /\ Texts \subseteq Q
    BY SerializationConstants, TextsAre
  <2>2. /\ \A v \in Two : \E s, t \in Q : v = <<s, t>>
        /\ \A v \in Pair : \E s, t \in Q : v = << <<s, t>> >>
    BY <2>1
  <2>3. CASE item \in TwiceTheKey
    <3>1. PICK s \in Texts, t \in Texts : item = [kind |-> "twice", v |-> << <<s, t>>, <<s, s>> >>]
      BY <2>3 DEF TwiceTheKey
    <3> DEFINE x == << <<s, t>>, <<s, s>> >>
    <3>2. item = [kind |-> "twice", v |-> x]
      BY <3>1
    <3> HIDE DEF x
    <3>3. item.kind = "twice" /\ item.v = x
      BY <3>2
    <3>4. s \in Q /\ t \in Q
      BY <2>1
    <3> HIDE DEF Q
    <3>5. \E s1, t1 \in Q : item.v = << <<s1, t1>>, <<s1, s1>> >>
      BY <3>3, <3>4, Zenon DEF x
    <3> QED
      BY <3>3, <3>5, Zenon DEF Q, KindIs
  <2>4. CASE item \in Items
    <3>1. \/ item \in [kind : {"u1", "u2", "uvarint"}, v : Numbers]
          \/ item \in [kind : {"varstring", "sizeoctets"}, v : Texts]
          \/ item \in [kind : {"vector"}, v : {<<>>} \cup Two]
          \/ item \in [kind : {"map"}, v : {<<>>} \cup Pair]
      BY <2>4 DEF Items
    <3> HIDE DEF Two, Pair, Q
    <3>2. \/ item.kind \in {"u1", "u2", "uvarint"} /\ item.v \in Nat
          \/ item.kind \in {"varstring", "sizeoctets"} /\ item.v \in Q
          \/ item.kind = "vector" /\ (item.v = <<>> \/ item.v \in Two)
          \/ item.kind = "map" /\ (item.v = <<>> \/ item.v \in Pair)
      BY <2>1, <3>1
    <3> DEFINE AsTwo == \E s, t \in Q : item.v = <<s, t>>
               AsPair == \E s, t \in Q : item.v = << <<s, t>> >>
    <3>3. (item.v \in Two => AsTwo) /\ (item.v \in Pair => AsPair)
      BY <2>2, Zenon
    <3> HIDE DEF AsTwo, AsPair
    <3>4. \/ item.kind = "u1" /\ item.v \in Nat
          \/ item.kind = "u2" /\ item.v \in Nat
          \/ item.kind = "uvarint" /\ item.v \in Nat
          \/ item.kind = "varstring" /\ item.v \in Q
          \/ item.kind = "sizeoctets" /\ item.v \in Q
          \/ item.kind \in {"vector", "map"} /\ item.v = <<>>
          \/ item.kind = "vector" /\ AsTwo
          \/ item.kind = "map" /\ AsPair
      BY <3>2, <3>3
    <3> QED
      BY <3>4, Zenon DEF Q, AsTwo, AsPair, KindIs
  <2> QED
    BY <2>3, <2>4
<1> QED
  BY <1>1

\* It is so of every value.
LEMMA AllPopBack == \A item \in Items \cup TwiceTheKey : PopsBack(item)
<1> SUFFICES ASSUME NEW item \in Items \cup TwiceTheKey PROVE PopsBack(item)
  OBVIOUS
<1>1. KindIs(item)
  BY KindsAre
<1> DEFINE p == Pushed(item)
           k == item.kind
           n == Len(Octets(p))
<1>2. ASSUME NEW S \in {1, 2}, item.v \in Nat, k # "twice", p = push_integer_u(S, item.v),
             \A now : Popped(k, now) = pop_integer_u(S, now)
      PROVE  PopsBack(item)
  <2>0. S \in 1 .. 8
    OBVIOUS
  <2>1. Makes(p) /\ (p.ok => p.octets = Digits(S, item.v) /\ item.v < Power[S])
    BY <1>2, <2>0, IntegerMakes
  <2>2. Len(Digits(S, item.v)) = S
    BY <1>2, <2>0, DigitsGive
  <2>3. ASSUME m_str \in Seq(Octet), p.ok, NEW now \in 0 .. Len(m_str), Agrees(now, Octets(p))
        PROVE  ReadsAs(pop_integer_u(S, now), item.v, now, n)
    <3>1. Octets(p) = Digits(S, item.v) /\ item.v < Power[S]
      BY <2>1, <2>3 DEF Octets
    <3>2. n = S
      BY <2>2, <3>1
    <3> QED
      BY <1>2, <2>0, <2>3, <3>1, <3>2, IntegerRead
  <2> HIDE DEF p, n, k
  <2>4. /\ m_str \in Seq(Octet) /\ p.ok =>
             \A now \in 0 .. Len(m_str) : Agrees(now, Octets(p)) => ReadsAs(Popped(k, now), item.v, now, n)
    BY <1>2, <2>3, Zenon
  <2> QED
    BY <1>2, <2>1, <2>4, Zenon DEF PopsBack, p, k, n
<1>3. ASSUME k = "u1", item.v \in Nat PROVE PopsBack(item)
  <2>1. 1 \in {1, 2} /\ k # "twice"
    BY <1>3
  <2>2. p = push_integer_u(1, item.v) /\ \A now : Popped(k, now) = pop_integer_u(1, now)
    BY <1>3, PushedIs, PoppedIs, Zenon
  <2> HIDE DEF p, k
  <2> QED
    BY <1>2, <1>3, <2>1, <2>2, Zenon
<1>4. ASSUME k = "u2", item.v \in Nat PROVE PopsBack(item)
  <2>1. 2 \in {1, 2} /\ k # "twice"
    BY <1>4
  <2>2. p = push_integer_u(2, item.v) /\ \A now : Popped(k, now) = pop_integer_u(2, now)
    BY <1>4, PushedIs, PoppedIs, Zenon
  <2> HIDE DEF p, k
  <2> QED
    BY <1>2, <1>4, <2>1, <2>2, Zenon
<1>5. ASSUME k = "uvarint", item.v \in Nat PROVE PopsBack(item)
  <2>1. k # "twice"
    BY <1>5
  <2>2. p = push_integer_uvarint(item.v) /\ \A now : Popped(k, now) = pop_integer_uvarint(now)
    BY <1>5, PushedIs, PoppedIs, Zenon
  <2>3. Makes(p)
    BY <1>5, <2>2, UvarintMakes DEF UvarintIs
  <2> HIDE DEF p, k
  <2>4. ASSUME m_str \in Seq(Octet), p.ok, NEW now \in 0 .. Len(m_str), Agrees(now, Octets(p))
        PROVE  ReadsAs(Popped(k, now), item.v, now, n)
    BY <1>5, <2>2, <2>4, UvarintRead DEF Octets
  <2> QED
    BY <2>1, <2>3, <2>4, Zenon DEF PopsBack, p, k
<1>6. ASSUME k = "varstring", item.v \in SaneString PROVE PopsBack(item)
  <2>0. item.v \in Seq(Octet) /\ Sane(item.v)
    BY <1>6, TextsAre
  <2>1. k # "twice"
    BY <1>6
  <2>2. p = push_varstring(item.v) /\ \A now : Popped(k, now) = pop_varstring(now)
    BY <1>6, PushedIs, PoppedIs, Zenon
  <2>3. Makes(p)
    BY <2>0, <2>2, VarstringMakes
  <2> HIDE DEF p, k
  <2>4. ASSUME m_str \in Seq(Octet), p.ok, NEW now \in 0 .. Len(m_str), Agrees(now, Octets(p))
        PROVE  ReadsAs(Popped(k, now), item.v, now, n)
    BY <2>0, <2>2, <2>4, VarstringRead DEF Octets
  <2> QED
    BY <2>1, <2>3, <2>4, Zenon DEF PopsBack, p, k
<1>7. ASSUME k = "sizeoctets", item.v \in SaneString PROVE PopsBack(item)
  <2>0. item.v \in Seq(Octet) /\ Sane(item.v)
    BY <1>7, TextsAre
  <2>1. k # "twice"
    BY <1>7
  <2>2. p = push_bytes_sizeoctets(item.v) /\ \A now : Popped(k, now) = pop_bytes_sizeoctets(now)
    BY <1>7, PushedIs, PoppedIs, Zenon
  <2>3. Makes(p)
    BY <2>0, <2>2, SizeoctetsRead
  <2> HIDE DEF p, k
  <2>4. ASSUME m_str \in Seq(Octet), p.ok, NEW now \in 0 .. Len(m_str), Agrees(now, Octets(p))
        PROVE  ReadsAs(Popped(k, now), item.v, now, n)
    BY <2>0, <2>2, <2>4, SizeoctetsRead DEF Octets
  <2> QED
    BY <2>1, <2>3, <2>4, Zenon DEF PopsBack, p, k
<1>8. ASSUME k \in {"vector", "map"}, item.v = <<>> PROVE PopsBack(item)
  <2>1. k # "twice" /\ (k = "vector" \/ (k = "map" /\ k \in {"map", "twice"}))
    BY <1>8
  <2>2. p = push_integer_uvarint(0)
    <3>1. p = push_vector_string(<<>>) \/ p = push_map_object(<<>>)
      BY <1>8, <2>1, PushedIs, Zenon
    <3> QED
      BY <3>1, NoneRead
  <2>3. Makes(p)
    BY <2>2, UvarintMakes DEF UvarintIs
  <2> HIDE DEF p
  <2>4. ASSUME m_str \in Seq(Octet), p.ok, NEW now \in 0 .. Len(m_str), Agrees(now, Octets(p))
        PROVE  ReadsAs(Popped(k, now), item.v, now, n)
    <3>1. /\ ReadsAs(pop_vector_string(now), <<>>, now, n)
          /\ ReadsAs(PopStrings(pop_integer_uvarint(now), 2), <<>>, now, n)
      BY <2>2, <2>4, NoneRead
    <3>2. now \in Nat /\ n \in Nat
      <4>1. Len(m_str) \in Nat
        BY <2>4, LenProperties
      <4> QED
        BY <2>3, <4>1, MadeOctets
    <3> HIDE DEF n, k
    <3>3. ReadsAs(PopPairs(PopStrings(pop_integer_uvarint(now), 2)), PairsOf(<<>>), now, n)
      <4>1. IsInjective(KeysOf(<<>>))
        BY PairsAre, Zenon
      <4> QED
        BY <3>1, <3>2, <4>1, PairsRead, Zenon
    <3>4. PairsOf(<<>>) = <<>>
      BY PairsAre, Zenon
    <3>5. CASE k = "vector"
      BY <1>8, <3>1, <3>5, PoppedIs, Zenon
    <3>6. CASE k = "map" /\ k \in {"map", "twice"}
      <4>1. Popped(k, now) = pop_map_object(now)
        BY <3>6, PoppedIs, Zenon
      <4> QED
        BY <1>8, <3>3, <3>4, <4>1, Zenon DEF pop_map_object
    <3> QED
      BY <2>1, <3>5, <3>6
  <2> QED
    BY <2>1, <2>3, <2>4, Zenon DEF PopsBack, p, k
<1>9. ASSUME k = "vector", NEW s \in SaneString, NEW t \in SaneString, item.v = <<s, t>> PROVE PopsBack(item)
  <2> DEFINE x == <<s, t>>
  <2>0. s \in Seq(Octet) /\ t \in Seq(Octet) /\ Sane(s) /\ Sane(t)
    BY TextsAre
  <2>1. k # "twice"
    BY <1>9
  <2>2. p = push_vector_string(x) /\ \A now : Popped(k, now) = pop_vector_string(now)
    BY <1>9, PushedIs, PoppedIs, Zenon
  <2>3. Makes(p)
    BY <2>0, <2>2, VectorRead
  <2> HIDE DEF p, k
  <2>4. ASSUME m_str \in Seq(Octet), p.ok, NEW now \in 0 .. Len(m_str), Agrees(now, Octets(p))
        PROVE  ReadsAs(Popped(k, now), item.v, now, n)
    BY <1>9, <2>0, <2>2, <2>4, VectorRead
  <2> QED
    BY <2>1, <2>3, <2>4, Zenon DEF PopsBack, p, k
<1>10. ASSUME k = "map", NEW s \in SaneString, NEW t \in SaneString, item.v = << <<s, t>> >> PROVE PopsBack(item)
  <2> DEFINE x == << <<s, t>> >>
  <2>0. s \in Seq(Octet) /\ t \in Seq(Octet) /\ Sane(s) /\ Sane(t)
    BY TextsAre
  <2>1. k # "twice" /\ k \in {"map", "twice"}
    BY <1>10
  <2>2. p = push_map_object(x) /\ \A now : Popped(k, now) = pop_map_object(now)
    BY <1>10, <2>1, PushedIs, PoppedIs, Zenon
  <2>3. Makes(p)
    BY <2>0, <2>2, MapRead
  <2> HIDE DEF p, k
  <2>4. ASSUME m_str \in Seq(Octet), p.ok, NEW now \in 0 .. Len(m_str), Agrees(now, Octets(p))
        PROVE  ReadsAs(Popped(k, now), item.v, now, n)
    BY <1>10, <2>0, <2>2, <2>4, MapRead
  <2> QED
    BY <2>1, <2>3, <2>4, Zenon DEF PopsBack, p, k
<1>11. ASSUME k = "twice", NEW s \in SaneString, NEW t \in SaneString, item.v = << <<s, t>>, <<s, s>> >>
       PROVE  PopsBack(item)
  <2> DEFINE x == << <<s, t>>, <<s, s>> >>
  <2>0. s \in Seq(Octet) /\ t \in Seq(Octet) /\ Sane(s) /\ Sane(t)
    BY TextsAre
  <2>1. k \in {"map", "twice"}
    BY <1>11
  <2>2. p = push_map_object(x) /\ \A now : Popped(k, now) = pop_map_object(now)
    BY <1>11, <2>1, PushedIs, PoppedIs, Zenon
  <2>3. Makes(p)
    BY <2>0, <2>2, TwiceRead
  <2> HIDE DEF p, k
  <2>4. ASSUME m_str \in Seq(Octet), p.ok, NEW now \in 0 .. Len(m_str), Agrees(now, Octets(p))
        PROVE  ThrowsHere(Popped(k, now))
    BY <2>0, <2>2, <2>4, TwiceRead
  <2> QED
    BY <1>11, <2>3, <2>4, Zenon DEF PopsBack, p, k
<1> HIDE DEF p, k, n
<1> QED
  BY <1>1, <1>3, <1>4, <1>5, <1>6, <1>7, <1>8, <1>9, <1>10, <1>11, Zenon DEF k, KindIs

-----------------------------------------------------------------------------
\* What is refused.

\* A field of S octets does not take n.
TooGreat(S, n) == ~Supported(<<S, n>>) \/ Greatest(<<S, n>>)

\* Some field of the item does not take its number.
Refusable(item) == \E field \in Fields(item) : ~Supported(field) \/ Greatest(field)

\* A field takes the numbers below its greatest.
LEMMA FieldTakes == \A S \in 1 .. 8, n \in Nat : TooGreat(S, n) <=> ~(n < Power[S] - 1)
<1> TAKE S \in 1 .. 8, n \in Nat
<1>1. Power[S] \in Nat
  BY Powers
<1> QED
  BY <1>1 DEF TooGreat, Supported, Greatest

\* More octets hold more.
LEMMA PowersGrow == Power[1] <= Power[2] /\ Power[2] <= Power[4] /\ Power[4] <= Power[8] /\ Power[1] = OctetBase
<1>1. ASSUME NEW k \in 1 .. 8 PROVE Power[k - 1] <= Power[k] /\ Power[k - 1] \in Nat /\ Power[k] \in Nat
  <2>1. k \in 0 .. 8 /\ k - 1 \in 0 .. 8
    OBVIOUS
  <2> DEFINE x == Power[k - 1]
             y == Power[k]
  <2>2. x \in Nat /\ y \in Nat /\ y = OctetBase * x /\ x > 0
    BY <2>1, Powers
  <2> HIDE DEF x, y
  <2>3. x <= y
    BY <2>2, OctetsAre
  <2> QED
    BY <2>2, <2>3 DEF x, y
<1>2. /\ Power[1] <= Power[2] /\ Power[2] <= Power[3] /\ Power[3] <= Power[4] /\ Power[4] <= Power[5]
      /\ Power[5] <= Power[6] /\ Power[6] <= Power[7] /\ Power[7] <= Power[8]
  <2>1. /\ 2 - 1 = 1 /\ 3 - 1 = 2 /\ 4 - 1 = 3 /\ 5 - 1 = 4 /\ 6 - 1 = 5 /\ 7 - 1 = 6 /\ 8 - 1 = 7
        /\ 2 \in 1 .. 8 /\ 3 \in 1 .. 8 /\ 4 \in 1 .. 8 /\ 5 \in 1 .. 8 /\ 6 \in 1 .. 8 /\ 7 \in 1 .. 8 /\ 8 \in 1 .. 8
    OBVIOUS
  <2> QED
    BY <1>1, <2>1
<1>3. /\ Power[2] \in Nat /\ Power[3] \in Nat /\ Power[4] \in Nat /\ Power[5] \in Nat
      /\ Power[6] \in Nat /\ Power[7] \in Nat /\ Power[8] \in Nat
  BY Powers
<1>4. Power[1] = OctetBase
  <2>1. Power[1] = OctetBase * Power[1 - 1] /\ 1 - 1 = 0 /\ Power[0] = 1
    BY Powers
  <2> QED
    BY <2>1, OctetsAre
<1>5. Power[2] <= Power[4] /\ Power[4] <= Power[8]
  BY <1>2, <1>3
<1> QED
  BY <1>2, <1>4, <1>5

\* A number of any size is refused if eight octets do not take it.
LEMMA UvarintRefused == \A val \in Nat : push_integer_uvarint(val).ok <=> ~TooGreat(8, val)
<1> TAKE val \in Nat
<1> DEFINE p == push_integer_uvarint(val)
<1>0. /\ OctetBase \in Nat /\ OctetBase >= 4 /\ Power[1] = OctetBase
      /\ Power[2] \in Nat /\ Power[4] \in Nat /\ Power[8] \in Nat
      /\ Power[1] <= Power[2] /\ Power[2] <= Power[4] /\ Power[4] <= Power[8]
  BY Powers, PowersGrow, OctetsAre
<1>1. TooGreat(8, val) <=> ~(val < Power[8] - 1)
  BY FieldTakes
<1>2. ASSUME NEW S \in {2, 4, 8}
      PROVE  Then(Out(<<Marker(S)>>), push_integer_u(S, val)).ok <=> val < Power[S] - 1
  <2> DEFINE m == <<Marker(S)>>
             q == push_integer_u(S, val)
  <2>1. m \in Seq(Octet)
    <3>1. Marker(S) \in Octet
      BY OctetsAre DEF Marker, Octet
    <3> HIDE DEF Octet
    <3> QED
      BY <3>1
  <2>2. Makes(Out(m)) /\ Out(m).ok
    BY <2>1, OutMakes, Zenon
  <2>3. S \in 1 .. 8
    OBVIOUS
  <2>4. Makes(q) /\ (q.ok <=> val < Power[S] - 1)
    BY <2>3, IntegerMakes, Zenon
  <2> HIDE DEF q, m
  <2>5. Then(Out(m), q).ok <=> Out(m).ok /\ q.ok
    BY <2>2, <2>4, ThenMakes, Zenon
  <2> QED
    BY <2>2, <2>4, <2>5, Zenon DEF m, q
<1>3. CASE val < OctetBase - 3
  <2>1. val \notin (OctetBase - 3) .. (Power[2] - 2) /\ val \notin (Power[2] - 1) .. (Power[4] - 2)
    BY <1>0, <1>3
  <2>2. p = push_integer_u(1, val)
    BY <1>3, <2>1, Zenon DEF push_integer_uvarint
  <2>3. p.ok <=> val < Power[1] - 1
    <3>1. 1 \in 1 .. 8
      OBVIOUS
    <3> QED
      BY <2>2, <3>1, IntegerMakes, Zenon
  <2> QED
    BY <1>0, <1>1, <1>3, <2>3
<1>4. CASE val \in (OctetBase - 3) .. (Power[2] - 2)
  <2>1. ~(val < OctetBase - 3) /\ val \notin (Power[2] - 1) .. (Power[4] - 2)
    BY <1>0, <1>4
  <2>2. p = Then(Out(<<Marker(2)>>), push_integer_u(2, val))
    BY <1>4, <2>1, Zenon DEF push_integer_uvarint, Marker
  <2>3. p.ok <=> val < Power[2] - 1
    BY <1>2, <2>2
  <2> QED
    BY <1>0, <1>1, <1>4, <2>3
<1>5. CASE val \in (Power[2] - 1) .. (Power[4] - 2)
  <2>1. ~(val < OctetBase - 3) /\ val \notin (OctetBase - 3) .. (Power[2] - 2)
    BY <1>0, <1>5
  <2>2. Marker(4) = OctetBase - 2
    BY DEF Marker
  <2>3. p = Then(Out(<<Marker(4)>>), push_integer_u(4, val))
    BY <1>5, <2>1, <2>2, Zenon DEF push_integer_uvarint
  <2>4. p.ok <=> val < Power[4] - 1
    BY <1>2, <2>3
  <2> QED
    BY <1>0, <1>1, <1>5, <2>4
<1>6. CASE ~(val < OctetBase - 3) /\ val \notin (OctetBase - 3) .. (Power[2] - 2)
           /\ val \notin (Power[2] - 1) .. (Power[4] - 2)
  <2>1. Marker(8) = OctetBase - 1
    BY DEF Marker
  <2>2. p = Then(Out(<<Marker(8)>>), push_integer_u(8, val))
    BY <1>6, <2>1, Zenon DEF push_integer_uvarint
  <2> QED
    BY <1>1, <1>2, <2>2
<1> QED
  BY <1>3, <1>4, <1>5, <1>6

\* A string is refused for its size.
LEMMA VarstringRefused ==
  ASSUME NEW data \in Seq(Octet)
  PROVE  (push_varstring(data).ok <=> ~TooGreat(8, Len(data))) /\ Makes(push_varstring(data)) /\ Len(data) \in Nat
<1> DEFINE n == push_integer_uvarint(Len(data))
<1>1. Len(data) \in Nat
  BY LenProperties
<1>2. Makes(n) /\ (n.ok <=> ~TooGreat(8, Len(data)))
  BY <1>1, UvarintMakes, UvarintRefused DEF UvarintIs
<1>3. Makes(Out(data)) /\ Out(data).ok
  BY OutMakes, Zenon
<1>4. push_varstring(data) = Then(n, Out(data))
  BY DEF push_varstring
<1> HIDE DEF n
<1>5. push_varstring(data).ok <=> n.ok /\ Out(data).ok
  BY <1>2, <1>3, <1>4, ThenMakes, Zenon
<1> QED
  BY <1>1, <1>2, <1>3, <1>5, VarstringMakes

\* So is one whose size is one octet.
LEMMA SizeoctetsRefused ==
  ASSUME NEW data \in Seq(Octet)
  PROVE  push_bytes_sizeoctets(data).ok <=> ~TooGreat(1, Len(data))
<1> DEFINE n == push_integer_u(1, Len(data))
<1>1. Len(data) \in Nat /\ 1 \in 1 .. 8
  BY LenProperties
<1>2. Makes(n) /\ (n.ok <=> ~TooGreat(1, Len(data)))
  BY <1>1, IntegerMakes, FieldTakes
<1>3. Makes(Out(data)) /\ Out(data).ok
  BY OutMakes, Zenon
<1>4. push_bytes_sizeoctets(data) = Then(n, Out(data))
  BY DEF push_bytes_sizeoctets
<1> HIDE DEF n
<1>5. push_bytes_sizeoctets(data).ok <=> n.ok /\ Out(data).ok
  BY <1>2, <1>3, <1>4, ThenMakes, Zenon
<1> QED
  BY <1>2, <1>3, <1>5

\* The fields of a kind are those of no other.
LEMMA FieldsAre ==
  \A item :
    /\ item.kind = "u1" => Fields(item) = {<<1, item.v>>}
    /\ item.kind = "u2" => Fields(item) = {<<2, item.v>>}
    /\ item.kind = "uvarint" => Fields(item) = {<<8, item.v>>}
    /\ item.kind = "varstring" => Fields(item) = {<<8, Len(item.v)>>}
    /\ item.kind = "sizeoctets" => Fields(item) = {<<1, Len(item.v)>>}
    /\ item.kind = "vector" => Fields(item) = SizedFields(item.v, StringsOf(item.v))
    /\ item.kind \in {"map", "twice"} => Fields(item) = SizedFields(item.v, PairStringsOf(item.v))
<1> TAKE item
<1> DEFINE k == item.kind
<1>1. CASE k = "u1"
  <2>1. k # "u2" /\ k # "uvarint" /\ k # "varstring" /\ k # "sizeoctets" /\ k # "vector" /\ k \notin {"map", "twice"}
    BY <1>1
  <2> QED
    BY <1>1, <2>1, Zenon DEF Fields
<1>2. CASE k = "u2"
  <2>1. k # "u1" /\ k # "uvarint" /\ k # "varstring" /\ k # "sizeoctets" /\ k # "vector" /\ k \notin {"map", "twice"}
    BY <1>2
  <2> QED
    BY <1>2, <2>1, Zenon DEF Fields
<1>3. CASE k = "uvarint"
  <2>1. k # "u1" /\ k # "u2" /\ k # "varstring" /\ k # "sizeoctets" /\ k # "vector" /\ k \notin {"map", "twice"}
    BY <1>3
  <2> QED
    BY <1>3, <2>1, Zenon DEF Fields
<1>4. CASE k = "varstring"
  <2>1. k # "u1" /\ k # "u2" /\ k # "uvarint" /\ k # "sizeoctets" /\ k # "vector" /\ k \notin {"map", "twice"}
    BY <1>4
  <2> QED
    BY <1>4, <2>1, Zenon DEF Fields
<1>5. CASE k = "sizeoctets"
  <2>1. k # "u1" /\ k # "u2" /\ k # "uvarint" /\ k # "varstring" /\ k # "vector" /\ k \notin {"map", "twice"}
    BY <1>5
  <2> QED
    BY <1>5, <2>1, Zenon DEF Fields
<1>6. CASE k = "vector"
  <2>1. k # "u1" /\ k # "u2" /\ k # "uvarint" /\ k # "varstring" /\ k # "sizeoctets" /\ k \notin {"map", "twice"}
    BY <1>6
  <2> QED
    BY <1>6, <2>1, Zenon DEF Fields
<1>7. CASE k \in {"map", "twice"}
  <2>1. k # "u1" /\ k # "u2" /\ k # "uvarint" /\ k # "varstring" /\ k # "sizeoctets" /\ k # "vector"
    BY <1>7
  <2> QED
    BY <1>7, <2>1, Zenon DEF Fields
<1> QED
  BY <1>1, <1>2, <1>3, <1>4, <1>5, <1>6, <1>7, Zenon

\* A value in several parts is refused for the number of them or for the size of one.
LEMMA SizedRefused ==
  \A v, strings : (\E field \in SizedFields(v, strings) : ~Supported(field) \/ Greatest(field))
                    <=> TooGreat(8, Len(v)) \/ \E s \in strings : TooGreat(8, Len(s))
BY DEF SizedFields, TooGreat

\* The strings in them.
LEMMA StringsAre ==
  /\ Len(<<>>) = 0 /\ StringsOf(<<>>) = {} /\ PairStringsOf(<<>>) = {}
  /\ \A s, t : Len(<<s, t>>) = 2 /\ StringsOf(<<s, t>>) = {s, t}
  /\ \A s, t : Len(<< <<s, t>> >>) = 1 /\ PairStringsOf(<< <<s, t>> >>) = {s, t}
  /\ \A s, t : Len(<< <<s, t>>, <<s, s>> >>) = 2 /\ PairStringsOf(<< <<s, t>>, <<s, s>> >>) = {s, t}
<1>1. Len(<<>>) = 0 /\ StringsOf(<<>>) = {} /\ PairStringsOf(<<>>) = {}
  BY DEF StringsOf, PairStringsOf
<1>2. ASSUME NEW s, NEW t PROVE Len(<<s, t>>) = 2 /\ StringsOf(<<s, t>>) = {s, t}
  <2> DEFINE v == <<s, t>>
  <2>1. DOMAIN v = {1, 2} /\ Len(v) = 2 /\ v[1] = s /\ v[2] = t
    OBVIOUS
  <2> HIDE DEF v
  <2>2. StringsOf(v) = {s, t}
    BY <2>1 DEF StringsOf
  <2> QED
    BY <2>1, <2>2 DEF v
<1>3. ASSUME NEW x, NEW y
      PROVE  /\ Len(<<x>>) = 1 /\ PairStringsOf(<<x>>) = {x[1], x[2]}
             /\ Len(<<x, y>>) = 2 /\ PairStringsOf(<<x, y>>) = {x[1], y[1], x[2], y[2]}
  <2> DEFINE v == <<x>>
             w == <<x, y>>
  <2>1. DOMAIN v = {1} /\ Len(v) = 1 /\ v[1] = x /\ DOMAIN w = {1, 2} /\ Len(w) = 2 /\ w[1] = x /\ w[2] = y
    OBVIOUS
  <2> HIDE DEF v, w
  <2>2. PairStringsOf(v) = {x[1], x[2]}
    BY <2>1 DEF PairStringsOf
  <2>3. PairStringsOf(w) = {x[1], y[1], x[2], y[2]}
    BY <2>1 DEF PairStringsOf
  <2> QED
    BY <2>1, <2>2, <2>3 DEF v, w
<1>4. ASSUME NEW s, NEW t
      PROVE  /\ Len(<< <<s, t>> >>) = 1 /\ PairStringsOf(<< <<s, t>> >>) = {s, t}
             /\ Len(<< <<s, t>>, <<s, s>> >>) = 2 /\ PairStringsOf(<< <<s, t>>, <<s, s>> >>) = {s, t}
  <2> DEFINE x == <<s, t>>
             y == <<s, s>>
  <2>1. x[1] = s /\ x[2] = t /\ y[1] = s /\ y[2] = s
    OBVIOUS
  <2> HIDE DEF x, y
  <2>2. /\ Len(<<x>>) = 1 /\ PairStringsOf(<<x>>) = {s, t}
        /\ Len(<<x, y>>) = 2 /\ PairStringsOf(<<x, y>>) = {s, t}
    BY <1>3, <2>1
  <2> QED
    BY <2>2 DEF x, y
<1> QED
  BY <1>1, <1>2, <1>4

\* The code refuses an item and its fields do not take it, or neither.
RefusedRight(item) == Pushed(item).ok <=> ~Refusable(item)

\* It is so of a value in one part.
LEMMA SimpleRefused ==
  \A item :
    /\ item.kind = "u1" /\ item.v \in Nat => RefusedRight(item)
    /\ item.kind = "u2" /\ item.v \in Nat => RefusedRight(item)
    /\ item.kind = "uvarint" /\ item.v \in Nat => RefusedRight(item)
    /\ item.kind = "varstring" /\ item.v \in SaneString => RefusedRight(item)
    /\ item.kind = "sizeoctets" /\ item.v \in SaneString => RefusedRight(item)
<1> TAKE item
<1> DEFINE k == item.kind
<1>1. ASSUME NEW S, NEW n, Fields(item) = {<<S, n>>}, Pushed(item).ok <=> ~TooGreat(S, n) PROVE RefusedRight(item)
  BY <1>1 DEF RefusedRight, Refusable, TooGreat
<1>2. ASSUME NEW S \in 1 .. 8, NEW n \in Nat PROVE push_integer_u(S, n).ok <=> ~TooGreat(S, n)
  BY IntegerMakes, FieldTakes
<1>3. ASSUME k = "u1", item.v \in Nat PROVE RefusedRight(item)
  <2>1. Fields(item) = {<<1, item.v>>} /\ Pushed(item) = push_integer_u(1, item.v)
    BY <1>3, FieldsAre, PushedIs, Zenon
  <2>2. 1 \in 1 .. 8
    OBVIOUS
  <2> QED
    BY <1>1, <1>2, <1>3, <2>1, <2>2, Zenon
<1>4. ASSUME k = "u2", item.v \in Nat PROVE RefusedRight(item)
  <2>1. Fields(item) = {<<2, item.v>>} /\ Pushed(item) = push_integer_u(2, item.v)
    BY <1>4, FieldsAre, PushedIs, Zenon
  <2>2. 2 \in 1 .. 8
    OBVIOUS
  <2> QED
    BY <1>1, <1>2, <1>4, <2>1, <2>2, Zenon
<1>5. ASSUME k = "uvarint", item.v \in Nat PROVE RefusedRight(item)
  <2>1. Fields(item) = {<<8, item.v>>} /\ Pushed(item) = push_integer_uvarint(item.v)
    BY <1>5, FieldsAre, PushedIs, Zenon
  <2> QED
    BY <1>1, <1>5, <2>1, UvarintRefused, Zenon
<1>6. ASSUME k = "varstring", item.v \in SaneString PROVE RefusedRight(item)
  <2>1. Fields(item) = {<<8, Len(item.v)>>} /\ Pushed(item) = push_varstring(item.v)
    BY <1>6, FieldsAre, PushedIs, Zenon
  <2>2. item.v \in Seq(Octet)
    BY <1>6, TextsAre
  <2> QED
    BY <1>1, <2>1, <2>2, VarstringRefused, Zenon
<1>7. ASSUME k = "sizeoctets", item.v \in SaneString PROVE RefusedRight(item)
  <2>1. Fields(item) = {<<1, Len(item.v)>>} /\ Pushed(item) = push_bytes_sizeoctets(item.v)
    BY <1>7, FieldsAre, PushedIs, Zenon
  <2>2. item.v \in Seq(Octet)
    BY <1>7, TextsAre
  <2> QED
    BY <1>1, <2>1, <2>2, SizeoctetsRefused, Zenon
<1> QED
  BY <1>3, <1>4, <1>5, <1>6, <1>7, Zenon

\* And of one in several parts.
LEMMA SizedRefusedRight ==
  ASSUME NEW item, NEW s \in SaneString, NEW t \in SaneString
  PROVE  /\ item.kind \in {"vector", "map"} /\ item.v = <<>> => RefusedRight(item)
         /\ item.kind = "vector" /\ item.v = <<s, t>> => RefusedRight(item)
         /\ item.kind = "map" /\ item.v = << <<s, t>> >> => RefusedRight(item)
         /\ item.kind = "twice" /\ item.v = << <<s, t>>, <<s, s>> >> => RefusedRight(item)
<1> DEFINE k == item.kind
           u(n) == push_integer_uvarint(n)
           p == push_varstring(s)
           q == push_varstring(t)
<1>0. s \in Seq(Octet) /\ t \in Seq(Octet)
  BY TextsAre
<1>1. /\ Makes(p) /\ Makes(q)
      /\ p.ok <=> ~TooGreat(8, Len(s))
      /\ q.ok <=> ~TooGreat(8, Len(t))
  BY <1>0, VarstringRefused
<1>2. \A n \in Nat : Makes(u(n)) /\ (u(n).ok <=> ~TooGreat(8, n))
  BY UvarintMakes, UvarintRefused DEF UvarintIs
<1>3. ASSUME k \in {"vector", "map"}, item.v = <<>> PROVE RefusedRight(item)
  <2>1. Pushed(item) = u(0)
    <3>1. k = "vector" \/ k \in {"map", "twice"}
      BY <1>3
    <3>2. Pushed(item) = push_vector_string(<<>>) \/ Pushed(item) = push_map_object(<<>>)
      BY <1>3, <3>1, PushedIs, Zenon
    <3> QED
      BY <3>2, NoneRead
  <2>2. Fields(item) = SizedFields(<<>>, {})
    <3>1. k = "vector" \/ k \in {"map", "twice"}
      BY <1>3
    <3>2. Fields(item) = SizedFields(item.v, StringsOf(item.v)) \/ Fields(item) = SizedFields(item.v, PairStringsOf(item.v))
      BY <3>1, FieldsAre, Zenon
    <3>3. StringsOf(item.v) = {} /\ PairStringsOf(item.v) = {}
      BY <1>3, StringsAre
    <3> QED
      BY <1>3, <3>2, <3>3
  <2>3. Refusable(item) <=> TooGreat(8, 0) \/ \E x \in {} : TooGreat(8, Len(x))
    <3>1. \A w, y : y = {} => ((\E field \in SizedFields(w, y) : ~Supported(field) \/ Greatest(field))
                               <=> TooGreat(8, Len(w)) \/ \E x \in y : TooGreat(8, Len(x)))
      BY SizedRefused
    <3>2. Len(<<>>) = 0
      OBVIOUS
    <3> QED
      BY <2>2, <3>1, <3>2 DEF Refusable
  <2>4. u(0).ok <=> ~TooGreat(8, 0)
    BY <1>2
  <2> HIDE DEF u
  <2> QED
    BY <2>1, <2>3, <2>4, Zenon DEF RefusedRight
<1>4. ASSUME NEW n \in Nat, NEW v, Len(v) = n, Fields(item) = SizedFields(v, {s, t}),
             Pushed(item).ok <=> u(n).ok /\ p.ok /\ q.ok
      PROVE  RefusedRight(item)
  <2>1. Refusable(item) <=> TooGreat(8, n) \/ \E x \in {s, t} : TooGreat(8, Len(x))
    BY <1>4, SizedRefused DEF Refusable
  <2>2. (\E x \in {s, t} : TooGreat(8, Len(x))) <=> TooGreat(8, Len(s)) \/ TooGreat(8, Len(t))
    OBVIOUS
  <2>3. u(n).ok <=> ~TooGreat(8, n)
    BY <1>2
  <2> HIDE DEF u, p, q
  <2> QED
    BY <1>1, <1>4, <2>1, <2>2, <2>3, Zenon DEF RefusedRight
<1>5. ASSUME k = "vector", item.v = <<s, t>> PROVE RefusedRight(item)
  <2> DEFINE x == <<s, t>>
             up == Then(u(2), p)
  <2>1. Pushed(item) = push_vector_string(x) /\ Fields(item) = SizedFields(x, StringsOf(x))
    BY <1>5, PushedIs, FieldsAre, Zenon
  <2>2. Len(x) = 2 /\ StringsOf(x) = {s, t} /\ 2 \in Nat
    BY StringsAre
  <2>3. push_vector_string(x) = Then(up, q)
    <3>1. [i \in DOMAIN <<s, t>> |-> push_varstring(<<s, t>>[i])] = <<push_varstring(s), push_varstring(t)>>
      OBVIOUS
    <3> HIDE DEF up
    <3>2. push_vector_string(x) = Sized(<<p, q>>)
      BY <3>1 DEF push_vector_string
    <3> QED
      BY <1>1, <3>2, SizedIs DEF up
  <2>4. Makes(u(2))
    BY <1>2
  <2> HIDE DEF u, p, q, x
  <2>5. Makes(up) /\ (up.ok <=> u(2).ok /\ p.ok)
    BY <1>1, <2>4, ThenMakes, Zenon
  <2> HIDE DEF up
  <2>6. Then(up, q).ok <=> up.ok /\ q.ok
    BY <1>1, <2>5, ThenMakes, Zenon
  <2>7. Pushed(item).ok <=> u(2).ok /\ p.ok /\ q.ok
    BY <2>1, <2>3, <2>5, <2>6, Zenon
  <2>8. Fields(item) = SizedFields(x, {s, t})
    BY <2>1, <2>2, Zenon
  <2> QED
    BY <1>4, <2>2, <2>7, <2>8, Zenon
<1>6. Makes(Then(p, q)) /\ Makes(Then(p, p)) /\ (Then(p, q).ok <=> p.ok /\ q.ok) /\ (Then(p, p).ok <=> p.ok)
  <2> HIDE DEF p, q
  <2> QED
    BY <1>1, ThenMakes, Zenon
<1>7. ASSUME k = "map", item.v = << <<s, t>> >> PROVE RefusedRight(item)
  <2> DEFINE x == << <<s, t>> >>
             pq == Then(p, q)
  <2>0. k \in {"map", "twice"}
    BY <1>7
  <2>1. Pushed(item) = push_map_object(x) /\ Fields(item) = SizedFields(x, PairStringsOf(x))
    BY <1>7, <2>0, PushedIs, FieldsAre, Zenon
  <2>2. Len(x) = 1 /\ PairStringsOf(x) = {s, t} /\ 1 \in Nat
    BY StringsAre
  <2>3. push_map_object(x) = Then(u(1), pq)
    <3> DEFINE y == <<s, t>>
    <3>1. [i \in DOMAIN <<y>> |-> Then(push_varstring(<<y>>[i][1]), push_varstring(<<y>>[i][2]))]
          = << Then(push_varstring(y[1]), push_varstring(y[2])) >>
      <4> HIDE DEF y
      <4> QED
        OBVIOUS
    <3>2. y[1] = s /\ y[2] = t
      OBVIOUS
    <3>3. push_map_object(<<y>>) = Sized(<<pq>>)
      BY <3>1, <3>2 DEF push_map_object
    <3>4. Makes(pq)
      BY <1>6
    <3> HIDE DEF pq
    <3> QED
      BY <3>3, <3>4, SizedIs DEF y
  <2>4. Makes(u(1))
    BY <1>2
  <2>5. Makes(pq) /\ (pq.ok <=> p.ok /\ q.ok)
    BY <1>6
  <2> HIDE DEF u, p, q, x, pq
  <2>6. Then(u(1), pq).ok <=> u(1).ok /\ pq.ok
    BY <2>4, <2>5, ThenMakes, Zenon
  <2>7. Pushed(item).ok <=> u(1).ok /\ p.ok /\ q.ok
    BY <2>1, <2>3, <2>5, <2>6, Zenon
  <2>8. Fields(item) = SizedFields(x, {s, t})
    BY <2>1, <2>2, Zenon
  <2> QED
    BY <1>4, <2>2, <2>7, <2>8, Zenon
<1>8. ASSUME k = "twice", item.v = << <<s, t>>, <<s, s>> >> PROVE RefusedRight(item)
  <2> DEFINE x == << <<s, t>>, <<s, s>> >>
             pq == Then(p, q)
             pp == Then(p, p)
             upq == Then(u(2), pq)
  <2>0. k \in {"map", "twice"}
    BY <1>8
  <2>1. Pushed(item) = push_map_object(x) /\ Fields(item) = SizedFields(x, PairStringsOf(x))
    BY <1>8, <2>0, PushedIs, FieldsAre, Zenon
  <2>2. Len(x) = 2 /\ PairStringsOf(x) = {s, t} /\ 2 \in Nat
    BY StringsAre
  <2>3. push_map_object(x) = Then(upq, pp)
    <3> DEFINE y == <<s, t>>
               z == <<s, s>>
    <3>1. [i \in DOMAIN <<y, z>> |-> Then(push_varstring(<<y, z>>[i][1]), push_varstring(<<y, z>>[i][2]))]
          = << Then(push_varstring(y[1]), push_varstring(y[2])), Then(push_varstring(z[1]), push_varstring(z[2])) >>
      <4> HIDE DEF y, z
      <4> QED
        OBVIOUS
    <3>2. y[1] = s /\ y[2] = t /\ z[1] = s /\ z[2] = s
      OBVIOUS
    <3>3. push_map_object(<<y, z>>) = Sized(<<pq, pp>>)
      BY <3>1, <3>2 DEF push_map_object
    <3>4. Makes(pq) /\ Makes(pp)
      BY <1>6
    <3> HIDE DEF pq, pp
    <3> QED
      BY <3>3, <3>4, SizedIs DEF y, z
  <2>4. Makes(u(2))
    BY <1>2
  <2>5. Makes(pq) /\ (pq.ok <=> p.ok /\ q.ok) /\ Makes(pp) /\ (pp.ok <=> p.ok)
    BY <1>6
  <2> HIDE DEF u, p, q, x, pq, pp
  <2>6. Makes(upq) /\ (upq.ok <=> u(2).ok /\ pq.ok)
    BY <2>4, <2>5, ThenMakes, Zenon
  <2> HIDE DEF upq
  <2>7. Then(upq, pp).ok <=> upq.ok /\ pp.ok
    BY <2>5, <2>6, ThenMakes, Zenon
  <2>8. Pushed(item).ok <=> u(2).ok /\ p.ok /\ q.ok
    BY <2>1, <2>3, <2>5, <2>6, <2>7, Zenon
  <2>9. Fields(item) = SizedFields(x, {s, t})
    BY <2>1, <2>2, Zenon
  <2> QED
    BY <1>4, <2>2, <2>8, <2>9, Zenon
<1> HIDE DEF u, p, q
<1> QED
  BY <1>3, <1>5, <1>7, <1>8, Zenon

\* What is refused is what the fields do not take.
LEMMA Refusals == \A item \in Items \cup TwiceTheKey : Pushed(item).ok <=> ~Refusable(item)
<1> SUFFICES ASSUME NEW item \in Items \cup TwiceTheKey PROVE RefusedRight(item)
  BY DEF RefusedRight
<1>1. KindIs(item)
  BY KindsAre
<1>2. ASSUME item.kind \in {"vector", "map"}, item.v = <<>> PROVE RefusedRight(item)
  <2>1. <<>> \in SaneString
    BY SerializationConstants DEF SaneString
  <2> QED
    BY <1>2, <2>1, SizedRefusedRight, Zenon
<1>3. ASSUME item.kind = "vector", \E s, t \in SaneString : item.v = <<s, t>> PROVE RefusedRight(item)
  BY <1>3, SizedRefusedRight, Zenon
<1>4. ASSUME item.kind = "map", \E s, t \in SaneString : item.v = << <<s, t>> >> PROVE RefusedRight(item)
  BY <1>4, SizedRefusedRight, Zenon
<1>5. ASSUME item.kind = "twice", \E s, t \in SaneString : item.v = << <<s, t>>, <<s, s>> >> PROVE RefusedRight(item)
  BY <1>5, SizedRefusedRight, Zenon
<1> QED
  BY <1>1, <1>2, <1>3, <1>4, <1>5, SimpleRefused, Zenon DEF KindIs

-----------------------------------------------------------------------------
\* The string of the generator, value after value.

\* What may be pushed, and the octets of it.
AnyItem == Items \cup TwiceTheKey
OctetsOf(item) == Octets(Pushed(item))

\* The octets of it are octets.
LEMMA WordsAre == \A item \in AnyItem : Makes(Pushed(item)) /\ OctetsOf(item) \in Seq(Octet) /\ Len(OctetsOf(item)) \in Nat
<1> TAKE item \in AnyItem
<1>1. PopsBack(item)
  BY AllPopBack, Zenon DEF AnyItem
<1>2. Makes(Pushed(item))
  BY <1>1, Zenon DEF PopsBack
<1> QED
  BY <1>2, MadeOctets, Zenon DEF OctetsOf

\* A string holds the octets of w at a place, as far as it goes.
HoldsAt(str, now, w) == \A j \in 1 .. Len(w) : now + j <= Len(str) => str[now + j] = w[j]

\* The values begin at these places, one after the other, and the last place is the end.
Laid(str, items, at) ==
  /\ at \in [1 .. Len(items) + 1 -> Nat] /\ at[1] = 0
  /\ \A i \in 1 .. Len(items) + 1 : at[i] <= at[Len(items) + 1]
  /\ \A i \in 1 .. Len(items) : at[i + 1] = at[i] + Len(OctetsOf(items[i])) /\ HoldsAt(str, at[i], OctetsOf(items[i]))

\* So it is of none.
LEMMA LaidNone == \E at : Laid(<<>>, <<>>, at) /\ Len(<<>>) = at[Len(<<>>) + 1]
<1> DEFINE at == [i \in {1} |-> 0]
<1>1. Len(<<>>) = 0 /\ 1 .. Len(<<>>) + 1 = {1} /\ 1 .. Len(<<>>) = {} /\ Len(<<>>) + 1 = 1
  BY EmptySeq
<1>2. Laid(<<>>, <<>>, at)
  BY <1>1 DEF Laid
<1>3. at[1] = 0
  OBVIOUS
<1> QED
  BY <1>1, <1>2, <1>3

\* And of one more.
LEMMA LaidMore ==
  ASSUME NEW str \in Seq(Octet), NEW items \in Seq(AnyItem), NEW item \in AnyItem, NEW at,
         Laid(str, items, at), Len(str) = at[Len(items) + 1]
  PROVE  \E at2 : /\ Laid(str \o OctetsOf(item), Append(items, item), at2)
                  /\ Len(str \o OctetsOf(item)) = at2[Len(Append(items, item)) + 1]
<1> DEFINE n == Len(items)
           w == OctetsOf(item)
           m == Len(w)
           L == Len(str)
           str2 == str \o w
           items2 == Append(items, item)
           at2 == [i \in 1 .. n + 2 |-> IF i = n + 2 THEN at[n + 1] + m ELSE at[i]]
           S == Octet
           T == AnyItem
           W(x) == OctetsOf(x)
<1>1. w \in Seq(S) /\ m \in Nat /\ n \in Nat /\ L \in Nat
  <2>1. OctetsOf(item) \in Seq(Octet) /\ Len(OctetsOf(item)) \in Nat
    BY WordsAre, Zenon
  <2> QED
    BY <2>1, LenProperties
<1>2. /\ at \in [1 .. n + 1 -> Nat] /\ at[1] = 0 /\ L = at[n + 1]
      /\ \A i \in 1 .. n + 1 : at[i] <= at[n + 1]
      /\ \A i \in 1 .. n : at[i + 1] = at[i] + Len(W(items[i])) /\ HoldsAt(str, at[i], W(items[i]))
  BY Zenon DEF Laid
<1>3. \A i \in 1 .. n : items[i] \in T /\ Len(W(items[i])) \in Nat
  <2> SUFFICES ASSUME NEW i \in 1 .. n PROVE items[i] \in T /\ Len(W(items[i])) \in Nat
    OBVIOUS
  <2>1. items[i] \in T
    BY ElementOfSeq
  <2> QED
    BY <2>1, WordsAre, Zenon
<1> HIDE DEF S, T
<1>4. items \in Seq(T) /\ item \in T /\ str \in Seq(S)
  BY DEF S, T
<1> HIDE DEF w, W
<1>5. Len(items2) = n + 1 /\ (\A i \in 1 .. n : items2[i] = items[i]) /\ items2[n + 1] = item
  BY <1>4, AppendProperties
<1>6. /\ Len(str2) = L + m /\ (\A i \in 1 .. L : str2[i] = str[i])
      /\ \A j \in 1 .. m : str2[L + j] = w[j]
  <2>1. Len(str2) = L + m /\ \A i \in 1 .. L + m : str2[i] = IF i <= L THEN str[i] ELSE w[i - L]
    BY <1>1, <1>4, ConcatProperties
  <2> HIDE DEF str2, m, L
  <2>2. ASSUME NEW i \in 1 .. L PROVE str2[i] = str[i]
    <3>1. i \in 1 .. L + m /\ i <= L
      BY <1>1
    <3> QED
      BY <2>1, <3>1
  <2>3. ASSUME NEW j \in 1 .. m PROVE str2[L + j] = w[j]
    <3>1. L + j \in 1 .. L + m /\ ~(L + j <= L) /\ (L + j) - L = j
      BY <1>1
    <3> QED
      BY <2>1, <3>1
  <2> QED
    BY <2>1, <2>2, <2>3
<1> HIDE DEF n, m, L, str2, items2
<1>7. \A i \in 1 .. n + 1 : at2[i] = at[i] /\ at[i] \in Nat
  <2> SUFFICES ASSUME NEW i \in 1 .. n + 1 PROVE at2[i] = at[i] /\ at[i] \in Nat
    OBVIOUS
  <2>1. i \in 1 .. n + 2 /\ i # n + 2
    BY <1>1
  <2> QED
    BY <1>2, <2>1
<1>8. at2[n + 2] = at[n + 1] + m /\ at[n + 1] \in Nat /\ at2[1] = 0 /\ n + 2 \in 1 .. n + 2 /\ 1 \in 1 .. n + 1
  BY <1>1, <1>2, <1>7
<1>9. at2 \in [1 .. (n + 1) + 1 -> Nat]
  <2>1. (n + 1) + 1 = n + 2
    BY <1>1
  <2>2. ASSUME NEW i \in 1 .. n + 2 PROVE (IF i = n + 2 THEN at[n + 1] + m ELSE at[i]) \in Nat
    <3>1. CASE i = n + 2
      BY <1>1, <1>8, <3>1
    <3>2. CASE i # n + 2
      <4>1. i \in 1 .. n + 1
        BY <1>1, <3>2
      <4> QED
        BY <1>7, <3>2, <4>1
    <3> QED
      BY <3>1, <3>2
  <2>3. at2 \in [1 .. n + 2 -> Nat]
    BY <2>2
  <2> HIDE DEF at2
  <2> QED
    BY <2>1, <2>3
<1> HIDE DEF at2
<1>10. \A i \in 1 .. (n + 1) + 1 : at2[i] <= at2[(n + 1) + 1]
  <2> SUFFICES ASSUME NEW i \in 1 .. n + 2 PROVE at2[i] <= at2[n + 2]
    BY <1>1
  <2>1. CASE i = n + 2
    <3>1. at2[n + 2] \in Nat
      BY <1>1, <1>8
    <3> QED
      BY <2>1, <3>1
  <2>2. CASE i # n + 2
    <3>1. i \in 1 .. n + 1
      BY <1>1, <2>2
    <3>2. at2[i] = at[i] /\ at[i] \in Nat /\ at[i] <= at[n + 1]
      BY <1>2, <1>7, <3>1
    <3> QED
      BY <1>1, <1>8, <3>2
  <2> QED
    BY <2>1, <2>2
<1>11. ASSUME NEW i \in 1 .. n + 1
       PROVE  at2[i + 1] = at2[i] + Len(W(items2[i])) /\ HoldsAt(str2, at2[i], W(items2[i]))
  <2>1. CASE i = n + 1
    <3>1. W(items2[i]) = w /\ i + 1 = n + 2 /\ at2[i] = L
      <4>1. i + 1 = n + 2
        BY <1>1, <2>1
      <4> QED
        BY <1>2, <1>5, <1>7, <2>1, <4>1 DEF W, w
    <3>2. HoldsAt(str2, L, w)
      BY <1>6 DEF HoldsAt, m
    <3>3. at2[i + 1] = at2[i] + m
      BY <1>2, <1>8, <3>1
    <3> QED
      BY <3>1, <3>2, <3>3 DEF m
  <2>2. CASE i # n + 1
    <3>1. i \in 1 .. n /\ i + 1 \in 1 .. n + 1
      BY <1>1, <2>2
    <3> DEFINE x == W(items[i])
               l == Len(x)
    <3>2. items2[i] = items[i] /\ at2[i + 1] = at[i + 1] /\ at2[i] = at[i] /\ at[i] \in Nat /\ at[i + 1] \in Nat
      BY <1>5, <1>7, <3>1
    <3>3. at[i + 1] = at[i] + l /\ HoldsAt(str, at[i], x) /\ at[i + 1] <= L /\ l \in Nat
      BY <1>2, <1>3, <3>1
    <3> HIDE DEF x
    <3>4. ASSUME NEW j \in 1 .. l PROVE str2[at[i] + j] = x[j]
      <4>1. at[i] + j \in 1 .. L
        BY <1>1, <3>2, <3>3
      <4>2. at[i] + j <= Len(str)
        BY <1>1, <4>1 DEF L
      <4> QED
        BY <1>6, <3>3, <4>1, <4>2 DEF HoldsAt
    <3> QED
      BY <3>2, <3>3, <3>4 DEF HoldsAt, x
  <2> QED
    BY <2>1, <2>2
<1>12. Laid(str2, items2, at2)
  BY <1>5, <1>8, <1>9, <1>10, <1>11 DEF Laid, W
<1>13. Len(str2) = at2[Len(items2) + 1]
  <2>1. (n + 1) + 1 = n + 2
    BY <1>1
  <2> QED
    BY <1>2, <1>5, <1>6, <1>8, <2>1
<1> QED
  BY <1>12, <1>13 DEF str2, items2, w

\* And of the beginning of the string.
LEMMA LaidCut ==
  ASSUME NEW str \in Seq(Octet), NEW items \in Seq(AnyItem), NEW at, Laid(str, items, at), NEW n \in 1 .. Len(str)
  PROVE  Laid(SubSeq(str, 1, n), items, at) /\ SubSeq(str, 1, n) \in Seq(Octet) /\ Len(SubSeq(str, 1, n)) = n
<1> DEFINE S == Octet
           t == SubSeq(str, 1, n)
<1>1. Len(str) \in Nat /\ str \in Seq(S)
  BY LenProperties
<1> HIDE DEF S
<1>2. t \in Seq(S) /\ Len(t) = n /\ \A i \in 1 .. n : t[i] = str[i]
  <2>1. 1 \in 1 .. Len(str) + 1 /\ n \in 0 .. Len(str) /\ n \in Nat
    BY <1>1
  <2>2. /\ t \in Seq(S) /\ Len(t) = IF 1 <= n THEN n - 1 + 1 ELSE 0
        /\ \A i \in 1 .. n - 1 + 1 : t[i] = str[1 + i - 1]
    BY <1>1, <2>1, SubSeqProperties
  <2> HIDE DEF t
  <2>3. n - 1 + 1 = n /\ 1 <= n
    BY <2>1
  <2>4. \A i \in 1 .. n : 1 + i - 1 = i
    OBVIOUS
  <2> QED
    BY <2>2, <2>3, <2>4
<1> HIDE DEF t
<1>3. ASSUME NEW now \in Nat, NEW w, Len(w) \in Nat, HoldsAt(str, now, w) PROVE HoldsAt(t, now, w)
  <2> SUFFICES ASSUME NEW j \in 1 .. Len(w), now + j <= Len(t) PROVE t[now + j] = w[j]
    BY DEF HoldsAt
  <2>1. now + j \in 1 .. n /\ now + j <= Len(str)
    BY <1>1, <1>2, <1>3
  <2> QED
    BY <1>2, <1>3, <2>1 DEF HoldsAt
<1>4. ASSUME NEW i \in 1 .. Len(items) PROVE HoldsAt(t, at[i], OctetsOf(items[i]))
  <2>1. items[i] \in AnyItem
    BY ElementOfSeq
  <2>2. Len(OctetsOf(items[i])) \in Nat
    BY <2>1, WordsAre, Zenon
  <2>3. i \in 1 .. Len(items) + 1
    BY LenProperties
  <2>4. at[i] \in Nat
    BY <2>3 DEF Laid
  <2>5. HoldsAt(str, at[i], OctetsOf(items[i]))
    BY DEF Laid
  <2> QED
    BY <1>3, <2>2, <2>4, <2>5
<1>5. Laid(t, items, at)
  BY <1>4 DEF Laid
<1> QED
  BY <1>2, <1>5 DEF t, S

-----------------------------------------------------------------------------
\* The generator and the parser.

\* What a value that was pushed is popped as.
Popping == {item.v : item \in AnyItem}

\* Before anything is read the generator holds all that was pushed, value after value, unless
\* the last was refused.
WrittenInv ==
  /\ stage \in {"push", "refused"} => popped = <<>> /\ m_data_now = 0 /\ cut = FALSE
  /\ stage = "push" => /\ \A i \in 1 .. Len(pushed) : Pushed(pushed[i]).ok
                       /\ \E at : Laid(m_str, pushed, at) /\ Len(m_str) = at[Len(pushed) + 1]
  /\ stage = "refused" => Len(pushed) # 0 /\ ~Pushed(pushed[Len(pushed)]).ok

\* What arrived is the beginning of it, and the parser stands at the next value.
ParserAt(at) ==
  /\ Laid(m_str, pushed, at) /\ Len(m_str) <= at[Len(pushed) + 1]
  /\ cut <=> Len(m_str) < at[Len(pushed) + 1]
  /\ stage # "thrown" => m_data_now = at[Len(popped) + 1]

\* What was popped is what was pushed.
ReadInv ==
  /\ \A i \in 1 .. Len(popped) : popped[i] = pushed[i].v /\ pushed[i].kind # "twice"
  /\ stage \in {"parse", "thrown", "done"} => /\ \A i \in 1 .. Len(pushed) : Pushed(pushed[i]).ok
                                              /\ \E at : ParserAt(at)
  /\ stage = "parse" => Len(popped) < Len(pushed)
  /\ stage = "done" => Len(popped) = Len(pushed)
  /\ stage = "thrown" => cut \/ pushed[Len(popped) + 1].kind = "twice"

\* The types the other parts rest on.
SerialTypes ==
  /\ m_str \in Seq(Octet) /\ pushed \in Seq(AnyItem) /\ popped \in Seq(Popping)
  /\ stage \in {"push", "refused", "parse", "thrown", "done"} /\ cut \in BOOLEAN
  /\ m_data_now \in 0 .. Len(m_str) /\ Len(pushed) <= MaxPushed /\ Len(popped) <= Len(pushed)

SerialInv == SerialTypes /\ WrittenInv /\ ReadInv

\* It holds of an empty generator.
LEMMA SerialStarts == SerialInit => SerialInv
<1> SUFFICES ASSUME SerialInit PROVE SerialInv
  OBVIOUS
<1>1. /\ m_str = <<>> /\ pushed = <<>> /\ stage = "push" /\ cut = FALSE /\ m_data_now = 0 /\ popped = <<>>
  BY DEF SerialInit
<1>2. <<>> \in Seq(Octet) /\ <<>> \in Seq(AnyItem) /\ <<>> \in Seq(Popping) /\ Len(<<>>) = 0 /\ 1 .. Len(<<>>) = {}
  BY EmptySeq
<1>3. MaxPushed \in Nat
  BY SerializationConstants
<1>4. SerialTypes
  <2>1. 0 \in 0 .. Len(m_str) /\ Len(pushed) <= MaxPushed /\ Len(popped) <= Len(pushed)
    BY <1>1, <1>2, <1>3
  <2>2. cut \in BOOLEAN /\ stage \in {"push", "refused", "parse", "thrown", "done"}
    BY <1>1
  <2>3. m_str \in Seq(Octet) /\ pushed \in Seq(AnyItem) /\ popped \in Seq(Popping) /\ m_data_now = 0
    BY <1>1, <1>2
  <2> HIDE DEF Popping
  <2> QED
    BY <2>1, <2>2, <2>3, Zenon DEF SerialTypes
<1>5. WrittenInv
  <2>1. \E at : Laid(m_str, pushed, at) /\ Len(m_str) = at[Len(pushed) + 1]
    BY <1>1, LaidNone
  <2> QED
    BY <1>1, <1>2, <2>1 DEF WrittenInv
<1>6. ReadInv
  BY <1>1, <1>2 DEF ReadInv
<1> QED
  BY <1>4, <1>5, <1>6 DEF SerialInv

\* A push keeps it.
LEMMA PushKeeps == SerialInv /\ Push => SerialInv'
<1> SUFFICES ASSUME SerialInv, Push PROVE SerialInv'
  OBVIOUS
<1>1. PICK item \in AnyItem :
        /\ m_str' = m_str \o OctetsOf(item) /\ pushed' = Append(pushed, item)
        /\ stage' = IF Pushed(item).ok THEN "push" ELSE "refused"
        /\ UNCHANGED <<cut, m_data_now, popped>>
  BY Zenon DEF Push, AnyItem, OctetsOf, Octets
<1>2. stage = "push" /\ Len(pushed) < MaxPushed
  BY DEF Push
<1>3. SerialTypes /\ WrittenInv /\ ReadInv
  BY DEF SerialInv
<1>4. popped = <<>> /\ m_data_now = 0 /\ cut = FALSE /\ Len(popped) = 0
  <2>1. Len(<<>>) = 0
    OBVIOUS
  <2> QED
    BY <1>2, <1>3, <2>1 DEF WrittenInv
<1>5. m_str' \in Seq(Octet) /\ pushed' \in Seq(AnyItem) /\ Len(pushed') = Len(pushed) + 1
      /\ Len(pushed) \in Nat /\ Len(m_str') \in Nat
      /\ (\A i \in 1 .. Len(pushed) : pushed'[i] = pushed[i]) /\ pushed'[Len(pushed) + 1] = item
  <2> DEFINE S == Octet
             T == AnyItem
             w == OctetsOf(item)
  <2>1. m_str \in Seq(S) /\ w \in Seq(S) /\ pushed \in Seq(T) /\ item \in T
    BY <1>3, WordsAre, Zenon DEF SerialTypes
  <2> HIDE DEF S, T, w
  <2>2. m_str \o w \in Seq(S)
    BY <2>1, ConcatProperties
  <2>3. /\ Append(pushed, item) \in Seq(T) /\ Len(Append(pushed, item)) = Len(pushed) + 1
        /\ \A i \in 1 .. Len(pushed) : Append(pushed, item)[i] = pushed[i]
        /\ Append(pushed, item)[Len(pushed) + 1] = item
    BY <2>1, AppendProperties
  <2>4. Len(pushed) \in Nat /\ Len(m_str \o w) \in Nat
    BY <2>1, <2>2, LenProperties
  <2> QED
    BY <1>1, <2>2, <2>3, <2>4 DEF S, T, w
<1>6. SerialTypes'
  <2>1. Len(pushed') <= MaxPushed /\ 0 <= Len(pushed') /\ 0 \in 0 .. Len(m_str')
    BY <1>2, <1>5, SerializationConstants
  <2>2. <<>> \in Seq(Popping)
    OBVIOUS
  <2>3. popped' = <<>> /\ m_data_now' = 0 /\ cut' = FALSE /\ Len(popped') = 0
    BY <1>1, <1>4
  <2>4. stage' \in {"push", "refused"}
    BY <1>1
  <2> QED
    BY <1>5, <2>1, <2>2, <2>3, <2>4 DEF SerialTypes
<1>7. WrittenInv'
  <2>1. ASSUME Pushed(item).ok
        PROVE  /\ \A i \in 1 .. Len(pushed') : Pushed(pushed'[i]).ok
               /\ \E at : Laid(m_str', pushed', at) /\ Len(m_str') = at[Len(pushed') + 1]
    <3>1. ASSUME NEW i \in 1 .. Len(pushed') PROVE Pushed(pushed'[i]).ok
      <4>1. CASE i = Len(pushed) + 1
        BY <1>5, <2>1, <4>1
      <4>2. CASE i # Len(pushed) + 1
        <5>1. i \in 1 .. Len(pushed)
          BY <1>5, <4>2
        <5> QED
          BY <1>2, <1>3, <1>5, <5>1 DEF WrittenInv
      <4> QED
        BY <4>1, <4>2
    <3>2. PICK at : Laid(m_str, pushed, at) /\ Len(m_str) = at[Len(pushed) + 1]
      BY <1>2, <1>3 DEF WrittenInv
    <3>3. m_str \in Seq(Octet) /\ pushed \in Seq(AnyItem)
      BY <1>3 DEF SerialTypes
    <3>4. \E at2 : /\ Laid(m_str \o OctetsOf(item), Append(pushed, item), at2)
                   /\ Len(m_str \o OctetsOf(item)) = at2[Len(Append(pushed, item)) + 1]
      BY <3>2, <3>3, LaidMore
    <3> QED
      BY <1>1, <3>1, <3>4
  <2>2. stage' = "push" => Pushed(item).ok
    BY <1>1
  <2>3. popped' = <<>> /\ m_data_now' = 0 /\ cut' = FALSE
    BY <1>1, <1>4
  <2>4. stage' = "refused" => Len(pushed') # 0 /\ ~Pushed(pushed'[Len(pushed')]).ok
    <3>1. stage' = "refused" => ~Pushed(item).ok
      BY <1>1
    <3>2. Len(pushed') # 0 /\ pushed'[Len(pushed')] = item
      BY <1>5
    <3> QED
      BY <3>1, <3>2
  <2> QED
    BY <2>1, <2>2, <2>3, <2>4, Zenon DEF WrittenInv
<1>8. ReadInv'
  <2>1. 1 .. Len(popped') = {}
    BY <1>1, <1>4
  <2>2. stage' \notin {"parse", "thrown", "done"}
    BY <1>1
  <2> QED
    BY <2>1, <2>2 DEF ReadInv
<1> QED
  BY <1>6, <1>7, <1>8 DEF SerialInv

\* What arrives keeps it.
LEMMA ArriveKeeps == SerialInv /\ Arrive => SerialInv'
<1> SUFFICES ASSUME SerialInv, Arrive PROVE SerialInv'
  OBVIOUS
<1>1. PICK n \in 1 .. Len(m_str) : m_str' = SubSeq(m_str, 1, n) /\ cut' = (n < Len(m_str))
  BY Zenon DEF Arrive
<1>2. stage = "push" /\ pushed # <<>> /\ stage' = "parse" /\ UNCHANGED <<pushed, m_data_now, popped>>
  BY DEF Arrive
<1>3. SerialTypes /\ WrittenInv /\ ReadInv
  BY DEF SerialInv
<1>4. popped = <<>> /\ m_data_now = 0 /\ Len(popped) = 0
  <2>1. Len(<<>>) = 0
    OBVIOUS
  <2> QED
    BY <1>2, <1>3, <2>1 DEF WrittenInv
<1>5. PICK at : Laid(m_str, pushed, at) /\ Len(m_str) = at[Len(pushed) + 1]
  BY <1>2, <1>3 DEF WrittenInv
<1>6. m_str \in Seq(Octet) /\ pushed \in Seq(AnyItem) /\ Len(m_str) \in Nat /\ Len(pushed) \in Nat
  <2>1. m_str \in Seq(Octet) /\ pushed \in Seq(AnyItem)
    BY <1>3 DEF SerialTypes
  <2> QED
    BY <2>1, LenProperties
<1>7. Laid(m_str', pushed, at) /\ m_str' \in Seq(Octet) /\ Len(m_str') = n
  BY <1>1, <1>5, <1>6, LaidCut
<1>8. n <= Len(m_str) /\ n \in Nat /\ n >= 1
  BY <1>6
<1>9. SerialTypes'
  <2>1. cut' \in BOOLEAN
    BY <1>1
  <2>2. 0 \in 0 .. Len(m_str')
    BY <1>7, <1>8
  <2> QED
    BY <1>2, <1>3, <1>4, <1>7, <2>1, <2>2 DEF SerialTypes
<1>10. WrittenInv'
  BY <1>2 DEF WrittenInv
<1>11. ReadInv'
  <2>1. at[1] = 0
    BY <1>5 DEF Laid
  <2>2. Len(popped) + 1 = 1
    BY <1>4
  <2>3. Laid(m_str', pushed', at) /\ Len(m_str') <= at[Len(pushed') + 1]
    BY <1>2, <1>5, <1>7, <1>8
  <2>4. cut' <=> Len(m_str') < at[Len(pushed') + 1]
    <3>1. cut' <=> n < Len(m_str)
      BY <1>1
    <3>2. Len(m_str') = n /\ at[Len(pushed') + 1] = Len(m_str)
      BY <1>2, <1>5, <1>7
    <3> QED
      BY <3>1, <3>2
  <2>5. m_data_now' = at[Len(popped') + 1]
    BY <1>2, <1>4, <2>1, <2>2
  <2>6. \E at2 : ParserAt(at2)'
    BY <2>3, <2>4, <2>5, Zenon DEF ParserAt
  <2>7. \A i \in 1 .. Len(pushed') : Pushed(pushed'[i]).ok
    BY <1>2, <1>3 DEF WrittenInv
  <2>8. Len(popped') < Len(pushed')
    <3>1. Len(pushed) # 0
      BY <1>2, <1>6, EmptySeq
    <3> QED
      BY <1>2, <1>4, <1>6, <3>1
  <2>9. 1 .. Len(popped') = {}
    BY <1>2, <1>4
  <2>10. stage' # "done" /\ stage' # "thrown"
    BY <1>2
  <2> QED
    BY <2>6, <2>7, <2>8, <2>9, <2>10 DEF ReadInv
<1> QED
  BY <1>9, <1>10, <1>11 DEF SerialInv

\* A pop keeps it.
LEMMA PopKeeps == SerialInv /\ Pop => SerialInv'
<1> SUFFICES ASSUME SerialInv, Pop PROVE SerialInv'
  OBVIOUS
<1> DEFINE i == Len(popped) + 1
           item == pushed[i]
           got == Popped(item.kind, m_data_now)
           w == OctetsOf(item)
<1>1. /\ stage = "parse" /\ m_data_now' = got.now
      /\ popped' = IF got.ok THEN Append(popped, got.v) ELSE popped
      /\ stage' = CASE ~got.ok -> "thrown"
                    [] got.ok /\ Len(popped) + 1 = Len(pushed) -> "done"
                    [] OTHER -> "parse"
      /\ UNCHANGED <<m_str, pushed, cut>>
  BY Zenon DEF Pop
<1>2. SerialTypes /\ ReadInv
  BY DEF SerialInv
<1>3. /\ m_str \in Seq(Octet) /\ pushed \in Seq(AnyItem) /\ popped \in Seq(Popping)
      /\ m_data_now \in 0 .. Len(m_str) /\ Len(m_str) \in Nat /\ Len(pushed) \in Nat /\ Len(popped) \in Nat
      /\ cut \in BOOLEAN /\ Len(pushed) <= MaxPushed
  <2>1. /\ m_str \in Seq(Octet) /\ pushed \in Seq(AnyItem) /\ popped \in Seq(Popping)
        /\ m_data_now \in 0 .. Len(m_str) /\ cut \in BOOLEAN /\ Len(pushed) <= MaxPushed
    BY <1>2, Zenon DEF SerialTypes
  <2> QED
    BY <2>1, LenProperties
<1>4. i \in 1 .. Len(pushed) /\ i \in 1 .. Len(pushed) + 1 /\ i + 1 \in 1 .. Len(pushed) + 1 /\ i \in Nat
  <2>1. Len(popped) < Len(pushed)
    BY <1>1, <1>2 DEF ReadInv
  <2> QED
    BY <1>3, <2>1
<1>5. item \in AnyItem /\ Pushed(item).ok
  <2>1. item \in AnyItem
    <3> HIDE DEF i
    <3> QED
      BY <1>3, <1>4, ElementOfSeq
  <2>2. Pushed(item).ok
    <3>1. \A j \in 1 .. Len(pushed) : Pushed(pushed[j]).ok
      BY <1>1, <1>2 DEF ReadInv
    <3> HIDE DEF i
    <3> QED
      BY <1>4, <3>1
  <2> QED
    BY <2>1, <2>2
<1>6. PICK at : ParserAt(at)
  BY <1>1, <1>2 DEF ReadInv
<1> HIDE DEF i
<1>7. /\ at[i] \in Nat /\ at[i + 1] = at[i] + Len(w) /\ HoldsAt(m_str, at[i], w) /\ m_data_now = at[i]
      /\ at[i + 1] <= at[Len(pushed) + 1] /\ at[Len(pushed) + 1] \in Nat /\ Len(w) \in Nat
  <2>1. at \in [1 .. Len(pushed) + 1 -> Nat] /\ \A j \in 1 .. Len(pushed) + 1 : at[j] <= at[Len(pushed) + 1]
    BY <1>6, Zenon DEF ParserAt, Laid
  <2>2. \A j \in 1 .. Len(pushed) : at[j + 1] = at[j] + Len(OctetsOf(pushed[j])) /\ HoldsAt(m_str, at[j], OctetsOf(pushed[j]))
    BY <1>6, Zenon DEF ParserAt, Laid
  <2>3. m_data_now = at[i]
    BY <1>1, <1>6 DEF ParserAt, i
  <2>4. Len(w) \in Nat
    BY <1>5, WordsAre, Zenon
  <2>5. Len(pushed) + 1 \in 1 .. Len(pushed) + 1
    BY <1>3
  <2> HIDE DEF w
  <2>6. at[i + 1] = at[i] + Len(w) /\ HoldsAt(m_str, at[i], w)
    BY <1>4, <2>2 DEF w
  <2> QED
    BY <1>4, <2>1, <2>3, <2>4, <2>5, <2>6
<1>8. IF item.kind = "twice" THEN ThrowsHere(got) ELSE ReadsAs(got, item.v, m_data_now, Len(w))
  <2>1. PopsBack(item)
    BY <1>5, AllPopBack, Zenon DEF AnyItem
  <2>2. Agrees(m_data_now, w)
    BY <1>7 DEF Agrees, HoldsAt
  <2> HIDE DEF item
  <2> QED
    BY <1>3, <1>5, <2>1, <2>2, Zenon DEF PopsBack, OctetsOf, Octets
<1> HIDE DEF got, w, item
<1>9. \/ ThrowsHere(got) /\ ~got.ok /\ (item.kind = "twice" \/ Len(m_str) < at[i + 1])
      \/ /\ got = Got(item.v, at[i + 1]) /\ got.ok /\ got.v = item.v /\ got.now = at[i + 1] /\ item.kind # "twice"
         /\ at[i + 1] <= Len(m_str)
  <2>1. ASSUME ThrowsHere(got) PROVE ~got.ok
    BY <2>1 DEF ThrowsHere
  <2>2. CASE item.kind = "twice"
    BY <1>8, <2>1, <2>2
  <2>3. CASE item.kind # "twice" /\ m_data_now + Len(w) <= Len(m_str)
    <3>1. got = Got(item.v, at[i + 1])
      BY <1>7, <1>8, <2>3 DEF ReadsAs
    <3>2. got.ok /\ got.v = item.v /\ got.now = at[i + 1]
      BY <3>1 DEF Got
    <3> QED
      BY <1>7, <2>3, <3>1, <3>2
  <2>4. CASE item.kind # "twice" /\ ~(m_data_now + Len(w) <= Len(m_str))
    <3>1. ThrowsHere(got)
      BY <1>8, <2>4, Zenon DEF ReadsAs
    <3>2. Len(m_str) < at[i + 1]
      BY <1>3, <1>7, <2>4
    <3> QED
      BY <2>1, <3>1, <3>2
  <2> QED
    BY <2>2, <2>3, <2>4
<1>10. WrittenInv' /\ stage' \in {"parse", "thrown", "done"}
  <2>1. stage' \in {"parse", "thrown", "done"}
    BY <1>1
  <2> QED
    BY <2>1 DEF WrittenInv
<1>11. CASE ThrowsHere(got) /\ ~got.ok /\ (item.kind = "twice" \/ Len(m_str) < at[i + 1])
  <2>1. stage' = "thrown" /\ popped' = popped /\ m_data_now' \in 0 .. Len(m_str) /\ UNCHANGED <<m_str, pushed, cut>>
    <3>1. got.now \in 0 .. Len(m_str)
      BY <1>11 DEF ThrowsHere
    <3>2. stage' = "thrown" /\ popped' = popped
      BY <1>1, <1>11, Zenon
    <3> QED
      BY <1>1, <3>1, <3>2
  <2>2. SerialTypes'
    BY <1>2, <1>3, <2>1 DEF SerialTypes
  <2>3. ParserAt(at)'
    BY <1>6, <2>1 DEF ParserAt
  <2>4. cut \/ pushed[Len(popped) + 1].kind = "twice"
    <3>1. CASE Len(m_str) < at[i + 1]
      <4>1. Len(m_str) < at[Len(pushed) + 1]
        BY <1>3, <1>7, <3>1
      <4> QED
        BY <1>6, <4>1 DEF ParserAt
    <3>2. CASE item.kind = "twice"
      BY <3>2 DEF item, i
    <3> QED
      BY <1>11, <3>1, <3>2
  <2>5. ReadInv'
    <3>1. \A j \in 1 .. Len(popped) : popped[j] = pushed[j].v /\ pushed[j].kind # "twice"
      BY <1>2 DEF ReadInv
    <3>2. \A j \in 1 .. Len(pushed) : Pushed(pushed[j]).ok
      BY <1>1, <1>2 DEF ReadInv
    <3> QED
      BY <2>1, <2>3, <2>4, <3>1, <3>2 DEF ReadInv
  <2> QED
    BY <1>10, <2>2, <2>5 DEF SerialInv
<1>12. CASE /\ got = Got(item.v, at[i + 1]) /\ got.ok /\ got.v = item.v /\ got.now = at[i + 1] /\ item.kind # "twice"
            /\ at[i + 1] <= Len(m_str)
  <2>1. /\ popped' = Append(popped, item.v) /\ m_data_now' = at[i + 1] /\ UNCHANGED <<m_str, pushed, cut>>
        /\ (i = Len(pushed) => stage' = "done") /\ (i # Len(pushed) => stage' = "parse")
    <3>1. popped' = Append(popped, item.v) /\ m_data_now' = at[i + 1]
      BY <1>1, <1>12, Zenon
    <3>2. (i = Len(pushed) => stage' = "done") /\ (i # Len(pushed) => stage' = "parse")
      BY <1>1, <1>12, Zenon DEF i
    <3> QED
      BY <1>1, <3>1, <3>2
  <2>2. /\ popped' \in Seq(Popping) /\ Len(popped') = i /\ popped'[i] = item.v
        /\ \A j \in 1 .. Len(popped) : popped'[j] = popped[j]
    <3> DEFINE S == Popping
               v == item.v
    <3>1. popped \in Seq(S) /\ v \in S
      BY <1>3, <1>5 DEF Popping
    <3> HIDE DEF S, v
    <3>2. /\ Append(popped, v) \in Seq(S) /\ Len(Append(popped, v)) = Len(popped) + 1
          /\ \A j \in 1 .. Len(popped) : Append(popped, v)[j] = popped[j]
          /\ Append(popped, v)[Len(popped) + 1] = v
      BY <3>1, AppendProperties
    <3> QED
      BY <2>1, <3>2 DEF S, v, i
  <2>3. SerialTypes'
    <3>1. at[i + 1] \in 0 .. Len(m_str) /\ i <= Len(pushed)
      BY <1>3, <1>4, <1>7, <1>12
    <3>2. stage' \in {"push", "refused", "parse", "thrown", "done"}
      BY <1>10
    <3> QED
      BY <1>3, <2>1, <2>2, <3>1, <3>2 DEF SerialTypes
  <2>4. ParserAt(at)'
    BY <1>6, <2>1, <2>2 DEF ParserAt
  <2>5. \A j \in 1 .. Len(popped') : popped'[j] = pushed'[j].v /\ pushed'[j].kind # "twice"
    <3> SUFFICES ASSUME NEW j \in 1 .. i PROVE popped'[j] = pushed[j].v /\ pushed[j].kind # "twice"
      BY <2>1, <2>2
    <3>1. CASE j = i
      BY <1>12, <2>2, <3>1 DEF item
    <3>2. CASE j # i
      <4>1. j \in 1 .. Len(popped)
        BY <1>3, <3>2 DEF i
      <4> QED
        BY <1>2, <2>2, <4>1 DEF ReadInv
    <3> QED
      BY <3>1, <3>2
  <2>6. ReadInv'
    <3>1. \A j \in 1 .. Len(pushed') : Pushed(pushed'[j]).ok
      BY <1>1, <1>2, <2>1 DEF ReadInv
    <3>2. /\ stage' = "parse" => Len(popped') < Len(pushed')
          /\ stage' = "done" => Len(popped') = Len(pushed')
          /\ stage' # "thrown"
      BY <1>3, <1>4, <2>1, <2>2
    <3> QED
      BY <2>4, <2>5, <3>1, <3>2, Zenon DEF ReadInv
  <2> QED
    BY <1>10, <2>3, <2>6 DEF SerialInv
<1> QED
  BY <1>9, <1>11, <1>12

\* A push is refused exactly when a number or a length is the greatest that the header promises
\* or more; whatever else is pushed is popped as it was, in order, and the whole string has then
\* been read; the parser throws only when the string was cut short or a map holds a key twice
\* (trivialserialize.cpp: generator and parser).
THEOREM SerialExact == SerialSpec => [](SerialTypeOK /\ RoundTrip)
<1>1. SerialInv => SerialTypeOK /\ RoundTrip
  <2> SUFFICES ASSUME SerialInv PROVE SerialTypeOK /\ RoundTrip
    OBVIOUS
  <2>1. SerialTypes /\ ReadInv
    BY DEF SerialInv
  <2>2. SerialTypeOK
    BY <2>1 DEF SerialTypes, SerialTypeOK, Octet
  <2>3. stage = "done" => ~cut /\ m_data_now = Len(m_str)
    <3> SUFFICES ASSUME stage = "done" PROVE ~cut /\ m_data_now = Len(m_str)
      OBVIOUS
    <3>1. PICK at : ParserAt(at)
      BY <2>1 DEF ReadInv
    <3>2. Len(popped) = Len(pushed)
      BY <2>1 DEF ReadInv
    <3>3. m_data_now = at[Len(pushed) + 1]
      BY <3>1, <3>2 DEF ParserAt
    <3>4. m_data_now \in 0 .. Len(m_str) /\ Len(m_str) \in Nat
      <4>1. m_data_now \in 0 .. Len(m_str) /\ m_str \in Seq(Octet)
        BY <2>1 DEF SerialTypes
      <4> QED
        BY <4>1, LenProperties
    <3>5. Len(m_str) <= at[Len(pushed) + 1] /\ (cut <=> Len(m_str) < at[Len(pushed) + 1])
      BY <3>1 DEF ParserAt
    <3> QED
      BY <3>3, <3>4, <3>5
  <2>4. stage = "refused" <=> \E i \in DOMAIN pushed : Refusable(pushed[i])
    <3>1. pushed \in Seq(AnyItem) /\ stage \in {"push", "refused", "parse", "thrown", "done"}
      BY <2>1 DEF SerialTypes
    <3>2. DOMAIN pushed = 1 .. Len(pushed) /\ Len(pushed) \in Nat
      BY <3>1, LenProperties
    <3>3. ASSUME NEW i \in 1 .. Len(pushed) PROVE Pushed(pushed[i]).ok <=> ~Refusable(pushed[i])
      <4>1. pushed[i] \in AnyItem
        BY <3>1, ElementOfSeq
      <4> QED
        BY <4>1, Refusals, Zenon DEF AnyItem
    <3>4. CASE stage = "refused"
      <4>1. Len(pushed) \in 1 .. Len(pushed) /\ ~Pushed(pushed[Len(pushed)]).ok
        BY <3>2, <3>4 DEF SerialInv, WrittenInv
      <4> QED
        BY <3>2, <3>3, <3>4, <4>1
    <3>5. CASE stage # "refused"
      <4>1. \A i \in 1 .. Len(pushed) : Pushed(pushed[i]).ok
        BY <3>1, <3>5 DEF SerialInv, WrittenInv, ReadInv
      <4> QED
        BY <3>2, <3>3, <3>5, <4>1
    <3> QED
      BY <3>4, <3>5
  <2>5. RoundTrip
    BY <2>1, <2>3, <2>4, Zenon DEF ReadInv, RoundTrip, Refusable
  <2> QED
    BY <2>2, <2>5
<1>2. SerialInv /\ [SerialNext]_serialVars => SerialInv'
  <2>1. SerialInv /\ UNCHANGED serialVars => SerialInv'
    BY DEF SerialInv, SerialTypes, WrittenInv, ReadInv, ParserAt, serialVars
  <2> QED
    BY <2>1, PushKeeps, ArriveKeeps, PopKeeps, Zenon DEF SerialNext
<1>3. SerialInit => SerialInv
  BY SerialStarts
<1> QED
  BY <1>1, <1>2, <1>3, PTL DEF SerialSpec

-----------------------------------------------------------------------------
\* Peer references: finding a character, and the flattened groups.

\* The characters of a reference.
Character == {"x", "a", separator, group_open, group_close}

\* What find returns: nothing there, or the first place.
FoundAt(text, c, from, i) ==
  IF i = npos THEN \A j \in from .. Len(text) : text[j] # c
  ELSE i \in from .. Len(text) /\ text[i] = c /\ \A j \in from .. Len(text) : text[j] = c => i <= j

\* It does.
LEMMA FindIs ==
  ASSUME NEW text, Len(text) \in Nat, NEW c, NEW from \in Nat \ {0}
  PROVE  FoundAt(text, c, from, find(text, c, from))
<1> DEFINE at == { i \in from .. Len(text) : text[i] = c }
           x == CHOOSE i \in at : \A j \in at : i <= j
<1>1. CASE at = {}
  <2>1. find(text, c, from) = npos
    BY <1>1 DEF find
  <2>2. \A j \in from .. Len(text) : text[j] # c
    BY <1>1
  <2> QED
    BY <2>1, <2>2 DEF FoundAt
<1>2. CASE at # {}
  <2>1. at \subseteq Nat
    OBVIOUS
  <2>2. \E i \in at : \A j \in at : i <= j
    <3> HIDE DEF at
    <3> QED
      BY <1>2, <2>1, LeastNatural
  <2>3. x \in at /\ \A j \in at : x <= j
    BY <2>2
  <2>4. find(text, c, from) = x
    BY <1>2 DEF find
  <2> HIDE DEF x
  <2>5. x # npos
    BY <2>3 DEF npos
  <2> QED
    BY <2>3, <2>4, <2>5 DEF FoundAt
<1> QED
  BY <1>1, <1>2

\* A part that is let through is not empty, and no parenthesis is in it.
LEMMA GoodPartIs ==
  ASSUME NEW text \in Seq(Character)
  PROVE  GoodPart(text) <=> Len(text) > 0 /\ \A i \in 1 .. Len(text) : text[i] # group_open /\ text[i] # group_close
<1>1. Len(text) \in Nat /\ 1 \in Nat \ {0} /\ (text = <<>> <=> Len(text) = 0)
  <2>1. Len(text) \in Nat
    BY LenProperties
  <2> QED
    BY <2>1, EmptySeq
<1>2. FoundAt(text, group_open, 1, find(text, group_open, 1)) /\ FoundAt(text, group_close, 1, find(text, group_close, 1))
  BY <1>1, FindIs
<1> DEFINE i == find(text, group_open, 1)
           j == find(text, group_close, 1)
<1>3. GoodPart(text) <=> i = npos /\ j = npos /\ text # <<>>
  BY DEF GoodPart
<1> HIDE DEF i, j
<1>4. FoundAt(text, group_open, 1, i) /\ FoundAt(text, group_close, 1, j)
  BY <1>2 DEF i, j
<1>5. i = npos <=> \A k \in 1 .. Len(text) : text[k] # group_open
  BY <1>4 DEF FoundAt
<1>6. j = npos <=> \A k \in 1 .. Len(text) : text[k] # group_close
  BY <1>4 DEF FoundAt
<1> QED
  BY <1>1, <1>3, <1>5, <1>6

\* The groups behind the first part, as they were written.
Groups(cables) == FlattenSeq([i \in DOMAIN cables |-> Grouped(cables[i])])

\* Groups put together one after the other.
PutTogether(cables, val) ==
  /\ val \in [0 .. Len(cables) -> Seq(Character)] /\ val[0] = <<>>
  /\ \A k \in 1 .. Len(cables) : val[k] = Joined(val[k - 1], Grouped(cables[k]))

\* They are the groups.
LEMMA GroupsAre ==
  ASSUME NEW cables, Len(cables) \in Nat, DOMAIN cables = 1 .. Len(cables), NEW val, PutTogether(cables, val),
         \A k \in 1 .. Len(cables) : Grouped(cables[k]) \in Seq(Character)
  PROVE  Groups(cables) = val[Len(cables)]
<1> DEFINE n == Len(cables)
           seqs == [i \in DOMAIN cables |-> Grouped(cables[i])]
           Rec(f) == f = [i \in 1 .. Len(seqs) |-> IF i = 1 THEN seqs[i] ELSE Joined(f[i - 1], seqs[i])]
           flatten == CHOOSE f : Rec(f)
           g == [i \in 1 .. n |-> val[i]]
           T == { k \in Nat : k = 0 \/ k > n \/ flatten[k] = val[k] }
<1>1. Len(seqs) = n /\ DOMAIN seqs = 1 .. n /\ \A i \in 1 .. n : seqs[i] = Grouped(cables[i])
  <2>1. seqs \in [1 .. n -> {Grouped(cables[i]) : i \in 1 .. n}]
    OBVIOUS
  <2> DEFINE S == {Grouped(cables[i]) : i \in 1 .. n}
  <2>2. seqs \in Seq(S) /\ Len(seqs) = n
    <3> HIDE DEF S, seqs
    <3>1. n \in Nat
      OBVIOUS
    <3> HIDE DEF n
    <3>2. seqs \in [1 .. n -> S]
      BY <2>1 DEF S, seqs, n
    <3> QED
      BY <3>1, <3>2
  <2> QED
    BY <2>2
<1>2. val \in [0 .. n -> Seq(Character)] /\ val[0] = <<>> /\ \A k \in 1 .. n : val[k] = Joined(val[k - 1], Grouped(cables[k]))
  BY Zenon DEF PutTogether
<1>3. n >= 1 => val[1] = seqs[1]
  <2> SUFFICES ASSUME n >= 1 PROVE val[1] = seqs[1]
    OBVIOUS
  <2>1. 1 \in 1 .. n /\ 1 - 1 = 0
    OBVIOUS
  <2>2. val[1] = Joined(<<>>, Grouped(cables[1])) /\ seqs[1] = Grouped(cables[1])
    BY <1>1, <1>2, <2>1
  <2>3. Grouped(cables[1]) \in Seq(Character)
    BY <2>1
  <2> DEFINE x == Grouped(cables[1])
  <2> HIDE DEF x
  <2>4. <<>> \o x = x
    BY <2>3, ConcatEmptySeq DEF x
  <2> QED
    BY <2>2, <2>4 DEF x, Joined
<1>0. Groups(cables) = IF Len(seqs) = 0 THEN seqs ELSE flatten[Len(seqs)]
  BY Zenon DEF Groups, FlattenSeq, Joined
<1> HIDE DEF seqs, n
<1>4. n \in Nat
  BY DEF n
<1>5. Groups(cables) = IF n = 0 THEN seqs ELSE flatten[n]
  BY <1>0, <1>1, Zenon
<1>6. Rec(g)
  <2>1. ASSUME NEW i \in 1 .. n PROVE g[i] = IF i = 1 THEN seqs[i] ELSE Joined(g[i - 1], seqs[i])
    <3>1. CASE i = 1
      BY <1>3, <3>1
    <3>2. CASE i # 1
      <4>1. i - 1 \in 1 .. n
        BY <1>4, <3>2
      <4> QED
        BY <1>1, <1>2, <3>2, <4>1
    <3> QED
      BY <3>1, <3>2
  <2>2. DOMAIN g = 1 .. n
    OBVIOUS
  <2> QED
    BY <1>1, <2>1
<1>7. Rec(flatten)
  <2> HIDE DEF Rec
  <2> QED
    BY <1>6
<1>8. \A i \in 1 .. n : flatten[i] = IF i = 1 THEN seqs[i] ELSE Joined(flatten[i - 1], seqs[i])
  <2> HIDE DEF flatten
  <2> QED
    BY <1>1, <1>7
<1> HIDE DEF flatten
<1>9. ASSUME NEW k \in Nat, k \in T PROVE k + 1 \in T
  <2> SUFFICES ASSUME k + 1 <= n PROVE flatten[k + 1] = val[k + 1]
    BY <1>4
  <2> DEFINE j == k + 1
  <2>1. j \in 1 .. n /\ j - 1 = k
    BY <1>4
  <2>2. k = 0 \/ flatten[k] = val[k]
    BY <1>4, <1>9
  <2>3. k = 0 <=> j = 1
    OBVIOUS
  <2> HIDE DEF j
  <2>4. flatten[j] = IF j = 1 THEN seqs[j] ELSE Joined(flatten[k], seqs[j])
    BY <1>8, <2>1
  <2>5. val[j] = Joined(val[k], seqs[j])
    BY <1>1, <1>2, <2>1
  <2>6. CASE j = 1
    BY <1>3, <1>4, <2>1, <2>4, <2>6 DEF j
  <2>7. CASE j # 1
    BY <2>2, <2>3, <2>4, <2>5, <2>7 DEF j
  <2> QED
    BY <2>6, <2>7
<1>10. 0 \in T
  OBVIOUS
<1> HIDE DEF T
<1>11. \A k \in Nat : k \in T
  BY <1>9, <1>10, AllFromZero
<1>12. n # 0 => flatten[n] = val[n]
  BY <1>4, <1>11 DEF T
<1>13. n = 0 => seqs = <<>>
  <2> SUFFICES ASSUME n = 0 PROVE seqs = <<>>
    OBVIOUS
  <2>1. DOMAIN seqs = {}
    BY <1>1
  <2> QED
    BY <2>1 DEF seqs
<1> QED
  BY <1>2, <1>5, <1>12, <1>13 DEF n

-----------------------------------------------------------------------------
\* Peer references: one group after the other.

\* Where the group that begins at p is closed, and what is in it.
Closing(text, p) == IF find(text, group_close, p) = npos THEN Len(text) ELSE find(text, group_close, p)
PartAt(text, p) == SubSeq(text, p, Closing(text, p) - 1)

\* What is read from p on, if group is what is read from any place behind it.
GroupStep(text, id, group, p) ==
  IF p >= Len(text) THEN Parsed(id, <<>>)
  ELSE IF ~GoodPart(PartAt(text, p)) \/ text[Closing(text, p)] # group_close THEN Refused
  ELSE IF Closing(text, p) = Len(text) THEN Parsed(id, <<PartAt(text, p)>>)
  ELSE IF text[Closing(text, p) + 1] # separator THEN Refused
  ELSE IF Closing(text, p) + 1 = Len(text) THEN OutOfRange
  ELSE IF text[Closing(text, p) + 2] # group_open THEN Refused
  ELSE [group[Closing(text, p) + 3] EXCEPT !.cable = <<PartAt(text, p)>> \o @]

\* A part of a sequence, from m to k.
CutFrom(S, t, m, k) ==
  /\ SubSeq(t, m, k) \in Seq(S) /\ Len(SubSeq(t, m, k)) = (IF m <= k THEN k - m + 1 ELSE 0)
  /\ \A i \in 1 .. k - m + 1 : SubSeq(t, m, k)[i] = t[m + i - 1]

\* It is so of every part.
LEMMA PartsAreCut == \A S, t : \A m, k \in Int : (\A i \in m .. k : t[i] \in S) => CutFrom(S, t, m, k)
<1> SUFFICES ASSUME NEW S, NEW t, NEW m \in Int, NEW k \in Int, \A i \in m .. k : t[i] \in S
             PROVE  CutFrom(S, t, m, k)
  OBVIOUS
<1> QED
  BY SubSeqProperties DEF CutFrom

\* A group is closed at the first parenthesis, or else at the end.
ClosingIs(text, p) ==
  /\ Closing(text, p) \in p .. Len(text) /\ Closing(text, p) \in Nat
  /\ \A j \in p .. Closing(text, p) - 1 : text[j] # group_close
  /\ PartAt(text, p) \in Seq(Character) /\ Len(PartAt(text, p)) = Closing(text, p) - p
  /\ \A i \in 1 .. Closing(text, p) - p : PartAt(text, p)[i] = text[p + i - 1]

\* It is so before the end.
LEMMA ClosedAt ==
  \A text, p : text \in Seq(Character) /\ p \in Nat \ {0} /\ p < Len(text) => ClosingIs(text, p)
<1> SUFFICES ASSUME NEW text \in Seq(Character), NEW p \in Nat \ {0}, p < Len(text) PROVE ClosingIs(text, p)
  OBVIOUS
<1> DEFINE n == Len(text)
           i == find(text, group_close, p)
           x == Closing(text, p)
           w == PartAt(text, p)
           S == Character
<1>1. n \in Nat
  BY LenProperties
<1>2. FoundAt(text, group_close, p, i)
  BY <1>1, FindIs
<1>3. x = IF i = npos THEN n ELSE i
  BY DEF Closing
<1> HIDE DEF n, i, x
<1>4. x \in p .. n /\ x \in Nat /\ \A j \in p .. x - 1 : text[j] # group_close
  <2>1. CASE i = npos
    <3>1. x = n /\ \A j \in p .. n : text[j] # group_close
      BY <1>2, <1>3, <2>1 DEF FoundAt, n
    <3>2. p < n
      BY DEF n
    <3> QED
      BY <1>1, <3>1, <3>2
  <2>2. CASE i # npos
    <3>1. x \in p .. n /\ \A j \in p .. n : text[j] = group_close => x <= j
      BY <1>2, <1>3, <2>2 DEF FoundAt, n
    <3>2. ASSUME NEW j \in p .. x - 1 PROVE text[j] # group_close
      BY <1>1, <3>1
    <3> QED
      BY <1>1, <3>1, <3>2
  <2> QED
    BY <2>1, <2>2
<1>5. \A j \in p .. x - 1 : text[j] \in S
  <2> SUFFICES ASSUME NEW j \in p .. x - 1 PROVE text[j] \in S
    OBVIOUS
  <2>1. j \in 1 .. Len(text)
    BY <1>1, <1>4 DEF n
  <2> QED
    BY <2>1, ElementOfSeq
<1> HIDE DEF S
<1>6. w = SubSeq(text, p, x - 1)
  BY DEF PartAt, x
<1>7. /\ w \in Seq(S) /\ Len(w) = (IF p <= x - 1 THEN (x - 1) - p + 1 ELSE 0)
      /\ \A k \in 1 .. (x - 1) - p + 1 : w[k] = text[p + k - 1]
  <2>1. p \in Int /\ x - 1 \in Int
    BY <1>4
  <2>2. CutFrom(S, text, p, x - 1)
    BY <1>5, <2>1, PartsAreCut, Zenon
  <2> HIDE DEF w
  <2> QED
    BY <1>6, <2>2 DEF CutFrom
<1> HIDE DEF w
<1>8. (x - 1) - p + 1 = x - p /\ Len(w) = x - p
  BY <1>4, <1>7
<1>9. \A k \in 1 .. x - p : w[k] = text[p + k - 1]
  BY <1>7, <1>8
<1> QED
  BY <1>4, <1>7, <1>8, <1>9 DEF ClosingIs, x, w, S, n

\* What parsing may return.
Outcome == {"parsed", "err_check_input", "out_of_range"}
ParseResult == [ok : Outcome, id : Seq(Seq(Character)), cable : Seq(Seq(Character))]

\* The groups that a function gives.
GroupsGiven(text, id, group) ==
  /\ group \in [1 .. Len(text) + 3 -> ParseResult]
  /\ \A p \in 1 .. Len(text) + 3 : group[p] = GroupStep(text, id, group, p)

\* A step gives such a result.
LEMMA GroupStepResult ==
  ASSUME NEW text \in Seq(Character), NEW id \in Seq(Seq(Character)),
         NEW group \in [1 .. Len(text) + 3 -> ParseResult], NEW p \in 1 .. Len(text) + 3
  PROVE  GroupStep(text, id, group, p) \in ParseResult
<1> DEFINE n == Len(text)
           x == Closing(text, p)
           w == PartAt(text, p)
           Q == Seq(Character)
           QQ == Seq(Q)
<1>1. n \in Nat /\ p \in Nat \ {0}
  BY LenProperties
<1>2. <<>> \in QQ
  OBVIOUS
<1>3. id \in QQ
  OBVIOUS
<1>4. Parsed(id, <<>>) \in ParseResult /\ Refused \in ParseResult /\ OutOfRange \in ParseResult
  <2> HIDE DEF QQ
  <2>1. ParseResult = [ok : Outcome, id : QQ, cable : QQ]
    BY DEF ParseResult, QQ
  <2>2. "parsed" \in Outcome /\ "err_check_input" \in Outcome /\ "out_of_range" \in Outcome
    BY DEF Outcome
  <2> QED
    BY <1>2, <1>3, <2>1, <2>2 DEF Parsed, Refused, OutOfRange
<1>5. CASE p >= n
  BY <1>4, <1>5 DEF GroupStep
<1>6. CASE ~(p >= n)
  <2>1. ClosingIs(text, p)
    <3>1. p < n
      BY <1>1, <1>6
    <3> QED
      BY <1>1, <3>1, ClosedAt
  <2>2. x \in p .. n /\ x \in Nat /\ w \in Q
    BY <2>1, Zenon DEF ClosingIs
  <2> HIDE DEF Q
  <2>3. <<w>> \in QQ
    <3> HIDE DEF w
    <3> QED
      BY <2>2
  <2>4. Parsed(id, <<w>>) \in ParseResult
    <3> HIDE DEF w
    <3> DEFINE s == <<w>>
    <3>1. s \in QQ
      BY <2>3
    <3> HIDE DEF QQ, s
    <3>2. ParseResult = [ok : Outcome, id : QQ, cable : QQ]
      BY DEF ParseResult, QQ, Q
    <3>3. "parsed" \in Outcome
      BY DEF Outcome
    <3> QED
      BY <1>3, <3>1, <3>2, <3>3 DEF Parsed, s
  <2> DEFINE r == group[x + 3]
             new == [r EXCEPT !.cable = <<w>> \o @]
  <2>5. ASSUME x # n PROVE new \in ParseResult
    <3>1. x + 3 \in 1 .. n + 3
      BY <1>1, <2>2
    <3> HIDE DEF x
    <3>2. r \in ParseResult
      BY <3>1
    <3> HIDE DEF r, w
    <3>3. ParseResult = [ok : Outcome, id : QQ, cable : QQ]
      BY DEF ParseResult, QQ, Q
    <3> DEFINE c == <<w>> \o r.cable
    <3>4. c \in QQ
      <4> DEFINE s == <<w>>
                 rc == r.cable
      <4>1. s \in QQ /\ rc \in QQ
        BY <2>3, <3>2, <3>3
      <4> HIDE DEF s, rc
      <4> QED
        BY <4>1, ConcatProperties DEF s, rc, QQ
    <3>5. new = [r EXCEPT !.cable = c]
      OBVIOUS
    <3> HIDE DEF c, QQ, new
    <3> QED
      BY <3>2, <3>3, <3>4, <3>5
  <2>6. GroupStep(text, id, group, p) \in {Refused, OutOfRange, Parsed(id, <<w>>)} \/ (x # n /\ GroupStep(text, id, group, p) = new)
    BY <1>6 DEF GroupStep
  <2> HIDE DEF new, x, w
  <2> QED
    BY <1>4, <2>4, <2>5, <2>6
<1> QED
  BY <1>5, <1>6

\* A step reads what follows only.
LEMMA StepReadsOn ==
  ASSUME NEW text \in Seq(Character), NEW id, NEW p \in 1 .. Len(text) + 3, NEW g, NEW h,
         \A q \in 1 .. Len(text) + 3 : q > p => h[q] = g[q]
  PROVE  GroupStep(text, id, h, p) = GroupStep(text, id, g, p)
<1> DEFINE n == Len(text)
           x == Closing(text, p)
<1>1. n \in Nat /\ p \in Nat \ {0}
  BY LenProperties
<1>2. CASE p >= n
  BY <1>2 DEF GroupStep
<1>3. CASE ~(p >= n)
  <2>1. p < n
    BY <1>1, <1>3
  <2>2. ClosingIs(text, p)
    BY <1>1, <2>1, ClosedAt
  <2>3. x \in p .. n /\ x \in Nat
    BY <2>2, Zenon DEF ClosingIs
  <2>4. h[x + 3] = g[x + 3]
    <3>1. x + 3 \in 1 .. n + 3 /\ x + 3 > p
      BY <1>1, <2>1, <2>3
    <3> HIDE DEF x
    <3> QED
      BY <3>1
  <2> QED
    BY <2>4, Zenon DEF GroupStep
<1> QED
  BY <1>2, <1>3

\* There is one, and the groups of a text are given by it.
LEMMA GroupsExist ==
  ASSUME NEW text \in Seq(Character), NEW id \in Seq(Seq(Character))
  PROVE  GroupsGiven(text, id, CableGroups(text, id))
<1> DEFINE n == Len(text)
           N == n + 3
           From(k) == \E g \in [1 .. N -> ParseResult] :
                        \A p \in 1 .. N : p > N - k => g[p] = GroupStep(text, id, g, p)
           T == { k \in Nat : k <= N => From(k) }
           Rec(f) == f = [p \in 1 .. n + 3 |-> GroupStep(text, id, f, p)]
           group == CHOOSE f : Rec(f)
<1>1. n \in Nat /\ N \in Nat
  BY LenProperties
<1> HIDE DEF From
<1>2. 0 \in T
  <2>1. PICK r \in ParseResult : TRUE
    <3>1. Refused \in ParseResult
      <4> DEFINE Q == Seq(Seq(Character))
      <4>1. <<>> \in Q
        OBVIOUS
      <4> HIDE DEF Q
      <4>2. ParseResult = [ok : Outcome, id : Q, cable : Q]
        BY DEF ParseResult, Q
      <4>3. "err_check_input" \in Outcome
        BY DEF Outcome
      <4> QED
        BY <4>1, <4>2, <4>3 DEF Refused
    <3> QED
      BY <3>1
  <2> DEFINE g == [p \in 1 .. N |-> r]
  <2>2. g \in [1 .. N -> ParseResult]
    BY <2>1
  <2>3. \A p \in 1 .. N : ~(p > N - 0)
    BY <1>1
  <2> HIDE DEF g, N
  <2>4. From(0)
    BY <2>2, <2>3 DEF From
  <2> QED
    BY <2>4
<1>3. ASSUME NEW k \in Nat, k \in T PROVE k + 1 \in T
  <2> SUFFICES ASSUME k + 1 <= N PROVE From(k + 1)
    OBVIOUS
  <2>1. k <= N
    BY <1>1
  <2>2. PICK g \in [1 .. N -> ParseResult] : \A p \in 1 .. N : p > N - k => g[p] = GroupStep(text, id, g, p)
    <3>1. From(k)
      BY <1>3, <2>1
    <3> QED
      BY <3>1 DEF From
  <2> DEFINE q == N - k
             r == GroupStep(text, id, g, q)
             h == [g EXCEPT ![q] = r]
  <2>3. q \in 1 .. N /\ q \in Nat \ {0} /\ N - (k + 1) = q - 1
    BY <1>1
  <2>4. r \in ParseResult
    BY <2>3, GroupStepResult
  <2> HIDE DEF q, r, N
  <2>5. h \in [1 .. N -> ParseResult] /\ h[q] = r /\ \A p \in 1 .. N : p # q => h[p] = g[p]
    BY <2>3, <2>4
  <2> HIDE DEF h
  <2>6. ASSUME NEW p \in 1 .. N, p >= q PROVE GroupStep(text, id, h, p) = GroupStep(text, id, g, p)
    <3>1. ASSUME NEW y \in 1 .. n + 3, y > p PROVE h[y] = g[y]
      <4>1. y # q /\ y \in 1 .. N
        BY <1>1, <2>3, <2>6, <3>1 DEF N
      <4> QED
        BY <2>5, <4>1
    <3>2. p \in 1 .. n + 3
      BY DEF N
    <3> QED
      BY <3>1, <3>2, StepReadsOn
  <2>7. ASSUME NEW p \in 1 .. N, p > N - (k + 1) PROVE h[p] = GroupStep(text, id, h, p)
    <3>1. CASE p = q
      <4>1. q >= q
        BY <2>3
      <4> QED
        BY <2>5, <2>6, <3>1, <4>1 DEF r
    <3>2. CASE p # q
      <4>1. p > N - k /\ p >= q
        BY <1>1, <2>3, <2>7, <3>2 DEF q
      <4> QED
        BY <2>2, <2>5, <2>6, <3>2, <4>1
    <3> QED
      BY <3>1, <3>2
  <2> QED
    BY <2>5, <2>7 DEF From
<1> HIDE DEF T
<1>4. \A k \in Nat : k \in T
  BY <1>2, <1>3, AllFromZero
<1>5. From(N)
  <2>1. N \in T /\ N <= N
    BY <1>1, <1>4
  <2> QED
    BY <2>1 DEF T
<1>6. PICK g \in [1 .. N -> ParseResult] : \A p \in 1 .. N : g[p] = GroupStep(text, id, g, p)
  <2>1. \A p \in 1 .. N : p > N - N
    BY <1>1
  <2> QED
    BY <1>5, <2>1 DEF From
<1>7. Rec(g)
  BY <1>6
<1>8. Rec(group)
  <2> HIDE DEF Rec
  <2> QED
    BY <1>7
<1>9. CableGroups(text, id) = group
  BY Zenon DEF CableGroups, GroupStep, Closing, PartAt
<1>10. \A p \in 1 .. N : group[p] = GroupStep(text, id, group, p)
  <2> HIDE DEF group
  <2> QED
    BY <1>8
<1> DEFINE U == { k \in Nat : k <= N => \A p \in 1 .. N : p > N - k => group[p] = g[p] }
<1> HIDE DEF group
<1>11. 0 \in U
  <2>1. \A p \in 1 .. N : ~(p > N - 0)
    BY <1>1
  <2> QED
    BY <2>1
<1>12. ASSUME NEW k \in Nat, k \in U PROVE k + 1 \in U
  <2> SUFFICES ASSUME k + 1 <= N, NEW p \in 1 .. N, p > N - (k + 1) PROVE group[p] = g[p]
    OBVIOUS
  <2>1. \A y \in 1 .. N : y > N - k => group[y] = g[y]
    BY <1>1, <1>12
  <2>2. ASSUME NEW y \in 1 .. n + 3, y > p PROVE group[y] = g[y]
    <3>1. y \in 1 .. N /\ y > N - k
      BY <1>1, <2>2
    <3> QED
      BY <2>1, <3>1
  <2>3. GroupStep(text, id, group, p) = GroupStep(text, id, g, p)
    BY <2>2, StepReadsOn
  <2> QED
    BY <1>6, <1>10, <2>3
<1> HIDE DEF U
<1>13. \A k \in Nat : k \in U
  BY <1>11, <1>12, AllFromZero
<1>14. \A p \in 1 .. N : group[p] = g[p]
  <2>1. N \in U /\ N <= N /\ \A p \in 1 .. N : p > N - N
    BY <1>1, <1>13
  <2> QED
    BY <2>1 DEF U
<1>15. group \in [1 .. N -> ParseResult]
  <2>1. group = [p \in 1 .. N |-> GroupStep(text, id, group, p)]
    BY <1>8
  <2>2. \A p \in 1 .. N : GroupStep(text, id, group, p) \in ParseResult
    BY <1>6, <1>10, <1>14
  <2> QED
    BY <2>1, <2>2
<1> QED
  BY <1>9, <1>10, <1>15 DEF GroupsGiven

-----------------------------------------------------------------------------
\* Peer references: the groups as they were written.

\* A group is of characters.
LEMMA GroupedAre ==
  \A part \in Seq(Character) :
     /\ Grouped(part) \in Seq(Character) /\ Len(Grouped(part)) = Len(part) + 3 /\ Len(part) \in Nat
     /\ Grouped(part)[1] = separator /\ Grouped(part)[2] = group_open
     /\ \A i \in 1 .. Len(part) : Grouped(part)[i + 2] = part[i]
     /\ Grouped(part)[Len(part) + 3] = group_close
<1> SUFFICES ASSUME NEW part \in Seq(Character)
             PROVE  /\ Grouped(part) \in Seq(Character) /\ Len(Grouped(part)) = Len(part) + 3 /\ Len(part) \in Nat
                    /\ Grouped(part)[1] = separator /\ Grouped(part)[2] = group_open
                    /\ \A i \in 1 .. Len(part) : Grouped(part)[i + 2] = part[i]
                    /\ Grouped(part)[Len(part) + 3] = group_close
  OBVIOUS
<1> DEFINE S == Character
           n == Len(part)
           u == <<separator, group_open>>
           w == <<group_close>>
           v == u \o part
           g == v \o w
<1>1. separator \in S /\ group_open \in S /\ group_close \in S
  BY DEF Character
<1> HIDE DEF S
<1>2. u \in Seq(S) /\ Len(u) = 2 /\ u[1] = separator /\ u[2] = group_open
  BY <1>1
<1>3. w \in Seq(S) /\ Len(w) = 1 /\ w[1] = group_close
  BY <1>1
<1>4. part \in Seq(S) /\ n \in Nat
  BY LenProperties DEF S
<1> HIDE DEF u, w
<1>5. v \in Seq(S) /\ Len(v) = 2 + n /\ \A i \in 1 .. 2 + n : v[i] = IF i <= 2 THEN u[i] ELSE part[i - 2]
  <2>1. u \in Seq(S) /\ part \in Seq(S)
    BY <1>2, <1>4
  <2>2. v \in Seq(S) /\ Len(v) = Len(u) + Len(part)
        /\ \A i \in 1 .. Len(u) + Len(part) : v[i] = IF i <= Len(u) THEN u[i] ELSE part[i - Len(u)]
    BY <2>1, ConcatProperties
  <2> HIDE DEF v
  <2> QED
    BY <1>2, <2>2
<1> HIDE DEF v
<1>6. g \in Seq(S) /\ Len(g) = Len(v) + Len(w)
      /\ \A i \in 1 .. Len(v) + Len(w) : g[i] = IF i <= Len(v) THEN v[i] ELSE w[i - Len(v)]
  BY <1>3, <1>5, ConcatProperties
<1> HIDE DEF g, n
<1>7. Len(g) = n + 3
  BY <1>3, <1>4, <1>5, <1>6
<1>8. g[1] = separator /\ g[2] = group_open
  <2>1. 1 \in 1 .. Len(v) + Len(w) /\ 2 \in 1 .. Len(v) + Len(w) /\ 1 <= Len(v) /\ 2 <= Len(v)
        /\ 1 \in 1 .. 2 + n /\ 2 \in 1 .. 2 + n
    BY <1>3, <1>4, <1>5
  <2> QED
    BY <1>2, <1>5, <1>6, <2>1
<1>9. ASSUME NEW i \in 1 .. n PROVE g[i + 2] = part[i]
  <2>1. i + 2 \in 1 .. Len(v) + Len(w) /\ i + 2 <= Len(v) /\ i + 2 \in 1 .. 2 + n /\ ~(i + 2 <= 2) /\ (i + 2) - 2 = i
    BY <1>3, <1>4, <1>5
  <2> QED
    BY <1>5, <1>6, <2>1
<1>10. g[n + 3] = group_close
  <2>1. n + 3 \in 1 .. Len(v) + Len(w) /\ ~(n + 3 <= Len(v)) /\ (n + 3) - Len(v) = 1
    BY <1>3, <1>4, <1>5
  <2> QED
    BY <1>3, <1>6, <2>1
<1>11. Grouped(part) = g
  BY DEF Grouped, g, v, u, w
<1> QED
  BY <1>4, <1>6, <1>7, <1>8, <1>9, <1>10, <1>11 DEF S, n

\* Groups can be put together.
LEMMA GroupsMade ==
  \A cables \in Seq(Seq(Character)) :
     \E val : PutTogether(cables, val) /\ Groups(cables) = val[Len(cables)] /\ Groups(cables) \in Seq(Character)
<1> SUFFICES ASSUME NEW cables \in Seq(Seq(Character))
             PROVE  \E val : PutTogether(cables, val) /\ Groups(cables) = val[Len(cables)] /\ Groups(cables) \in Seq(Character)
  OBVIOUS
<1> DEFINE X == Seq(Character)
           n == Len(cables)
           step == [q \in X \X (1 .. n) |-> Joined(q[1], Grouped(cables[q[2]]))]
<1>1. n \in Nat /\ DOMAIN cables = 1 .. n /\ \A k \in 1 .. n : cables[k] \in X
  <2> HIDE DEF X
  <2>1. cables \in Seq(X)
    BY DEF X
  <2> QED
    BY <2>1, LenProperties, ElementOfSeq
<1>2. \A k \in 1 .. n : Grouped(cables[k]) \in X
  BY <1>1, GroupedAre
<1>3. \A x \in X, k \in 1 .. n : Joined(x, Grouped(cables[k])) \in X
  <2> SUFFICES ASSUME NEW x \in X, NEW k \in 1 .. n PROVE Joined(x, Grouped(cables[k])) \in X
    OBVIOUS
  <2> DEFINE w == Grouped(cables[k])
             S == Character
  <2>1. w \in Seq(S) /\ x \in Seq(S)
    BY <1>2
  <2> HIDE DEF w, S
  <2>2. x \o w \in Seq(S)
    BY <2>1, ConcatProperties
  <2> QED
    BY <2>2 DEF Joined, w, S
<1>4. <<>> \in X
  OBVIOUS
<1> HIDE DEF X, n
<1>5. step \in [X \X (1 .. n) -> X] /\ \A x \in X, k \in 1 .. n : step[<<x, k>>] = Joined(x, Grouped(cables[k]))
  BY <1>3
<1> HIDE DEF step
<1>6. StepsMade(X, <<>>, n, step)
  BY <1>1, <1>4, <1>5, StepsExist
<1>7. PICK val \in [0 .. n -> X] : val[0] = <<>> /\ \A k \in 1 .. n : val[k] = step[<<val[k - 1], k>>]
  BY <1>6, Zenon DEF StepsMade
<1>8. \A k \in 1 .. n : val[k] = Joined(val[k - 1], Grouped(cables[k]))
  <2> SUFFICES ASSUME NEW k \in 1 .. n PROVE val[k] = Joined(val[k - 1], Grouped(cables[k]))
    OBVIOUS
  <2>1. k - 1 \in 0 .. n
    BY <1>1
  <2>2. val[k - 1] \in X
    BY <2>1
  <2> QED
    BY <1>5, <1>7, <2>2
<1>9. PutTogether(cables, val)
  BY <1>7, <1>8, Zenon DEF PutTogether, X, n
<1>10. Groups(cables) = val[n]
  BY <1>1, <1>2, <1>9, GroupsAre DEF X, n
<1>11. val[n] \in X
  BY <1>1
<1> QED
  BY <1>9, <1>10, <1>11 DEF X, n

\* One group before others is written before them.
GroupBefore(part, cables) ==
  /\ Groups(<<part>> \o cables) = Joined(Grouped(part), Groups(cables))
  /\ Groups(cables) \in Seq(Character) /\ Grouped(part) \in Seq(Character)

\* It is so of any.
LEMMA GroupsCons ==
  \A part, cables : part \in Seq(Character) /\ cables \in Seq(Seq(Character)) => GroupBefore(part, cables)
<1> SUFFICES ASSUME NEW part \in Seq(Character), NEW cables \in Seq(Seq(Character)) PROVE GroupBefore(part, cables)
  OBVIOUS
<1> DEFINE X == Seq(Character)
           n == Len(cables)
           all == <<part>> \o cables
           m == Len(all)
           w == Grouped(part)
<1>1. PICK val : PutTogether(cables, val) /\ Groups(cables) = val[Len(cables)] /\ Groups(cables) \in Seq(Character)
  BY GroupsMade
<1>2. n \in Nat /\ \A k \in 1 .. n : cables[k] \in X
  <2> HIDE DEF X
  <2>1. cables \in Seq(X)
    BY DEF X
  <2> QED
    BY <2>1, LenProperties, ElementOfSeq
<1>3. /\ all \in Seq(X) /\ m = n + 1 /\ all[1] = part /\ DOMAIN all = 1 .. m
      /\ \A k \in 1 .. n : all[k + 1] = cables[k]
  <2> DEFINE s == <<part>>
  <2>1. s \in Seq(X) /\ Len(s) = 1 /\ s[1] = part
    <3> HIDE DEF X
    <3>1. part \in X
      BY DEF X
    <3> QED
      BY <3>1
  <2>2. cables \in Seq(X)
    OBVIOUS
  <2> HIDE DEF X, s
  <2> DEFINE l == s \o cables
  <2>3. /\ l \in Seq(X) /\ Len(l) = Len(s) + n
        /\ \A i \in 1 .. Len(s) + n : l[i] = IF i <= Len(s) THEN s[i] ELSE cables[i - Len(s)]
    BY <2>1, <2>2, ConcatProperties
  <2>4. all = l
    BY DEF s
  <2> HIDE DEF l, n
  <2>5. Len(l) = n + 1 /\ DOMAIN l = 1 .. Len(l)
    BY <1>2, <2>1, <2>3, LenProperties
  <2>6. l[1] = part
    <3>1. 1 \in 1 .. Len(s) + n /\ 1 <= Len(s)
      BY <1>2, <2>1
    <3> QED
      BY <2>1, <2>3, <3>1
  <2>7. ASSUME NEW k \in 1 .. n PROVE l[k + 1] = cables[k]
    <3>1. k + 1 \in 1 .. Len(s) + n /\ ~(k + 1 <= Len(s)) /\ (k + 1) - Len(s) = k
      BY <1>2, <2>1
    <3> QED
      BY <2>3, <3>1
  <2> HIDE DEF all
  <2> QED
    BY <2>3, <2>4, <2>5, <2>6, <2>7
<1> HIDE DEF all, m
<1>4. w \in X
  BY GroupedAre
<1> HIDE DEF w
<1>5. /\ val \in [0 .. n -> X] /\ val[0] = <<>>
      /\ \A k \in 1 .. n : val[k] = Joined(val[k - 1], Grouped(cables[k]))
  BY <1>1, Zenon DEF PutTogether
<1> DEFINE new == [k \in 0 .. n + 1 |-> IF k = 0 THEN <<>> ELSE Joined(w, val[k - 1])]
<1>6. \A x \in X : Joined(w, x) \in X /\ Joined(<<>>, x) = x /\ Joined(x, <<>>) = x
  <2> DEFINE S == Character
  <2> HIDE DEF S
  <2>1. \A x, y \in Seq(S) : x \o y \in Seq(S)
    BY ConcatProperties
  <2>2. \A x \in Seq(S) : <<>> \o x = x /\ x \o <<>> = x
    BY ConcatEmptySeq
  <2>3. w \in Seq(S)
    BY <1>4 DEF S
  <2>4. \A x \in Seq(S) : Joined(w, x) \in Seq(S) /\ Joined(<<>>, x) = x /\ Joined(x, <<>>) = x
    BY <2>1, <2>2, <2>3, Zenon DEF Joined
  <2> QED
    BY <2>4 DEF S
<1>7. \A x, y \in X : Joined(Joined(w, x), y) = Joined(w, Joined(x, y))
  <2> DEFINE S == Character
  <2> HIDE DEF S
  <2>1. \A z, x, y \in Seq(S) : (z \o x) \o y = z \o (x \o y)
    BY JoinedTwice
  <2>2. w \in Seq(S)
    BY <1>4 DEF S
  <2> QED
    BY <2>1, <2>2, Zenon DEF Joined, S
<1>8. <<>> \in X
  OBVIOUS
<1> HIDE DEF X, n
<1>9. ASSUME NEW k \in 1 .. n + 1 PROVE new[k] = Joined(w, val[k - 1]) /\ val[k - 1] \in X /\ new[k] \in X
  <2>1. k \in 0 .. n + 1 /\ k # 0 /\ k - 1 \in 0 .. n
    BY <1>2
  <2>2. val[k - 1] \in X
    BY <1>5, <2>1
  <2> QED
    BY <1>6, <2>1, <2>2
<1>10. new[0] = <<>> /\ new \in [0 .. n + 1 -> X]
  <2>1. 0 \in 0 .. n + 1
    BY <1>2
  <2>2. ASSUME NEW k \in 0 .. n + 1 PROVE (IF k = 0 THEN <<>> ELSE Joined(w, val[k - 1])) \in X
    <3>1. CASE k = 0
      BY <1>8, <3>1
    <3>2. CASE k # 0
      <4>1. k \in 1 .. n + 1
        BY <1>2, <3>2
      <4> QED
        BY <1>6, <1>9, <3>2, <4>1
    <3> QED
      BY <3>1, <3>2
  <2> QED
    BY <2>1, <2>2
<1> HIDE DEF new
<1>11. ASSUME NEW k \in 1 .. n + 1 PROVE new[k] = Joined(new[k - 1], Grouped(all[k]))
  <2>1. CASE k = 1
    <3>1. new[k] = Joined(w, val[0]) /\ new[k - 1] = <<>> /\ Grouped(all[k]) = w
      <4>1. k - 1 = 0
        BY <2>1
      <4> QED
        BY <1>3, <1>9, <1>10, <2>1, <4>1 DEF w
    <3>2. w \in X
      BY <1>4
    <3> QED
      BY <1>5, <1>6, <3>1, <3>2
  <2>2. CASE k # 1
    <3> DEFINE j == k - 1
    <3>1. j \in 1 .. n /\ j \in 1 .. n + 1 /\ j - 1 \in 0 .. n /\ j + 1 = k
      BY <1>2, <2>2
    <3> HIDE DEF j
    <3>2. all[k] = cables[j]
      BY <1>3, <3>1
    <3>3. new[k] = Joined(w, val[j]) /\ new[j] = Joined(w, val[j - 1])
      BY <1>9, <3>1 DEF j
    <3>4. val[j] = Joined(val[j - 1], Grouped(cables[j])) /\ val[j - 1] \in X
      BY <1>5, <3>1
    <3>5. Grouped(cables[j]) \in X
      <4>1. cables[j] \in Seq(Character)
        BY <1>2, <3>1 DEF X
      <4> QED
        BY <4>1, GroupedAre DEF X
    <3>6. Joined(Joined(w, val[j - 1]), Grouped(cables[j])) = Joined(w, Joined(val[j - 1], Grouped(cables[j])))
      BY <1>7, <3>4, <3>5
    <3> QED
      BY <3>2, <3>3, <3>4, <3>6 DEF j
  <2> QED
    BY <2>1, <2>2
<1>12. PutTogether(all, new)
  BY <1>3, <1>10, <1>11 DEF PutTogether, X, m
<1>13. Groups(all) = new[m]
  <2>1. \A k \in 1 .. m : Grouped(all[k]) \in Seq(Character)
    <3> SUFFICES ASSUME NEW k \in 1 .. m PROVE Grouped(all[k]) \in Seq(Character)
      OBVIOUS
    <3>1. all[k] \in X
      BY <1>3, ElementOfSeq DEF m
    <3> QED
      BY <3>1, GroupedAre DEF X
  <2>2. m \in Nat
    BY <1>2, <1>3
  <2> QED
    BY <1>3, <1>12, <2>1, <2>2, GroupsAre DEF m
<1>14. new[m] = Joined(w, val[n])
  <2>1. m \in 1 .. n + 1 /\ m - 1 = n
    BY <1>2, <1>3
  <2> QED
    BY <1>9, <2>1
<1> QED
  BY <1>1, <1>4, <1>13, <1>14 DEF GroupBefore, w, n, X, all

-----------------------------------------------------------------------------
\* Peer references: what is read is what was written.

\* The rest of a text from k on.
RestFrom(text, k) == SubSeq(text, k, Len(text))

\* A group begins before p.
Begins(text, p) == p \in 3 .. Len(text) + 1 /\ text[p - 2] = separator /\ text[p - 1] = group_open

\* The groups from p on are of the documented form.
FineFrom(text, p) ==
  /\ p < Len(text) /\ text[Len(text)] = group_close
  /\ \A i \in p .. Len(text) :
       /\ text[i] = group_open => text[i - 1] = separator /\ text[i - 2] = group_close
       /\ text[i] = group_close =>
            /\ text[i - 1] # group_open
            /\ i = Len(text) \/ (i + 2 < Len(text) /\ text[i + 1] = separator /\ text[i + 2] = group_open)

\* The first of the groups is, and the others follow.
FirstIsFine(text, p) ==
  LET x == Closing(text, p)
  IN  /\ GoodPart(PartAt(text, p)) /\ text[x] = group_close
      /\ x = Len(text) \/ (/\ x + 2 < Len(text) /\ text[x + 1] = separator /\ text[x + 2] = group_open
                           /\ FineFrom(text, x + 3))

\* What is in the first group.
LEMMA FirstPart ==
  ASSUME NEW text \in Seq(Character), NEW p \in Nat \ {0}, p < Len(text)
  PROVE  LET x == Closing(text, p)
         IN  GoodPart(PartAt(text, p)) <=> x > p /\ \A i \in p .. x - 1 : text[i] # group_open /\ text[i] # group_close
<1> DEFINE x == Closing(text, p)
           w == PartAt(text, p)
<1>1. /\ x \in p .. Len(text) /\ x \in Nat /\ w \in Seq(Character) /\ Len(w) = x - p
      /\ \A i \in 1 .. x - p : w[i] = text[p + i - 1]
  <2>1. ClosingIs(text, p)
    BY ClosedAt
  <2> QED
    BY <2>1, Zenon DEF ClosingIs
<1>2. GoodPart(w) <=> Len(w) > 0 /\ \A i \in 1 .. Len(w) : w[i] # group_open /\ w[i] # group_close
  BY <1>1, GoodPartIs
<1> HIDE DEF x, w
<1>3. Len(w) > 0 <=> x > p
  BY <1>1
<1>4. ASSUME \A i \in 1 .. Len(w) : w[i] # group_open /\ w[i] # group_close, NEW i \in p .. x - 1
      PROVE  text[i] # group_open /\ text[i] # group_close
  <2> DEFINE j == i - p + 1
  <2>1. j \in 1 .. x - p /\ p + j - 1 = i
    BY <1>1
  <2> HIDE DEF j
  <2> QED
    BY <1>1, <1>4, <2>1
<1>5. ASSUME \A i \in p .. x - 1 : text[i] # group_open /\ text[i] # group_close, NEW i \in 1 .. Len(w)
      PROVE  w[i] # group_open /\ w[i] # group_close
  <2> DEFINE j == p + i - 1
  <2>1. j \in p .. x - 1 /\ i \in 1 .. x - p
    BY <1>1
  <2>2. w[i] = text[j]
    BY <1>1, <2>1
  <2> HIDE DEF j
  <2> QED
    BY <1>5, <2>1, <2>2
<1> QED
  BY <1>2, <1>3, <1>4, <1>5 DEF x, w

\* The groups are fine exactly if the first is and the others are.
LEMMA FineFirst ==
  \A text, p : text \in Seq(Character) /\ Begins(text, p) /\ p < Len(text)
               => (FineFrom(text, p) <=> FirstIsFine(text, p))
<1> SUFFICES ASSUME NEW text \in Seq(Character), NEW p, Begins(text, p), p < Len(text)
             PROVE  FineFrom(text, p) <=> FirstIsFine(text, p)
  OBVIOUS
<1> DEFINE n == Len(text)
           x == Closing(text, p)
<1>1. n \in Nat /\ p \in Nat \ {0} /\ p >= 3 /\ text[p - 2] = separator /\ text[p - 1] = group_open /\ p < n
  <2>1. n \in Nat
    BY LenProperties
  <2> QED
    BY <2>1 DEF Begins
<1>2. /\ x \in p .. n /\ x \in Nat /\ \A j \in p .. x - 1 : text[j] # group_close
  <2>1. ClosingIs(text, p)
    BY <1>1, ClosedAt
  <2> QED
    BY <2>1, Zenon DEF ClosingIs
<1>3. GoodPart(PartAt(text, p)) <=> x > p /\ \A i \in p .. x - 1 : text[i] # group_open /\ text[i] # group_close
  BY <1>1, FirstPart
<1>4. x = n \/ text[x] = group_close
  <2> DEFINE i == find(text, group_close, p)
  <2>1. FoundAt(text, group_close, p, i)
    BY <1>1, FindIs
  <2>2. x = IF i = npos THEN n ELSE i
    BY DEF Closing
  <2> HIDE DEF i, x
  <2> QED
    BY <2>1, <2>2 DEF FoundAt
<1>5. separator # group_open /\ separator # group_close /\ group_open # group_close
  BY DEF separator, group_open, group_close
<1> HIDE DEF n, x
<1>6. ASSUME FineFrom(text, p) PROVE FirstIsFine(text, p)
  <2>1. /\ text[n] = group_close
        /\ \A i \in p .. n : /\ text[i] = group_open => text[i - 1] = separator /\ text[i - 2] = group_close
                             /\ text[i] = group_close =>
                                  /\ text[i - 1] # group_open
                                  /\ i = n \/ (i + 2 < n /\ text[i + 1] = separator /\ text[i + 2] = group_open)
    BY <1>6 DEF FineFrom, n
  <2>2. text[x] = group_close
    BY <1>4, <2>1
  <2>3. text[x - 1] # group_open
    BY <1>2, <2>1, <2>2
  <2>4. x > p
    <3>1. x # p
      BY <1>1, <2>3
    <3> QED
      BY <1>1, <1>2, <3>1
  <2>5. ASSUME NEW i \in p .. x - 1 PROVE text[i] # group_open
    <3>1. i \in p .. n /\ i \in Nat
      BY <1>1, <1>2
    <3>2. CASE i = p
      <4>1. i - 2 = p - 2
        BY <3>2
      <4> QED
        BY <1>1, <1>5, <2>1, <3>1, <4>1
    <3>3. CASE i = p + 1
      <4>1. i - 2 = p - 1
        BY <1>1, <3>3
      <4> QED
        BY <1>1, <1>5, <2>1, <3>1, <4>1
    <3>4. CASE i # p /\ i # p + 1
      <4>1. i - 2 \in p .. x - 1
        BY <1>1, <1>2, <3>4
      <4> QED
        BY <1>2, <2>1, <3>1, <4>1
    <3> QED
      BY <3>2, <3>3, <3>4
  <2>6. GoodPart(PartAt(text, p))
    BY <1>2, <1>3, <2>4, <2>5
  <2>7. ASSUME x # n
        PROVE  /\ x + 2 < n /\ text[x + 1] = separator /\ text[x + 2] = group_open /\ FineFrom(text, x + 3)
    <3>1. x \in p .. n /\ x + 2 < n /\ text[x + 1] = separator /\ text[x + 2] = group_open
      BY <1>2, <2>1, <2>2, <2>7
    <3>2. x + 3 < n
      <4>1. x + 3 # n
        <5>1. ASSUME x + 3 = n PROVE FALSE
          <6>1. n \in p .. n /\ n - 1 = x + 2
            BY <1>1, <1>2, <5>1
          <6>2. text[n - 1] # group_open
            BY <2>1, <6>1
          <6> QED
            BY <3>1, <6>1, <6>2
        <5> QED
          BY <5>1
      <4> QED
        BY <1>1, <1>2, <3>1, <4>1
    <3>3. \A i \in x + 3 .. n : i \in p .. n
      BY <1>1, <1>2
    <3>4. FineFrom(text, x + 3)
      BY <2>1, <3>2, <3>3 DEF FineFrom, n
    <3> QED
      BY <3>1, <3>4
  <2> QED
    BY <2>2, <2>6, <2>7 DEF FirstIsFine, x, n
<1>7. ASSUME FirstIsFine(text, p) PROVE FineFrom(text, p)
  <2>1. /\ x > p /\ \A i \in p .. x - 1 : text[i] # group_open /\ text[i] # group_close
        /\ text[x] = group_close
        /\ x = n \/ (x + 2 < n /\ text[x + 1] = separator /\ text[x + 2] = group_open /\ FineFrom(text, x + 3))
    BY <1>3, <1>7 DEF FirstIsFine, x, n
  <2>2. x - 1 \in p .. x - 1
    BY <1>1, <1>2, <2>1
  <2>3. text[x - 1] # group_open
    BY <2>1, <2>2
  <2>4. text[n] = group_close
    BY <2>1 DEF FineFrom, n
  <2>5. ASSUME NEW i \in p .. n
        PROVE  /\ text[i] = group_open => text[i - 1] = separator /\ text[i - 2] = group_close
               /\ text[i] = group_close =>
                    /\ text[i - 1] # group_open
                    /\ i = n \/ (i + 2 < n /\ text[i + 1] = separator /\ text[i + 2] = group_open)
    <3>1. CASE i < x
      <4>1. i \in p .. x - 1
        BY <1>1, <1>2, <3>1
      <4> QED
        BY <2>1, <4>1
    <3>2. CASE i = x
      BY <1>5, <2>1, <2>3, <3>2
    <3>3. CASE i > x
      <4>1. x # n /\ FineFrom(text, x + 3) /\ text[x + 1] = separator /\ text[x + 2] = group_open /\ x + 2 < n
        BY <1>1, <1>2, <2>1, <3>3
      <4>2. CASE i = x + 1
        BY <1>5, <4>1, <4>2
      <4>3. CASE i = x + 2
        <5>1. i - 1 = x + 1 /\ i - 2 = x
          BY <1>2, <4>3
        <5> QED
          BY <1>5, <2>1, <4>1, <4>3, <5>1
      <4>4. CASE i # x + 1 /\ i # x + 2
        <5>1. i \in x + 3 .. n
          BY <1>1, <1>2, <3>3, <4>4
        <5> QED
          BY <4>1, <5>1 DEF FineFrom, n
      <4> QED
        BY <4>2, <4>3, <4>4
    <3> QED
      BY <1>1, <1>2, <3>1, <3>2, <3>3
  <2> QED
    BY <1>1, <2>4, <2>5 DEF FineFrom, n
<1> QED
  BY <1>6, <1>7

\* The rest of a text.
RestAt(text, k) ==
  /\ RestFrom(text, k) \in Seq(Character) /\ Len(RestFrom(text, k)) = Len(text) - k + 1
  /\ \A i \in 1 .. Len(text) - k + 1 : RestFrom(text, k)[i] = text[k + i - 1]

\* It is of the characters from there on.
LEMMA RestIs ==
  \A text, k : text \in Seq(Character) /\ k \in 1 .. Len(text) + 1 => RestAt(text, k)
<1> SUFFICES ASSUME NEW text \in Seq(Character), NEW k \in 1 .. Len(text) + 1 PROVE RestAt(text, k)
  OBVIOUS
<1> DEFINE n == Len(text)
           w == RestFrom(text, k)
           S == Character
<1>1. n \in Nat /\ k \in Int /\ n \in Int /\ k \in Nat
  BY LenProperties
<1>2. \A i \in k .. n : text[i] \in S
  <2> SUFFICES ASSUME NEW i \in k .. n PROVE text[i] \in S
    OBVIOUS
  <2>1. i \in 1 .. Len(text)
    BY <1>1
  <2> QED
    BY <2>1, ElementOfSeq
<1> HIDE DEF S
<1>3. CutFrom(S, text, k, n)
  BY <1>1, <1>2, PartsAreCut, Zenon
<1>4. /\ w \in Seq(S) /\ Len(w) = (IF k <= n THEN n - k + 1 ELSE 0) /\ \A i \in 1 .. n - k + 1 : w[i] = text[k + i - 1]
  BY <1>3, Zenon DEF CutFrom, RestFrom
<1> HIDE DEF w
<1>5. Len(w) = n - k + 1
  <2>1. k <= n + 1
    OBVIOUS
  <2> HIDE DEF n
  <2>2. ~(k <= n) => n - k + 1 = 0
    BY <1>1, <2>1
  <2> QED
    BY <1>4, <2>2
<1> QED
  BY <1>4, <1>5 DEF RestAt, w, S

\* It begins with the group that begins before p.
LEMMA RestBegins ==
  \A text, p : text \in Seq(Character) /\ Begins(text, p) /\ p < Len(text) /\ text[Closing(text, p)] = group_close
     => RestFrom(text, p - 2) = Joined(Grouped(PartAt(text, p)), RestFrom(text, Closing(text, p) + 1))
<1> SUFFICES ASSUME NEW text \in Seq(Character), NEW p, Begins(text, p), p < Len(text),
                    text[Closing(text, p)] = group_close
             PROVE  RestFrom(text, p - 2) = Joined(Grouped(PartAt(text, p)), RestFrom(text, Closing(text, p) + 1))
  OBVIOUS
<1> DEFINE n == Len(text)
           x == Closing(text, p)
           w == PartAt(text, p)
           g == Grouped(w)
           u == RestFrom(text, p - 2)
           v == RestFrom(text, x + 1)
           S == Character
           gv == g \o v
<1>1. n \in Nat /\ p \in Nat \ {0} /\ p >= 3 /\ text[p - 2] = separator /\ text[p - 1] = group_open /\ p < n
  <2>1. n \in Nat
    BY LenProperties
  <2> QED
    BY <2>1 DEF Begins
<1>2. /\ x \in p .. n /\ x \in Nat /\ w \in Seq(S) /\ Len(w) = x - p /\ \A i \in 1 .. x - p : w[i] = text[p + i - 1]
  <2>1. ClosingIs(text, p)
    BY <1>1, ClosedAt
  <2> QED
    BY <2>1, Zenon DEF ClosingIs
<1>3. /\ g \in Seq(S) /\ Len(g) = Len(w) + 3 /\ g[1] = separator /\ g[2] = group_open
      /\ \A i \in 1 .. Len(w) : g[i + 2] = w[i]
      /\ g[Len(w) + 3] = group_close
  <2> HIDE DEF w
  <2> QED
    BY <1>2, GroupedAre
<1>4. /\ u \in Seq(S) /\ Len(u) = n - (p - 2) + 1 /\ \A i \in 1 .. n - (p - 2) + 1 : u[i] = text[(p - 2) + i - 1]
  <2>1. p - 2 \in 1 .. n + 1
    BY <1>1
  <2>2. RestAt(text, p - 2)
    BY <2>1, RestIs, Zenon
  <2> QED
    BY <2>2, Zenon DEF RestAt
<1>5. /\ v \in Seq(S) /\ Len(v) = n - (x + 1) + 1 /\ \A i \in 1 .. n - (x + 1) + 1 : v[i] = text[(x + 1) + i - 1]
  <2>1. x + 1 \in 1 .. n + 1
    BY <1>1, <1>2
  <2>2. RestAt(text, x + 1)
    BY <2>1, RestIs, Zenon
  <2> QED
    BY <2>2, Zenon DEF RestAt
<1>6. text[x] = group_close
  OBVIOUS
<1> HIDE DEF S, w, g, u, v, n
<1>7. /\ gv \in Seq(S) /\ Len(gv) = Len(g) + Len(v)
      /\ \A i \in 1 .. Len(g) + Len(v) : gv[i] = IF i <= Len(g) THEN g[i] ELSE v[i - Len(g)]
  <2> HIDE DEF x
  <2> QED
    BY <1>3, <1>5, ConcatProperties
<1> HIDE DEF gv, x
<1> DEFINE l == x - p
           m == n - (p - 2) + 1
<1>8. Len(u) = m /\ Len(gv) = m /\ Len(g) = l + 3 /\ Len(v) = n - x /\ l \in Nat /\ m \in Nat /\ m = l + 3 + (n - x)
  BY <1>1, <1>2, <1>3, <1>4, <1>5, <1>7
<1> HIDE DEF l
<1>9. ASSUME NEW i \in 1 .. m PROVE u[i] = gv[i]
  <2>1. u[i] = text[(p - 2) + i - 1]
    BY <1>4
  <2> HIDE DEF m
  <2>2. i \in Nat /\ i >= 1
    BY <1>8
  <2>3. CASE i <= l + 3
    <3>1. gv[i] = g[i]
      BY <1>7, <1>8, <2>3
    <3>2. CASE i = 1
      <4>1. (p - 2) + i - 1 = p - 2
        BY <1>1, <3>2
      <4> QED
        BY <1>1, <1>3, <2>1, <3>1, <3>2, <4>1
    <3>3. CASE i = 2
      <4>1. (p - 2) + i - 1 = p - 1
        BY <1>1, <3>3
      <4> QED
        BY <1>1, <1>3, <2>1, <3>1, <3>3, <4>1
    <3>4. CASE i = l + 3
      <4>1. (p - 2) + i - 1 = x
        BY <1>1, <1>2, <3>4 DEF l
      <4>2. Len(w) + 3 = i
        BY <1>2, <3>4 DEF l
      <4> QED
        BY <1>3, <1>6, <2>1, <3>1, <4>1, <4>2
    <3>5. CASE i # 1 /\ i # 2 /\ i # l + 3
      <4> DEFINE j == i - 2
      <4>1. j \in 1 .. x - p /\ j + 2 = i /\ (p - 2) + i - 1 = p + j - 1
        BY <1>1, <1>2, <1>8, <2>2, <2>3, <3>5 DEF l
      <4> HIDE DEF j
      <4>2. g[i] = w[j] /\ w[j] = text[p + j - 1]
        BY <1>2, <1>3, <4>1
      <4> QED
        BY <2>1, <3>1, <4>1, <4>2
    <3> QED
      BY <3>2, <3>3, <3>4, <3>5
  <2>4. CASE ~(i <= l + 3)
    <3> DEFINE j == i - (l + 3)
    <3>1. j \in 1 .. n - (x + 1) + 1 /\ (p - 2) + i - 1 = (x + 1) + j - 1
      BY <1>1, <1>2, <1>8, <2>2, <2>4 DEF l, m
    <3>2. gv[i] = v[j]
      BY <1>7, <1>8, <2>4
    <3> HIDE DEF j
    <3> QED
      BY <1>5, <2>1, <3>1, <3>2
  <2> QED
    BY <2>3, <2>4
<1>10. u = gv
  <2> HIDE DEF m
  <2> QED
    BY <1>4, <1>7, <1>8, <1>9, SeqEqual
<1> QED
  BY <1>10 DEF u, gv, g, v, w, x, Joined

\* Behind the beginning of a group at most one character is left, which is not that of anyone.
LEMMA RestIsTail ==
  \A text, p : text \in Seq(Character) /\ (\A i \in 2 .. Len(text) : text[i] # "a") /\ Begins(text, p) /\ p >= Len(text)
     => RestFrom(text, p - 2) \in Tails \ {<<>>}
<1> SUFFICES ASSUME NEW text \in Seq(Character), \A i \in 2 .. Len(text) : text[i] # "a", NEW p,
                    Begins(text, p), p >= Len(text)
             PROVE  RestFrom(text, p - 2) \in Tails \ {<<>>}
  OBVIOUS
<1> DEFINE n == Len(text)
           u == RestFrom(text, p - 2)
           S == Character
<1>1. n \in Nat /\ p \in Nat \ {0} /\ p >= 3 /\ text[p - 2] = separator /\ text[p - 1] = group_open /\ (p = n \/ p = n + 1)
  <2>1. n \in Nat
    BY LenProperties
  <2> QED
    BY <2>1 DEF Begins
<1>2. /\ u \in Seq(S) /\ Len(u) = n - (p - 2) + 1 /\ \A i \in 1 .. n - (p - 2) + 1 : u[i] = text[(p - 2) + i - 1]
  <2>1. p - 2 \in 1 .. n + 1
    BY <1>1
  <2>2. RestAt(text, p - 2)
    BY <2>1, RestIs, Zenon
  <2> QED
    BY <2>2, Zenon DEF RestAt
<1>3. \A i \in 1 .. n : text[i] \in S
  <2> SUFFICES ASSUME NEW i \in 1 .. n PROVE text[i] \in S
    OBVIOUS
  <2> QED
    BY ElementOfSeq
<1>4. S = {"x", "a", separator, group_open, group_close}
  BY DEF Character
<1>5. \A i \in 2 .. n : text[i] # "a"
  OBVIOUS
<1> HIDE DEF u, S, n
<1>6. u[1] = separator /\ u[2] = group_open
  <2>1. 1 \in 1 .. n - (p - 2) + 1 /\ 2 \in 1 .. n - (p - 2) + 1 /\ (p - 2) + 1 - 1 = p - 2 /\ (p - 2) + 2 - 1 = p - 1
    BY <1>1
  <2>2. u[1] = text[(p - 2) + 1 - 1] /\ u[2] = text[(p - 2) + 2 - 1]
    BY <1>2, <2>1
  <2> QED
    BY <1>1, <2>1, <2>2
<1>7. separator \in S /\ group_open \in S
  BY <1>4
<1>8. CASE p = n + 1
  <2> DEFINE t == <<separator, group_open>>
  <2>1. t \in Seq(S) /\ Len(t) = 2 /\ t[1] = separator /\ t[2] = group_open
    BY <1>7
  <2>2. Len(u) = 2
    BY <1>1, <1>2, <1>8
  <2> HIDE DEF t
  <2>3. \A i \in 1 .. Len(u) : u[i] = t[i]
    <3>1. \A i \in 1 .. 2 : i = 1 \/ i = 2
      OBVIOUS
    <3> QED
      BY <1>6, <2>1, <2>2, <3>1
  <2>4. u = t
    BY <1>2, <2>1, <2>2, <2>3, SeqEqual
  <2>5. t # <<>> /\ t \in Tails
    BY DEF t, Tails
  <2> QED
    BY <2>4, <2>5 DEF u
<1>9. CASE p = n
  <2> DEFINE c == text[n]
             t == <<separator, group_open, c>>
  <2>1. c \in {"x", separator, group_open, group_close} /\ c \in S
    <3>1. n \in 1 .. n /\ n \in 2 .. n
      BY <1>1, <1>9
    <3> QED
      BY <1>3, <1>4, <1>5, <3>1
  <2>2. Len(u) = 3 /\ u[3] = c
    <3>1. 3 \in 1 .. n - (p - 2) + 1 /\ (p - 2) + 3 - 1 = n
      BY <1>1, <1>9
    <3>2. u[3] = text[(p - 2) + 3 - 1]
      BY <1>2, <3>1
    <3> QED
      BY <1>1, <1>2, <1>9, <3>1, <3>2
  <2> HIDE DEF c
  <2>3. t \in Seq(S) /\ Len(t) = 3 /\ t[1] = separator /\ t[2] = group_open /\ t[3] = c
    BY <1>7, <2>1
  <2>5. t # <<>> /\ t \in Tails
    <3>1. t \in { <<separator, group_open, d>> : d \in {"x", separator, group_open, group_close} }
      BY <2>1
    <3> QED
      BY <3>1, Zenon DEF Tails
  <2> HIDE DEF t
  <2>4. u = t
    <3>1. \A i \in 1 .. 3 : i = 1 \/ i = 2 \/ i = 3
      OBVIOUS
    <3>2. \A i \in 1 .. Len(u) : u[i] = t[i]
      BY <1>6, <2>2, <2>3, <3>1
    <3> QED
      BY <1>2, <2>2, <2>3, <3>2, SeqEqual
  <2> QED
    BY <2>4, <2>5 DEF u
<1> QED
  BY <1>1, <1>8, <1>9

\* What the groups read from p on are: those that the text has, and a tail that is passed over.
ReadsGroups(text, id, p, r) ==
  /\ r.ok = "parsed" =>
       /\ r.id = id
       /\ \E t \in Tails : RestFrom(text, p - 2) = Joined(Groups(r.cable), t) /\ (t = <<>> => FineFrom(text, p))
  /\ FineFrom(text, p) => r.ok = "parsed" /\ RestFrom(text, p - 2) = Groups(r.cable)

\* A tail is of characters.
LEMMA TailsAre == \A t \in Tails : t \in Seq(Character)
<1> SUFFICES ASSUME NEW t \in Tails PROVE t \in Seq(Character)
  OBVIOUS
<1> DEFINE S == Character
<1>1. separator \in S /\ group_open \in S /\ group_close \in S /\ "x" \in S
  BY DEF Character
<1>2. \/ t = <<>> \/ t = <<separator, group_open>>
      \/ \E c \in {"x", separator, group_open, group_close} : t = <<separator, group_open, c>>
  BY DEF Tails
<1> HIDE DEF S
<1>3. \A c \in S : <<separator, group_open, c>> \in Seq(S)
  BY <1>1
<1>4. <<>> \in Seq(S) /\ <<separator, group_open>> \in Seq(S)
  BY <1>1
<1> QED
  BY <1>1, <1>2, <1>3, <1>4 DEF S

\* Nothing joined to a string of characters, and three strings joined in either order.
JoinsWell(x, y, z) ==
  /\ Joined(<<>>, x) = x /\ Joined(x, <<>>) = x
  /\ Joined(Joined(x, y), z) = Joined(x, Joined(y, z)) /\ Joined(x, y) \in Seq(Character)

\* It is so of all.
LEMMA JoinsAre == \A x, y, z \in Seq(Character) : JoinsWell(x, y, z)
<1> DEFINE S == Character
<1> HIDE DEF S
<1>1. \A x, y, z \in Seq(S) : (x \o y) \o z = x \o (y \o z)
  BY JoinedTwice
<1>2. \A x, y \in Seq(S) : x \o y \in Seq(S)
  BY ConcatProperties
<1>3. \A x \in Seq(S) : <<>> \o x = x /\ x \o <<>> = x
  BY ConcatEmptySeq
<1>4. ASSUME NEW x \in Seq(S), NEW y \in Seq(S), NEW z \in Seq(S) PROVE JoinsWell(x, y, z)
  <2>1. Joined(<<>>, x) = x /\ Joined(x, <<>>) = x
    BY <1>3, Zenon DEF Joined
  <2>2. Joined(Joined(x, y), z) = Joined(x, Joined(y, z))
    BY <1>1, Zenon DEF Joined
  <2>3. Joined(x, y) \in Seq(Character)
    BY <1>2, Zenon DEF Joined, S
  <2> QED
    BY <2>1, <2>2, <2>3, Zenon DEF JoinsWell
<1> QED
  BY <1>4 DEF S

\* No groups.
LEMMA NoGroups == Groups(<<>>) = <<>>
<1>1. [i \in DOMAIN <<>> |-> Grouped(<<>>[i])] = <<>> /\ Len(<<>>) = 0
  OBVIOUS
<1> QED
  BY <1>1, Zenon DEF Groups, FlattenSeq

\* Reading one group, if the groups behind it are read so.
LEMMA GroupRead ==
  ASSUME NEW text \in Seq(Character), \A i \in 2 .. Len(text) : text[i] # "a",
         NEW id \in Seq(Seq(Character)), NEW group, GroupsGiven(text, id, group),
         NEW p, Begins(text, p),
         \A q : Begins(text, q) /\ q > p => ReadsGroups(text, id, q, group[q])
  PROVE  ReadsGroups(text, id, p, group[p])
<1> DEFINE n == Len(text)
           x == Closing(text, p)
           w == PartAt(text, p)
           g == Grouped(w)
           r == group[p]
           u == RestFrom(text, p - 2)
           v == RestFrom(text, x + 1)
           S == Seq(Character)
<1>1. n \in Nat /\ p \in Nat \ {0} /\ p >= 3 /\ p \in 1 .. n + 3
  <2>1. n \in Nat
    BY LenProperties
  <2> QED
    BY <2>1 DEF Begins
<1>2. r = GroupStep(text, id, group, p)
  BY <1>1 DEF GroupsGiven
<1>3. ASSUME p >= n PROVE ReadsGroups(text, id, p, r)
  <2>1. r = Parsed(id, <<>>)
    BY <1>2, <1>3 DEF GroupStep
  <2>2. r.ok = "parsed" /\ r.id = id /\ r.cable = <<>>
    BY <2>1 DEF Parsed
  <2>3. u \in Tails \ {<<>>}
    BY <1>3, RestIsTail, Zenon
  <2>4. u = Joined(<<>>, u)
    BY <2>3, TailsAre, JoinsAre, Zenon DEF JoinsWell
  <2>5. ~FineFrom(text, p)
    BY <1>1, <1>3 DEF FineFrom
  <2> HIDE DEF u, r
  <2>6. u \in Tails /\ u # <<>>
    BY <2>3
  <2>7. u = Joined(Groups(r.cable), u)
    BY <2>2, <2>4, NoGroups, Zenon
  <2> QED
    BY <2>2, <2>5, <2>6, <2>7, Zenon DEF ReadsGroups, u
<1>4. ASSUME p < n PROVE ReadsGroups(text, id, p, r)
  <2>1. ClosingIs(text, p)
    BY <1>1, <1>4, ClosedAt
  <2>2. x \in p .. n /\ x \in Nat /\ w \in S
    BY <2>1, Zenon DEF ClosingIs
  <2>3. FineFrom(text, p) <=> FirstIsFine(text, p)
    BY <1>4, FineFirst, Zenon
  <2>4. ASSUME ~GoodPart(w) \/ text[x] # group_close PROVE ReadsGroups(text, id, p, r)
    <3>1. r = Refused
      BY <1>1, <1>2, <1>4, <2>4 DEF GroupStep
    <3>2. r.ok # "parsed"
      BY <3>1 DEF Refused
    <3>3. ~FirstIsFine(text, p)
      BY <2>4, Zenon DEF FirstIsFine
    <3> QED
      BY <2>3, <3>2, <3>3, Zenon DEF ReadsGroups
  <2>5. ASSUME GoodPart(w), text[x] = group_close PROVE ReadsGroups(text, id, p, r)
    <3>1. u = Joined(g, v)
      BY <1>4, <2>5, RestBegins, Zenon
    <3>2. GroupBefore(w, <<>>) /\ <<w>> \o <<>> = <<w>>
      <4>1. <<>> \in Seq(Seq(Character))
        OBVIOUS
      <4>2. <<w>> \o <<>> = <<w>>
        OBVIOUS
      <4> QED
        BY <2>2, <4>1, <4>2, GroupsCons, Zenon
    <3>3. g \in S
      BY <3>2, Zenon DEF GroupBefore
    <3>4. ASSUME x = n PROVE ReadsGroups(text, id, p, r)
      <4>1. r = Parsed(id, <<w>>)
        BY <1>1, <1>2, <1>4, <2>5, <3>4 DEF GroupStep
      <4>2. r.ok = "parsed" /\ r.id = id /\ r.cable = <<w>>
        BY <4>1 DEF Parsed
      <4>3. Groups(<<w>>) = g
        <5>1. Groups(<<w>> \o <<>>) = Joined(g, Groups(<<>>))
          BY <3>2, Zenon DEF GroupBefore
        <5>2. Groups(<<w>>) = Joined(g, <<>>)
          BY <3>2, <5>1, NoGroups, Zenon
        <5>3. Joined(g, <<>>) = g
          BY <3>3, JoinsAre, Zenon DEF JoinsWell
        <5> QED
          BY <5>2, <5>3, Zenon
      <4>4. v = <<>>
        <5>1. n + 1 \in 1 .. n + 1
          BY <1>1
        <5>2. RestAt(text, n + 1)
          BY <5>1, RestIs, Zenon
        <5>3. Len(RestFrom(text, n + 1)) = n - (n + 1) + 1 /\ RestFrom(text, n + 1) \in Seq(Character)
          BY <5>2, Zenon DEF RestAt
        <5>4. n - (n + 1) + 1 = 0
          BY <1>1
        <5> DEFINE y == RestFrom(text, n + 1)
        <5>5. Len(y) = 0 /\ y \in Seq(Character)
          BY <5>3, <5>4
        <5> HIDE DEF y
        <5>6. y = <<>>
          BY <5>5, EmptySeq
        <5> QED
          BY <3>4, <5>6 DEF y
      <4>5. u = g
        BY <3>1, <3>3, <4>4, JoinsAre, Zenon DEF JoinsWell
      <4>6. <<>> \in Tails /\ u = Joined(Groups(r.cable), <<>>)
        <5>1. <<>> \in Tails
          BY DEF Tails
        <5>2. Joined(g, <<>>) = g
          BY <3>3, JoinsAre, Zenon DEF JoinsWell
        <5> QED
          BY <4>2, <4>3, <4>5, <5>1, <5>2, Zenon
      <4>7. FirstIsFine(text, p)
        BY <2>5, <3>4, Zenon DEF FirstIsFine
      <4> HIDE DEF r, u, w, g
      <4>8. FineFrom(text, p)
        BY <2>3, <4>7, Zenon
      <4>9. u = Groups(r.cable)
        BY <4>2, <4>3, <4>5, Zenon
      <4> QED
        BY <4>2, <4>6, <4>8, <4>9, Zenon DEF ReadsGroups, u
    <3>5. ASSUME x # n, text[x + 1] # separator \/ x + 1 = n \/ text[x + 2] # group_open
          PROVE  ReadsGroups(text, id, p, r)
      <4>1. r = Refused \/ r = OutOfRange
        BY <1>1, <1>2, <1>4, <2>5, <3>5 DEF GroupStep
      <4>2. r.ok # "parsed"
        BY <4>1 DEF Refused, OutOfRange
      <4>3. ~FirstIsFine(text, p)
        <5>1. x + 1 = n => ~(x + 2 < n)
          BY <1>1, <2>2
        <5> HIDE DEF x
        <5> QED
          BY <3>5, <5>1, Zenon DEF FirstIsFine, x
      <4> QED
        BY <2>3, <4>2, <4>3, Zenon DEF ReadsGroups
    <3>6. ASSUME x # n, text[x + 1] = separator, x + 1 # n, text[x + 2] = group_open
          PROVE  ReadsGroups(text, id, p, r)
      <4> DEFINE q == x + 3
                 rest == group[q]
                 c == rest.cable
      <4>1. q \in 3 .. n + 1 /\ q > p /\ q - 2 = x + 1 /\ q - 1 = x + 2 /\ q \in 1 .. n + 3
        BY <1>1, <2>2, <3>6
      <4>2. Begins(text, q)
        BY <3>6, <4>1 DEF Begins
      <4>3. ReadsGroups(text, id, q, rest)
        BY <4>1, <4>2
      <4>4. r = [rest EXCEPT !.cable = <<w>> \o @]
        BY <1>1, <1>2, <1>4, <2>5, <3>6 DEF GroupStep
      <4>5. r.ok = rest.ok /\ r.id = rest.id /\ r.cable = <<w>> \o c /\ c \in Seq(S)
        <5>1. group \in [1 .. n + 3 -> ParseResult]
          BY Zenon DEF GroupsGiven
        <5> HIDE DEF q
        <5>2. rest \in ParseResult
          BY <4>1, <5>1
        <5> HIDE DEF rest, w, c
        <5> DEFINE QQ == Seq(S)
                   k == <<w>> \o rest.cable
        <5>3. rest \in [ok : Outcome, id : QQ, cable : QQ]
          BY <5>2 DEF ParseResult
        <5>4. r = [rest EXCEPT !.cable = k]
          BY <4>4
        <5> HIDE DEF QQ, k, r
        <5>5. r.ok = rest.ok /\ r.id = rest.id /\ r.cable = k /\ rest.cable \in QQ
          BY <5>3, <5>4
        <5> QED
          BY <5>5 DEF k, QQ, c
      <4>6. GroupBefore(w, c)
        BY <2>2, <4>5, GroupsCons, Zenon
      <4>7. Groups(r.cable) = Joined(g, Groups(c)) /\ Groups(c) \in S /\ g \in S
        BY <4>5, <4>6, Zenon DEF GroupBefore
      <4>8. v = RestFrom(text, q - 2)
        BY <4>1
      <4>9. FirstIsFine(text, p) <=> FineFrom(text, q)
        <5>1. FineFrom(text, q) => x + 2 < n
          BY <1>1, <2>2 DEF FineFrom
        <5> HIDE DEF x
        <5> QED
          BY <2>5, <3>6, <5>1, Zenon DEF FirstIsFine, x
      <4> HIDE DEF q, rest, c, r, u, v, w, g, x
      <4>10. ASSUME r.ok = "parsed"
             PROVE  r.id = id /\ \E t \in Tails : u = Joined(Groups(r.cable), t) /\ (t = <<>> => FineFrom(text, p))
        <5>1. rest.ok = "parsed"
          BY <4>5, <4>10, Zenon
        <5>2. rest.id = id /\ \E t \in Tails : v = Joined(Groups(c), t) /\ (t = <<>> => FineFrom(text, q))
          BY <4>3, <4>8, <5>1, Zenon DEF ReadsGroups, c
        <5>3. PICK t \in Tails : v = Joined(Groups(c), t) /\ (t = <<>> => FineFrom(text, q))
          BY <5>2
        <5>4. t \in S
          BY TailsAre
        <5>5. JoinsWell(g, Groups(c), t)
          BY <4>7, <5>4, JoinsAre, Zenon
        <5>6. u = Joined(Groups(r.cable), t)
          BY <3>1, <4>7, <5>3, <5>5, Zenon DEF JoinsWell
        <5>7. t = <<>> => FineFrom(text, p)
          BY <2>3, <4>9, <5>3, Zenon
        <5> QED
          BY <4>5, <5>2, <5>6, <5>7, Zenon
      <4>11. ASSUME FineFrom(text, p) PROVE r.ok = "parsed" /\ u = Groups(r.cable)
        <5>1. FineFrom(text, q)
          BY <2>3, <4>9, <4>11, Zenon
        <5>2. rest.ok = "parsed" /\ v = Groups(c)
          BY <4>3, <4>8, <5>1, Zenon DEF ReadsGroups, c
        <5> QED
          BY <3>1, <4>5, <4>7, <5>2, Zenon
      <4> QED
        BY <4>10, <4>11, Zenon DEF ReadsGroups, u
    <3> QED
      BY <3>4, <3>5, <3>6
  <2> QED
    BY <2>4, <2>5
<1> QED
  BY <1>1, <1>3, <1>4

\* So every group is read.
LEMMA GroupsRead ==
  ASSUME NEW text \in Seq(Character), \A i \in 2 .. Len(text) : text[i] # "a",
         NEW id \in Seq(Seq(Character)), NEW group, GroupsGiven(text, id, group)
  PROVE  \A p : Begins(text, p) => ReadsGroups(text, id, p, group[p])
<1> DEFINE n == Len(text)
           T == { k \in Nat : \A p : Begins(text, p) /\ p > n + 1 - k => ReadsGroups(text, id, p, group[p]) }
<1>1. n \in Nat
  BY LenProperties
<1>2. \A p : Begins(text, p) => p \in 3 .. n + 1
  BY DEF Begins
<1>3. 0 \in T
  <2>1. \A p : ~(p \in 3 .. n + 1 /\ p > n + 1 - 0)
    BY <1>1
  <2> QED
    BY <1>2, <2>1
<1>4. ASSUME NEW k \in Nat, k \in T PROVE k + 1 \in T
  <2> SUFFICES ASSUME NEW p, Begins(text, p), p > n + 1 - (k + 1) PROVE ReadsGroups(text, id, p, group[p])
    OBVIOUS
  <2>1. p \in 3 .. n + 1
    BY <1>2
  <2>2. \A q : Begins(text, q) /\ q > n + 1 - k => ReadsGroups(text, id, q, group[q])
    BY <1>4
  <2>3. ASSUME NEW q, Begins(text, q), q > p PROVE ReadsGroups(text, id, q, group[q])
    <3>1. q \in 3 .. n + 1
      BY <1>2, <2>3
    <3>2. q > n + 1 - k
      BY <1>1, <2>1, <2>3, <3>1
    <3> QED
      BY <2>2, <2>3, <3>2
  <2> QED
    BY <2>3, GroupRead
<1> HIDE DEF T
<1>5. \A k \in Nat : k \in T
  BY <1>3, <1>4, AllFromZero
<1> SUFFICES ASSUME NEW p, Begins(text, p) PROVE ReadsGroups(text, id, p, group[p])
  OBVIOUS
<1>6. p \in 3 .. n + 1 /\ n + 1 \in Nat /\ p > n + 1 - (n + 1)
  BY <1>1, <1>2
<1>7. n + 1 \in T
  BY <1>5, <1>6
<1> QED
  BY <1>6, <1>7 DEF T

\* The part before a place.
Before(text, k) == SubSeq(text, 1, k - 1)

\* It is of the characters before, and the rest follows.
BeforeIs(text, k) ==
  /\ Before(text, k) \in Seq(Character) /\ Len(Before(text, k)) = k - 1
  /\ \A i \in 1 .. k - 1 : Before(text, k)[i] = text[i]
  /\ text = Joined(Before(text, k), RestFrom(text, k))

\* It is so of every place.
LEMMA BeforeAt == \A text, k : text \in Seq(Character) /\ k \in 1 .. Len(text) => BeforeIs(text, k)
<1> SUFFICES ASSUME NEW text \in Seq(Character), NEW k \in 1 .. Len(text) PROVE BeforeIs(text, k)
  OBVIOUS
<1> DEFINE n == Len(text)
           u == Before(text, k)
           v == RestFrom(text, k)
           S == Character
           uv == u \o v
           j == k - 1
<1>1. n \in Nat /\ k \in Nat /\ k \in 1 .. n + 1 /\ k <= n /\ k >= 1
  <2>1. n \in Nat
    BY LenProperties
  <2> QED
    BY <2>1
<1>2. j \in Nat /\ 1 \in Int /\ j \in Int /\ j - 1 + 1 = j /\ (1 <= j \/ j = 0)
  BY <1>1
<1>3. \A i \in 1 .. j : text[i] \in S
  <2> SUFFICES ASSUME NEW i \in 1 .. j PROVE text[i] \in S
    OBVIOUS
  <2>1. i \in 1 .. Len(text)
    BY <1>1
  <2> QED
    BY <2>1, ElementOfSeq
<1>4. /\ v \in Seq(S) /\ Len(v) = n - k + 1 /\ \A i \in 1 .. n - k + 1 : v[i] = text[k + i - 1]
  <2>1. RestAt(text, k)
    BY <1>1, RestIs, Zenon
  <2> QED
    BY <2>1, Zenon DEF RestAt
<1>5. text \in Seq(S)
  OBVIOUS
<1> HIDE DEF S, v, n
<1>6. u = SubSeq(text, 1, j)
  BY DEF Before
<1> HIDE DEF j
<1>7. CutFrom(S, text, 1, j)
  BY <1>2, <1>3, PartsAreCut, Zenon
<1>8. /\ u \in Seq(S) /\ Len(u) = (IF 1 <= j THEN j - 1 + 1 ELSE 0) /\ \A i \in 1 .. j - 1 + 1 : u[i] = text[1 + i - 1]
  BY <1>6, <1>7, Zenon DEF CutFrom
<1> HIDE DEF u
<1>9. Len(u) = j /\ \A i \in 1 .. j : u[i] = text[i]
  <2>1. \A i \in 1 .. j : 1 + i - 1 = i
    BY <1>2
  <2> QED
    BY <1>2, <1>8, <2>1
<1>10. /\ uv \in Seq(S) /\ Len(uv) = Len(u) + Len(v)
       /\ \A i \in 1 .. Len(u) + Len(v) : uv[i] = IF i <= Len(u) THEN u[i] ELSE v[i - Len(u)]
  BY <1>4, <1>8, ConcatProperties
<1> HIDE DEF uv
<1>11. Len(uv) = n /\ Len(u) + Len(v) = n
  BY <1>1, <1>4, <1>9, <1>10 DEF j
<1>12. ASSUME NEW i \in 1 .. n PROVE text[i] = uv[i]
  <2>1. CASE i <= j
    <3>1. i \in 1 .. j
      BY <1>1, <2>1
    <3> QED
      BY <1>9, <1>10, <1>11, <2>1, <3>1
  <2>2. CASE ~(i <= j)
    <3>1. i - j \in 1 .. n - k + 1 /\ k + (i - j) - 1 = i
      BY <1>1, <2>2 DEF j
    <3>2. uv[i] = v[i - j]
      BY <1>9, <1>10, <1>11, <2>2
    <3> QED
      BY <1>4, <3>1, <3>2
  <2> QED
    BY <2>1, <2>2
<1>13. text = uv
  <2>1. Len(text) = Len(uv)
    BY <1>11 DEF n
  <2>2. \A i \in 1 .. Len(text) : text[i] = uv[i]
    BY <1>12 DEF n
  <2> QED
    BY <1>5, <1>10, <2>1, <2>2, SeqEqual
<1> QED
  BY <1>8, <1>9, <1>13 DEF BeforeIs, u, uv, v, S, j, Joined

\* Where the first separator is, and that the groups behind it are fine, is the documented form.
LEMMA WellFormedIs ==
  ASSUME NEW text \in Seq(Character), NEW at \in 1 .. Len(text), at = find(text, separator, 1)
  PROVE  /\ text[at] = separator
         /\ GoodPart(Before(text, at)) <=> at > 1 /\ \A i \in 1 .. at - 1 : text[i] # group_open /\ text[i] # group_close
         /\ WellFormed(text) <=> /\ Len(text) >= 3 /\ GoodPart(Before(text, at))
                                 /\ at + 2 <= Len(text) /\ text[at + 1] = group_open /\ FineFrom(text, at + 2)
<1> DEFINE n == Len(text)
           w == Before(text, at)
<1>1. n \in Nat /\ at \in Nat /\ at >= 1 /\ at <= n /\ at # npos
  <2>1. n \in Nat
    BY LenProperties
  <2> QED
    BY <2>1 DEF npos
<1>2. text[at] = separator
  <2>1. 1 \in Nat \ {0} /\ Len(text) \in Nat
    BY <1>1
  <2>2. FoundAt(text, separator, 1, at)
    BY <2>1, FindIs
  <2> QED
    BY <1>1, <2>2 DEF FoundAt
<1>3. GoodPart(w) <=> at > 1 /\ \A i \in 1 .. at - 1 : text[i] # group_open /\ text[i] # group_close
  <2>1. BeforeIs(text, at)
    BY BeforeAt, Zenon
  <2>2. w \in Seq(Character) /\ Len(w) = at - 1 /\ \A i \in 1 .. at - 1 : w[i] = text[i]
    BY <2>1, Zenon DEF BeforeIs
  <2>3. GoodPart(w) <=> Len(w) > 0 /\ \A i \in 1 .. Len(w) : w[i] # group_open /\ w[i] # group_close
    BY <2>2, GoodPartIs
  <2> HIDE DEF w
  <2>4. Len(w) > 0 <=> at > 1
    BY <1>1, <2>2
  <2> QED
    BY <2>2, <2>3, <2>4
<1>4. separator # group_open /\ separator # group_close /\ group_open # group_close
  BY DEF separator, group_open, group_close
<1>5. WellFormed(text) <=>
        /\ n >= 3 /\ at > 1 /\ at + 2 < n /\ text[at + 1] = group_open /\ text[n] = group_close
        /\ \A i \in 1 .. n :
             /\ text[i] = group_open => /\ i > at /\ text[i - 1] = separator
                                        /\ i - 1 = at \/ text[i - 2] = group_close
             /\ text[i] = group_close => /\ i > at /\ text[i - 1] # group_open
                                         /\ \/ i = n
                                            \/ i + 2 < n /\ text[i + 1] = separator /\ text[i + 2] = group_open
  BY <1>1 DEF WellFormed
<1>6. FineFrom(text, at + 2) <=>
        /\ at + 2 < n /\ text[n] = group_close
        /\ \A i \in at + 2 .. n :
             /\ text[i] = group_open => text[i - 1] = separator /\ text[i - 2] = group_close
             /\ text[i] = group_close =>
                  /\ text[i - 1] # group_open
                  /\ i = n \/ (i + 2 < n /\ text[i + 1] = separator /\ text[i + 2] = group_open)
  BY DEF FineFrom
<1> HIDE DEF w, n
<1>7. ASSUME WellFormed(text)
      PROVE  n >= 3 /\ GoodPart(w) /\ at + 2 <= n /\ text[at + 1] = group_open /\ FineFrom(text, at + 2)
  <2>1. ASSUME NEW i \in 1 .. at - 1 PROVE text[i] # group_open /\ text[i] # group_close
    <3>1. i \in 1 .. n /\ ~(i > at)
      BY <1>1
    <3> QED
      BY <1>5, <1>7, <3>1
  <2>2. ASSUME NEW i \in at + 2 .. n
        PROVE  /\ text[i] = group_open => text[i - 1] = separator /\ text[i - 2] = group_close
               /\ text[i] = group_close =>
                    /\ text[i - 1] # group_open
                    /\ i = n \/ (i + 2 < n /\ text[i + 1] = separator /\ text[i + 2] = group_open)
    <3>1. i \in 1 .. n /\ i - 1 # at
      BY <1>1
    <3> QED
      BY <1>5, <1>7, <3>1
  <2>3. at + 2 <= n
    BY <1>1, <1>5, <1>7
  <2> QED
    BY <1>3, <1>5, <1>6, <1>7, <2>1, <2>2, <2>3
<1>8. ASSUME n >= 3, GoodPart(w), text[at + 1] = group_open, FineFrom(text, at + 2)
      PROVE  WellFormed(text)
  <2>1. ASSUME NEW i \in 1 .. n
        PROVE  /\ text[i] = group_open => /\ i > at /\ text[i - 1] = separator
                                          /\ i - 1 = at \/ text[i - 2] = group_close
               /\ text[i] = group_close => /\ i > at /\ text[i - 1] # group_open
                                           /\ \/ i = n
                                              \/ i + 2 < n /\ text[i + 1] = separator /\ text[i + 2] = group_open
    <3>1. CASE i < at
      <4>1. i \in 1 .. at - 1
        BY <1>1, <3>1
      <4> QED
        BY <1>3, <1>8, <4>1
    <3>2. CASE i = at
      BY <1>2, <1>4, <3>2
    <3>3. CASE i = at + 1
      <4>1. i - 1 = at /\ i > at
        BY <1>1, <3>3
      <4> QED
        BY <1>2, <1>4, <1>8, <3>3, <4>1
    <3>4. CASE i > at + 1
      <4>1. i \in at + 2 .. n /\ i > at
        BY <1>1, <3>4
      <4> QED
        BY <1>6, <1>8, <4>1
    <3> QED
      BY <1>1, <3>1, <3>2, <3>3, <3>4
  <2> QED
    BY <1>3, <1>5, <1>6, <1>8, <2>1
<1> QED
  BY <1>2, <1>3, <1>7, <1>8 DEF w, n

\* What parsing a reference returns is exact.
ParsedExactly(text, r) ==
  /\ r \in ParseResult
  /\ WellFormed(text) => r.ok = "parsed" /\ Rebuilt(r) = text
  /\ r.ok = "parsed" => \E t \in Tails : text = Joined(Rebuilt(r), t) /\ (t = <<>> => WellFormed(text))

\* It is, whatever the text.
LEMMA ParseIsExact ==
  ASSUME NEW text \in Seq(Character), \A i \in 2 .. Len(text) : text[i] # "a"
  PROVE  ParsedExactly(text, parse_peer_reference(text))
<1> DEFINE n == Len(text)
           at == find(text, separator, 1)
           w == Before(text, at)
           id == IF w = literal_anyone THEN <<>> ELSE <<w>>
           r == parse_peer_reference(text)
           Q == Seq(Character)
           QQ == Seq(Q)
<1>1. n \in Nat
  BY LenProperties
<1>2. FoundAt(text, separator, 1, at)
  <2>1. 1 \in Nat \ {0} /\ Len(text) \in Nat
    BY <1>1
  <2> QED
    BY <2>1, FindIs
<1>3. r = IF n < 3 THEN Refused
          ELSE IF at = npos THEN IF GoodPart(text) THEN Parsed(<<text>>, <<>>) ELSE Refused
          ELSE IF ~GoodPart(w) \/ at + 2 > n \/ text[at + 1] # group_open THEN Refused
          ELSE CableGroups(text, id)[at + 2]
  BY Zenon DEF parse_peer_reference, Before
<1> SUFFICES ParsedExactly(text, r)
  OBVIOUS
<1> HIDE DEF r
<1>4. Refused \in ParseResult /\ Refused.ok # "parsed"
  <2>1. <<>> \in QQ
    OBVIOUS
  <2> HIDE DEF QQ
  <2>2. ParseResult = [ok : Outcome, id : QQ, cable : QQ]
    BY DEF ParseResult, QQ, Q
  <2>3. "err_check_input" \in Outcome
    BY DEF Outcome
  <2> QED
    BY <2>1, <2>2, <2>3 DEF Refused
<1>5. ASSUME r = Refused, ~WellFormed(text) PROVE ParsedExactly(text, r)
  BY <1>4, <1>5, Zenon DEF ParsedExactly
<1>6. CASE n < 3
  <2>1. ~WellFormed(text)
    BY <1>1, <1>6 DEF WellFormed
  <2> HIDE DEF n, at, w, id
  <2>2. r = Refused
    BY <1>3, <1>6, Zenon
  <2> QED
    BY <1>5, <2>1, <2>2
<1>7. CASE ~(n < 3) /\ at = npos
  <2>1. WellFormed(text) <=> GoodPart(text)
    BY <1>1, <1>7 DEF WellFormed
  <2>2. CASE ~GoodPart(text)
    <3> HIDE DEF n, at, w, id
    <3>1. r = Refused
      BY <1>3, <1>7, <2>2, Zenon
    <3> QED
      BY <1>5, <2>1, <2>2, <3>1
  <2>3. CASE GoodPart(text)
    <3>1. r = Parsed(<<text>>, <<>>)
      BY <1>3, <1>7, <2>3
    <3>2. r.ok = "parsed" /\ r.id = <<text>> /\ r.cable = <<>>
      BY <3>1 DEF Parsed
    <3>3. r \in ParseResult
      <4>1. <<>> \in QQ /\ "parsed" \in Outcome
        BY DEF Outcome
      <4> DEFINE s == <<text>>
      <4>2. s \in QQ
        <5> HIDE DEF Q
        <5>1. text \in Q
          BY DEF Q
        <5> QED
          BY <5>1
      <4> HIDE DEF QQ, s
      <4>3. ParseResult = [ok : Outcome, id : QQ, cable : QQ]
        BY DEF ParseResult, QQ, Q
      <4> QED
        BY <3>1, <4>1, <4>2, <4>3 DEF Parsed, s
    <3>4. Rebuilt(r) = text
      <4>1. r.id # <<>> /\ r.id[1] = text
        BY <3>2
      <4>2. Groups(r.cable) = <<>>
        BY <3>2, NoGroups
      <4>3. Rebuilt(r) = Joined(text, Groups(r.cable))
        BY <4>1, Zenon DEF Rebuilt, Groups, Joined
      <4>4. Joined(text, <<>>) = text
        BY JoinsAre, Zenon DEF JoinsWell
      <4> QED
        BY <4>2, <4>3, <4>4
    <3>5. Joined(text, <<>>) = text /\ <<>> \in Tails
      <4>1. <<>> \in Tails
        BY DEF Tails
      <4>2. Joined(text, <<>>) = text
        BY JoinsAre, Zenon DEF JoinsWell
      <4> QED
        BY <4>1, <4>2
    <3> HIDE DEF n, at, w, id
    <3>6. WellFormed(text)
      BY <2>1, <2>3
    <3>7. \E t \in Tails : text = Joined(Rebuilt(r), t) /\ (t = <<>> => WellFormed(text))
      <4>1. text = Joined(Rebuilt(r), <<>>)
        BY <3>4, <3>5, Zenon
      <4> QED
        BY <3>5, <3>6, <4>1, Zenon
    <3>8. r.ok = "parsed" /\ Rebuilt(r) = text
      BY <3>2, <3>4
    <3> QED
      BY <3>3, <3>7, <3>8, Zenon DEF ParsedExactly
  <2> QED
    BY <2>2, <2>3
<1>8. CASE ~(n < 3) /\ at # npos
  <2>1. at \in 1 .. Len(text)
    BY <1>2, <1>8 DEF FoundAt
  <2>2. /\ text[at] = separator
        /\ WellFormed(text) <=> n >= 3 /\ GoodPart(w) /\ at + 2 <= n /\ text[at + 1] = group_open /\ FineFrom(text, at + 2)
    BY <2>1, WellFormedIs
  <2>3. ASSUME ~GoodPart(w) \/ at + 2 > n \/ text[at + 1] # group_open PROVE ParsedExactly(text, r)
    <3>1. r = Refused
      BY <1>3, <1>8, <2>3
    <3>2. ~WellFormed(text)
      <4>1. at + 2 > n => ~(at + 2 <= n)
        BY <1>1, <2>1
      <4> HIDE DEF at, w
      <4> QED
        BY <2>2, <2>3, <4>1
    <3> QED
      BY <1>5, <3>1, <3>2
  <2>4. ASSUME GoodPart(w), ~(at + 2 > n), text[at + 1] = group_open PROVE ParsedExactly(text, r)
    <3> DEFINE p == at + 2
               group == CableGroups(text, id)
    <3>1. r = group[p]
      BY <1>3, <1>8, <2>4, Zenon
    <3>2. Begins(text, p) /\ p \in 1 .. n + 3 /\ p - 2 = at
      <4>1. p \in 3 .. n + 1 /\ p - 2 = at /\ p - 1 = at + 1 /\ p \in 1 .. n + 3
        BY <1>1, <2>1, <2>4
      <4> QED
        BY <2>2, <2>4, <4>1 DEF Begins
    <3>3. BeforeIs(text, at)
      BY <2>1, BeforeAt, Zenon
    <3>4. w \in Q /\ text = Joined(w, RestFrom(text, at))
      BY <3>3, Zenon DEF BeforeIs
    <3> HIDE DEF at, w
    <3>5. id \in QQ
      <4>1. <<>> \in QQ
        OBVIOUS
      <4>2. <<w>> \in QQ
        <5> HIDE DEF Q
        <5> QED
          BY <3>4
      <4> QED
        BY <4>1, <4>2
    <3> DEFINE first == IF id = <<>> THEN literal_anyone ELSE id[1]
    <3>6. first = w
      <4>1. CASE w = literal_anyone
        BY <4>1
      <4>2. CASE w # literal_anyone
        <5>1. id = <<w>> /\ <<w>> # <<>> /\ <<w>>[1] = w
          BY <4>2
        <5> QED
          BY <5>1
      <4> QED
        BY <4>1, <4>2
    <3> HIDE DEF id
    <3>7. GroupsGiven(text, id, group)
      BY <3>5, GroupsExist
    <3> HIDE DEF group
    <3>8. ReadsGroups(text, id, p, r)
      BY <3>1, <3>2, <3>5, <3>7, GroupsRead
    <3>9. r \in ParseResult
      BY <3>1, <3>2, <3>7 DEF GroupsGiven
    <3>10. RestFrom(text, p - 2) = RestFrom(text, at)
      BY <3>2
    <3>11. WellFormed(text) <=> FineFrom(text, p)
      <4>1. at \in Nat /\ n >= 3
        BY <1>1, <1>8, <2>1
      <4>2. at + 2 <= n
        <5> HIDE DEF n
        <5> QED
          BY <1>1, <2>4, <4>1
      <4> HIDE DEF n
      <4> QED
        BY <2>2, <2>4, <4>1, <4>2, Zenon DEF p
    <3> HIDE DEF p
    <3>12. Groups(r.cable) \in Q
      <4>1. r.cable \in Seq(Seq(Character))
        <5> HIDE DEF QQ
        <5>1. r \in [ok : Outcome, id : QQ, cable : QQ]
          BY <3>9 DEF ParseResult, QQ, Q
        <5> QED
          BY <5>1 DEF QQ
      <4> QED
        BY <4>1, GroupsMade, Zenon
    <3>13. r.id = id => Rebuilt(r) = Joined(w, Groups(r.cable))
      BY <3>6, Zenon DEF Rebuilt, Groups, Joined
    <3>14. ASSUME r.ok = "parsed"
           PROVE  \E t \in Tails : text = Joined(Rebuilt(r), t) /\ (t = <<>> => WellFormed(text))
      <4>1. r.id = id /\ \E t \in Tails : RestFrom(text, at) = Joined(Groups(r.cable), t) /\ (t = <<>> => FineFrom(text, p))
        BY <3>8, <3>10, <3>14, Zenon DEF ReadsGroups
      <4>2. PICK t \in Tails : RestFrom(text, at) = Joined(Groups(r.cable), t) /\ (t = <<>> => FineFrom(text, p))
        BY <4>1
      <4>3. JoinsWell(w, Groups(r.cable), t)
        BY <3>4, <3>12, TailsAre, JoinsAre, Zenon
      <4>4. text = Joined(w, Joined(Groups(r.cable), t))
        BY <3>4, <4>2, Zenon
      <4>5. text = Joined(Rebuilt(r), t)
        BY <3>13, <4>1, <4>3, <4>4, Zenon DEF JoinsWell
      <4> QED
        BY <3>11, <4>2, <4>5, Zenon
    <3>15. ASSUME WellFormed(text) PROVE r.ok = "parsed" /\ Rebuilt(r) = text
      <4>1. r.ok = "parsed" /\ RestFrom(text, at) = Groups(r.cable)
        BY <3>8, <3>10, <3>11, <3>15, Zenon DEF ReadsGroups
      <4>2. r.id = id
        BY <3>8, <4>1, Zenon DEF ReadsGroups
      <4> QED
        BY <3>4, <3>13, <4>1, <4>2, Zenon
    <3> QED
      BY <3>9, <3>14, <3>15, Zenon DEF ParsedExactly
  <2> HIDE DEF n, at, w, id
  <2> QED
    BY <2>3, <2>4, Zenon
<1> QED
  BY <1>6, <1>7, <1>8

\* What the user has typed, and the peer that came of it.
ReferenceInv ==
  /\ simple \in Seq(Character) /\ \A i \in 2 .. Len(simple) : simple[i] # "a"
  /\ typed \in 0 .. MaxSegments /\ Len(simple) <= 4 * typed
  /\ outcome \in {"none", "added", "err_check_input", "out_of_range"}
  /\ (m_peer = <<>> /\ outcome # "added") \/ (Len(m_peer) = 1 /\ outcome = "added")

\* Pieces are short and of characters.
LEMMA SegmentsAre ==
  \A s \in Segments : s \in Seq(Character) /\ Len(s) \in 1 .. 4 /\ \A i \in 1 .. Len(s) : s[i] # "a"
<1> SUFFICES ASSUME NEW s \in Segments
             PROVE  s \in Seq(Character) /\ Len(s) \in 1 .. 4 /\ \A i \in 1 .. Len(s) : s[i] # "a"
  OBVIOUS
<1> DEFINE S == Character
           U == {"x", separator, group_open, group_close}
<1>1. U \subseteq S /\ "a" \notin U
  BY DEF Character, separator, group_open, group_close
<1>2. \/ \E c \in U : s = <<c>>
      \/ s = <<separator, group_open, "x", group_close>>
  BY DEF Segments
<1>3. separator \in U /\ group_open \in U /\ group_close \in U /\ "x" \in U
  OBVIOUS
<1> HIDE DEF S, U
<1>4. s \in Seq(U) /\ Len(s) \in 1 .. 4
  <2>1. \A c \in U : <<c>> \in Seq(U) /\ Len(<<c>>) = 1
    OBVIOUS
  <2>2. <<separator, group_open, "x", group_close>> \in Seq(U) /\ Len(<<separator, group_open, "x", group_close>>) = 4
    BY <1>3
  <2>3. 1 \in 1 .. 4 /\ 4 \in 1 .. 4
    OBVIOUS
  <2> QED
    BY <1>2, <2>1, <2>2, <2>3
<1>5. \A i \in 1 .. Len(s) : s[i] \in U
  BY <1>4, ElementOfSeq
<1>6. s \in Seq(S)
  BY <1>1, <1>4
<1> QED
  BY <1>1, <1>4, <1>5, <1>6 DEF S

\* A piece that is typed keeps it.
LEMMA TypeKeeps == ReferenceInv /\ Type => ReferenceInv'
<1> SUFFICES ASSUME ReferenceInv, Type PROVE ReferenceInv'
  OBVIOUS
<1>1. PICK s \in Segments \cup IF typed = 0 THEN {literal_anyone} ELSE {} : simple' = simple \o s
  BY Zenon DEF Type
<1>2. typed < MaxSegments /\ typed' = typed + 1 /\ outcome' = outcome /\ m_peer' = m_peer
  BY DEF Type
<1>3. /\ simple \in Seq(Character) /\ \A i \in 2 .. Len(simple) : simple[i] # "a"
      /\ typed \in 0 .. MaxSegments /\ Len(simple) <= 4 * typed
  BY DEF ReferenceInv
<1> DEFINE S == Character
           new == simple \o s
<1>4. Len(simple) \in Nat /\ typed \in Nat /\ MaxSegments \in Nat
  BY <1>3, LenProperties, SegmentsAssumption
<1>5. /\ s \in Seq(S) /\ Len(s) \in 1 .. 4
      /\ (\A i \in 1 .. Len(s) : s[i] # "a") \/ (typed = 0 /\ Len(s) = 1)
  <2>1. CASE s \in Segments
    BY <2>1, SegmentsAre
  <2>2. CASE typed = 0 /\ s = literal_anyone
    <3> DEFINE t == <<"a">>
    <3>1. "a" \in S
      BY DEF Character
    <3> HIDE DEF S
    <3>2. t \in Seq(S) /\ Len(t) = 1 /\ 1 \in 1 .. 4
      BY <3>1
    <3> QED
      BY <2>2, <3>2 DEF literal_anyone
  <2> QED
    BY <1>1, <2>1, <2>2
<1>6. simple \in Seq(S)
  BY <1>3
<1> HIDE DEF S
<1>7. /\ new \in Seq(S) /\ Len(new) = Len(simple) + Len(s)
      /\ \A i \in 1 .. Len(simple) + Len(s) : new[i] = IF i <= Len(simple) THEN simple[i] ELSE s[i - Len(simple)]
  BY <1>5, <1>6, ConcatProperties
<1>8. simple' = new
  BY <1>1
<1> HIDE DEF new
<1>9. ASSUME NEW i \in 2 .. Len(new) PROVE new[i] # "a"
  <2>1. i \in 1 .. Len(simple) + Len(s) /\ i >= 2
    BY <1>4, <1>5, <1>7
  <2>2. CASE i <= Len(simple)
    <3>1. i \in 2 .. Len(simple)
      BY <1>4, <2>1, <2>2
    <3> QED
      BY <1>3, <1>7, <2>1, <2>2, <3>1
  <2>3. CASE ~(i <= Len(simple))
    <3>1. i - Len(simple) \in 1 .. Len(s)
      BY <1>4, <1>5, <2>1, <2>3
    <3>2. ~(typed = 0 /\ Len(s) = 1)
      <4> SUFFICES ASSUME typed = 0, Len(s) = 1 PROVE FALSE
        OBVIOUS
      <4>1. Len(simple) = 0
        BY <1>3, <1>4
      <4>2. i \in 1 .. 0 + 1 /\ i >= 2
        BY <2>1, <4>1
      <4> QED
        BY <4>2
    <3> QED
      BY <1>5, <1>7, <2>1, <2>3, <3>1, <3>2
  <2> QED
    BY <2>2, <2>3
<1>10. Len(new) <= 4 * (typed + 1) /\ typed + 1 \in 0 .. MaxSegments
  <2>1. Len(s) <= 4 /\ Len(s) \in Nat
    BY <1>5
  <2>2. Len(new) = Len(simple) + Len(s) /\ Len(simple) <= 4 * typed
    BY <1>3, <1>7
  <2> QED
    BY <1>2, <1>4, <2>1, <2>2
<1>11. /\ outcome \in {"none", "added", "err_check_input", "out_of_range"}
       /\ (m_peer = <<>> /\ outcome # "added") \/ (Len(m_peer) = 1 /\ outcome = "added")
  BY DEF ReferenceInv
<1> QED
  BY <1>2, <1>7, <1>8, <1>9, <1>10, <1>11 DEF ReferenceInv, S

\* What a text is parsed to is one of the outcomes.
LEMMA OutcomeOf == ReferenceInv => parse_peer_simplestring(simple).ok \in Outcome
<1> SUFFICES ASSUME ReferenceInv PROVE parse_peer_simplestring(simple).ok \in Outcome
  OBVIOUS
<1> DEFINE r == parse_peer_reference(simple)
           QQ == Seq(Seq(Character))
<1>1. ParsedExactly(simple, r)
  BY ParseIsExact DEF ReferenceInv
<1>2. r \in [ok : Outcome, id : QQ, cable : QQ]
  BY <1>1, Zenon DEF ParsedExactly, ParseResult
<1>3. parse_peer_simplestring(simple) \in {r, Refused}
  BY DEF parse_peer_simplestring
<1> HIDE DEF r, QQ
<1>4. r.ok \in Outcome
  BY <1>2
<1>5. Refused.ok \in Outcome
  BY DEF Refused, Outcome
<1> QED
  BY <1>3, <1>4, <1>5

\* A text that is parsed keeps it.
LEMMA AddKeeps == ReferenceInv /\ add_peer_simplestring => ReferenceInv'
<1> SUFFICES ASSUME ReferenceInv, add_peer_simplestring PROVE ReferenceInv'
  OBVIOUS
<1> DEFINE r == parse_peer_simplestring(simple)
<1>1. r.ok \in Outcome
  BY OutcomeOf
<1>2. /\ outcome = "none" /\ UNCHANGED <<simple, typed>>
      /\ IF r.ok = "parsed" THEN add_peer(r) /\ outcome' = "added"
         ELSE outcome' = r.ok /\ UNCHANGED m_peer
  BY Zenon DEF add_peer_simplestring
<1>3. m_peer = <<>>
  BY <1>2 DEF ReferenceInv
<1> HIDE DEF r
<1>4. CASE r.ok = "parsed"
  <2> DEFINE q == [id |-> r.id, cable |-> r.cable]
  <2>1. m_peer' = Append(<<>>, q) /\ outcome' = "added"
    BY <1>2, <1>3, <1>4 DEF add_peer
  <2> HIDE DEF q
  <2>2. Len(m_peer') = 1
    BY <2>1
  <2> QED
    BY <1>2, <2>1, <2>2 DEF ReferenceInv
<1>5. CASE r.ok # "parsed"
  <2>1. outcome' \in {"err_check_input", "out_of_range"} /\ m_peer' = m_peer
    BY <1>1, <1>2, <1>5 DEF Outcome
  <2> QED
    BY <1>2, <1>3, <2>1 DEF ReferenceInv
<1> QED
  BY <1>4, <1>5

\* A reference of the documented form is split into exactly its parts, whatever its length; any other
\* text is refused, but for a group of at most one character begun at its end, and a text that throws
\* adds no peer (galaxysrv_peers.cpp, parse_peer_reference and add_peer_simplestring).
THEOREM ReferencesExact == ReferenceSpec => [](ReferenceTypeOK /\ ReferenceIsExact)
<1>1. ReferenceInit => ReferenceInv
  <2> SUFFICES ASSUME ReferenceInit PROVE ReferenceInv
    OBVIOUS
  <2>1. simple = <<>> /\ typed = 0 /\ outcome = "none" /\ m_peer = <<>>
    BY DEF ReferenceInit
  <2>2. <<>> \in Seq(Character) /\ Len(<<>>) = 0 /\ 2 .. 0 = {} /\ 0 \in 0 .. MaxSegments /\ 0 <= 4 * 0
    BY SegmentsAssumption
  <2>3. \A i \in 2 .. Len(<<>>) : <<>>[i] # "a"
    BY <2>2
  <2> QED
    BY <2>1, <2>2, <2>3 DEF ReferenceInv
<1>2. ReferenceInv /\ [ReferenceNext]_referenceVars => ReferenceInv'
  <2>1. ReferenceInv /\ UNCHANGED referenceVars => ReferenceInv'
    BY DEF ReferenceInv, referenceVars
  <2> QED
    BY <2>1, TypeKeeps, AddKeeps, Zenon DEF ReferenceNext
<1>3. ReferenceInv => ReferenceTypeOK /\ ReferenceIsExact
  <2> SUFFICES ASSUME ReferenceInv PROVE ReferenceTypeOK /\ ReferenceIsExact
    OBVIOUS
  <2>1. ReferenceTypeOK
    <3>1. Len(simple) \in Nat /\ typed \in 0 .. MaxSegments /\ Len(simple) <= 4 * typed /\ MaxSegments \in Nat
      <4>1. simple \in Seq(Character)
        BY DEF ReferenceInv
      <4>2. Len(simple) \in Nat
        BY <4>1, LenProperties
      <4> QED
        BY <4>2, SegmentsAssumption DEF ReferenceInv
    <3>2. Len(simple) <= 4 * MaxSegments
      BY <3>1
    <3>3. Len(m_peer) <= 1
      <4>1. m_peer = <<>> \/ Len(m_peer) = 1
        BY DEF ReferenceInv
      <4>2. CASE m_peer = <<>>
        BY <4>2
      <4>3. CASE Len(m_peer) = 1
        BY <4>3
      <4> QED
        BY <4>1, <4>2, <4>3
    <3> QED
      BY <3>1, <3>2, <3>3 DEF ReferenceInv, ReferenceTypeOK
  <2>2. (m_peer # <<>>) <=> (outcome = "added")
    <3>1. Len(<<>>) # 1
      OBVIOUS
    <3> QED
      BY <3>1 DEF ReferenceInv
  <2> DEFINE r == parse_peer_reference(simple)
  <2>3. ParsedExactly(simple, r)
    BY ParseIsExact DEF ReferenceInv
  <2>4. ReferenceIsExact
    BY <2>2, <2>3, Zenon DEF ReferenceIsExact, ParsedExactly, Joined
  <2> QED
    BY <2>1, <2>4
<1> QED
  BY <1>1, <1>2, <1>3, PTL DEF ReferenceSpec

=============================================================================
