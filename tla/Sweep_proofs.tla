----------------------------- MODULE Sweep_proofs -----------------------------
(***************************************************************************)
(* Sweeping the networks of a group, whatever they are, for addresses of   *)
(* any number of digits in any base: what is expanded, and which of it is  *)
(* found alive.                                                            *)
(***************************************************************************)
EXTENDS Sweep, Numbers_proofs, SequenceTheorems, FiniteSetTheorems

-----------------------------------------------------------------------------
(* What the recursive functions compute, step by step.                     *)

Powers(b, n) ==
  LET upto[k \in 0..n] == IF k = 0 THEN 1 ELSE upto[k - 1] * b IN upto

LEMMA PowersAre ==
  ASSUME NEW b \in Nat \ {0}, NEW n \in Nat
  PROVE  /\ Powers(b, n) \in [0..n -> Nat \ {0}]
         /\ Powers(b, n)[0] = 1
         /\ \A k \in 1..n : Powers(b, n)[k] = Powers(b, n)[k - 1] * b
<1> DEFINE V == Nat \ {0}
           step == [p \in V \X (1..n) |-> p[1] * b]
           Body(g) == [k \in 0..n |-> IF k = 0 THEN 1 ELSE g[k - 1] * b]
<1>1. step \in [V \X (1..n) -> V]
  OBVIOUS
<1>2. PICK f \in [0..n -> V] : Iterated(f, n, 1, step)
  <2> HIDE DEF step
  <2>1. 1 \in V
    OBVIOUS
  <2> HIDE DEF V
  <2> QED
    BY <1>1, <2>1, Iterates
<1>3. \A k \in 1..n : f[k] = f[k - 1] * b
  <2>1. ASSUME NEW k \in 1..n
        PROVE  f[k] = f[k - 1] * b
    <3>1. k - 1 \in 0..n
      OBVIOUS
    <3>2. f[k - 1] \in V
      BY <3>1
    <3>3. step[<<f[k - 1], k>>] = f[k - 1] * b
      BY <3>2
    <3> QED
      BY <1>2, <3>3 DEF Iterated
  <2> QED
    BY <2>1
<1>4. f = Body(f)
  <2>1. f[0] = 1
    BY <1>2 DEF Iterated
  <2> QED
    BY <1>3, <2>1
<1>5. Powers(b, n) = CHOOSE g : g = Body(g)
  BY DEF Powers
<1>6. Powers(b, n) = Body(Powers(b, n))
  <2> HIDE DEF Body
  <2> QED
    BY <1>4, <1>5
<1> DEFINE P == Powers(b, n)
<1>7. /\ P = [k \in 0..n |-> P[k]] /\ P[0] = 1
      /\ \A k \in 1..n : P[k] = P[k - 1] * b
  BY <1>6
<1> HIDE DEF P
<1>8. \A k \in 0..n : P[k] \in V
  <2> DEFINE S == {k \in 0..n : P[k] \in V}
  <2>1. 0 \in S
    BY <1>7
  <2>2. ASSUME NEW k \in 1..n, k - 1 \in S
        PROVE  k \in S
    <3>1. P[k - 1] \in V /\ P[k] = P[k - 1] * b
      BY <1>7, <2>2
    <3>2. \A x \in V : x * b \in V
      OBVIOUS
    <3> QED
      BY <3>1, <3>2
  <2> HIDE DEF S
  <2>3. 0..n \subseteq S
    BY <2>1, <2>2, Induction
  <2> QED
    BY <2>3 DEF S
<1>9. P \in [0..n -> V]
  BY <1>7, <1>8
<1> QED
  BY <1>7, <1>9 DEF P

LEMMA PowerIs ==
  ASSUME NEW b \in Nat \ {0}, NEW n \in Nat
  PROVE  /\ Power(b, 0) = 1
         /\ Power(b, n) \in Nat \ {0}
         /\ Power(b, n + 1) = Power(b, n) * b
<1> DEFINE P == Powers(b, n)
           Q == Powers(b, n + 1)
<1>1. \A k \in Nat : Power(b, k) = Powers(b, k)[k]
  BY DEF Power, Powers
<1>7. Power(b, n) = P[n] /\ Power(b, n + 1) = Q[n + 1]
  BY <1>1
<1>2. /\ P \in [0..n -> Nat \ {0}] /\ P[0] = 1 /\ \A k \in 1..n : P[k] = P[k - 1] * b
  BY PowersAre
<1>3. /\ Q \in [0..n + 1 -> Nat \ {0}] /\ Q[0] = 1
      /\ \A k \in 1..n + 1 : Q[k] = Q[k - 1] * b
  BY PowersAre
<1> HIDE DEF P, Q
<1>4. P[n] = Q[n]
  <2> DEFINE S == {k \in 0..n : P[k] = Q[k]}
  <2>1. 0 \in S
    BY <1>2, <1>3
  <2>2. ASSUME NEW k \in 1..n, k - 1 \in S
        PROVE  k \in S
    <3>1. P[k] = P[k - 1] * b
      BY <1>2
    <3>2. Q[k] = Q[k - 1] * b
      <4>1. k \in 1..n + 1
        OBVIOUS
      <4> QED
        BY <1>3, <4>1
    <3>3. P[k - 1] = Q[k - 1]
      BY <2>2
    <3> QED
      BY <3>1, <3>2, <3>3
  <2> HIDE DEF S
  <2>3. 0..n \subseteq S
    BY <2>1, <2>2, Induction
  <2> QED
    BY <2>3 DEF S
<1>5. Q[n + 1] = Q[n] * b
  <2>1. n + 1 \in 1..n + 1 /\ (n + 1) - 1 = n
    OBVIOUS
  <2> QED
    BY <1>3, <2>1
<1>6. Power(b, 0) = 1
  BY <1>1, PowersAre
<1> QED
  BY <1>2, <1>4, <1>5, <1>6, <1>7

\* The values of the first digits of an address.
Partial(a) ==
  LET upto[n \in 0..Digits] == IF n = 0 THEN 0 ELSE upto[n - 1] * Base + a.digits[n]
  IN  upto

LEMMA PartialAre ==
  ASSUME NEW a, a.digits \in DigitLists
  PROVE  /\ Value(a) = Partial(a)[Digits]
         /\ Partial(a) \in [0..Digits -> Nat]
         /\ Partial(a)[0] = 0
         /\ \A n \in 1..Digits : Partial(a)[n] = Partial(a)[n - 1] * Base + a.digits[n]
<1> DEFINE d == a.digits
           step == [p \in Nat \X (1..Digits) |-> p[1] * Base + d[p[2]]]
           Body(g) == [n \in 0..Digits |-> IF n = 0 THEN 0 ELSE g[n - 1] * Base + d[n]]
<1>1. \A n \in 1..Digits : d[n] \in Nat
  BY CidrAssumption DEF DigitLists
<1> HIDE DEF d
<1>2. Digits \in Nat /\ Base \in Nat
  BY CidrAssumption
<1>3. step \in [Nat \X (1..Digits) -> Nat]
  BY <1>1, <1>2
<1>4. PICK f \in [0..Digits -> Nat] : Iterated(f, Digits, 0, step)
  <2> HIDE DEF step
  <2> QED
    BY <1>2, <1>3, Iterates
<1>5. ASSUME NEW n \in 1..Digits
      PROVE  f[n] = f[n - 1] * Base + d[n]
  <2>1. n - 1 \in 0..Digits
    BY <1>2
  <2>2. step[<<f[n - 1], n>>] = f[n - 1] * Base + d[n]
    BY <2>1
  <2> QED
    BY <1>4, <2>2 DEF Iterated
<1>6. f = Body(f)
  <2>1. f[0] = 0
    BY <1>4 DEF Iterated
  <2> QED
    BY <1>5, <2>1
<1>7. Partial(a) = CHOOSE g : g = Body(g)
  BY DEF Partial, d
<1>8. Partial(a) = Body(Partial(a))
  <2> HIDE DEF Body
  <2> QED
    BY <1>6, <1>7
<1> DEFINE P == Partial(a)
<1>9. /\ P = [n \in 0..Digits |-> P[n]] /\ P[0] = 0
      /\ \A n \in 1..Digits : P[n] = P[n - 1] * Base + d[n]
  BY <1>2, <1>8
<1> HIDE DEF P
<1>10. \A n \in 0..Digits : P[n] \in Nat
  <2> DEFINE S == {n \in 0..Digits : P[n] \in Nat}
  <2>1. 0 \in S
    BY <1>2, <1>9
  <2>2. ASSUME NEW n \in 1..Digits, n - 1 \in S
        PROVE  n \in S
    <3>1. P[n] = P[n - 1] * Base + d[n] /\ P[n - 1] \in Nat /\ d[n] \in Nat
      BY <1>1, <1>9, <2>2
    <3>2. ASSUME NEW x \in Nat, NEW y \in Nat
          PROVE  x * Base + y \in Nat
      <4>1. x * Base \in Nat
        BY <1>2
      <4> QED
        BY <4>1
    <3>3. P[n] \in Nat
      BY <3>1, <3>2
    <3> QED
      BY <1>2, <3>3
  <2> HIDE DEF S
  <2>3. 0..Digits \subseteq S
    BY <1>2, <2>1, <2>2, Induction
  <2> QED
    BY <2>3 DEF S
<1>11. P \in [0..Digits -> Nat]
  BY <1>9, <1>10
<1>12. Value(a) = P[Digits]
  BY DEF Value, Partial, P
<1> QED
  BY <1>9, <1>11, <1>12 DEF P, d
-----------------------------------------------------------------------------
(* Addresses and their values.                                             *)

\* Two numbers with the same quotient and remainder, and division twice.
LEMMA SameQuotient ==
  ASSUME NEW B \in Nat \ {0}, NEW x \in Nat, NEW y \in Nat,
         NEW d \in 0 .. B - 1, NEW e \in 0 .. B - 1, x * B + d = y * B + e
  PROVE  x = y /\ d = e
<1>1. x = y
  OBVIOUS
<1> QED
  BY <1>1

LEMMA DividedTwice ==
  ASSUME NEW B \in Nat \ {0}, NEW M \in Nat \ {0}, NEW v \in Nat
  PROVE  v \div M = (v \div (M * B)) * B + ((v \div M) % B)
<1> DEFINE q == v \div M
           r == v % M
           q2 == q \div B
           r2 == q % B
<1>1. q \in Nat /\ r \in 0 .. M - 1 /\ v = M * q + r
  OBVIOUS
<1> HIDE DEF q, r
<1>2. q2 \in Nat /\ r2 \in 0 .. B - 1 /\ q = B * q2 + r2
  BY <1>1
<1> HIDE DEF q2, r2
<1>3. v = (M * B) * q2 + (M * r2 + r)
  <2>1. M * (B * q2 + r2) = (M * B) * q2 + M * r2
    BY <1>1, <1>2
  <2> QED
    BY <1>1, <1>2, <2>1
<1>4. M * B \in Nat \ {0} /\ M * r2 + r \in 0 .. (M * B) - 1
  <2>1. M * r2 \in Nat /\ M * r2 <= M * (B - 1)
    BY <1>2
  <2>2. M * (B - 1) = M * B - M
    OBVIOUS
  <2>3. M * B \in Nat \ {0}
    OBVIOUS
  <2> QED
    BY <1>1, <2>1, <2>2, <2>3
<1>5. v \div (M * B) = q2
  <2> DEFINE W == M * B
             t == M * r2 + r
  <2>1. W \in Nat \ {0} /\ t \in 0 .. W - 1 /\ v = W * q2 + t
    BY <1>3, <1>4
  <2> HIDE DEF W, t
  <2>2. v \div W = q2
    BY <1>2, <2>1
  <2> QED
    BY <2>2 DEF W
<1>6. q = q2 * B + r2
  BY <1>2
<1>7. q = v \div M /\ r2 = q % B
  BY DEF q, r2
<1> QED
  BY <1>5, <1>6, <1>7

\* Different digits have different values.
LEMMA ValuesDiffer ==
  ASSUME NEW a, a.digits \in DigitLists, NEW b, b.digits \in DigitLists, Value(a) = Value(b)
  PROVE  a.digits = b.digits
<1> DEFINE P == Partial(a)
           Q == Partial(b)
<1>1. /\ Value(a) = P[Digits] /\ P \in [0..Digits -> Nat]
      /\ \A n \in 1..Digits : P[n] = P[n - 1] * Base + a.digits[n]
  BY PartialAre
<1>2. /\ Value(b) = Q[Digits] /\ Q \in [0..Digits -> Nat]
      /\ \A n \in 1..Digits : Q[n] = Q[n - 1] * Base + b.digits[n]
  BY PartialAre
<1> HIDE DEF P, Q
<1>3. Base \in Nat \ {0} /\ Digits \in Nat
  BY CidrAssumption
<1>4. ASSUME NEW n \in 1..Digits, P[n] = Q[n]
      PROVE  P[n - 1] = Q[n - 1] /\ a.digits[n] = b.digits[n]
  <2>1. P[n - 1] \in Nat /\ Q[n - 1] \in Nat
    <3>1. n - 1 \in 0..Digits
      BY <1>3
    <3> QED
      BY <1>1, <1>2, <3>1
  <2>2. a.digits[n] \in 0 .. Base - 1 /\ b.digits[n] \in 0 .. Base - 1
    BY DEF DigitLists
  <2>3. P[n - 1] * Base + a.digits[n] = Q[n - 1] * Base + b.digits[n]
    BY <1>1, <1>2, <1>4
  <2> DEFINE p == P[n - 1]
             q == Q[n - 1]
             d == a.digits[n]
             e == b.digits[n]
  <2>4. p \in Nat /\ q \in Nat /\ d \in 0 .. Base - 1 /\ e \in 0 .. Base - 1
        /\ p * Base + d = q * Base + e
    BY <2>1, <2>2, <2>3
  <2> HIDE DEF p, q, d, e
  <2>5. p = q /\ d = e
    BY <1>3, <2>4, SameQuotient
  <2> QED
    BY <2>5 DEF p, q, d, e
<1>5. \A n \in 0..Digits : P[n] = Q[n]
  <2> DEFINE S == {k \in 0..Digits : P[Digits - k] = Q[Digits - k]}
  <2>1. 0 \in S
    <3>1. Digits - 0 = Digits
      BY <1>3
    <3>2. P[Digits] = Q[Digits]
      BY <1>1, <1>2
    <3> QED
      BY <1>3, <3>1, <3>2
  <2>2. ASSUME NEW k \in 1..Digits, k - 1 \in S
        PROVE  k \in S
    <3>1. Digits - (k - 1) \in 1..Digits /\ (Digits - (k - 1)) - 1 = Digits - k
      BY <1>3
    <3>2. P[Digits - (k - 1)] = Q[Digits - (k - 1)]
      BY <2>2
    <3>3. P[Digits - k] = Q[Digits - k]
      BY <1>4, <3>1, <3>2
    <3> QED
      BY <3>3
  <2> HIDE DEF S
  <2>3. 0..Digits \subseteq S
    BY <1>3, <2>1, <2>2, Induction
  <2>4. ASSUME NEW n \in 0..Digits
        PROVE  P[n] = Q[n]
    <3>1. Digits - n \in S /\ Digits - (Digits - n) = n
      BY <1>3, <2>3
    <3> QED
      BY <3>1 DEF S
  <2> QED
    BY <2>4
<1>6. \A n \in 1..Digits : a.digits[n] = b.digits[n]
  BY <1>3, <1>4, <1>5
<1> DEFINE d == a.digits
           e == b.digits
<1>7. d \in DigitLists /\ e \in DigitLists /\ \A n \in 1..Digits : d[n] = e[n]
  BY <1>6
<1> HIDE DEF d, e
<1>8. d = e
  <2>1. d = [n \in 1..Digits |-> d[n]] /\ e = [n \in 1..Digits |-> e[n]]
    BY <1>7 DEF DigitLists
  <2>2. [n \in 1..Digits |-> d[n]] = [n \in 1..Digits |-> e[n]]
    BY <1>7
  <2> QED
    BY <2>1, <2>2
<1> QED
  BY <1>8 DEF d, e

\* A value is below the number of addresses.
LEMMA ValueBelow ==
  ASSUME NEW a, a.digits \in DigitLists
  PROVE  Value(a) \in Nat /\ Value(a) < Power(Base, Digits)
<1> DEFINE P == Partial(a)
<1>1. /\ Value(a) = P[Digits] /\ P \in [0..Digits -> Nat] /\ P[0] = 0
      /\ \A n \in 1..Digits : P[n] = P[n - 1] * Base + a.digits[n]
  BY PartialAre
<1> HIDE DEF P
<1>2. Base \in Nat \ {0} /\ Digits \in Nat
  BY CidrAssumption
<1> DEFINE S == {n \in 0..Digits : P[n] < Power(Base, n)}
<1>3. 0 \in S
  <2>1. Power(Base, 0) = 1
    BY <1>2, PowerIs
  <2> QED
    BY <1>1, <1>2, <2>1
<1>4. ASSUME NEW n \in 1..Digits, n - 1 \in S
      PROVE  n \in S
  <2> DEFINE p == P[n - 1]
             w == Power(Base, n - 1)
             d == a.digits[n]
  <2>1. n - 1 \in Nat /\ (n - 1) + 1 = n
    OBVIOUS
  <2>2. w \in Nat \ {0} /\ Power(Base, n) = w * Base
    BY <1>2, <2>1, PowerIs
  <2>3. p \in Nat /\ p < w /\ P[n] = p * Base + d
    BY <1>1, <1>2, <1>4
  <2>4. d \in 0 .. Base - 1
    BY DEF DigitLists
  <2> HIDE DEF p, w, d
  <2>5. p * Base + d < w * Base
    <3>1. p + 1 <= w /\ (p + 1) * Base = p * Base + Base
      BY <1>2, <2>2, <2>3
    <3>2. (p + 1) * Base <= w * Base
      BY <1>2, <2>2, <2>3, <3>1
    <3>3. p * Base \in Nat /\ w * Base \in Nat
      BY <1>2, <2>2, <2>3
    <3> QED
      BY <1>2, <2>4, <3>1, <3>2, <3>3
  <2> QED
    BY <2>2, <2>3, <2>5
<1> HIDE DEF S
<1>5. 0..Digits \subseteq S
  BY <1>2, <1>3, <1>4, Induction
<1>6. Digits \in S
  BY <1>2, <1>5
<1> QED
  BY <1>1, <1>2, <1>6 DEF S
\* The address with a given value.
LEMMA AddressOfIs ==
  ASSUME NEW f, NEW v \in Nat, v < Power(Base, Digits)
  PROVE  /\ AddressOf(f, v).fam = f
         /\ AddressOf(f, v).digits \in DigitLists
         /\ Value(AddressOf(f, v)) = v
         /\ DOMAIN AddressOf(f, v) = {"fam", "digits"}
         /\ AddressOf(f, v) = [fam |-> f, digits |-> AddressOf(f, v).digits]
<1> DEFINE a == AddressOf(f, v)
           P == Partial(a)
           quotient(n) == v \div Power(Base, Digits - n)
<1>1. Base \in Nat \ {0} /\ Digits \in Nat \ {0}
  BY CidrAssumption
<1>2. ASSUME NEW n \in 0..Digits
      PROVE  /\ Power(Base, Digits - n) \in Nat \ {0}
             /\ quotient(n) \in Nat
  <2>1. Digits - n \in Nat
    BY <1>1
  <2>2. Power(Base, Digits - n) \in Nat \ {0}
    BY <1>1, <2>1, PowerIs
  <2> QED
    BY <2>2
<1> DEFINE d == [n \in 1..Digits |-> quotient(n) % Base]
<1>3. a = [fam |-> f, digits |-> d]
  BY DEF AddressOf
<1>4. d \in DigitLists
  <2> HIDE DEF quotient
  <2>1. ASSUME NEW n \in 1..Digits
        PROVE  quotient(n) % Base \in 0 .. Base - 1
    <3>1. quotient(n) \in Nat
      BY <1>1, <1>2
    <3> QED
      BY <1>1, <3>1
  <2> QED
    BY <2>1 DEF DigitLists
<1>5. \A n \in 1..Digits : d[n] = quotient(n) % Base
  OBVIOUS
<1> HIDE DEF a, d
<1>6. a.fam = f /\ a.digits = d /\ DOMAIN a = {"fam", "digits"}
  BY <1>3
<1>7. /\ Value(a) = P[Digits] /\ P \in [0..Digits -> Nat] /\ P[0] = 0
      /\ \A n \in 1..Digits : P[n] = P[n - 1] * Base + a.digits[n]
  BY <1>4, <1>6, PartialAre
<1> HIDE DEF P
<1> DEFINE S == {n \in 0..Digits : P[n] = quotient(n)}
<1>8. 0 \in S
  <2> DEFINE W == Power(Base, Digits)
  <2>1. W \in Nat \ {0} /\ v < W
    BY <1>1, PowerIs
  <2>2. Digits - 0 = Digits
    BY <1>1
  <2> HIDE DEF W
  <2>3. v \div W = 0
    BY <2>1
  <2> QED
    BY <1>1, <1>7, <2>2, <2>3 DEF W
<1>9. ASSUME NEW n \in 1..Digits, n - 1 \in S
      PROVE  n \in S
  <2> DEFINE M == Power(Base, Digits - n)
  <2>1. Digits - n \in Nat /\ (Digits - n) + 1 = Digits - (n - 1) /\ n \in 0..Digits
    BY <1>1
  <2>2. M \in Nat \ {0} /\ Power(Base, (Digits - n) + 1) = M * Base
    BY <1>1, <2>1, PowerIs
  <2>3. P[n - 1] = v \div (M * Base)
    BY <1>9, <2>1, <2>2
  <2>4. P[n] = P[n - 1] * Base + (quotient(n) % Base)
    BY <1>5, <1>6, <1>7
  <2>5. quotient(n) = v \div M
    OBVIOUS
  <2> HIDE DEF M, quotient
  <2>6. v \div M = (v \div (M * Base)) * Base + ((v \div M) % Base)
    BY <1>1, <2>2, DividedTwice
  <2>7. P[n] = quotient(n)
    BY <2>3, <2>4, <2>5, <2>6
  <2> QED
    BY <2>1, <2>7
<1> HIDE DEF S
<1>10. 0..Digits \subseteq S
  BY <1>1, <1>8, <1>9, Induction
<1>11. Digits \in S
  BY <1>1, <1>10
<1>12. P[Digits] = v
  <2>1. P[Digits] = v \div Power(Base, Digits - Digits)
    BY <1>11 DEF S
  <2>2. Digits - Digits = 0 /\ Power(Base, 0) = 1
    BY <1>1, PowerIs
  <2> QED
    BY <2>1, <2>2
<1> QED
  BY <1>3, <1>4, <1>6, <1>7, <1>12 DEF a

Written == [fam : {"v4", "v6", "mapped"}, digits : DigitLists]

\* One more, or the lowest address after the highest.
LEMMA IncIPIs ==
  ASSUME NEW a \in Written
  PROVE  /\ IncIP(a) \in Written /\ IncIP(a).fam = a.fam
         /\ \/ Value(IncIP(a)) = Value(a) + 1
            \/ /\ Value(IncIP(a)) = 0
               /\ \A b \in Written : Value(b) <= Value(a)
<1> DEFINE d == a.digits
           full == {j \in 1..Digits : \A i \in j..Digits : d[i] = Base - 1}
           more == [i \in 1..Digits |->
                      IF i \in full THEN 0
                      ELSE IF i = Digits \/ i + 1 \in full THEN d[i] + 1 ELSE d[i]]
           b == IncIP(a)
<1>1. Base \in Nat \ {0, 1} /\ Digits \in Nat \ {0}
  BY CidrAssumption
<1>2. d \in DigitLists /\ d \in [1..Digits -> 0 .. Base - 1]
      /\ a.fam \in {"v4", "v6", "mapped"} /\ a = [fam |-> a.fam, digits |-> d]
  BY DEF Written, DigitLists
<1>3. b = [a EXCEPT !.digits = more]
  BY DEF IncIP
<1> HIDE DEF d, b, more
<1>4. b = [fam |-> a.fam, digits |-> more]
  BY <1>2, <1>3
<1> HIDE DEF full
<1>5. ASSUME NEW i \in 1..Digits, i \notin full, i = Digits \/ i + 1 \in full
      PROVE  d[i] # Base - 1
  <2>1. SUFFICES ASSUME d[i] = Base - 1 PROVE FALSE
    OBVIOUS
  <2>2. ASSUME NEW k \in i..Digits
        PROVE  d[k] = Base - 1
    <3>1. CASE k = i
      BY <2>1, <3>1
    <3>2. CASE k # i
      <4>1. i + 1 \in full /\ k \in i + 1 .. Digits
        BY <1>1, <1>5, <3>2
      <4> QED
        BY <4>1 DEF full
    <3> QED
      BY <3>1, <3>2
  <2>3. i \in full
    BY <2>2 DEF full
  <2> QED
    BY <1>5, <2>3
<1>6. more \in DigitLists
  <2>1. ASSUME NEW i \in 1..Digits
        PROVE  (IF i \in full THEN 0
                ELSE IF i = Digits \/ i + 1 \in full THEN d[i] + 1 ELSE d[i]) \in 0 .. Base - 1
    BY <1>1, <1>2, <1>5
  <2> QED
    BY <2>1 DEF more, DigitLists
<1>7. b \in Written /\ b.fam = a.fam /\ b.digits = more
  BY <1>2, <1>4, <1>6 DEF Written
<1>8. \A i \in 1..Digits :
        more[i] = IF i \in full THEN 0
                  ELSE IF i = Digits \/ i + 1 \in full THEN d[i] + 1 ELSE d[i]
  BY DEF more
<1> DEFINE P == Partial(a)
           Q == Partial(b)
<1>9. /\ Value(a) = P[Digits] /\ P \in [0..Digits -> Nat] /\ P[0] = 0
      /\ \A n \in 1..Digits : P[n] = P[n - 1] * Base + d[n]
  BY <1>2, PartialAre DEF d
<1>10. /\ Value(b) = Q[Digits] /\ Q \in [0..Digits -> Nat] /\ Q[0] = 0
       /\ \A n \in 1..Digits : Q[n] = Q[n - 1] * Base + more[n]
  BY <1>6, <1>7, PartialAre
<1> HIDE DEF P, Q
<1>11. CASE 1 \in full
  <2>1. \A i \in 1..Digits : i \in full /\ d[i] = Base - 1
    BY <1>11 DEF full
  <2>2. Value(b) = 0
    <3> DEFINE S == {n \in 0..Digits : Q[n] = 0}
    <3>1. 0 \in S
      BY <1>1, <1>10
    <3>2. ASSUME NEW n \in 1..Digits, n - 1 \in S
          PROVE  n \in S
      <4>1. more[n] = 0 /\ Q[n - 1] = 0
        BY <1>8, <2>1, <3>2
      <4> QED
        BY <1>1, <1>10, <4>1
    <3> HIDE DEF S
    <3>3. 0..Digits \subseteq S
      BY <1>1, <3>1, <3>2, Induction
    <3>4. Digits \in S
      BY <1>1, <3>3
    <3> QED
      BY <1>10, <3>4 DEF S
  <2>3. ASSUME NEW c \in Written
        PROVE  Value(c) <= Value(a)
    <3> DEFINE R == Partial(c)
               S == {n \in 0..Digits : R[n] <= P[n]}
    <3>1. c.digits \in DigitLists
      BY DEF Written
    <3>2. /\ Value(c) = R[Digits] /\ R \in [0..Digits -> Nat] /\ R[0] = 0
          /\ \A n \in 1..Digits : R[n] = R[n - 1] * Base + c.digits[n]
      BY <3>1, PartialAre
    <3> HIDE DEF R
    <3>3. 0 \in S
      BY <1>1, <1>9, <3>2
    <3>4. ASSUME NEW n \in 1..Digits, n - 1 \in S
          PROVE  n \in S
      <4> DEFINE x == R[n - 1]
                 y == P[n - 1]
                 e == c.digits[n]
      <4>1. x \in Nat /\ y \in Nat /\ x <= y /\ e \in 0 .. Base - 1
        BY <1>1, <1>9, <3>1, <3>2, <3>4 DEF DigitLists
      <4>2. R[n] = x * Base + e /\ P[n] = y * Base + (Base - 1)
        BY <1>9, <2>1, <3>2
      <4> HIDE DEF x, y, e
      <4>3. x * Base <= y * Base /\ x * Base \in Nat /\ y * Base \in Nat
        BY <1>1, <4>1
      <4>4. x * Base + e <= y * Base + (Base - 1)
        BY <1>1, <4>1, <4>3
      <4> QED
        BY <1>1, <4>2, <4>4
    <3> HIDE DEF S
    <3>5. 0..Digits \subseteq S
      BY <1>1, <3>3, <3>4, Induction
    <3>6. Digits \in S
      BY <1>1, <3>5
    <3> QED
      BY <1>9, <3>2, <3>6 DEF S
  <2> QED
    BY <1>7, <2>2, <2>3 DEF b
<1>12. CASE 1 \notin full
  <2>1. PICK m \in 1..Digits : /\ m \notin full
                               /\ m = Digits \/ m + 1 \in full
    <3> DEFINE lower == {i \in 1..Digits : i \notin full}
    <3>1. lower \subseteq 0..Digits /\ 1 \in lower
      BY <1>1, <1>12
    <3> HIDE DEF lower
    <3>2. PICK m \in lower : \A i \in lower : m >= i
      BY <1>1, <3>1, GreatestNumber
    <3>3. m \in 1..Digits /\ m \notin full
      BY DEF lower
    <3>4. m # Digits => m + 1 \in 1..Digits /\ ~(m >= m + 1)
      BY <1>1, <3>3
    <3>5. m # Digits => m + 1 \in full
      BY <3>2, <3>4 DEF lower
    <3> QED
      BY <3>3, <3>5
  <2>2. ASSUME NEW i \in 1..Digits
        PROVE  /\ i > m => i \in full
               /\ i < m => i \notin full /\ i + 1 \notin full
               /\ i > m => d[i] = Base - 1
    <3>1. i > m => i \in full
      BY <1>1, <2>1 DEF full
    <3>2. i <= m => i \notin full
      BY <1>1, <2>1 DEF full
    <3>3. i < m => i + 1 \notin full
      BY <1>1, <2>1 DEF full
    <3>4. i \in full => d[i] = Base - 1
      BY <1>1 DEF full
    <3> QED
      BY <1>1, <3>1, <3>2, <3>3, <3>4
  <2>3. /\ \A i \in 1..Digits : i < m => more[i] = d[i]
        /\ more[m] = d[m] + 1
        /\ \A i \in 1..Digits : i > m => more[i] = 0 /\ d[i] = Base - 1
    BY <1>1, <1>8, <2>1, <2>2
  <2> DEFINE S == {n \in 0..Digits : Q[n] = IF n < m THEN P[n] ELSE P[n] + 1}
  <2>4. 0 \in S
    BY <1>1, <1>9, <1>10
  <2>5. ASSUME NEW n \in 1..Digits, n - 1 \in S
        PROVE  n \in S
    <3>1. n - 1 \in 0..Digits /\ n \in 0..Digits
      BY <1>1
    <3>2. /\ P[n - 1] \in Nat /\ P[n] = P[n - 1] * Base + d[n]
          /\ Q[n] = Q[n - 1] * Base + more[n] /\ d[n] \in 0 .. Base - 1
          /\ Q[n - 1] = IF n - 1 < m THEN P[n - 1] ELSE P[n - 1] + 1
      BY <1>2, <1>9, <1>10, <2>5, <3>1
    <3> DEFINE x == P[n - 1]
    <3>3. x \in Nat /\ x * Base \in Nat
      BY <1>1, <3>2
    <3> HIDE DEF x
    <3>4. CASE n < m
      BY <2>3, <3>1, <3>2, <3>4
    <3>5. CASE n = m
      <4>1. Q[n] = x * Base + (d[n] + 1) /\ P[n] = x * Base + d[n]
        BY <2>3, <3>2, <3>5 DEF x
      <4> QED
        BY <1>1, <3>1, <3>2, <3>3, <3>5, <4>1
    <3>6. CASE n > m
      <4>1. Q[n] = (x + 1) * Base + 0 /\ P[n] = x * Base + (Base - 1)
        BY <2>3, <3>2, <3>6 DEF x
      <4>2. (x + 1) * Base = x * Base + Base
        BY <1>1, <3>3
      <4> QED
        BY <1>1, <3>1, <3>3, <3>6, <4>1, <4>2
    <3> QED
      BY <3>4, <3>5, <3>6
  <2> HIDE DEF S
  <2>6. 0..Digits \subseteq S
    BY <1>1, <2>4, <2>5, Induction
  <2>7. Digits \in S
    BY <1>1, <2>6
  <2>8. Value(b) = Value(a) + 1
    BY <1>1, <1>9, <1>10, <2>7 DEF S
  <2> QED
    BY <1>7, <2>8 DEF b
<1> QED
  BY <1>11, <1>12
-----------------------------------------------------------------------------
(* Networks and their members.                                             *)

IsNet(n) == n.addr \in Written /\ n.hostBits \in Nat

LEMMA CanonIs ==
  ASSUME NEW a \in Written
  PROVE  /\ Canon(a) \in Addresses /\ Canon(a).digits = a.digits
         /\ Value(Canon(a)) = Value(a)
         /\ Canon(a) = [fam |-> Canon(a).fam, digits |-> a.digits]
         /\ Canon(a).fam = (IF a.fam = "mapped" THEN "v4" ELSE a.fam)
<1>1. a = [fam |-> a.fam, digits |-> a.digits] /\ a.fam \in {"v4", "v6", "mapped"}
      /\ a.digits \in DigitLists
  BY DEF Written
<1>2. Canon(a) = [fam |-> IF a.fam = "mapped" THEN "v4" ELSE a.fam, digits |-> a.digits]
  BY <1>1 DEF Canon
<1>3. Canon(a).digits = a.digits
  BY <1>2
<1>4. Value(Canon(a)) = Value(a)
  BY <1>3 DEF Value
<1> QED
  BY <1>1, <1>2, <1>4 DEF Addresses

LEMMA CanonKeeps ==
  ASSUME NEW a \in Addresses
  PROVE  Canon(a) = a /\ a \in Written
BY DEF Canon, Addresses, Written

LEMMA FirstIs ==
  ASSUME NEW n, IsNet(n)
  PROVE  /\ Power(2, n.hostBits) \in Nat \ {0}
         /\ Value(n.addr) \div Power(2, n.hostBits) \in Nat
         /\ FirstOf(n) = (Value(n.addr) \div Power(2, n.hostBits)) * Power(2, n.hostBits)
         /\ FirstOf(n) \in Nat /\ FirstOf(n) < Power(Base, Digits)
<1> DEFINE P == Power(2, n.hostBits)
           v == Value(n.addr)
           q == v \div P
<1>1. P \in Nat \ {0}
  BY PowerIs DEF IsNet
<1>2. n.addr.digits \in DigitLists
  BY DEF IsNet, Written
<1>3. v \in Nat /\ v < Power(Base, Digits)
  BY <1>2, ValueBelow
<1>4. FirstOf(n) = q * P
  BY DEF FirstOf
<1>5. Power(Base, Digits) \in Nat
  BY CidrAssumption, PowerIs
<1> HIDE DEF P, v
<1>6. q \in Nat /\ q * P \in Nat /\ q * P <= v
  BY <1>1, <1>3
<1> HIDE DEF q
<1>7. FirstOf(n) \in Nat /\ FirstOf(n) < Power(Base, Digits)
  BY <1>3, <1>4, <1>5, <1>6
<1> QED
  BY <1>1, <1>4, <1>6, <1>7 DEF P, v, q

\* A covered address lies less than the size of the network above its first.
LEMMA CoveredIs ==
  ASSUME NEW n, IsNet(n), NEW a \in Written, Covers(n, a)
  PROVE  /\ Value(a) \in Nat
         /\ Value(a) - FirstOf(n) \in 0 .. Power(2, n.hostBits) - 1
<1> DEFINE P == Power(2, n.hostBits)
           q == Value(n.addr) \div P
           v == Value(a)
<1>1. P \in Nat \ {0} /\ q \in Nat /\ FirstOf(n) = q * P
  BY FirstIs
<1>2. a.digits \in DigitLists
  BY DEF Written
<1>3. v \in Nat
  BY <1>2, ValueBelow
<1>4. v \div P = q
  BY DEF Covers
<1> HIDE DEF P, q, v
<1>5. v = P * q + (v % P) /\ v % P \in 0 .. P - 1
  BY <1>1, <1>3, <1>4
<1>6. v - q * P = v % P
  BY <1>1, <1>3, <1>5
<1>7. v - FirstOf(n) \in 0 .. P - 1
  BY <1>1, <1>5, <1>6
<1> QED
  BY <1>3, <1>7 DEF P, v

\* What the expansion keeps of an address it comes to is a member, and what it
\* skips is none.
LEMMA MemberIs ==
  ASSUME NEW n, IsNet(n), NEW a \in Written, Covers(n, a)
  PROVE  Canon(a) \in Members(n) <=> ~Skipped(n, a)
<1> DEFINE c == Canon(a)
           P == Power(2, n.hostBits)
           r == Value(a) - FirstOf(n)
<1>1. c \in Addresses /\ Value(c) = Value(a) /\ Canon(c) = c /\ c.fam \in {"v4", "v6"}
  BY CanonIs, CanonKeeps DEF Addresses
<1>2. Covers(n, c)
  BY <1>1 DEF Covers
<1>3. P \in Nat \ {0} /\ FirstOf(n) \in Nat
  BY FirstIs
<1>4. Value(a) \in Nat /\ r \in 0 .. P - 1
  BY CoveredIs
<1>5. n.hostBits \in Nat /\ SkipHostBits \in Nat
  BY CidrAssumption DEF IsNet
<1>6. IsNetwork(n, a) <=> r = 0
  BY <1>3, <1>4 DEF IsNetwork
<1>7. IsBroadcast(n, a) <=> r = P - 1
  <2> DEFINE f == FirstOf(n)
             v == Value(a)
  <2> HIDE DEF P
  <2>1. IsBroadcast(n, a) <=> v = f + P - 1
    BY DEF IsBroadcast, P
  <2>2. f \in Nat /\ v \in Nat /\ r = v - f
    BY <1>3, <1>4
  <2> HIDE DEF f, v, r
  <2> QED
    BY <1>3, <2>1, <2>2
<1>8. Skipped(n, a) <=> n.hostBits >= SkipHostBits /\ (r = 0 \/ (c.fam = "v4" /\ r = P - 1))
  BY <1>6, <1>7 DEF Skipped
<1>9. c \in Members(n) <=>
        (n.hostBits >= SkipHostBits => r \in 1 .. P - (IF c.fam = "v4" THEN 2 ELSE 1))
  BY <1>1, <1>2 DEF Members
<1> HIDE DEF c, P, r
<1>10. r \in 1 .. P - (IF c.fam = "v4" THEN 2 ELSE 1) <=>
         ~(r = 0 \/ (c.fam = "v4" /\ r = P - 1))
  BY <1>1, <1>3, <1>4
<1> QED
  BY <1>8, <1>9, <1>10 DEF c

LEMMA MembersAre ==
  ASSUME NEW n, IsNet(n), NEW a \in Members(n)
  PROVE  a \in Addresses /\ a \in Written /\ Covers(n, a) /\ Canon(a) = a
BY CanonKeeps DEF Members

\* Once the expansion has left a network upwards, it has passed every member.
LEMMA PastTheEnd ==
  ASSUME NEW n, IsNet(n), NEW past \in Written, past.fam = n.addr.fam,
         ~Covers(n, past), Value(past) >= FirstOf(n), NEW a \in Members(n)
  PROVE  Value(a) < Value(past)
<1> DEFINE P == Power(2, n.hostBits)
           q == Value(n.addr) \div P
           v == Value(past)
           w == Value(a)
<1>1. P \in Nat \ {0} /\ q \in Nat /\ FirstOf(n) = q * P
  BY FirstIs
<1>2. past.digits \in DigitLists
  BY DEF Written
<1>3. v \in Nat
  BY <1>2, ValueBelow
<1>4. v \div P # q
  BY DEF Covers, Canon, IsNet
<1>5. w \in Nat /\ w - q * P \in 0 .. P - 1
  BY <1>1, CoveredIs, MembersAre
<1>6. v >= q * P
  BY <1>1
<1> HIDE DEF P, q, v, w
<1>7. v - q * P >= P
  <2>1. SUFFICES ASSUME v - q * P < P PROVE FALSE
    <3>1. q * P \in Nat
      BY <1>1
    <3> QED
      BY <1>1, <1>3, <3>1
  <2> DEFINE r == v - q * P
  <2>2. q * P \in Nat
    BY <1>1
  <2>3. r \in 0 .. P - 1
    BY <1>1, <1>3, <1>6, <2>1, <2>2
  <2>4. v = P * q + r
    BY <1>1, <1>3, <2>2
  <2> HIDE DEF r
  <2>5. v \div P = q
    BY <1>1, <1>3, <2>3, <2>4
  <2> QED
    BY <1>4, <2>5
<1>8. q * P \in Nat
  BY <1>1
<1>9. w < v
  BY <1>1, <1>3, <1>5, <1>7, <1>8
<1> QED
  BY <1>9 DEF v, w
-----------------------------------------------------------------------------
(* The inductive invariant.                                                *)

SweepTyped ==
  /\ group \in Groups
  /\ pc \in {"expand", "hosts", "open", "send", "wait", "done", "error"}
  /\ ips \in Seq(Addresses)
  /\ fam \in {"v4", "v6"}
  /\ pc \in {"send", "wait"} => sent \in 0..Len(Wanted)
  /\ deadline \in {"none", "set", "now", "passed"}
  /\ reader \in {"off", "read", "marked", "done"}
  /\ answered \subseteq Addresses \cup Strangers
  /\ faults \in 0..MaxFaults

\* A network the expansion has not given up at, and what the first ones hold.
Fine(i) == group.cidrs[i] # Bad /\ ~TooLarge(group.cidrs[i], group.allowLarge)
Sought(k) == UNION {Members(group.cidrs[i]) : i \in 1..k}

\* Within a network every member below the address it has come to is in the
\* list; once the addresses have wrapped around, all of them are.
Passed ==
  \/ Members(Net) \subseteq Range(ips)
  \/ /\ Value(at) >= FirstOf(Net)
     /\ \A a \in Members(Net) : Value(a) < Value(at) => a \in Range(ips)

InNetwork ==
  /\ net <= Len(group.cidrs) /\ Fine(net)
  /\ at \in Written /\ at.fam = Net.addr.fam
  /\ Sought(net - 1) \subseteq Range(ips) /\ Range(ips) \subseteq Sought(net)
  /\ Passed

Expanding ==
  /\ pc \in {"expand", "hosts"} =>
       net \in 1 .. Len(group.cidrs) + 1 /\ \A i \in 1 .. net - 1 : Fine(i)
  /\ pc = "expand" => Range(ips) = Sought(net - 1)
  /\ pc = "hosts" => InNetwork
  /\ pc \in {"open", "send", "wait"} =>
       Range(ips) = Asked /\ IsInjective(ips) /\ \A i \in DOMAIN group.cidrs : Fine(i)

\* What is marked is what the family asked for; all of it before the reader
\* brings its deadline forward.
Marking ==
  /\ pc \in {"send", "wait"}
  /\ aliveLocal \subseteq Range(Wanted)
  /\ reader = "marked" \/ deadline = "now" => aliveLocal = Range(Wanted)
  /\ deadline = "passed" => expired
  /\ reader = "done" /\ ~expired /\ faults = 0 => aliveLocal = Range(Wanted)

Pinging ==
  /\ alive \cup aliveLocal \cup buffer \subseteq answered
  /\ reader # "off" => Marking

SweepInv == SweepTyped /\ Expanding /\ AliveAnswered /\ Pinging
-----------------------------------------------------------------------------
(* Every step keeps it: the expansion.                                     *)

LEMMA GroupIs ==
  ASSUME NEW g \in Groups
  PROVE  /\ Len(g.cidrs) \in Nat /\ DOMAIN g.cidrs = 1..Len(g.cidrs)
         /\ \A i \in DOMAIN g.cidrs : g.cidrs[i] # Bad => IsNet(g.cidrs[i])
         /\ Len(g.exclude) \in Nat /\ DOMAIN g.exclude = 1..Len(g.exclude)
BY SweepAssumption DEF IsNet, Written

\* Outside a ping no reader runs, so nothing is claimed of what it marked.
LEMMA NoReader ==
  ASSUME SweepInv, pc \notin {"send", "wait"}
  PROVE  reader = "off"
BY DEF SweepInv, Pinging, Marking

LEMMA ExpandNetKeeps ==
  ASSUME SweepInv, ExpandNet
  PROVE  SweepInv'
<1>1. /\ pc = "expand" /\ net <= Len(group.cidrs)
      /\ UNCHANGED <<group, net, ips, pingVars, answered, faults>>
  BY DEF ExpandNet
<1>2. reader = "off"
  BY <1>1, NoReader
<1>3. Net' = Net
  BY <1>1 DEF Net
<1>4. CASE Net = Bad \/ TooLarge(Net, group.allowLarge)
  <2>1. pc' = "error"
    BY <1>4 DEF ExpandNet
  <2> QED
    BY <1>1, <1>2, <2>1
    DEF SweepInv, SweepTyped, Expanding, AliveAnswered, Pinging, pingVars
<1>5. CASE ~(Net = Bad \/ TooLarge(Net, group.allowLarge))
  <2>1. pc' = "hosts" /\ at' = AddressOf(Net.addr.fam, FirstOf(Net))
    BY <1>5 DEF ExpandNet
  <2>2. /\ net \in 1 .. Len(group.cidrs) + 1 /\ \A i \in 1 .. net - 1 : Fine(i)
        /\ Range(ips) = Sought(net - 1) /\ group \in Groups
    BY <1>1 DEF SweepInv, Expanding, SweepTyped
  <2>3. Len(group.cidrs) \in Nat /\ net \in DOMAIN group.cidrs /\ net \in 1..Len(group.cidrs)
    BY <1>1, <2>2, GroupIs
  <2>4. IsNet(Net)
    BY <1>5, <2>2, <2>3, GroupIs DEF Net
  <2>5. /\ at'.fam = Net.addr.fam /\ at'.digits \in DigitLists /\ Value(at') = FirstOf(Net)
        /\ at' = [fam |-> at'.fam, digits |-> at'.digits] /\ FirstOf(Net) \in Nat
    BY <2>1, <2>4, AddressOfIs, FirstIs
  <2>6. at' \in Written
    BY <2>4, <2>5 DEF Written, IsNet
  <2>7. Fine(net)
    BY <1>5 DEF Fine, Net
  <2>8. Sought(net - 1) \subseteq Range(ips) /\ Range(ips) \subseteq Sought(net)
    <3>1. Sought(net - 1) \subseteq Sought(net)
      BY <2>3 DEF Sought
    <3> QED
      BY <2>2, <3>1
  <2>9. \A a \in Members(Net) : ~(Value(a) < Value(at'))
    <3>1. ASSUME NEW a \in Members(Net)
          PROVE  Value(a) \in Nat /\ Value(a) - FirstOf(Net) \in 0 .. Power(2, Net.hostBits) - 1
      BY <2>4, MembersAre, CoveredIs
    <3>2. Power(2, Net.hostBits) \in Nat
      BY <2>4, FirstIs
    <3> QED
      BY <2>5, <3>1, <3>2
  <2>10. Passed'
    BY <1>1, <1>3, <2>5, <2>9 DEF Passed
  <2>11. Expanding'
    BY <1>1, <1>3, <2>1, <2>2, <2>3, <2>5, <2>6, <2>7, <2>8, <2>10
    DEF Expanding, InNetwork, Fine, Sought
  <2> QED
    BY <1>1, <1>2, <2>1, <2>11
    DEF SweepInv, SweepTyped, AliveAnswered, Pinging, pingVars
<1> QED
  BY <1>4, <1>5

LEMMA ExpandHostKeeps ==
  ASSUME SweepInv, ExpandHost
  PROVE  SweepInv'
<1>1. pc = "hosts" /\ UNCHANGED <<group, pingVars, answered, faults>>
  BY DEF ExpandHost
<1>2. reader = "off"
  BY <1>1, NoReader
<1>3. /\ InNetwork /\ net \in 1 .. Len(group.cidrs) + 1 /\ \A i \in 1 .. net - 1 : Fine(i)
      /\ group \in Groups /\ ips \in Seq(Addresses)
  BY <1>1 DEF SweepInv, SweepTyped, Expanding
<1>4. /\ net <= Len(group.cidrs) /\ Fine(net) /\ at \in Written /\ at.fam = Net.addr.fam
      /\ Sought(net - 1) \subseteq Range(ips) /\ Range(ips) \subseteq Sought(net) /\ Passed
  BY <1>3 DEF InNetwork
<1>5. Len(group.cidrs) \in Nat /\ net \in DOMAIN group.cidrs /\ net \in 1..Len(group.cidrs)
      /\ net \in Nat
  BY <1>3, <1>4, GroupIs
<1>6. IsNet(Net)
  BY <1>3, <1>4, <1>5, GroupIs DEF Net, Fine
<1>7. Sought(net) = Sought(net - 1) \cup Members(Net)
  <2>1. 1..net = (1 .. net - 1) \cup {net}
    BY <1>5
  <2> QED
    BY <2>1 DEF Sought, Net
<1>8. CASE Covers(Net, at)
  <2>1. /\ ips' = IF Skipped(Net, at) THEN ips ELSE Append(ips, Canon(at))
        /\ at' = IncIP(at) /\ pc' = "hosts" /\ net' = net /\ Net' = Net
    BY <1>1, <1>8 DEF ExpandHost, Net
  <2>2. Canon(at) \in Addresses /\ (Canon(at) \in Members(Net) <=> ~Skipped(Net, at))
    BY <1>4, <1>6, <1>8, CanonIs, MemberIs
  <2>3. ips' \in Seq(Addresses) /\ Range(ips') = Range(ips) \cup (Members(Net) \cap {Canon(at)})
    <3>1. CASE Skipped(Net, at)
      BY <1>3, <2>1, <2>2, <3>1
    <3>2. CASE ~Skipped(Net, at)
      BY <1>3, <2>1, <2>2, <3>2, OneAppended
    <3> QED
      BY <3>1, <3>2
  <2>4. ASSUME NEW a \in Members(Net), Value(a) = Value(at)
        PROVE  a \in Range(ips')
    <3>1. a \in Written /\ a \in Addresses /\ Covers(Net, a) /\ Canon(a) = a
      BY <1>6, MembersAre
    <3>2. a.digits \in DigitLists /\ at.digits \in DigitLists
      BY <1>4, <3>1 DEF Written
    <3>3. a.digits = at.digits
      BY <2>4, <3>2, ValuesDiffer
    <3>4. Canon(a).fam = Canon(at).fam
      BY <1>8, <3>1 DEF Covers
    <3>5. Canon(a) = [fam |-> Canon(a).fam, digits |-> a.digits]
          /\ Canon(at) = [fam |-> Canon(at).fam, digits |-> at.digits]
      BY <1>4, <3>1, CanonIs
    <3>6. a = Canon(at)
      BY <3>1, <3>3, <3>4, <3>5
    <3> QED
      BY <2>3, <3>6
  <2>5. /\ at' \in Written /\ at'.fam = Net.addr.fam
        /\ \/ Value(at') = Value(at) + 1
           \/ Value(at') = 0 /\ \A b \in Written : Value(b) <= Value(at)
    BY <1>4, <2>1, IncIPIs
  <2>6. Range(ips) \subseteq Range(ips') /\ Range(ips') \subseteq Sought(net)
    BY <1>4, <1>7, <2>3
  <2>7. \A a \in Members(Net) : a \in Written /\ Value(a) \in Nat
    BY <1>6, MembersAre, CoveredIs
  <2>8. Value(at) \in Nat /\ FirstOf(Net) \in Nat
    BY <1>4, <1>6, <1>8, CoveredIs, FirstIs
  <2>9. Passed'
    <3>1. CASE Members(Net) \subseteq Range(ips)
      BY <2>1, <2>6, <3>1 DEF Passed
    <3>2. CASE Value(at) >= FirstOf(Net) /\ \A a \in Members(Net) : Value(a) < Value(at) => a \in Range(ips)
      <4>1. \A a \in Members(Net) : Value(a) <= Value(at) => a \in Range(ips')
        BY <2>4, <2>6, <2>7, <2>8, <3>2
      <4>2. CASE Value(at') = Value(at) + 1
        <5>1. \A a \in Members(Net) : Value(a) < Value(at') => a \in Range(ips')
          BY <2>7, <2>8, <4>1, <4>2
        <5>2. Value(at') >= FirstOf(Net)
          BY <2>8, <3>2, <4>2
        <5> QED
          BY <2>1, <5>1, <5>2 DEF Passed
      <4>3. CASE \A b \in Written : Value(b) <= Value(at)
        <5>1. Members(Net) \subseteq Range(ips')
          BY <2>7, <4>1, <4>3
        <5> QED
          BY <2>1, <5>1 DEF Passed
      <4> QED
        BY <2>5, <4>2, <4>3
    <3> QED
      BY <1>4, <3>1, <3>2 DEF Passed
  <2>10. InNetwork'
    BY <1>1, <1>4, <2>1, <2>5, <2>6, <2>9 DEF InNetwork, Fine, Sought
  <2>11. Expanding'
    BY <1>1, <1>3, <2>1, <2>10 DEF Expanding, Fine
  <2> QED
    BY <1>1, <1>2, <2>1, <2>3, <2>11
    DEF SweepInv, SweepTyped, AliveAnswered, Pinging, pingVars
<1>9. CASE ~Covers(Net, at)
  <2>1. pc' = "expand" /\ net' = net + 1 /\ ips' = ips
    BY <1>9 DEF ExpandHost
  <2>2. Members(Net) \subseteq Range(ips)
    <3>1. CASE Value(at) >= FirstOf(Net) /\ \A a \in Members(Net) : Value(a) < Value(at) => a \in Range(ips)
      BY <1>4, <1>6, <1>9, <3>1, PastTheEnd
    <3> QED
      BY <1>4, <3>1 DEF Passed
  <2>3. Range(ips) = Sought(net)
    BY <1>4, <1>7, <2>2
  <2>4. net' \in 1 .. Len(group.cidrs) + 1 /\ net' - 1 = net
        /\ \A i \in 1..net : i = net \/ i \in 1 .. net - 1
    BY <1>3, <1>4, <1>5, <2>1
  <2>5. Expanding'
    BY <1>1, <1>3, <1>4, <2>1, <2>3, <2>4 DEF Expanding, Fine, Sought
  <2> QED
    BY <1>1, <1>2, <2>1, <2>5
    DEF SweepInv, SweepTyped, AliveAnswered, Pinging, pingVars
<1> QED
  BY <1>8, <1>9
-----------------------------------------------------------------------------
(* Every step keeps it: the exclude list.                                  *)

LEMMA UniqueStringsIs ==
  ASSUME NEW X, NEW list \in Seq(X)
  PROVE  /\ UniqueStrings(list) \in Seq(X) /\ IsInjective(UniqueStrings(list))
         /\ Range(UniqueStrings(list)) = Range(list)
<1> DEFINE first == {i \in DOMAIN list : \A k \in 1 .. i - 1 : list[k] # list[i]}
<1>1. DOMAIN list = 1..Len(list) /\ Len(list) \in Nat
  OBVIOUS
<1>2. \A i, k \in first \cap DOMAIN list : list[i] = list[k] => i = k
  <2>1. \A i, k \in 1..Len(list) : i < k => i \in 1 .. k - 1
    BY <1>1
  <2>2. \A i, k \in 1..Len(list) : i < k \/ k < i \/ i = k
    BY <1>1
  <2> QED
    BY <1>1, <2>1, <2>2
<1>3. ASSUME NEW x \in Range(list)
      PROVE  \E i \in first \cap DOMAIN list : list[i] = x
  <2> DEFINE places == {i \in DOMAIN list : list[i] = x}
  <2>1. PICK i \in DOMAIN list : list[i] = x
    BY DEF Range
  <2>2. places \subseteq Nat /\ i \in places
    BY <1>1, <2>1
  <2>3. PICK m \in places : \A k \in places : m <= k
    <3> HIDE DEF places
    <3> QED
      BY <2>2, LeastNumber
  <2>4. \A k \in 1 .. m - 1 : k \in DOMAIN list /\ ~(m <= k)
    BY <1>1, <2>3
  <2>5. m \in first
    BY <2>3, <2>4
  <2> QED
    BY <2>3, <2>5
<1>4. UniqueStrings(list) = ElementsAt(list, first)
  BY DEF UniqueStrings
<1> HIDE DEF first
<1>5. /\ UniqueStrings(list) \in Seq(X) /\ IsInjective(UniqueStrings(list))
      /\ Range(UniqueStrings(list)) = {list[i] : i \in first \cap DOMAIN list}
  BY <1>2, <1>4, ElementsAtIs
<1>6. {list[i] : i \in first \cap DOMAIN list} = Range(list)
  BY <1>3 DEF Range
<1> QED
  BY <1>5, <1>6

LEMMA FilterExcludedIs ==
  ASSUME NEW X, NEW list \in Seq(X), NEW exclude
  PROVE  /\ FilterExcluded(list, exclude) \in Seq(X)
         /\ Range(FilterExcluded(list, exclude)) = {x \in Range(list) : ~InNets(x, exclude)}
         /\ IsInjective(list) => IsInjective(FilterExcluded(list, exclude))
<1> DEFINE kept == {i \in DOMAIN list : ~InNets(list[i], exclude)}
<1>1. FilterExcluded(list, exclude) = ElementsAt(list, kept)
  BY DEF FilterExcluded
<1>2. {list[i] : i \in kept \cap DOMAIN list} = {x \in Range(list) : ~InNets(x, exclude)}
  BY DEF Range
<1> HIDE DEF kept
<1> QED
  BY <1>1, <1>2, ElementsAtIs, KeepsInjective

LEMMA ExcludeKeeps ==
  ASSUME SweepInv, Exclude
  PROVE  SweepInv'
<1>1. /\ pc = "expand" /\ net > Len(group.cidrs)
      /\ UNCHANGED <<group, expandVars, pingVars, answered, faults>>
  BY DEF Exclude
<1>2. reader = "off"
  BY <1>1, NoReader
<1>3. CASE Bad \in Range(group.exclude)
  <2>1. pc' = "error" /\ ips' = ips
    BY <1>3 DEF Exclude
  <2> QED
    BY <1>1, <1>2, <2>1
    DEF SweepInv, SweepTyped, Expanding, AliveAnswered, Pinging, pingVars
<1>4. CASE Bad \notin Range(group.exclude)
  <2>1. /\ ips' = FilterExcluded(UniqueStrings(ips), group.exclude)
        /\ pc' = IF group.ping /\ ips' # <<>> THEN "open" ELSE "done"
    BY <1>4 DEF Exclude
  <2>2. /\ net \in 1 .. Len(group.cidrs) + 1 /\ \A i \in 1 .. net - 1 : Fine(i)
        /\ Range(ips) = Sought(net - 1) /\ group \in Groups /\ ips \in Seq(Addresses)
    BY <1>1 DEF SweepInv, SweepTyped, Expanding
  <2>3. Len(group.cidrs) \in Nat /\ DOMAIN group.cidrs = 1..Len(group.cidrs)
        /\ net - 1 = Len(group.cidrs)
    BY <1>1, <2>2, GroupIs
  <2> DEFINE unique == UniqueStrings(ips)
  <2>4. unique \in Seq(Addresses) /\ IsInjective(unique) /\ Range(unique) = Range(ips)
    BY <2>2, UniqueStringsIs
  <2> HIDE DEF unique
  <2>5. /\ ips' \in Seq(Addresses) /\ IsInjective(ips')
        /\ Range(ips') = {a \in Range(ips) : ~InNets(a, group.exclude)}
    <3>1. ips' = FilterExcluded(unique, group.exclude)
      BY <2>1 DEF unique
    <3> QED
      BY <2>4, <3>1, FilterExcludedIs
  <2>6. Range(ips') = Asked
    BY <2>2, <2>3, <2>5 DEF Asked, Sought, InNets
  <2>7. Asked' = Asked
    BY <1>1 DEF Asked
  <2>8. Expanding'
    BY <1>1, <2>1, <2>2, <2>3, <2>5, <2>6, <2>7 DEF Expanding, Fine
  <2>9. AliveAnswered'
    <3>1. ips' = <<>> => Range(ips') = {}
      BY DEF Range
    <3> QED
      BY <1>1, <2>1, <2>5, <2>6, <2>7, <3>1 DEF AliveAnswered
  <2> QED
    BY <1>1, <1>2, <2>1, <2>5, <2>8, <2>9
    DEF SweepInv, SweepTyped, Pinging, pingVars
<1> QED
  BY <1>3, <1>4
-----------------------------------------------------------------------------
(* Every step keeps it: one family after the other.                        *)

LEMMA WantedIs ==
  ASSUME SweepInv
  PROVE  /\ Wanted \in Seq(Addresses)
         /\ Range(Wanted) \subseteq Addresses
         /\ Len(Wanted) \in Nat /\ DOMAIN Wanted = 1..Len(Wanted)
<1>1. ips \in Seq(Addresses)
  BY DEF SweepInv, SweepTyped
<1> DEFINE where == {i \in DOMAIN ips : ips[i].fam = fam}
<1>2. Wanted = ElementsAt(ips, where)
  BY DEF Wanted
<1> HIDE DEF where
<1>3. Wanted \in Seq(Addresses)
  BY <1>1, <1>2, ElementsAtIs
<1> QED
  BY <1>3, RangeIn

\* A list that names nothing twice is as long as what it names is large.
LEMMA AsManyAsLong ==
  ASSUME NEW X, NEW s \in Seq(X)
  PROVE  /\ IsFiniteSet(Range(s)) /\ Cardinality(Range(s)) <= Len(s)
         /\ IsInjective(s) => Cardinality(Range(s)) = Len(s)
<1> DEFINE R == Range(s)
<1>1. Len(s) \in Nat /\ DOMAIN s = 1..Len(s)
  OBVIOUS
<1>2. s \in [1..Len(s) -> R]
  <2>1. s = [i \in 1..Len(s) |-> s[i]] /\ \A i \in 1..Len(s) : s[i] \in R
    BY <1>1 DEF Range
  <2> HIDE DEF R
  <2> QED
    BY <2>1
<1>3. \A x \in R : \E i \in 1..Len(s) : s[i] = x
  BY <1>1 DEF Range
<1> HIDE DEF R
<1>4. s \in Surjection(1..Len(s), R)
  BY <1>2, <1>3 DEF Surjection
<1>5. IsInjective(s) => s \in Injection(1..Len(s), R)
  BY <1>2 DEF Injection
<1>6. IsFiniteSet(1..Len(s)) /\ Cardinality(1..Len(s)) = Len(s)
  BY <1>1, FS_Interval
<1>7. /\ IsFiniteSet(R) /\ Cardinality(R) <= Len(s)
      /\ IsInjective(s) => Cardinality(R) = Len(s)
  BY <1>4, <1>5, <1>6, FS_Surjection
<1> QED
  BY <1>7 DEF R

\* As many marked addresses as were asked for: all of them.
LEMMA AllMarked ==
  ASSUME SweepInv, NEW marked, marked \subseteq Range(Wanted),
         Cardinality(marked) = Len(Wanted)
  PROVE  marked = Range(Wanted)
<1> DEFINE W == Wanted
           R == Range(W)
<1>1. W \in Seq(Addresses) /\ Len(W) \in Nat
  BY WantedIs
<1> HIDE DEF W
<1>4. IsFiniteSet(R) /\ Cardinality(R) <= Len(W)
  BY <1>1, AsManyAsLong
<1> HIDE DEF R
<1>5. Cardinality(R) \in Nat
  BY <1>4, FS_CardinalityType
<1>6. marked \in SUBSET R /\ Cardinality(marked) = Len(W)
  BY DEF R, W
<1>7. Cardinality(marked) <= Cardinality(R)
  BY <1>4, <1>6, FS_Subset
<1>8. Cardinality(R) = Cardinality(marked)
  BY <1>1, <1>4, <1>5, <1>6, <1>7
<1>9. R = marked
  BY <1>4, <1>6, <1>8, FS_Subset
<1> QED
  BY <1>9 DEF R, W

LEMMA NextFamilyKeeps ==
  ASSUME SweepInv, NextFamily, pc \in {"open", "wait"}, reader' = "off",
         UNCHANGED <<group, expandVars, sent, deadline, buffer, aliveLocal, alive,
                     answered, expired, faults>>
  PROVE  SweepInv'
<1>1. /\ ips \in Seq(Addresses) /\ fam \in {"v4", "v6"} /\ Range(ips) = Asked
      /\ IsInjective(ips) /\ alive \subseteq answered
  BY DEF SweepInv, SweepTyped, Expanding, Pinging
<1>2. Asked' = Asked
  BY DEF Asked
<1>3. Pinging'
  BY DEF SweepInv, Pinging
<1>4. CASE fam = "v4"
  <2>1. fam' = "v6" /\ pc' = "open" /\ ips' = ips
    BY <1>4 DEF NextFamily
  <2> QED
    BY <1>1, <1>2, <1>3, <2>1
    DEF SweepInv, SweepTyped, Expanding, AliveAnswered, Fine
<1>5. CASE fam # "v4"
  <2> DEFINE where == {i \in DOMAIN ips : ips[i] \in alive}
  <2>1. pc' = "done" /\ ips' = ElementsAt(ips, where) /\ fam' = fam
    BY <1>5 DEF NextFamily
  <2>2. {ips[i] : i \in where \cap DOMAIN ips} \subseteq Range(ips) \cap alive
    BY DEF Range
  <2> HIDE DEF where
  <2>3. ips' \in Seq(Addresses) /\ IsInjective(ips') /\ Range(ips') \subseteq Range(ips) \cap alive
    BY <1>1, <2>1, <2>2, ElementsAtIs, KeepsInjective
  <2>4. AliveAnswered'
    BY <1>1, <1>2, <2>3 DEF AliveAnswered
  <2> QED
    BY <1>1, <1>3, <2>1, <2>3, <2>4 DEF SweepInv, SweepTyped, Expanding
<1> QED
  BY <1>4, <1>5

LEMMA SkipFamilyKeeps ==
  ASSUME SweepInv, SkipFamily
  PROVE  SweepInv'
<1>1. pc = "open" /\ NextFamily /\ UNCHANGED <<group, expandVars, sent, deadline, reader,
        buffer, aliveLocal, alive, answered, expired, faults>>
  BY DEF SkipFamily
<1>2. reader = "off"
  BY <1>1, NoReader
<1> QED
  BY <1>1, <1>2, NextFamilyKeeps

LEMMA JoinKeeps ==
  ASSUME SweepInv, Join
  PROVE  SweepInv'
BY NextFamilyKeeps DEF Join

LEMMA ListenKeeps ==
  ASSUME SweepInv, Listen
  PROVE  SweepInv'
<1>1. /\ pc = "open" /\ pc' = "send" /\ sent' = 0 /\ deadline' = "none" /\ reader' = "read"
      /\ buffer' = {} /\ aliveLocal' = {} /\ expired' = FALSE
      /\ UNCHANGED <<group, expandVars, ips, fam, alive, answered, faults>>
  BY DEF Listen
<1>2. Wanted' = Wanted /\ Asked' = Asked
  BY <1>1 DEF Wanted, Asked
<1>3. Len(Wanted) \in Nat
  BY WantedIs
<1> QED
  BY <1>1, <1>2, <1>3
  DEF SweepInv, SweepTyped, Expanding, Fine, AliveAnswered, Pinging, Marking

LEMMA ListenFailsKeeps ==
  ASSUME SweepInv, ListenFails
  PROVE  SweepInv'
<1>1. /\ pc = "open" /\ pc' = "error" /\ faults < MaxFaults /\ faults' = faults + 1
      /\ UNCHANGED <<group, expandVars, ips, pingVars, answered>>
  BY DEF ListenFails, Strike
<1>2. reader = "off"
  BY <1>1, NoReader
<1>3. faults' \in 0..MaxFaults
  BY <1>1, SweepAssumption DEF SweepInv, SweepTyped
<1> QED
  BY <1>1, <1>2, <1>3
  DEF SweepInv, SweepTyped, Expanding, AliveAnswered, Pinging, pingVars
-----------------------------------------------------------------------------
(* Every step keeps it: the sender and the reader of one socket.           *)

\* A step of a ping leaves the list alone: what is left to show.
LEMMA PingKeeps ==
  ASSUME SweepInv, pc \in {"send", "wait"}, pc' \in {"send", "wait"},
         UNCHANGED <<group, expandVars, ips, fam>>,
         sent' \in 0..Len(Wanted),
         deadline' \in {"none", "set", "now", "passed"},
         reader' \in {"off", "read", "marked", "done"},
         answered' \subseteq Addresses \cup Strangers,
         faults' \in 0..MaxFaults,
         alive' \cup aliveLocal' \cup buffer' \subseteq answered',
         reader' # "off" =>
           /\ aliveLocal' \subseteq Range(Wanted)
           /\ reader' = "marked" \/ deadline' = "now" => aliveLocal' = Range(Wanted)
           /\ deadline' = "passed" => expired'
           /\ reader' = "done" /\ ~expired' /\ faults' = 0 => aliveLocal' = Range(Wanted)
  PROVE  SweepInv'
<1>1. Wanted' = Wanted /\ Asked' = Asked
  BY DEF Wanted, Asked
<1>2. SweepTyped'
  BY <1>1 DEF SweepInv, SweepTyped
<1>3. Expanding'
  BY <1>1 DEF SweepInv, Expanding, Fine
<1>4. AliveAnswered'
  BY DEF AliveAnswered
<1>5. Pinging'
  BY <1>1 DEF Pinging, Marking
<1> QED
  BY <1>2, <1>3, <1>4, <1>5 DEF SweepInv

LEMMA PingStepsKeep ==
  ASSUME SweepInv, Send \/ SetDeadline \/ Expire \/ BringForward \/ ReadTimeout \/ ReadFails
  PROVE  SweepInv'
<1>1. Len(Wanted) \in Nat
  BY WantedIs
<1>2. /\ deadline \in {"none", "set", "now", "passed"}
      /\ reader \in {"off", "read", "marked", "done"}
      /\ answered \subseteq Addresses \cup Strangers /\ faults \in 0..MaxFaults
      /\ alive \cup aliveLocal \cup buffer \subseteq answered
      /\ reader # "off" => Marking
      /\ pc \in {"send", "wait"} => sent \in 0..Len(Wanted)
  BY DEF SweepInv, SweepTyped, Pinging
<1>3. CASE Send
  BY <1>1, <1>2, <1>3, PingKeeps DEF Send, Marking
<1>4. CASE SetDeadline
  BY <1>1, <1>2, <1>4, PingKeeps DEF SetDeadline, Marking
<1>5. CASE Expire
  BY <1>1, <1>2, <1>5, PingKeeps DEF Expire, Marking
<1>6. CASE BringForward
  BY <1>1, <1>2, <1>6, PingKeeps DEF BringForward, Marking
<1>7. CASE ReadTimeout
  BY <1>1, <1>2, <1>7, PingKeeps DEF ReadTimeout, Marking
<1>8. CASE ReadFails
  BY <1>1, <1>2, <1>8, SweepAssumption, PingKeeps DEF ReadFails, Strike, Marking
<1> QED
  BY <1>3, <1>4, <1>5, <1>6, <1>7, <1>8

LEMMA ReplyKeeps ==
  ASSUME SweepInv, Reply
  PROVE  SweepInv'
<1>1. /\ pc \in {"send", "wait"}
      /\ UNCHANGED <<group, pc, expandVars, ips, fam, sent, deadline, reader,
                     aliveLocal, alive, expired, faults>>
  BY DEF Reply
<1>2. PICK a \in ({Wanted[i] : i \in 1..sent} \cup Strangers) \ buffer :
        buffer' = buffer \cup {a} /\ answered' = answered \cup {a}
  BY DEF Reply
<1>3. /\ Wanted \in Seq(Addresses) /\ Len(Wanted) \in Nat /\ sent \in 0..Len(Wanted)
      /\ answered \subseteq Addresses \cup Strangers
      /\ deadline \in {"none", "set", "now", "passed"}
      /\ reader \in {"off", "read", "marked", "done"} /\ faults \in 0..MaxFaults
      /\ alive \cup aliveLocal \cup buffer \subseteq answered
      /\ reader # "off" => Marking
  BY <1>1, WantedIs DEF SweepInv, SweepTyped, Pinging
<1>4. \A i \in 1..sent : Wanted[i] \in Addresses
  BY <1>3
<1>5. a \in Addresses \cup Strangers
  BY <1>2, <1>4
<1>6. /\ answered' \subseteq Addresses \cup Strangers
      /\ alive' \cup aliveLocal' \cup buffer' \subseteq answered'
  BY <1>1, <1>2, <1>3, <1>5
<1>7. sent' \in 0..Len(Wanted)
  BY <1>1, <1>3
<1> QED
  BY <1>1, <1>3, <1>6, <1>7, PingKeeps DEF Marking

LEMMA ReadKeeps ==
  ASSUME SweepInv, Read
  PROVE  SweepInv'
<1>1. /\ reader = "read" /\ deadline \in {"none", "set"}
      /\ UNCHANGED <<group, pc, expandVars, ips, fam, sent, deadline, answered, expired, faults>>
  BY DEF Read
<1>2. PICK a \in buffer :
        /\ buffer' = buffer \ {a}
        /\ IF a \in Range(Wanted)
           THEN /\ aliveLocal' = aliveLocal \cup {a} /\ alive' = alive \cup {a}
                /\ reader' = IF Cardinality(aliveLocal') = Len(Wanted) THEN "marked" ELSE "read"
           ELSE UNCHANGED <<aliveLocal, alive, reader>>
  BY DEF Read
<1>3. /\ Marking /\ pc \in {"send", "wait"} /\ sent \in 0..Len(Wanted)
      /\ answered \subseteq Addresses \cup Strangers /\ faults \in 0..MaxFaults
      /\ alive \cup aliveLocal \cup buffer \subseteq answered
  BY <1>1 DEF SweepInv, SweepTyped, Pinging, Marking
<1>4. aliveLocal' \subseteq Range(Wanted) /\ reader' \in {"marked", "read"}
      /\ alive' \cup aliveLocal' \cup buffer' \subseteq answered'
  BY <1>1, <1>2, <1>3 DEF Marking
<1>5. reader' = "marked" => aliveLocal' = Range(Wanted)
  <2>1. reader' = "marked" => Cardinality(aliveLocal') = Len(Wanted)
    BY <1>1, <1>2
  <2> QED
    BY <1>4, <2>1, AllMarked
<1> QED
  BY <1>1, <1>3, <1>4, <1>5, PingKeeps
-----------------------------------------------------------------------------
(* The theorems.                                                           *)

LEMMA SweepStarts ==
  ASSUME Init
  PROVE  SweepInv
<1>1. group \in Groups /\ pc = "expand" /\ net = 1 /\ ips = <<>> /\ reader = "off"
      /\ alive = {} /\ aliveLocal = {} /\ buffer = {} /\ answered = {} /\ faults = 0
      /\ fam = "v4" /\ deadline = "none"
  BY DEF Init
<1>2. Len(group.cidrs) \in Nat /\ MaxFaults \in Nat
  BY <1>1, GroupIs, SweepAssumption
<1>3. Range(ips) = {} /\ Sought(net - 1) = {} /\ 1 .. net - 1 = {}
  BY <1>1 DEF Range, Sought
<1>4. Expanding
  <2>1. Range(ips) = Sought(net - 1) /\ \A i \in 1 .. net - 1 : Fine(i)
    BY <1>3
  <2>2. net \in 1 .. Len(group.cidrs) + 1
    BY <1>1, <1>2
  <2> QED
    BY <1>1, <2>1, <2>2 DEF Expanding
<1>5. ips \in Seq(Addresses)
  BY <1>1
<1>6. SweepTyped
  BY <1>1, <1>2, <1>5 DEF SweepTyped
<1> QED
  BY <1>1, <1>4, <1>6 DEF SweepInv, AliveAnswered, Pinging

LEMMA SweepKeeps ==
  ASSUME SweepInv, [Next]_vars
  PROVE  SweepInv'
<1>1. CASE UNCHANGED vars
  <2>1. Wanted' = Wanted /\ Asked' = Asked /\ Net' = Net
    BY <1>1 DEF vars, expandVars, pingVars, Wanted, Asked, Net
  <2>2. SweepTyped'
    BY <1>1, <2>1 DEF vars, expandVars, pingVars, SweepInv, SweepTyped
  <2>3. Passed' = Passed /\ Sought(net - 1)' = Sought(net - 1) /\ Sought(net)' = Sought(net)
    BY <1>1, <2>1 DEF vars, expandVars, Passed, Sought
  <2>4. InNetwork' = InNetwork
    BY <1>1, <2>1, <2>3 DEF vars, expandVars, InNetwork, Fine
  <2>5. Expanding'
    BY <1>1, <2>1, <2>3, <2>4 DEF vars, expandVars, SweepInv, Expanding, Fine
  <2>6. AliveAnswered'
    BY <1>1, <2>1 DEF vars, SweepInv, AliveAnswered
  <2>7. Pinging'
    BY <1>1, <2>1 DEF vars, pingVars, SweepInv, Pinging, Marking
  <2> QED
    BY <2>2, <2>5, <2>6, <2>7 DEF SweepInv
<1> QED
  BY <1>1, ExpandNetKeeps, ExpandHostKeeps, ExcludeKeeps, SkipFamilyKeeps, ListenKeeps,
     JoinKeeps, PingStepsKeep, ReadKeeps, ReplyKeeps, ListenFailsKeeps
  DEF Next, Planning, Sender, Reader, Done

LEMMA SweepAlways == Spec => []SweepInv
<1>1. Init => SweepInv
  BY SweepStarts
<1>2. SweepInv /\ [Next]_vars => SweepInv'
  BY SweepKeeps
<1> QED
  BY <1>1, <1>2, PTL DEF Spec
\* Every sweep stays within its types: what it counts and marks is what it
\* could have counted and marked.
THEOREM SweepsTyped == Spec => []TypeOK
<1>1. ASSUME SweepInv PROVE TypeOK
  <2>1. Range(ips) \subseteq Addresses
    BY <1>1, RangeIn DEF SweepInv, SweepTyped
  <2> QED
    BY <1>1, <2>1 DEF SweepInv, SweepTyped, Pinging, TypeOK
<1> QED
  BY <1>1, SweepAlways, PTL

\* The expansion of any networks, whatever they overlap and wherever they end,
\* is what was asked for, each address once (cidr.go 51-122, 169-200).
THEOREM ExpansionExact == Spec => []ExpandsExactly
<1>1. ASSUME SweepInv PROVE ExpandsExactly
  <2>1. SUFFICES ASSUME pc \in {"open", "send", "wait"}
                 PROVE  /\ Range(ips) = Asked /\ Len(ips) = Cardinality(Asked)
                        /\ group.allowLarge
                           \/ \A i \in DOMAIN group.cidrs : group.cidrs[i].hostBits <= MaxHostBits
    BY DEF ExpandsExactly
  <2>2. /\ Range(ips) = Asked /\ IsInjective(ips) /\ ips \in Seq(Addresses)
        /\ group \in Groups /\ \A i \in DOMAIN group.cidrs : Fine(i)
    BY <1>1, <2>1 DEF SweepInv, SweepTyped, Expanding
  <2>3. Len(ips) = Cardinality(Range(ips))
    BY <2>2, AsManyAsLong
  <2>4. \A i \in DOMAIN group.cidrs :
          group.cidrs[i].hostBits \in Nat /\ ~TooLarge(group.cidrs[i], group.allowLarge)
    BY <2>2, GroupIs DEF Fine, IsNet
  <2>5. MaxHostBits \in Nat
    BY CidrAssumption
  <2> QED
    BY <2>2, <2>3, <2>4, <2>5 DEF TooLarge
<1> QED
  BY <1>1, SweepAlways, PTL

\* What a sweep returns was asked for, has answered if it pings, and is named
\* once, whatever replies come in and whatever fails (ping.go 45-72, 111-118).
THEOREM ReturnsAlive == Spec => []AliveAnswered
<1>1. SweepInv => AliveAnswered
  BY DEF SweepInv
<1> QED
  BY <1>1, SweepAlways, PTL

\* No race between the two owners of the deadline ends the reader early
\* (ping.go 99-143).
THEOREM StopsInTime == Spec => []EarlyOnlyIfAll
<1>1. SweepInv => EarlyOnlyIfAll
  BY DEF SweepInv, Pinging, Marking, EarlyOnlyIfAll
<1> QED
  BY <1>1, SweepAlways, PTL
===============================================================================
