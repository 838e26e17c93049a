---------------------------- MODULE Numbers_proofs ----------------------------
(***************************************************************************)
(* Facts that several proofs need: least and greatest numbers, induction,  *)
(* definitions by recursion, and the elements at some positions of a list. *)
(***************************************************************************)
EXTENDS Lists, Functions, WellFoundedInduction, SequenceTheorems, TLAPS

\* Every set of natural numbers that is not empty has a least element.
LEMMA LeastNumber ==
  ASSUME NEW S, S \subseteq Nat, S # {}
  PROVE  \E n \in S : \A m \in S : n <= m
<1> DEFINE R == OpToRel(<, Nat)
<1>1. IsWellFoundedOn(R, Nat)
  BY NatLessThanWellFounded
<1>2. \A m, n \in Nat : m < n => <<m, n>> \in R
  BY DEF R, OpToRel
<1> HIDE DEF R
<1>3. PICK n \in S : \A m \in S : ~ (<<m, n>> \in R)
  BY <1>1, WFMin
<1>4. ASSUME NEW m \in S
      PROVE  n <= m
  <2>1. ~ (m < n)
    BY <1>2, <1>3
  <2>2. n \in Nat /\ m \in Nat
    OBVIOUS
  <2> QED
    BY <2>1, <2>2
<1> QED
  BY <1>4

\* And a greatest one, when it is bounded.
LEMMA GreatestNumber ==
  ASSUME NEW N \in Nat, NEW S, S \subseteq 0..N, S # {}
  PROVE  \E n \in S : \A m \in S : n >= m
<1> DEFINE mirrored == {k \in Nat : k <= N /\ N - k \in S}
<1>1. PICK s \in S : TRUE
  OBVIOUS
<1>2. N - s \in mirrored
  OBVIOUS
<1>3. PICK k \in mirrored : \A j \in mirrored : k <= j
  BY <1>2, LeastNumber
<1>4. ASSUME NEW m \in S
      PROVE  N - k >= m
  <2>1. N - m \in mirrored
    OBVIOUS
  <2>2. k <= N - m
    BY <1>3, <2>1
  <2> QED
    BY <2>2
<1> QED
  BY <1>3, <1>4
\* Induction up to a bound, on the set of the numbers that have the property.
LEMMA Induction ==
  ASSUME NEW N \in Nat, NEW S, 0 \in S, \A n \in 1..N : n - 1 \in S => n \in S
  PROVE  0..N \subseteq S
<1> DEFINE bad == (0..N) \ S
<1>1. SUFFICES ASSUME bad # {} PROVE FALSE
  OBVIOUS
<1>2. PICK n \in bad : \A m \in bad : n <= m
  <2>1. bad \subseteq Nat
    OBVIOUS
  <2> HIDE DEF bad
  <2> QED
    BY <1>1, <2>1, LeastNumber
<1>3. n \in 1..N /\ n - 1 \in 0..N /\ ~(n <= n - 1)
  OBVIOUS
<1>4. n - 1 \in S
  BY <1>2, <1>3
<1> QED
  BY <1>3, <1>4
-----------------------------------------------------------------------------
(* A function defined by recursion on 0..N exists and satisfies its        *)
(* definition.  The step is a function, so that the lemma needs no         *)
(* operator as a parameter.                                                *)

Iterated(f, N, e, step) ==
  f[0] = e /\ \A n \in 1..N : f[n] = step[<<f[n - 1], n>>]

LEMMA Iterates ==
  ASSUME NEW N \in Nat, NEW V, NEW e \in V, NEW step \in [V \X (1..N) -> V]
  PROVE  \E f \in [0..N -> V] : Iterated(f, N, e, step)
<1> DEFINE bad == {n \in 0..N : ~ \E f \in [0..n -> V] : Iterated(f, n, e, step)}
<1>1. SUFFICES ASSUME bad # {} PROVE FALSE
  OBVIOUS
<1>2. PICK n \in bad : \A m \in bad : n <= m
  <2>1. bad \subseteq Nat
    OBVIOUS
  <2> HIDE DEF bad
  <2> QED
    BY <1>1, <2>1, LeastNumber
<1>3. n \in 0..N /\ ~ \E f \in [0..n -> V] : Iterated(f, n, e, step)
  OBVIOUS
<1>4. CASE n = 0
  <2> DEFINE f == [i \in 0..0 |-> e]
  <2>1. f \in [0..0 -> V] /\ f[0] = e
    OBVIOUS
  <2>2. Iterated(f, 0, e, step)
    BY <2>1 DEF Iterated
  <2> QED
    BY <1>3, <1>4, <2>1, <2>2
<1>5. CASE n # 0
  <2>1. n - 1 \in 0..N /\ n - 1 \notin bad /\ n \in 1..N
    <3>1. n \in Nat /\ n - 1 \in 0..N /\ ~(n <= n - 1)
      BY <1>3, <1>5
    <3> HIDE DEF bad
    <3> QED
      BY <1>2, <1>3, <1>5, <3>1
  <2>2. PICK g \in [0..n - 1 -> V] : Iterated(g, n - 1, e, step)
    BY <2>1
  <2> DEFINE last == step[<<g[n - 1], n>>]
             f == [i \in 0..n |-> IF i = n THEN last ELSE g[i]]
  <2>3. g[n - 1] \in V /\ <<g[n - 1], n>> \in V \X (1..N)
    BY <2>1
  <2>4. last \in V
    BY <2>3
  <2> HIDE DEF last
  <2>5. f \in [0..n -> V]
    BY <2>1, <2>4
  <2>6. f[0] = e
    BY <1>5, <2>1, <2>2 DEF Iterated
  <2>7. ASSUME NEW k \in 1..n
        PROVE  f[k] = step[<<f[k - 1], k>>]
    <3>1. f[k - 1] = g[k - 1]
      BY <2>1
    <3>2. CASE k = n
      BY <2>1, <3>1, <3>2 DEF last
    <3>3. CASE k # n
      <4>1. k \in 1..n - 1 /\ f[k] = g[k]
        BY <2>1, <3>3
      <4> QED
        BY <2>2, <3>1, <4>1 DEF Iterated
    <3> QED
      BY <3>2, <3>3
  <2> HIDE DEF f
  <2>8. Iterated(f, n, e, step)
    BY <2>6, <2>7 DEF Iterated
  <2> QED
    BY <1>3, <2>5, <2>8
<1> QED
  BY <1>4, <1>5
-----------------------------------------------------------------------------
(* The elements at some positions of a list.                               *)

LEMMA OneAppended ==
  ASSUME NEW X, NEW s \in Seq(X), NEW x \in X
  PROVE  /\ Append(s, x) \in Seq(X)
         /\ Range(Append(s, x)) = Range(s) \cup {x}
         /\ IsInjective(s) /\ x \notin Range(s) => IsInjective(Append(s, x))
<1> DEFINE t == Append(s, x)
<1>1. /\ t \in Seq(X) /\ Len(t) = Len(s) + 1 /\ t[Len(s) + 1] = x
      /\ \A i \in 1..Len(s) : t[i] = s[i]
  BY AppendProperties
<1>2. DOMAIN t = DOMAIN s \cup {Len(s) + 1} /\ DOMAIN s = 1..Len(s)
  BY <1>1
<1> HIDE DEF t
<1>3. Range(t) = Range(s) \cup {x}
  BY <1>1, <1>2 DEF Range
<1>4. ASSUME IsInjective(s), x \notin Range(s) PROVE IsInjective(t)
  <2>1. \A i \in DOMAIN s : t[i] = s[i] /\ s[i] # x
    BY <1>1, <1>2, <1>4 DEF Range
  <2>2. \A i, k \in DOMAIN s : s[i] = s[k] => i = k
    BY <1>4 DEF IsInjective
  <2>3. \A i, k \in DOMAIN t : t[i] = t[k] => i = k
    BY <1>1, <1>2, <2>1, <2>2
  <2> QED
    BY <2>3 DEF IsInjective
<1> QED
  BY <1>1, <1>3, <1>4 DEF t

PickedUp(list, where) ==
  LET upto[n \in 0..Len(list)] ==
        IF n = 0 THEN <<>>
        ELSE IF n \in where THEN Append(upto[n - 1], list[n])
        ELSE upto[n - 1]
  IN  upto

LEMMA PickedUpIs ==
  ASSUME NEW X, NEW list \in Seq(X), NEW where
  PROVE  /\ ElementsAt(list, where) = PickedUp(list, where)[Len(list)]
         /\ PickedUp(list, where)[0] = <<>>
         /\ \A n \in 1..Len(list) :
              PickedUp(list, where)[n] =
                IF n \in where THEN Append(PickedUp(list, where)[n - 1], list[n])
                ELSE PickedUp(list, where)[n - 1]
<1> DEFINE N == Len(list)
           V == Seq(X)
           step == [p \in V \X (1..N) |->
                      IF p[2] \in where THEN Append(p[1], list[p[2]]) ELSE p[1]]
           Body(g) == [n \in 0..N |->
                         IF n = 0 THEN <<>>
                         ELSE IF n \in where THEN Append(g[n - 1], list[n])
                         ELSE g[n - 1]]
<1>1. N \in Nat /\ <<>> \in V /\ \A n \in 1..N : list[n] \in X
  OBVIOUS
<1>2. step \in [V \X (1..N) -> V]
  <2>1. ASSUME NEW p \in V \X (1..N)
        PROVE  (IF p[2] \in where THEN Append(p[1], list[p[2]]) ELSE p[1]) \in V
    <3>1. p[1] \in V /\ list[p[2]] \in X
      BY <1>1
    <3> QED
      BY <3>1, AppendProperties
  <2> HIDE DEF V
  <2> QED
    BY <2>1
<1> HIDE DEF V
<1>3. PICK f \in [0..N -> V] : Iterated(f, N, <<>>, step)
  <2> HIDE DEF step, N
  <2> QED
    BY <1>1, <1>2, Iterates
<1>4. ASSUME NEW n \in 1..N
      PROVE  f[n] = IF n \in where THEN Append(f[n - 1], list[n]) ELSE f[n - 1]
  <2>1. n - 1 \in 0..N
    BY <1>1
  <2>2. <<f[n - 1], n>> \in V \X (1..N)
    BY <2>1
  <2>3. step[<<f[n - 1], n>>] = IF n \in where THEN Append(f[n - 1], list[n]) ELSE f[n - 1]
    BY <2>2
  <2> HIDE DEF step
  <2> QED
    BY <1>3, <2>3 DEF Iterated
<1>5. f = Body(f)
  <2>1. f[0] = <<>>
    BY <1>3 DEF Iterated
  <2> DEFINE value(n) == IF n = 0 THEN <<>>
                         ELSE IF n \in where THEN Append(f[n - 1], list[n])
                         ELSE f[n - 1]
  <2> HIDE DEF N
  <2>2. \A n \in 0..N : n = 0 \/ n \in 1..N
    BY <1>1
  <2>3. \A n \in 0..N : f[n] = value(n)
    BY <1>4, <2>1, <2>2
  <2>4. f = [n \in 0..N |-> f[n]]
    OBVIOUS
  <2>5. Body(f) = [n \in 0..N |-> value(n)]
    OBVIOUS
  <2> HIDE DEF value, Body
  <2> QED
    BY <2>3, <2>4, <2>5
<1>6. PickedUp(list, where) = CHOOSE g : g = Body(g)
  BY DEF PickedUp
<1> DEFINE E == PickedUp(list, where)
<1>7. E = Body(E)
  <2> HIDE DEF Body
  <2> QED
    BY <1>5, <1>6
<1>8. ElementsAt(list, where) = E[N]
  BY DEF ElementsAt, PickedUp
<1> HIDE DEF E
<1>9. /\ E[0] = <<>>
      /\ \A n \in 1..N : E[n] = IF n \in where THEN Append(E[n - 1], list[n]) ELSE E[n - 1]
  <2> DEFINE value(n) == IF n = 0 THEN <<>>
                         ELSE IF n \in where THEN Append(E[n - 1], list[n])
                         ELSE E[n - 1]
  <2>1. E = [n \in 0..N |-> value(n)]
    BY <1>7
  <2> HIDE DEF value, N
  <2>2. \A n \in 0..N : E[n] = value(n)
    BY <2>1
  <2>3. 0 \in 0..N /\ \A n \in 1..N : n \in 0..N /\ n # 0
    BY <1>1
  <2>4. E[0] = <<>>
    BY <2>2, <2>3 DEF value
  <2>5. ASSUME NEW n \in 1..N
        PROVE  E[n] = IF n \in where THEN Append(E[n - 1], list[n]) ELSE E[n - 1]
    <3>1. E[n] = value(n) /\ n # 0
      BY <2>2, <2>3
    <3> QED
      BY <3>1 DEF value
  <2> QED
    BY <2>4, <2>5
<1> QED
  BY <1>8, <1>9 DEF E

LEMMA ElementsAtIs ==
  ASSUME NEW X, NEW list \in Seq(X), NEW where
  PROVE  /\ ElementsAt(list, where) \in Seq(X)
         /\ Range(ElementsAt(list, where)) = {list[i] : i \in where \cap DOMAIN list}
         /\ (\A i, k \in where \cap DOMAIN list : list[i] = list[k] => i = k) =>
              IsInjective(ElementsAt(list, where))
<1> DEFINE N == Len(list)
           E == PickedUp(list, where)
           part(n) == {list[i] : i \in where \cap 1..n}
           apart == \A i, k \in where \cap DOMAIN list : list[i] = list[k] => i = k
           S == {n \in 0..N : /\ E[n] \in Seq(X) /\ Range(E[n]) = part(n)
                              /\ apart => IsInjective(E[n])}
<1>1. N \in Nat /\ DOMAIN list = 1..N /\ \A n \in 1..N : list[n] \in X
  OBVIOUS
<1>2. /\ ElementsAt(list, where) = E[N] /\ E[0] = <<>>
      /\ \A n \in 1..N : E[n] = IF n \in where THEN Append(E[n - 1], list[n]) ELSE E[n - 1]
  BY PickedUpIs
<1> HIDE DEF E
<1>3. 0 \in S
  <2>1. <<>> \in Seq(X) /\ Range(<<>>) = {} /\ IsInjective(<<>>)
    BY DEF Range, IsInjective
  <2>2. part(0) = {}
    OBVIOUS
  <2>3. E[0] \in Seq(X) /\ Range(E[0]) = part(0) /\ IsInjective(E[0])
    BY <1>2, <2>1, <2>2
  <2> HIDE DEF part, apart
  <2>4. 0 \in 0..N
    BY <1>1
  <2> QED
    BY <2>3, <2>4
<1>4. ASSUME NEW n \in 1..N, n - 1 \in S
      PROVE  n \in S
  <2> DEFINE s == E[n - 1]
  <2>1. s \in Seq(X) /\ Range(s) = part(n - 1) /\ (apart => IsInjective(s))
    BY <1>4
  <2> HIDE DEF s
  <2>2. n \in 0..N /\ 1..n = 1 .. n - 1 \cup {n} /\ n \notin 1 .. n - 1
        /\ 1 .. n - 1 \subseteq DOMAIN list /\ n \in DOMAIN list /\ list[n] \in X
    BY <1>1
  <2>3. CASE n \in where
    <3>1. E[n] = Append(s, list[n])
      BY <1>2, <2>3 DEF s
    <3>2. part(n) = part(n - 1) \cup {list[n]}
      BY <2>2, <2>3
    <3>3. apart => list[n] \notin part(n - 1)
      BY <2>2, <2>3
    <3> HIDE DEF part, apart
    <3>4. E[n] \in Seq(X) /\ Range(E[n]) = part(n) /\ (apart => IsInjective(E[n]))
      BY <2>1, <2>2, <3>1, <3>2, <3>3, OneAppended
    <3> QED
      BY <2>2, <3>4 DEF part, apart
  <2>4. CASE n \notin where
    <3>1. E[n] = s
      BY <1>2, <2>4 DEF s
    <3>2. part(n) = part(n - 1)
      BY <2>2, <2>4
    <3> HIDE DEF part, apart
    <3>3. E[n] \in Seq(X) /\ Range(E[n]) = part(n) /\ (apart => IsInjective(E[n]))
      BY <2>1, <3>1, <3>2
    <3> QED
      BY <2>2, <3>3 DEF part, apart
  <2> QED
    BY <2>3, <2>4
<1> HIDE DEF S
<1>5. 0..N \subseteq S
  <2> HIDE DEF N
  <2> QED
    BY <1>1, <1>3, <1>4, Induction
<1>6. N \in S
  BY <1>1, <1>5
<1> QED
  BY <1>1, <1>2, <1>6 DEF S
LEMMA RangeIn ==
  ASSUME NEW X, NEW s \in Seq(X)
  PROVE  Range(s) \subseteq X /\ DOMAIN s = 1..Len(s) /\ Len(s) \in Nat
BY DEF Range

LEMMA KeepsInjective ==
  ASSUME NEW X, NEW list \in Seq(X), NEW where, IsInjective(list)
  PROVE  IsInjective(ElementsAt(list, where))
<1>1. \A i, k \in where \cap DOMAIN list : list[i] = list[k] => i = k
  BY DEF IsInjective
<1> QED
  BY <1>1, ElementsAtIs
===============================================================================
