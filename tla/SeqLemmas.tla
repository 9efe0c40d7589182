------------------------------ MODULE SeqLemmas ------------------------------
(***************************************************************************)
(* Facts about the sequence operators of the community modules that the   *)
(* proofs about Marshal rest on, and the least-number principle they are   *)
(* proved by (from the well-foundedness of < on Nat).                      *)
(***************************************************************************)
EXTENDS SequencesExt, SequenceTheorems, WellFoundedInduction, TLAPS

\* A relation that is < on Nat has, in a set where it has a minimal
\* element, a least element.
LEMMA LeastOfRelation ==
  ASSUME NEW R, NEW T, T \subseteq Nat,
         \A j, m \in Nat : <<j, m>> \in R <=> j < m,
         \E m \in T : \A j \in T : ~(<<j, m>> \in R)
  PROVE  \E m \in T : \A j \in T : m <= j
<1>1. PICK m \in T : \A j \in T : ~(<<j, m>> \in R)
  OBVIOUS
<1>2. ASSUME NEW j \in T PROVE m <= j
  <2>1. j \in Nat /\ m \in Nat
    OBVIOUS
  <2>2. ~(j < m)
    BY <1>1, <2>1, Zenon
  <2>3. QED
    BY <2>1, <2>2
<1>3. QED
  BY <1>2

\* Every nonempty set of natural numbers has a least element.
LEMMA LeastElement ==
  ASSUME NEW T, T \subseteq Nat, T # {}
  PROVE  \E m \in T : \A j \in T : m <= j
<1>1. \E m \in T : \A j \in T : ~(<<j, m>> \in OpToRel(<, Nat))
  BY NatLessThanWellFounded, WFMin
<1>2. \A j, m \in Nat : <<j, m>> \in OpToRel(<, Nat) <=> j < m
  BY DEF OpToRel
<1>3. QED
  BY <1>1, <1>2, LeastOfRelation, Zenon

\* A sum of a bound and a positive number exceeds the bound.
LEMMA SumLowerBound ==
  ASSUME NEW a, NEW b \in Nat, NEW c \in Nat, NEW m \in Nat,
         a = b + c, b >= m - 1, c >= 1
  PROVE  a >= m
OBVIOUS

(* The recursive function of FlattenSeq's LET, and a function g that     *)
(* satisfies its equation on 1..m.                                         *)
FlattenBody(s, f) == [i \in 1..Len(s) |-> IF i = 1 THEN s[i] ELSE f[i-1] \o s[i]]
FlattenFcn(s) == CHOOSE f : f = FlattenBody(s, f)
FlattenPrefix(s, g, m) ==
    \A i \in 1..m : g[i] = IF i = 1 THEN s[i] ELSE g[i-1] \o s[i]

\* FlattenSeq of a sequence of sequences over S is a sequence over S, at
\* least as long as its argument when no element is empty.
LEMMA FlattenSeqType ==
  ASSUME NEW S, NEW s \in Seq(Seq(S))
  PROVE  /\ FlattenSeq(s) \in Seq(S)
         /\ (\A k \in 1..Len(s) : Len(s[k]) >= 1) => Len(FlattenSeq(s)) >= Len(s)
<1> DEFINE n == Len(s)
           fl == FlattenFcn(s)
           NE == \A k \in 1..n : Len(s[k]) >= 1
<1> USE DEF n
<1>0. n \in Nat /\ \A k \in 1..n : s[k] \in Seq(S)
  OBVIOUS
<1>1. CASE n = 0
  <2>1. s = <<>>
    BY <1>1, EmptySeq
  <2>2. FlattenSeq(s) = s
    BY <1>1 DEF FlattenSeq
  <2>3. <<>> \in Seq(S) /\ Len(<<>>) = 0
    BY EmptySeq
  <2>4. FlattenSeq(s) = <<>> /\ Len(s) = 0
    BY <1>1, <2>1, <2>2
  <2>5. QED
    BY <2>3, <2>4
<1>2. CASE n > 0
  \* A function satisfying the equation of FlattenSeq's LET exists.
  <2>1. \A m \in 1..n : \E g \in [1..m -> Seq(S)] : FlattenPrefix(s, g, m)
    <3> DEFINE T == {k \in 1..n : ~\E f \in [1..k -> Seq(S)] : FlattenPrefix(s, f, k)}
    <3> SUFFICES ASSUME T # {} PROVE FALSE
      BY DEF T
    <3>1. T \subseteq Nat
      BY DEF T
    <3>2. PICK m \in T : \A j \in T : m <= j
      BY <3>1, LeastElement
    <3>3. m \in 1..n /\ ~\E g \in [1..m -> Seq(S)] : FlattenPrefix(s, g, m)
      BY <3>2 DEF T
    <3>4. CASE m = 1
      <4> DEFINE g == [i \in 1..1 |-> s[1]]
      <4>1. g \in [1..1 -> Seq(S)]
        BY <1>0, <1>2
      <4>2. FlattenPrefix(s, g, 1)
        BY DEF FlattenPrefix
      <4>3. QED
        BY <3>3, <3>4, <4>1, <4>2
    <3>5. CASE m > 1
      <4>1. m - 1 \in 1..n
        BY <3>3, <3>5
      <4>2. m - 1 \notin T
        <5>1. ~(m <= m - 1)
          OBVIOUS
        <5>2. QED
          BY <3>2, <5>1, Zenon
      <4>3. PICK g \in [1..m-1 -> Seq(S)] : FlattenPrefix(s, g, m - 1)
        BY <4>1, <4>2 DEF T
      <4> DEFINE h == [i \in 1..m |-> IF i < m THEN g[i] ELSE g[m-1] \o s[m]]
      <4> USE DEF h
      <4>4. h \in [1..m -> Seq(S)]
        <5>1. g[m-1] \o s[m] \in Seq(S)
          BY <1>0, <3>3, <3>5, <4>3, ConcatProperties
        <5>2. QED
          BY <5>1, <3>5
      <4>5. FlattenPrefix(s, h, m)
        <5> SUFFICES ASSUME NEW i \in 1..m
                     PROVE  h[i] = IF i = 1 THEN s[i] ELSE h[i-1] \o s[i]
          BY DEF FlattenPrefix
        <5>1. CASE i < m
          <6>1. h[i] = g[i] /\ i \in 1..m-1
            BY <5>1, <3>3
          <6>2. g[i] = IF i = 1 THEN s[i] ELSE g[i-1] \o s[i]
            BY <6>1, <4>3 DEF FlattenPrefix
          <6>3. CASE i = 1
            BY <6>1, <6>2, <6>3
          <6>4. CASE i # 1
            <7>1. i - 1 \in 1..m /\ i - 1 < m
              BY <6>1, <6>4, <3>3
            <7>2. h[i-1] = g[i-1]
              BY <7>1, Zenon
            <7>3. QED
              BY <6>1, <6>2, <6>4, <7>2, Zenon
          <6>5. QED
            BY <6>3, <6>4
        <5>2. CASE i = m
          <6>1. m # 1 /\ m \in 1..m /\ m - 1 \in 1..m /\ m - 1 < m /\ ~(m < m)
            BY <3>3, <3>5
          <6>2. h[m] = g[m-1] \o s[m] /\ h[m-1] = g[m-1]
            BY <6>1, Zenon
          <6>3. QED
            BY <5>2, <6>1, <6>2, Zenon
        <5>3. QED
          BY <5>1, <5>2
      <4>6. QED
        BY <3>3, <4>4, <4>5
    <3>6. QED
      BY <3>3, <3>4, <3>5
  <2>2. n \in 1..n
    BY <1>0, <1>2
  <2>3. PICK g \in [1..n -> Seq(S)] : FlattenPrefix(s, g, n)
    BY <2>1, <2>2
  <2>4. g = FlattenBody(s, g)
    BY <2>3 DEF FlattenBody, FlattenPrefix
  <2>5. fl = FlattenBody(s, fl)
    BY <2>4 DEF fl, FlattenFcn
  \* By the least-counterexample principle, every prefix is a sequence over
  \* S, and has at least m elements when no element is empty.
  <2>6. \A m \in 1..n : fl[m] \in Seq(S) /\ (NE => Len(fl[m]) >= m)
    <3> DEFINE T == {k \in 1..n : ~(fl[k] \in Seq(S) /\ (NE => Len(fl[k]) >= k))}
    <3> SUFFICES ASSUME T # {} PROVE FALSE
      BY DEF T
    <3>1. T \subseteq Nat
      BY DEF T
    <3>2. PICK m \in T : \A j \in T : m <= j
      BY <3>1, LeastElement
    <3>3. m \in 1..n /\ ~(fl[m] \in Seq(S) /\ (NE => Len(fl[m]) >= m))
      BY <3>2 DEF T
    <3>4. fl[m] = IF m = 1 THEN s[m] ELSE fl[m-1] \o s[m]
      BY <2>5, <3>3 DEF FlattenBody
    <3>5. CASE m = 1
      BY <1>0, <3>3, <3>4, <3>5 DEF NE
    <3>6. CASE m > 1
      <4>1. m - 1 \in 1..n /\ m - 1 \notin T
        <5>1. m - 1 \in 1..n /\ ~(m <= m - 1)
          BY <3>3, <3>6
        <5>2. QED
          BY <3>2, <5>1, Zenon
      <4>2. fl[m-1] \in Seq(S) /\ (NE => Len(fl[m-1]) >= m - 1)
        BY <4>1 DEF T
      <4>3. fl[m-1] \o s[m] \in Seq(S) /\ Len(fl[m-1] \o s[m]) = Len(fl[m-1]) + Len(s[m])
        BY <1>0, <3>3, <4>2, ConcatProperties
      <4>6. fl[m] = fl[m-1] \o s[m]
        <5>1. m # 1
          BY <3>3, <3>6
        <5>2. QED
          BY <3>4, <5>1, Zenon
      <4>4. NE => Len(s[m]) >= 1
        BY <3>3 DEF NE
      <4>5. QED
        <5>1. fl[m] \in Seq(S)
          BY <4>3, <4>6
        <5>2. NE => Len(fl[m]) >= m
          <6> SUFFICES ASSUME NE PROVE Len(fl[m]) >= m
            OBVIOUS
          <6>1. Len(fl[m]) = Len(fl[m-1]) + Len(s[m])
            BY <4>3, <4>6, Zenon
          <6>2. Len(fl[m-1]) >= m - 1 /\ Len(s[m]) >= 1
            BY <4>2, <4>4
          <6>3. Len(fl[m-1]) \in Nat /\ Len(s[m]) \in Nat /\ m \in Nat
            BY <1>0, <3>3, <4>2, LenProperties
          <6>4. QED
            BY <6>1, <6>2, <6>3, SumLowerBound, Zenon
        <5>3. QED
          BY <3>3, <5>1, <5>2
    <3>7. QED
      BY <3>3, <3>5, <3>6
  <2>7. FlattenSeq(s) = fl[n]
    BY <1>2 DEF FlattenSeq, fl, FlattenFcn, FlattenBody
  <2>8. QED
    BY <1>2, <2>2, <2>6, <2>7 DEF NE
<1>3. QED
  BY <1>0, <1>1, <1>2
====
