--------------------------- MODULE HgProtocolProofs ---------------------------
(***************************************************************************)
(* Proofs that nothing is lost, doubled or mixed up between the service    *)
(* and one hg, whatever is written and however the bytes are cut: for any  *)
(* base of the digits, any commands and answers, any number of them.       *)
(***************************************************************************)
EXTENDS HgProtocol, SequenceTheorems, WellFoundedInduction, TLAPS

(***************************************************************************)
(* Induction, without an operator as a parameter.                          *)
(***************************************************************************)

\* A set of natural numbers that is not empty has a least element.
LEMMA LeastNatural ==
  ASSUME NEW T \in SUBSET Nat, T # {}
  PROVE  \E x \in T : \A y \in T : x <= y
<1> DEFINE Less == OpToRel(<, Nat)
<1>1. IsWellFoundedOn(Less, Nat)
  BY NatLessThanWellFounded
<1>2. \A x, y \in Nat : y < x => <<y, x>> \in Less
  BY DEF OpToRel
<1> HIDE DEF Less
<1>3. PICK x \in T : \A y \in T : ~ (<<y, x>> \in Less)
  BY <1>1, WFMin
<1>4. ASSUME NEW y \in T PROVE x <= y
  <2>1. x \in Nat /\ y \in Nat /\ ~(y < x)
    BY <1>2, <1>3
  <2>. QED
    BY <2>1
<1>. QED
  BY <1>4

\* The set of those numbers that have a property is all of them, if 0 has it and
\* each hands it to the next.
LEMMA Induction ==
  ASSUME NEW T \in SUBSET Nat, 0 \in T, \A n \in T : n + 1 \in T
  PROVE  T = Nat
<1> SUFFICES ASSUME Nat \ T # {} PROVE FALSE
  OBVIOUS
<1>1. PICK x \in Nat \ T : \A y \in Nat \ T : x <= y
  BY LeastNatural
<1>2. x # 0 /\ x - 1 \in Nat /\ x - 1 \notin T
  OBVIOUS
<1>. QED
  BY <1>1, <1>2

(***************************************************************************)
(* Lengths.                                                                *)
(***************************************************************************)

LEMMA Offset ==
  ASSUME NEW m \in Nat, NEW n \in Nat, NEW k \in 1..n
  PROVE  m + k \in 1..m + n /\ m + k <= m + n /\ ~(m + k <= m) /\ (m + k) - m = k
  OBVIOUS

LEMMA Position ==
  ASSUME NEW n \in Nat, NEW m \in Nat, m <= n
  PROVE  m + 1 \in 1..(n + 1) /\ m + 1 \in Nat \ {0} /\ (m + 1) - 1 = m
  OBVIOUS

LEMMA Before ==
  ASSUME NEW n \in Nat, NEW m \in Nat, NEW k \in Nat, n + 1 = m + (k + 1)
  PROVE  n = m + k
  OBVIOUS

LEMMA TooShort ==
  ASSUME NEW n \in Nat, NEW k \in Nat, NEW i \in Nat, n < (i - 1) + (5 + k)
  PROVE  ~(i + 4 + k <= n)
  OBVIOUS

LEMMA DivMod ==
  ASSUME NEW n \in Nat
  PROVE  /\ n \div Radix \in Nat /\ n % Radix \in Nat
         /\ (n \div Radix) * Radix + (n % Radix) = n
  BY RadixAssumption

LEMMA DivLess ==
  ASSUME NEW n \in Nat, NEW k \in Nat, n < k * Radix
  PROVE  n \div Radix < k
<1>1. (n \div Radix) * Radix < k * Radix /\ n \div Radix \in Nat
  BY DivMod, RadixAssumption
<1>. QED
  BY <1>1, RadixAssumption

LEMMA BigEndianType ==
  ASSUME NEW n \in Nat
  PROVE  /\ ToBigEndian(n) \in Seq(Nat) /\ Len(ToBigEndian(n)) = 4
<1>. DEFINE n1 == n \div Radix
            n2 == n1 \div Radix
            n3 == n2 \div Radix
<1>1. n1 \in Nat
  BY DivMod
<1>2. n2 \in Nat
  BY <1>1, DivMod
<1>3. n3 \in Nat
  BY <1>2, DivMod
<1>4. n % Radix \in Nat /\ n1 % Radix \in Nat /\ n2 % Radix \in Nat /\ n3 % Radix \in Nat
  BY <1>1, <1>2, <1>3, DivMod
<1>. HIDE DEF n1, n2, n3
<1>5. ToBigEndian(n) = <<n3 % Radix, n2 % Radix, n1 % Radix, n % Radix>>
  BY DEF ToBigEndian, n1, n2, n3
<1>. QED
  BY <1>4, <1>5

\* What four digits hold is what was written.
LEMMA BigEndian ==
  ASSUME NEW n \in Nat, n < Limit, NEW s, \A i \in 1..4 : s[i] = ToBigEndian(n)[i]
  PROVE  FromBigEndian(s) = n
<1>. DEFINE n1 == n \div Radix
            n2 == n1 \div Radix
            n3 == n2 \div Radix
<1>1. n1 \in Nat /\ n1 < Radix * Radix * Radix /\ n1 * Radix + (n % Radix) = n
  BY DivMod, DivLess, RadixAssumption DEF Limit
<1>2. n2 \in Nat /\ n2 < Radix * Radix /\ n2 * Radix + (n1 % Radix) = n1
  BY <1>1, DivMod, DivLess, RadixAssumption
<1>3. n3 \in Nat /\ n3 < Radix /\ n3 * Radix + (n2 % Radix) = n2
  BY <1>2, DivMod, DivLess, RadixAssumption
<1>4. n3 % Radix = n3
  BY <1>3, RadixAssumption
<1>. HIDE DEF n1, n2, n3
<1>5. ToBigEndian(n) = <<n3 % Radix, n2 % Radix, n1 % Radix, n % Radix>>
  BY DEF ToBigEndian, n1, n2, n3
<1>6. s[1] = n3 % Radix /\ s[2] = n2 % Radix /\ s[3] = n1 % Radix /\ s[4] = n % Radix
  BY <1>5
<1>. QED
  BY <1>1, <1>2, <1>3, <1>4, <1>6 DEF FromBigEndian

(***************************************************************************)
(* Sequences of sequences, joined.                                         *)
(***************************************************************************)

IsFlatten(f, s, n) == f = [i \in 1..n |-> IF i = 1 THEN s[i] ELSE f[i - 1] \o s[i]]

LEMMA FlattenExists ==
  ASSUME NEW s, NEW n \in Nat
  PROVE  \E f : IsFlatten(f, s, n)
<1> DEFINE T == {m \in Nat : \E f : IsFlatten(f, s, m)}
<1>1. 0 \in T
  <2>1. IsFlatten([i \in 1..0 |-> 0], s, 0)
    BY DEF IsFlatten
  <2>. QED
    BY <2>1
<1>2. ASSUME NEW m \in T PROVE m + 1 \in T
  <2>1. PICK f : IsFlatten(f, s, m)
    OBVIOUS
  <2> DEFINE last == IF m = 0 THEN s[1] ELSE f[m] \o s[m + 1]
             g == [i \in 1..(m + 1) |-> IF i = m + 1 THEN last ELSE f[i]]
  <2>2. ASSUME NEW i \in 1..(m + 1) PROVE g[i] = IF i = 1 THEN s[i] ELSE g[i - 1] \o s[i]
    <3>1. CASE i = m + 1
      <4>1. CASE m = 0
        BY <3>1, <4>1
      <4>2. CASE m # 0
        <5>1. i - 1 = m /\ m \in 1..(m + 1) /\ m # m + 1
          BY <3>1, <4>2
        <5>2. g[i - 1] = f[m]
          BY <5>1
        <5>3. g[i] = f[m] \o s[m + 1]
          BY <3>1, <4>2
        <5>4. i # 1 /\ s[i] = s[m + 1]
          BY <3>1, <5>1
        <5>. HIDE DEF g, T
        <5>. QED
          BY <5>2, <5>3, <5>4, Zenon
      <4>. QED
        BY <4>1, <4>2
    <3>2. CASE i # m + 1
      <4>1. g[i] = f[i] /\ i \in 1..m
        BY <3>2
      <4>2. i # 1 => g[i - 1] = f[i - 1]
        BY <4>1
      <4>3. f[i] = IF i = 1 THEN s[i] ELSE f[i - 1] \o s[i]
        BY <2>1, <4>1 DEF IsFlatten
      <4>. QED
        BY <4>1, <4>2, <4>3
    <3>. QED
      BY <3>1, <3>2
  <2>3. IsFlatten(g, s, m + 1)
    <3>. HIDE DEF last
    <3>. QED
      BY <2>2 DEF IsFlatten
  <2>. QED
    BY <2>3
<1>3. T = Nat
  <2>1. T \in SUBSET Nat
    OBVIOUS
  <2>. HIDE DEF T
  <2>. QED
    BY <2>1, <1>1, <1>2, Induction
<1>. QED
  BY <1>3

LEMMA FlattenIs ==
  ASSUME NEW s, Len(s) \in Nat, Len(s) # 0
  PROVE  \E f : IsFlatten(f, s, Len(s)) /\ FlattenSeq(s) = f[Len(s)]
<1>1. \E f : IsFlatten(f, s, Len(s))
  BY FlattenExists
<1>2. PICK f : f = CHOOSE g : g = [i \in 1..Len(s) |-> IF i = 1 THEN s[i] ELSE g[i - 1] \o s[i]]
  OBVIOUS
<1>3. FlattenSeq(s) = f[Len(s)]
  BY <1>2 DEF FlattenSeq
<1>4. IsFlatten(f, s, Len(s))
  BY <1>1, <1>2 DEF IsFlatten
<1>. QED
  BY <1>3, <1>4

\* Where the parts begin, less one, and where the last of n ends.
IsOffsets(off, s, n) ==
  /\ off \in [1..(n + 1) -> Nat] /\ off[1] = 0
  /\ \A j \in 1..n : off[j + 1] = off[j] + Len(s[j])

IsLaidOut(t, off, s, n) ==
  /\ t \in Seq(Nat) /\ Len(t) = off[n + 1]
  /\ \A j \in 1..n : /\ off[j + 1] <= Len(t)
                     /\ \A k \in 1..Len(s[j]) : t[off[j] + k] = s[j][k]

LEMMA LayoutStep ==
  ASSUME NEW s \in Seq(Seq(Nat)), NEW n \in Nat, n < Len(s), NEW off, NEW t,
         IsOffsets(off, s, n), IsLaidOut(t, off, s, n)
  PROVE  \E off2 : IsOffsets(off2, s, n + 1) /\ IsLaidOut(t \o s[n + 1], off2, s, n + 1)
<1>. DEFINE part == s[n + 1]
            off2 == [j \in 1..(n + 2) |-> IF j = n + 2 THEN off[n + 1] + Len(part) ELSE off[j]]
            t2 == t \o part
<1>1. part \in Seq(Nat) /\ t \in Seq(Nat) /\ Len(t) = off[n + 1] /\ off[n + 1] \in Nat
  BY DEF IsLaidOut, IsOffsets
<1>2. /\ t2 \in Seq(Nat) /\ Len(t2) = Len(t) + Len(part)
      /\ \A i \in 1..Len(t) + Len(part) :
           t2[i] = IF i <= Len(t) THEN t[i] ELSE part[i - Len(t)]
  <2>. HIDE DEF part
  <2>. QED
    BY <1>1, ConcatProperties
<1>3. off2 \in [1..(n + 2) -> Nat] /\ off2[n + 2] = off[n + 1] + Len(part)
  BY <1>1 DEF IsOffsets
<1>4. \A j \in 1..(n + 1) : off2[j] = off[j]
  OBVIOUS
<1>5. s[n + 1] = part /\ Len(part) \in Nat /\ Len(t) \in Nat
  BY <1>1
<1>. HIDE DEF part, off2, t2
<1>6. IsOffsets(off2, s, n + 1)
  <2>1. ASSUME NEW j \in 1..(n + 1) PROVE off2[j + 1] = off2[j] + Len(s[j])
    <3>1. CASE j = n + 1
      BY <3>1, <1>3, <1>4, <1>5
    <3>2. CASE j \in 1..n
      <4>1. off[j + 1] = off[j] + Len(s[j])
        BY <3>2 DEF IsOffsets
      <4>2. j \in 1..(n + 1) /\ j + 1 \in 1..(n + 1)
        BY <3>2
      <4>. QED
        BY <4>1, <4>2, <1>4
    <3>. QED
      BY <3>1, <3>2
  <2>2. off2[1] = 0
    BY <1>4 DEF IsOffsets
  <2>3. (n + 1) + 1 = n + 2
    OBVIOUS
  <2>. QED
    BY <1>3, <2>1, <2>2, <2>3 DEF IsOffsets
<1>7. ASSUME NEW j \in 1..(n + 1)
      PROVE  off2[j + 1] <= Len(t2) /\ \A k \in 1..Len(s[j]) : t2[off2[j] + k] = s[j][k]
  <2>1. CASE j = n + 1
    <3>1. off2[j + 1] = Len(t2)
      BY <2>1, <1>1, <1>2, <1>3
    <3>2. ASSUME NEW k \in 1..Len(s[j]) PROVE t2[off2[j] + k] = s[j][k]
      <4>1. off2[j] = Len(t) /\ s[j] = part
        BY <2>1, <1>1, <1>4, <1>5
      <4>2. /\ Len(t) + k \in 1..Len(t) + Len(part)
            /\ ~(Len(t) + k <= Len(t)) /\ (Len(t) + k) - Len(t) = k
        <5>1. k \in 1..Len(part)
          BY <4>1
        <5>. QED
          BY <5>1, <1>5, Offset, Zenon
      <4>. QED
        BY <4>1, <4>2, <1>2
    <3>3. Len(t2) \in Nat
      BY <1>2
    <3>. QED
      BY <3>1, <3>2, <3>3
  <2>2. CASE j \in 1..n
    <3>1. off[j + 1] <= Len(t) /\ off2[j + 1] = off[j + 1] /\ off2[j] = off[j]
      BY <2>2, <1>4 DEF IsLaidOut
    <3>2. ASSUME NEW k \in 1..Len(s[j]) PROVE t2[off2[j] + k] = s[j][k]
      <4>1. t[off[j] + k] = s[j][k]
        BY <2>2 DEF IsLaidOut
      <4>2. off[j] + k <= off[j + 1] /\ off[j] \in Nat /\ off[j + 1] \in Nat
        <5>1. j \in 1..(n + 1) /\ j + 1 \in 1..(n + 1)
          BY <2>2
        <5>2. off[j] \in Nat /\ off[j + 1] \in Nat /\ off[j + 1] = off[j] + Len(s[j])
          BY <2>2, <5>1 DEF IsOffsets
        <5>3. Len(s[j]) \in Nat
          BY <2>2
        <5>4. off[j] + k <= off[j] + Len(s[j])
          BY <5>2, <5>3, Offset, Zenon
        <5>. QED
          BY <5>2, <5>4
      <4>3. off[j] + k \in 1..Len(t) + Len(part) /\ off[j] + k <= Len(t)
        <5>1. off[j] + k \in Nat /\ off[j] + k >= 1
          <6>1. off[j] \in Nat /\ Len(s[j]) \in Nat
            BY <4>2, <2>2
          <6>2. off[j] + k \in 1..off[j] + Len(s[j])
            BY <6>1, Offset, Zenon
          <6>. QED
            BY <6>1, <6>2
        <5>2. off[j] + k <= Len(t)
          BY <4>2, <3>1, <5>1, <1>5
        <5>. QED
          BY <5>1, <5>2, <1>5
      <4>. QED
        BY <4>1, <4>3, <3>1, <1>2
    <3>3. off[j + 1] \in Nat
      BY <2>2 DEF IsOffsets
    <3>4. off2[j + 1] <= Len(t2)
      BY <3>1, <3>3, <1>2, <1>5
    <3>. QED
      BY <3>2, <3>4
  <2>. QED
    BY <2>1, <2>2
<1>8. IsLaidOut(t2, off2, s, n + 1)
  <2>1. Len(t2) = off2[(n + 1) + 1]
    BY <1>1, <1>2, <1>3
  <2>. QED
    BY <2>1, <1>2, <1>7 DEF IsLaidOut
<1>. QED
  BY <1>6, <1>8, <1>5 DEF t2

\* The parts lie one after the other in what FlattenSeq makes of them.
LEMMA FlattenLayout ==
  ASSUME NEW s \in Seq(Seq(Nat))
  PROVE  \E off : IsOffsets(off, s, Len(s)) /\ IsLaidOut(FlattenSeq(s), off, s, Len(s))
<1>1. CASE Len(s) = 0
  <2>1. FlattenSeq(s) = <<>> /\ s = <<>>
    BY <1>1 DEF FlattenSeq
  <2>2. IsOffsets([j \in 1..1 |-> 0], s, 0)
    BY DEF IsOffsets
  <2>3. IsLaidOut(<<>>, [j \in 1..1 |-> 0], s, 0)
    BY DEF IsLaidOut
  <2>. QED
    BY <1>1, <2>1, <2>2, <2>3
<1>2. CASE Len(s) # 0
  <2>1. PICK f : IsFlatten(f, s, Len(s)) /\ FlattenSeq(s) = f[Len(s)]
    BY <1>2, FlattenIs
  <2>. DEFINE t(n) == IF n = 0 THEN <<>> ELSE f[n]
              Holds(n) == \E off : IsOffsets(off, s, n) /\ IsLaidOut(t(n), off, s, n)
              T == {n \in Nat : n <= Len(s) => Holds(n)}
  <2>2. 0 \in T
    <3>1. IsOffsets([j \in 1..1 |-> 0], s, 0)
      BY DEF IsOffsets
    <3>2. IsLaidOut(<<>>, [j \in 1..1 |-> 0], s, 0)
      BY DEF IsLaidOut
    <3>. QED
      BY <3>1, <3>2
  <2>3. ASSUME NEW n \in T PROVE n + 1 \in T
    <3>. SUFFICES ASSUME n + 1 <= Len(s) PROVE Holds(n + 1)
      OBVIOUS
    <3>1. PICK off : IsOffsets(off, s, n) /\ IsLaidOut(t(n), off, s, n)
      OBVIOUS
    <3>2. t(n + 1) = t(n) \o s[n + 1]
      <4>1. CASE n = 0
        <5>1. f[1] = s[1] /\ s[1] \in Seq(Nat)
          BY <2>1, <1>2 DEF IsFlatten
        <5>. QED
          BY <5>1, <4>1
      <4>2. CASE n # 0
        <5>1. n + 1 \in 1..Len(s) /\ n + 1 # 1 /\ n + 1 # 0 /\ (n + 1) - 1 = n
          BY <4>2
        <5>2. f[n + 1] = f[(n + 1) - 1] \o s[n + 1]
          BY <2>1, <5>1 DEF IsFlatten
        <5>. QED
          BY <5>1, <5>2, <4>2
      <4>. QED
        BY <4>1, <4>2
    <3>. HIDE DEF t
    <3>3. n \in Nat /\ n < Len(s)
      OBVIOUS
    <3>. QED
      BY <3>1, <3>2, <3>3, LayoutStep
  <2>4. T = Nat
    <3>1. T \in SUBSET Nat
      OBVIOUS
    <3>. HIDE DEF T
    <3>. QED
      BY <3>1, <2>2, <2>3, Induction
  <2>5. Holds(Len(s))
    <3>1. Len(s) \in Nat /\ Len(s) <= Len(s)
      OBVIOUS
    <3>2. Len(s) \in T
      <4>. HIDE DEF T
      <4>. QED
        BY <3>1, <2>4
    <3>. HIDE DEF Holds
    <3>. QED
      BY <3>1, <3>2
  <2>. QED
    BY <2>5, <2>1, <1>2
<1>. QED
  BY <1>1, <1>2

(***************************************************************************)
(* Commands.                                                               *)
(***************************************************************************)

IsSplit(f, data, n) ==
  f = [i \in 0..n |->
        IF i = 0 THEN <<<<>>>>
        ELSE IF data[i] = 0 THEN Append(f[i - 1], <<>>)
        ELSE [f[i - 1] EXCEPT ![Len(f[i - 1])] = Append(@, data[i])]]

LEMMA SplitExists ==
  ASSUME NEW data, NEW n \in Nat
  PROVE  \E f : IsSplit(f, data, n)
<1> DEFINE T == {m \in Nat : \E f : IsSplit(f, data, m)}
<1>1. 0 \in T
  <2>1. IsSplit([i \in 0..0 |-> <<<<>>>>], data, 0)
    BY DEF IsSplit
  <2>. QED
    BY <2>1
<1>2. ASSUME NEW m \in T PROVE m + 1 \in T
  <2>1. PICK f : IsSplit(f, data, m)
    OBVIOUS
  <2> DEFINE last == IF data[m + 1] = 0 THEN Append(f[m], <<>>)
                     ELSE [f[m] EXCEPT ![Len(f[m])] = Append(@, data[m + 1])]
             g == [i \in 0..(m + 1) |-> IF i = m + 1 THEN last ELSE f[i]]
             Body(i) == IF i = 0 THEN <<<<>>>>
                        ELSE IF data[i] = 0 THEN Append(g[i - 1], <<>>)
                        ELSE [g[i - 1] EXCEPT ![Len(g[i - 1])] = Append(@, data[i])]
  <2>2. ASSUME NEW i \in 0..(m + 1) PROVE g[i] = Body(i)
    <3>1. CASE i = m + 1
      <4>1. g[m + 1] = last /\ g[m] = f[m] /\ (m + 1) - 1 = m /\ m + 1 # 0
        BY <3>1
      <4>. HIDE DEF g, T
      <4>2. last = Body(m + 1)
        BY <4>1
      <4>. HIDE DEF last
      <4>. QED
        BY <4>1, <4>2, <3>1, Zenon
    <3>2. CASE i # m + 1
      <4>1. g[i] = f[i] /\ i \in 0..m
        BY <3>2
      <4>2. i # 0 => g[i - 1] = f[i - 1]
        BY <4>1
      <4>3. f[i] = IF i = 0 THEN <<<<>>>>
                   ELSE IF data[i] = 0 THEN Append(f[i - 1], <<>>)
                   ELSE [f[i - 1] EXCEPT ![Len(f[i - 1])] = Append(@, data[i])]
        BY <2>1, <4>1 DEF IsSplit
      <4>. HIDE DEF g, T
      <4>. QED
        BY <4>1, <4>2, <4>3
    <3>. QED
      BY <3>1, <3>2
  <2>3. IsSplit(g, data, m + 1)
    <3>1. g = [i \in 0..(m + 1) |-> g[i]]
      OBVIOUS
    <3>2. [i \in 0..(m + 1) |-> g[i]] = [i \in 0..(m + 1) |-> Body(i)]
      <4>. HIDE DEF g, Body
      <4>. QED
        BY <2>2
    <3>. HIDE DEF g
    <3>. QED
      BY <3>1, <3>2 DEF IsSplit
  <2>. QED
    BY <2>3
<1>3. T = Nat
  <2>1. T \in SUBSET Nat
    OBVIOUS
  <2>. HIDE DEF T
  <2>. QED
    BY <2>1, <1>1, <1>2, Induction
<1>. QED
  BY <1>3

LEMMA SplitIs ==
  ASSUME NEW data, Len(data) \in Nat
  PROVE  \E f : IsSplit(f, data, Len(data)) /\ Split(data) = f[Len(data)]
<1>1. \E f : IsSplit(f, data, Len(data))
  BY SplitExists
<1>2. PICK f : f = CHOOSE g : g =
        [i \in 0..Len(data) |->
           IF i = 0 THEN <<<<>>>>
           ELSE IF data[i] = 0 THEN Append(g[i - 1], <<>>)
           ELSE [g[i - 1] EXCEPT ![Len(g[i - 1])] = Append(@, data[i])]]
  OBVIOUS
<1>3. Split(data) = f[Len(data)]
  BY <1>2 DEF Split
<1>4. IsSplit(f, data, Len(data))
  BY <1>1, <1>2 DEF IsSplit
<1>. QED
  BY <1>3, <1>4

\* What Split has made when it has read k bytes of the j-th argument.
SoFar(args, j, k) == [i \in 1..j |-> IF i < j THEN args[i] ELSE SubSeq(args[j], 1, k)]

LEMMA SoFarType ==
  ASSUME NEW args \in Seq(Seq(Nat)), NEW j \in 1..Len(args), NEW k \in 0..Len(args[j])
  PROVE  SoFar(args, j, k) \in Seq(Seq(Nat)) /\ Len(SoFar(args, j, k)) = j
<1>1. SubSeq(args[j], 1, k) \in Seq(Nat)
  BY SubSeqProperties
<1>2. \A i \in 1..j : args[i] \in Seq(Nat)
  OBVIOUS
<1>. QED
  BY <1>1, <1>2 DEF SoFar

Parts(args) == [i \in DOMAIN args |-> IF i = Len(args) THEN args[i] ELSE Append(args[i], 0)]

\* hg takes apart what prepareCommand has joined.
LEMMA SplitJoined ==
  ASSUME NEW args, IsCommand(args)
  PROVE  Split(Joined(args)) = args /\ Joined(args) \in Seq(Nat)
<1>. DEFINE s == Parts(args)
            data == Joined(args)
            m == Len(args)
<1>1. args \in Seq(Seq(Nat)) /\ m \in Nat \ {0} /\ DOMAIN args = 1..m
  BY DEF IsCommand
<1>2. \A i \in 1..m : \A k \in 1..Len(args[i]) : args[i][k] # 0 /\ args[i] \in Seq(Nat)
  <2>. SUFFICES ASSUME NEW i \in 1..m, NEW k \in 1..Len(args[i])
                PROVE  args[i][k] # 0 /\ args[i] \in Seq(Nat)
    OBVIOUS
  <2>1. args[i] \in Seq(Nat \ {0})
    <3>1. args \in Seq(Seq(Nat \ {0}))
      BY DEF IsCommand
    <3>. QED
      BY <3>1
  <2>2. args[i][k] \in Nat \ {0}
    BY <2>1, ElementOfSeq
  <2>. QED
    BY <1>1, <2>2
<1>3. s \in Seq(Seq(Nat)) /\ Len(s) = m
  BY <1>1 DEF Parts
<1>4. PICK off : IsOffsets(off, s, m) /\ IsLaidOut(data, off, s, m)
  BY <1>3, FlattenLayout DEF Joined, Parts
<1>5. data \in Seq(Nat) /\ Len(data) = off[m + 1] /\ Len(data) \in Nat
  BY <1>4, <1>1 DEF IsLaidOut
<1>6. PICK f : IsSplit(f, data, Len(data)) /\ Split(data) = f[Len(data)]
  BY <1>5, SplitIs
<1>7. ASSUME NEW j \in 1..m
      PROVE  /\ off[j] \in Nat /\ off[j + 1] \in Nat /\ off[j + 1] <= Len(data)
             /\ off[j + 1] = off[j] + Len(s[j])
  <2>1. j \in 1..(m + 1) /\ j + 1 \in 1..(m + 1)
    BY <1>1
  <2>. HIDE DEF s, data, m
  <2>. QED
    BY <2>1, <1>4 DEF IsOffsets, IsLaidOut
<1>8. \A j \in 1..m : \A k \in 1..Len(s[j]) : data[off[j] + k] = s[j][k]
  BY <1>4 DEF IsLaidOut
<1>9. ASSUME NEW j \in 1..m
      PROVE  /\ Len(s[j]) = IF j = m THEN Len(args[j]) ELSE Len(args[j]) + 1
             /\ \A k \in 1..Len(args[j]) : s[j][k] = args[j][k]
             /\ j # m => s[j][Len(args[j]) + 1] = 0
             /\ Len(args[j]) \in Nat
  <2>1. args[j] \in Seq(Nat)
    BY <1>1
  <2>2. s[j] = IF j = m THEN args[j] ELSE Append(args[j], 0)
    BY <1>1 DEF Parts
  <2>. HIDE DEF s, m
  <2>. QED
    BY <2>1, <2>2, AppendProperties
<1>. HIDE DEF s, data, m
<1>. DEFINE At(p) == \A j \in 1..m : \A k \in 0..Len(args[j]) :
                       p = off[j] + k => f[p] = SoFar(args, j, k)
            T == {p \in Nat : p <= Len(data) => At(p)}
<1>10. 0 \in T
  <2>. SUFFICES ASSUME NEW j \in 1..m, NEW k \in 0..Len(args[j]), 0 = off[j] + k
                PROVE  f[0] = SoFar(args, j, k)
    OBVIOUS
  <2>1. off[j] = 0 /\ k = 0
    BY <1>7, <1>9
  <2>2. j = 1
    <3>. SUFFICES ASSUME j # 1 PROVE FALSE
      OBVIOUS
    <3>1. j - 1 \in 1..m /\ (j - 1) + 1 = j /\ j - 1 # m
      BY <1>1
    <3>2. off[j] = off[j - 1] + Len(s[j - 1]) /\ Len(s[j - 1]) = Len(args[j - 1]) + 1
      BY <3>1, <1>7, <1>9
    <3>. QED
      BY <2>1, <3>1, <3>2, <1>7, <1>9
  <2>3. f[0] = <<<<>>>>
    <3>1. 0 \in 0..Len(data)
      BY <1>5
    <3>. QED
      BY <1>6, <3>1 DEF IsSplit
  <2>4. SubSeq(args[1], 1, 0) = <<>>
    BY SubSeqEmpty
  <2>5. SoFar(args, 1, 0) = <<<<>>>>
    <3>1. SoFar(args, 1, 0) = [i \in 1..1 |-> <<>>]
      BY <2>4 DEF SoFar
    <3>. QED
      BY <3>1
  <2>. QED
    BY <2>1, <2>2, <2>3, <2>5
<1>11. ASSUME NEW p \in T PROVE p + 1 \in T
  <2>. SUFFICES ASSUME p + 1 <= Len(data), NEW j \in 1..m, NEW k \in 0..Len(args[j]),
                       p + 1 = off[j] + k
                PROVE  f[p + 1] = SoFar(args, j, k)
    OBVIOUS
  <2>1. p \in Nat /\ p + 1 \in 0..Len(data) /\ p + 1 # 0 /\ (p + 1) - 1 = p
    BY <1>5
  <2>2. At(p)
    BY <2>1
  <2>3. f[p + 1] = IF data[p + 1] = 0 THEN Append(f[p], <<>>)
                   ELSE [f[p] EXCEPT ![Len(f[p])] = Append(@, data[p + 1])]
    BY <1>6, <2>1 DEF IsSplit
  <2>4. args[j] \in Seq(Nat) /\ Len(args[j]) \in Nat
    BY <1>1, <1>9
  <2>5. CASE k # 0
    <3>1. k - 1 \in 0..Len(args[j]) /\ p = off[j] + (k - 1)
      <4>1. k \in Nat /\ k # 0 /\ off[j] \in Nat
        BY <2>5, <2>4, <1>7
      <4>2. k - 1 \in 0..Len(args[j])
        BY <4>1, <2>4
      <4>3. p = off[j] + (k - 1)
        <5>1. p + 1 = off[j] + ((k - 1) + 1) /\ k - 1 \in Nat
          BY <4>1
        <5>. QED
          BY <4>1, <5>1, <2>1, Before, Zenon
      <4>. QED
        BY <4>2, <4>3
    <3>2. f[p] = SoFar(args, j, k - 1)
      BY <2>2, <3>1
    <3>3. k \in 1..Len(args[j]) /\ k \in 1..Len(s[j])
      <4>1. Len(s[j]) = IF j = m THEN Len(args[j]) ELSE Len(args[j]) + 1
        BY <1>9
      <4>2. k \in 1..Len(args[j])
        BY <2>5, <2>4
      <4>. QED
        BY <4>1, <4>2, <2>4
    <3>4. data[p + 1] = args[j][k] /\ args[j][k] # 0
      BY <3>3, <1>8, <1>9, <1>2
    <3>5. Append(SubSeq(args[j], 1, k - 1), args[j][k]) = SubSeq(args[j], 1, k)
      <4>1. SubSeq(args[j], 1, k) = SubSeq(args[j], 1, k - 1) \o <<args[j][k]>>
        <5>1. args[j] \in Seq(Nat) /\ 1 \in 1..Len(args[j]) /\ k \in 1..Len(args[j])
          BY <2>4, <3>3
        <5>. QED
          BY <5>1, SubSeqRecursiveSecond, Zenon
      <4>2. SubSeq(args[j], 1, k - 1) \in Seq(Nat) /\ args[j][k] \in Nat
        <5>1. args[j][k] \in Nat
          BY <2>4, <3>3, ElementOfSeq
        <5>2. \A q \in 1..(k - 1) : args[j][q] \in Nat
          <6>1. \A q \in 1..(k - 1) : q \in 1..Len(args[j])
            BY <2>4, <3>3
          <6>. QED
            BY <6>1, <2>4, ElementOfSeq
        <5>3. 1 \in Int /\ k - 1 \in Int
          BY <3>1
        <5>4. SubSeq(args[j], 1, k - 1) \in Seq(Nat)
          BY <5>2, <5>3, SubSeqProperties
        <5>. QED
          BY <5>1, <5>4
      <4>. QED
        BY <4>1, <4>2, AppendIsConcat
    <3>6. Len(SoFar(args, j, k - 1)) = j
      BY <1>1, <3>1, SoFarType DEF m
    <3>7. f[p + 1] = [SoFar(args, j, k - 1) EXCEPT ![j] = Append(@, args[j][k])]
      BY <2>3, <3>2, <3>4, <3>6
    <3>8. [SoFar(args, j, k - 1) EXCEPT ![j] = Append(@, args[j][k])] = SoFar(args, j, k)
      <4>. DEFINE old == SoFar(args, j, k - 1)
                  new == [old EXCEPT ![j] = Append(@, args[j][k])]
      <4>1. ASSUME NEW i \in 1..j PROVE new[i] = SoFar(args, j, k)[i]
        <5>1. CASE i = j
          <6>1. old[j] = SubSeq(args[j], 1, k - 1) /\ j \in DOMAIN old
            BY DEF SoFar
          <6>2. SoFar(args, j, k)[j] = SubSeq(args[j], 1, k)
            BY DEF SoFar
          <6>. HIDE DEF old
          <6>. QED
            BY <5>1, <6>1, <6>2, <3>5
        <5>2. CASE i # j
          <6>1. old[i] = args[i] /\ i \in DOMAIN old /\ SoFar(args, j, k)[i] = args[i]
            BY <5>2 DEF SoFar
          <6>. HIDE DEF old
          <6>. QED
            BY <5>2, <6>1
        <5>. QED
          BY <5>1, <5>2
      <4>2. /\ new = [i \in 1..j |-> new[i]]
            /\ SoFar(args, j, k) = [i \in 1..j |-> SoFar(args, j, k)[i]]
        BY DEF SoFar
      <4>. HIDE DEF new
      <4>3. [i \in 1..j |-> new[i]] = [i \in 1..j |-> SoFar(args, j, k)[i]]
        BY <4>1
      <4>4. new = SoFar(args, j, k)
        BY <4>2, <4>3, Zenon
      <4>. QED
        BY <4>4 DEF new
    <3>. QED
      BY <3>7, <3>8
  <2>6. CASE k = 0
    <3>1. j # 1
      BY <2>6, <1>4, <2>1 DEF IsOffsets
    <3>. DEFINE i == j - 1
    <3>2. i \in 1..m /\ i + 1 = j /\ i # m
      BY <3>1, <1>1
    <3>3. /\ off[j] = off[i] + Len(s[i]) /\ Len(s[i]) = Len(args[i]) + 1
          /\ off[i] \in Nat /\ Len(args[i]) \in Nat
      BY <3>2, <1>7, <1>9
    <3>4. p = off[i] + Len(args[i]) /\ p + 1 = off[i] + (Len(args[i]) + 1)
      <4>1. p + 1 = off[j] /\ off[j] \in Nat
        BY <2>6, <2>1, <1>7
      <4>. DEFINE l == Len(args[i])
      <4>2. off[j] = off[i] + (l + 1) /\ off[i] \in Nat /\ l \in Nat /\ p \in Nat
        BY <3>3, <2>1
      <4>. HIDE DEF i, l
      <4>3. p = off[i] + l /\ p + 1 = off[i] + (l + 1)
        <5>1. p + 1 = off[i] + (l + 1)
          BY <4>1, <4>2, Zenon
        <5>. QED
          BY <5>1, <4>2, Before, Zenon
      <4>. QED
        BY <4>3 DEF l
    <3>5. f[p] = SoFar(args, i, Len(args[i]))
      <4>1. Len(args[i]) \in 0..Len(args[i])
        BY <3>3
      <4>. HIDE DEF i
      <4>. QED
        BY <4>1, <2>2, <3>2, <3>4
    <3>6. data[p + 1] = 0
      <4>1. Len(args[i]) + 1 \in 1..Len(s[i])
        BY <3>3
      <4>2. s[i][Len(args[i]) + 1] = 0
        BY <3>2, <1>9
      <4>. HIDE DEF i
      <4>3. data[off[i] + (Len(args[i]) + 1)] = s[i][Len(args[i]) + 1]
        BY <4>1, <3>2, <1>8
      <4>. QED
        BY <4>2, <4>3, <3>4
    <3>7. SubSeq(args[i], 1, Len(args[i])) = args[i] /\ SubSeq(args[j], 1, 0) = <<>>
      <4>1. args[i] \in Seq(Nat)
        BY <1>1, <3>2
      <4>. QED
        BY <4>1, SubSeqFull, SubSeqEmpty
    <3>8. SoFar(args, i, Len(args[i])) = [n \in 1..i |-> args[n]]
      <4>1. ASSUME NEW n \in 1..i
            PROVE  args[n] = IF n < i THEN args[n] ELSE SubSeq(args[i], 1, Len(args[i]))
        <5>. HIDE DEF i
        <5>1. n = i \/ n < i
          BY <3>2, <1>1
        <5>. QED
          BY <5>1, <3>7, Zenon
      <4>. HIDE DEF i
      <4>. QED
        BY <4>1 DEF SoFar
    <3>9. Append([n \in 1..i |-> args[n]], <<>>) = SoFar(args, j, 0)
      <4>1. [n \in 1..i |-> args[n]] \in Seq(Seq(Nat)) /\ Len([n \in 1..i |-> args[n]]) = i
        BY <3>2, <1>1
      <4>2. \A n \in 1..j : n < j => n \in 1..i
        BY <3>2
      <4>. QED
        BY <4>1, <4>2, <3>2, <3>7 DEF SoFar
    <3>. QED
      BY <2>3, <2>6, <3>5, <3>6, <3>8, <3>9
  <2>. QED
    BY <2>5, <2>6
<1>12. T = Nat
  <2>1. T \in SUBSET Nat
    OBVIOUS
  <2>. HIDE DEF T
  <2>. QED
    BY <2>1, <1>10, <1>11, Induction
<1>13. f[Len(data)] = SoFar(args, m, Len(args[m]))
  <2>1. m \in 1..m /\ Len(data) = off[m] + Len(args[m]) /\ Len(args[m]) \in 0..Len(args[m])
    BY <1>1, <1>5, <1>7, <1>9
  <2>2. Len(data) \in T
    <3>. HIDE DEF T
    <3>. QED
      BY <1>12, <1>5
  <2>3. At(Len(data))
    BY <2>2, <1>5
  <2>. QED
    BY <2>1, <2>3
<1>14. SoFar(args, m, Len(args[m])) = args
  <2>1. SubSeq(args[m], 1, Len(args[m])) = args[m]
    BY <1>1, SubSeqFull
  <2>2. SoFar(args, m, Len(args[m])) = [i \in 1..m |-> args[i]]
    <3>1. ASSUME NEW i \in 1..m
          PROVE  args[i] = IF i < m THEN args[i] ELSE SubSeq(args[m], 1, Len(args[m]))
      BY <2>1, <1>1
    <3>. QED
      BY <3>1 DEF SoFar
  <2>. QED
    BY <2>2, <1>1
<1>. QED
  BY <1>5, <1>6, <1>13, <1>14 DEF data

(***************************************************************************)
(* Frames.                                                                 *)
(***************************************************************************)

\* A channel, a length and data.
Packet(channel, n, data) == <<channel>> \o ToBigEndian(n) \o data

IsPacket(b, channel, n, data) ==
  /\ b \in Seq(Nat) /\ Len(b) = 5 + Len(data)
  /\ b[1] = channel
  /\ \A q \in 1..4 : b[1 + q] = ToBigEndian(n)[q]
  /\ \A k \in 1..Len(data) : b[5 + k] = data[k]

LEMMA PacketLayout ==
  ASSUME NEW channel \in Nat, NEW n \in Nat, NEW data \in Seq(Nat)
  PROVE  IsPacket(Packet(channel, n, data), channel, n, data)
<1>. DEFINE b == Packet(channel, n, data)
            c == <<channel>>
            t == ToBigEndian(n)
            h == c \o t
<1>1. t \in Seq(Nat) /\ Len(t) = 4
  BY BigEndianType
<1>2. c \in Seq(Nat) /\ Len(c) = 1 /\ c[1] = channel
  OBVIOUS
<1>. HIDE DEF c, t
<1>3. /\ h \in Seq(Nat) /\ Len(h) = Len(c) + Len(t)
      /\ \A i \in 1..Len(c) + Len(t) : h[i] = IF i <= Len(c) THEN c[i] ELSE t[i - Len(c)]
  BY <1>1, <1>2, ConcatProperties
<1>. HIDE DEF h
<1>4. Len(h) = 5 /\ h[1] = channel /\ \A q \in 1..4 : h[1 + q] = t[q]
  BY <1>1, <1>2, <1>3
<1>5. b = h \o data
  BY DEF h, c, t, Packet
<1>. HIDE DEF b
<1>6. /\ b \in Seq(Nat) /\ Len(b) = 5 + Len(data)
      /\ \A i \in 1..5 + Len(data) : b[i] = IF i <= 5 THEN h[i] ELSE data[i - 5]
  <2>. h \in Seq(Nat)
    BY <1>3
  <2>1. /\ h \o data \in Seq(Nat) /\ Len(h \o data) = Len(h) + Len(data)
        /\ \A i \in 1..Len(h) + Len(data) :
             (h \o data)[i] = IF i <= Len(h) THEN h[i] ELSE data[i - Len(h)]
    BY ConcatProperties, Zenon
  <2>. QED
    BY <2>1, <1>4, <1>5
<1>7. \A k \in 1..Len(data) : 5 + k \in 1..5 + Len(data) /\ ~(5 + k <= 5) /\ (5 + k) - 5 = k
  OBVIOUS
<1>8. \A q \in 1..4 : 1 + q \in 1..5 + Len(data) /\ 1 + q <= 5
  OBVIOUS
<1>9. 1 \in 1..5 + Len(data) /\ 1 <= 5
  OBVIOUS
<1>. QED
  <2>1. b[1] = channel
    BY <1>4, <1>6, <1>9
  <2>2. ASSUME NEW q \in 1..4 PROVE b[1 + q] = t[q]
    <3>1. b[1 + q] = h[1 + q]
      BY <1>6, <1>8
    <3>. QED
      BY <3>1, <1>4
  <2>3. ASSUME NEW k \in 1..Len(data) PROVE b[5 + k] = data[k]
    BY <1>6, <1>7
  <2>. QED
    BY <1>6, <2>1, <2>2, <2>3 DEF t, b, IsPacket

LEMMA LengthRead ==
  ASSUME NEW bytes, NEW i \in Nat, NEW n \in Nat, n < Limit,
         \A q \in 1..4 : bytes[i + q] = ToBigEndian(n)[q]
  PROVE  LengthAt(bytes, i) = n
<1>. DEFINE s == SubSeq(bytes, i + 1, i + 4)
<1>1. \A q \in 1..4 : bytes[i + q] \in Nat
  <2>1. \A q \in 1..4 : ToBigEndian(n)[q] \in Nat
    <3>. DEFINE t == ToBigEndian(n)
    <3>1. t \in Seq(Nat) /\ Len(t) = 4
      BY BigEndianType
    <3>. HIDE DEF t
    <3>2. ASSUME NEW q \in 1..4 PROVE t[q] \in Nat
      <4>1. q \in 1..Len(t)
        BY <3>1
      <4>. QED
        BY <3>1, <4>1, ElementOfSeq
    <3>. QED
      BY <3>2 DEF t
  <2>. QED
    BY <2>1
<1>2. \A p \in (i + 1)..(i + 4) : bytes[p] \in Nat
  <2>1. \A p \in (i + 1)..(i + 4) : p - i \in 1..4 /\ p = i + (p - i)
    OBVIOUS
  <2>. QED
    BY <1>1, <2>1
<1>3. \A q \in 1..4 : s[q] = bytes[i + q]
  <2>1. \A q \in 1..((i + 4) - (i + 1)) + 1 : s[q] = bytes[((i + 1) + q) - 1]
    BY <1>2, SubSeqProperties
  <2>2. \A q \in 1..4 : q \in 1..((i + 4) - (i + 1)) + 1 /\ ((i + 1) + q) - 1 = i + q
    OBVIOUS
  <2>. QED
    BY <2>1, <2>2
<1>. HIDE DEF s
<1>4. FromBigEndian(s) = n
  BY <1>3, BigEndian
<1>. QED
  BY <1>4 DEF LengthAt, s

LEMMA LengthType ==
  ASSUME NEW bytes \in Seq(Nat), NEW i \in Nat, i + 4 <= Len(bytes)
  PROVE  LengthAt(bytes, i) \in Nat
<1>. DEFINE s == SubSeq(bytes, i + 1, i + 4)
<1>1. \A p \in (i + 1)..(i + 4) : bytes[p] \in Nat
  OBVIOUS
<1>2. s \in Seq(Nat) /\ Len(s) = 4
  BY <1>1, SubSeqProperties
<1>. HIDE DEF s
<1>3. s[1] \in Nat /\ s[2] \in Nat /\ s[3] \in Nat /\ s[4] \in Nat
  <2>1. 1 \in 1..Len(s) /\ 2 \in 1..Len(s) /\ 3 \in 1..Len(s) /\ 4 \in 1..Len(s)
    BY <1>2
  <2>. QED
    BY <2>1, <1>2, ElementOfSeq
<1>4. FromBigEndian(s) \in Nat
  <2>1. \A x, y \in Nat : x * Radix + y \in Nat
    BY RadixAssumption
  <2>2. (s[1] * Radix + s[2]) * Radix + s[3] \in Nat
    BY <1>3, <2>1
  <2>. QED
    BY <1>3, <2>1, <2>2 DEF FromBigEndian
<1>. QED
  BY <1>4 DEF LengthAt, s

\* The bytes from position i on are those of the frame, as far as they go.
Begins(bytes, i, frame) ==
  \A q \in 1..Len(Bytes(frame)) :
    (i - 1) + q <= Len(bytes) => bytes[(i - 1) + q] = Bytes(frame)[q]

Sized(frame) == IF IsUpper(frame.channel) THEN frame.size ELSE Len(frame.data)

LEMMA FrameBytes ==
  ASSUME NEW frame, IsFrame(frame)
  PROVE  /\ Bytes(frame) \in Seq(Nat) /\ Len(Bytes(frame)) = 5 + Len(frame.data)
         /\ Bytes(frame)[1] = frame.channel
         /\ \A q \in 1..4 : Bytes(frame)[1 + q] = ToBigEndian(Sized(frame))[q]
         /\ \A k \in 1..Len(frame.data) : Bytes(frame)[5 + k] = frame.data[k]
         /\ Sized(frame) \in Nat /\ Sized(frame) < Limit
         /\ frame.channel \in Nat /\ frame.data \in Seq(Nat) /\ Len(frame.data) \in Nat
<1>1. /\ frame.channel \in Nat /\ frame.data \in Seq(Nat) /\ Len(frame.data) \in Nat
      /\ Sized(frame) \in Nat /\ Sized(frame) < Limit
  BY DEF IsFrame, Sized
<1>2. Bytes(frame) = Packet(frame.channel, Sized(frame), frame.data)
  BY DEF Bytes, Sized, Packet
<1>. DEFINE n == Sized(frame)
            b == Bytes(frame)
            c == frame.channel
            t == frame.data
<1>3. b = Packet(c, n, t) /\ n \in Nat /\ c \in Nat /\ t \in Seq(Nat)
  BY <1>1, <1>2
<1>. HIDE DEF n, b, c, t
<1>4. IsPacket(b, c, n, t)
  BY <1>3, PacketLayout
<1>. QED
  BY <1>1, <1>4 DEF n, b, c, t, IsPacket

\* What FrameAt says of the frame, when the next one begins at next.
Recognized(frame, next) ==
  [channel |-> frame.channel, data |-> frame.data, size |-> frame.size, next |-> next]

Parsed == [channel : Nat, data : Seq(Nat), size : Nat, next : Nat]

\* A request for a number of bytes, or a frame of an optional channel.
Readable(frame) == IsFrame(frame) /\ (frame.channel = I \/ ~IsUpper(frame.channel))

LEMMA Header ==
  ASSUME NEW frame, Readable(frame), NEW bytes \in Seq(Nat), NEW i \in Nat \ {0},
         Begins(bytes, i, frame), i + 4 <= Len(bytes)
  PROVE  bytes[i] = frame.channel /\ LengthAt(bytes, i) = Sized(frame)
<1>1. /\ Len(Bytes(frame)) = 5 + Len(frame.data) /\ Len(frame.data) \in Nat
      /\ Bytes(frame)[1] = frame.channel
      /\ \A q \in 1..4 : Bytes(frame)[1 + q] = ToBigEndian(Sized(frame))[q]
      /\ Sized(frame) \in Nat /\ Sized(frame) < Limit
  BY FrameBytes DEF Readable
<1>2. bytes[i] = frame.channel
  <2>1. 1 \in 1..Len(Bytes(frame))
    BY <1>1
  <2>2. (i - 1) + 1 = i /\ i <= Len(bytes)
    OBVIOUS
  <2>. QED
    BY <2>1, <2>2, <1>1 DEF Begins
<1>3. ASSUME NEW q \in 1..4 PROVE bytes[i + q] = ToBigEndian(Sized(frame))[q]
  <2>. DEFINE m == Len(frame.data)
  <2>1. 1 + q \in 1..Len(Bytes(frame)) /\ (i - 1) + (1 + q) = i + q /\ i + q <= Len(bytes)
    <3>1. m \in Nat /\ Len(Bytes(frame)) = 5 + m /\ Len(bytes) \in Nat
      BY <1>1
    <3>. HIDE DEF m
    <3>. QED
      BY <3>1
  <2>. QED
    BY <2>1, <1>1 DEF Begins
<1>. QED
  BY <1>1, <1>2, <1>3, LengthRead

LEMMA UpperI == IsUpper(I)
  BY DEF IsUpper, I

\* A frame that is all there is recognized.
LEMMA FrameWhole ==
  ASSUME NEW frame, Readable(frame), NEW bytes \in Seq(Nat), NEW i \in Nat \ {0},
         Begins(bytes, i, frame), (i - 1) + Len(Bytes(frame)) <= Len(bytes)
  PROVE  FrameAt(bytes, i) = <<Recognized(frame, i + Len(Bytes(frame)))>>
<1>1. /\ Len(Bytes(frame)) = 5 + Len(frame.data) /\ Len(frame.data) \in Nat
      /\ \A k \in 1..Len(frame.data) : Bytes(frame)[5 + k] = frame.data[k]
      /\ frame.data \in Seq(Nat)
  BY FrameBytes DEF Readable
<1>2. i + 4 <= Len(bytes) /\ ~(i > Len(bytes)) /\ ~(i + 4 > Len(bytes)) /\ Len(bytes) \in Nat
  BY <1>1
<1>3. bytes[i] = frame.channel /\ LengthAt(bytes, i) = Sized(frame)
  BY <1>2, Header
<1>4. CASE frame.channel = I
  <2>1. frame.data = <<>> /\ Sized(frame) = frame.size
    BY <1>4, UpperI DEF Readable, IsFrame, Sized
  <2>2. Len(Bytes(frame)) = 5
    BY <2>1, <1>1
  <2>. QED
    BY <1>2, <1>3, <1>4, <2>1, <2>2 DEF FrameAt, Recognized
<1>5. CASE frame.channel # I
  <2>. DEFINE data == frame.data
              m == Len(data)
              end == i + 4 + m
              found == SubSeq(bytes, i + 5, end)
  <2>1. ~IsUpper(frame.channel) /\ frame.size = 0 /\ Sized(frame) = m
    BY <1>5 DEF Readable, IsFrame, Sized
  <2>2. /\ m \in Nat /\ Len(Bytes(frame)) = 5 + m /\ data \in Seq(Nat)
        /\ \A k \in 1..m : Bytes(frame)[5 + k] = data[k]
    BY <1>1
  <2>3. m = Len(data) /\ data = frame.data
    OBVIOUS
  <2>. HIDE DEF data, m
  <2>4. IsComplete(bytes, i) /\ end <= Len(bytes) /\ LengthAt(bytes, i) = m
    BY <1>2, <1>3, <2>1, <2>2 DEF IsComplete
  <2>5. i + 5 + m = i + Len(Bytes(frame)) /\ (i + 5 + m) - 1 = end /\ end \in Nat
    BY <2>2
  <2>6. found = data
    <3>. HIDE DEF end
    <3>1. \A p \in (i + 5)..end : bytes[p] \in Nat
      BY <2>4, <2>5
    <3>2. /\ found \in Seq(Nat)
          /\ Len(found) = IF i + 5 <= end THEN (end - (i + 5)) + 1 ELSE 0
          /\ \A k \in 1..(end - (i + 5)) + 1 : found[k] = bytes[((i + 5) + k) - 1]
      <4>1. i + 5 \in Int /\ end \in Int
        BY <2>5
      <4>. QED
        BY <3>1, <4>1, SubSeqProperties
    <3>. HIDE DEF found
    <3>. USE DEF end
    <3>3. Len(found) = m
      <4>1. Len(found) = IF i + 5 <= end THEN (end - (i + 5)) + 1 ELSE 0
        BY <3>2
      <4>2. (IF i + 5 <= end THEN (end - (i + 5)) + 1 ELSE 0) = m
        BY <2>2
      <4>. QED
        BY <4>1, <4>2
    <3>4. ASSUME NEW k \in 1..m PROVE found[k] = data[k]
      <4>1. k \in 1..(end - (i + 5)) + 1 /\ ((i + 5) + k) - 1 = (i - 1) + (5 + k)
        BY <2>2
      <4>2. found[k] = bytes[(i - 1) + (5 + k)]
        BY <3>2, <4>1
      <4>3. 5 + k \in 1..Len(Bytes(frame)) /\ (i - 1) + (5 + k) <= Len(bytes)
        BY <2>2, <2>4, <1>2
      <4>. QED
        BY <4>2, <4>3, <2>2 DEF Begins
    <3>. QED
      BY <3>2, <3>3, <3>4, <2>2, <2>3, SeqEqual
  <2>. HIDE DEF found, end
  <2>7. FrameAt(bytes, i) =
          <<[channel |-> bytes[i], data |-> found, size |-> 0, next |-> i + 5 + m]>>
    BY <1>2, <1>3, <1>5, <2>1, <2>4, <2>5 DEF FrameAt, found
  <2>. QED
    BY <2>1, <2>3, <2>5, <2>6, <2>7, <1>3 DEF Recognized
<1>. QED
  BY <1>4, <1>5

\* Of a frame that is cut nothing is said.
LEMMA FrameCut ==
  ASSUME NEW frame, Readable(frame), NEW bytes \in Seq(Nat), NEW i \in Nat \ {0},
         Begins(bytes, i, frame), Len(bytes) < (i - 1) + Len(Bytes(frame))
  PROVE  FrameAt(bytes, i) = <<>>
<1>1. /\ Len(Bytes(frame)) = 5 + Len(frame.data) /\ Len(frame.data) \in Nat
      /\ Bytes(frame)[1] = frame.channel
  BY FrameBytes DEF Readable
<1>2. CASE i > Len(bytes)
  BY <1>2 DEF FrameAt
<1>3. CASE ~(i > Len(bytes)) /\ i + 4 > Len(bytes)
  <2>1. bytes[i] = frame.channel
    <3>1. 1 \in 1..Len(Bytes(frame)) /\ (i - 1) + 1 = i /\ i <= Len(bytes)
      BY <1>1, <1>3
    <3>. QED
      BY <3>1, <1>1 DEF Begins
  <2>2. ~IsComplete(bytes, i)
    BY <1>3 DEF IsComplete
  <2>. QED
    BY <1>3, <2>1, <2>2 DEF FrameAt, Readable
<1>4. CASE ~(i > Len(bytes)) /\ ~(i + 4 > Len(bytes))
  <2>1. bytes[i] = frame.channel /\ LengthAt(bytes, i) = Sized(frame)
    BY <1>4, Header
  <2>2. frame.channel # I
    <3>. SUFFICES ASSUME frame.channel = I PROVE FALSE
      OBVIOUS
    <3>1. frame.data = <<>>
      BY UpperI DEF Readable, IsFrame
    <3>. QED
      BY <3>1, <1>1, <1>4
  <2>3. ~IsUpper(frame.channel) /\ Sized(frame) = Len(frame.data)
    BY <2>2 DEF Readable, Sized
  <2>4. ~IsComplete(bytes, i)
    <3>. SUFFICES ASSUME i + 4 + LengthAt(bytes, i) <= Len(bytes) PROVE FALSE
      BY DEF IsComplete
    <3>1. i + 4 + Len(frame.data) <= Len(bytes) /\ Len(frame.data) \in Nat
      BY <1>1, <2>1, <2>3
    <3>2. Len(bytes) < (i - 1) + (5 + Len(frame.data)) /\ Len(bytes) \in Nat /\ i \in Nat
      BY <1>1
    <3>. QED
      BY <3>1, <3>2, TooShort, Zenon
  <2>. QED
    BY <1>4, <2>1, <2>2, <2>3, <2>4 DEF FrameAt
<1>. QED
  BY <1>2, <1>3, <1>4

\* A frame whose search goes on has the next position behind it, in the bytes.
LEMMA FrameNext ==
  ASSUME NEW bytes \in Seq(Nat), NEW i \in Nat \ {0}, FrameAt(bytes, i) # <<>>,
         ~IsLast(FrameAt(bytes, i)[1])
  PROVE  FrameAt(bytes, i)[1].next \in (i + 1)..(Len(bytes) + 1)
<1>1. ~(i > Len(bytes)) /\ Len(bytes) \in Nat
  BY DEF FrameAt
<1>2. bytes[i] # I
  <2>. SUFFICES ASSUME bytes[i] = I PROVE FALSE
    OBVIOUS
  <2>1. FrameAt(bytes, i)[1].channel = I
    BY <1>1 DEF FrameAt
  <2>. QED
    BY <2>1, UpperI DEF IsLast
<1>3. ~IsUpper(bytes[i])
  <2>. SUFFICES ASSUME IsUpper(bytes[i]) PROVE FALSE
    OBVIOUS
  <2>1. FrameAt(bytes, i)[1].channel = bytes[i]
    BY <1>1, <1>2 DEF FrameAt
  <2>. QED
    BY <2>1 DEF IsLast
<1>4. IsComplete(bytes, i)
  BY <1>1, <1>2, <1>3 DEF FrameAt
<1>5. FrameAt(bytes, i)[1].next = i + 5 + LengthAt(bytes, i)
  BY <1>1, <1>2, <1>3, <1>4 DEF FrameAt
<1>6. LengthAt(bytes, i) \in Nat
  BY <1>4, LengthType DEF IsComplete
<1>. QED
  BY <1>4, <1>5, <1>6 DEF IsComplete

\* The step of the search of Frames, from the frames that begin later.
Search(f, bytes, i) ==
  LET frame == FrameAt(bytes, i)
  IN  IF frame = <<>> \/ IsLast(frame[1]) THEN frame ELSE frame \o f[frame[1].next]

IsSearch(f, bytes, lo) == f = [i \in lo..(Len(bytes) + 1) |-> Search(f, bytes, i)]

\* It ends, since it only looks forward.
LEMMA SearchExists ==
  ASSUME NEW bytes \in Seq(Nat)
  PROVE  \E f : IsSearch(f, bytes, 1)
<1>. DEFINE n == Len(bytes)
            T == {k \in Nat : k <= n => \E f : IsSearch(f, bytes, (n + 1) - k)}
<1>0. n \in Nat
  OBVIOUS
<1>1. 0 \in T
  <2>. DEFINE f == [i \in (n + 1)..(n + 1) |-> <<>>]
  <2>1. ASSUME NEW i \in (n + 1)..(n + 1) PROVE Search(f, bytes, i) = <<>>
    <3>1. FrameAt(bytes, i) = <<>>
      BY <1>0 DEF FrameAt
    <3>. QED
      BY <3>1 DEF Search
  <2>2. [i \in (n + 1)..(n + 1) |-> Search(f, bytes, i)] = [i \in (n + 1)..(n + 1) |-> <<>>]
    <3>. HIDE DEF f, n
    <3>. QED
      BY <2>1
  <2>3. IsSearch(f, bytes, n + 1)
    BY <2>2, Zenon DEF IsSearch, f, n
  <2>4. (n + 1) - 0 = n + 1
    BY <1>0
  <2>5. 0 <= n => IsSearch(f, bytes, (n + 1) - 0)
    BY <2>3, <2>4
  <2>. HIDE DEF f
  <2>. QED
    BY <2>5
<1>2. ASSUME NEW k \in T PROVE k + 1 \in T
  <2>. SUFFICES ASSUME k + 1 <= n PROVE \E f : IsSearch(f, bytes, (n + 1) - (k + 1))
    OBVIOUS
  <2>. DEFINE lo == (n + 1) - k
  <2>1. k \in Nat /\ lo \in 2..(n + 1) /\ (n + 1) - (k + 1) = lo - 1 /\ lo - 1 \in Nat \ {0}
    BY <1>0
  <2>2. PICK f : IsSearch(f, bytes, lo)
    BY <2>1
  <2>. HIDE DEF lo, T
  <2>. DEFINE first == Search(f, bytes, lo - 1)
              g == [i \in (lo - 1)..(n + 1) |-> IF i = lo - 1 THEN first ELSE f[i]]
  <2>3. \A i \in lo..(n + 1) : g[i] = f[i]
    BY <2>1, <1>0
  <2>4. ASSUME NEW i \in (lo - 1)..(n + 1) PROVE Search(g, bytes, i) = Search(f, bytes, i)
    <3>. DEFINE frame == FrameAt(bytes, i)
    <3>. HIDE DEF g, first
    <3>1. CASE frame = <<>> \/ IsLast(frame[1])
      <4>. HIDE DEF n
      <4>. QED
        BY <3>1 DEF Search
    <3>2. CASE ~(frame = <<>> \/ IsLast(frame[1]))
      <4>1. frame[1].next \in (i + 1)..(n + 1)
        BY <3>2, <2>1, FrameNext
      <4>2. frame[1].next \in lo..(n + 1)
        BY <4>1, <2>1, <1>0
      <4>3. g[frame[1].next] = f[frame[1].next]
        BY <4>2, <2>3
      <4>. QED
        BY <3>2, <4>3 DEF Search
    <3>. QED
      BY <3>1, <3>2
  <2>5. ASSUME NEW i \in (lo - 1)..(n + 1) PROVE g[i] = Search(f, bytes, i)
    <3>1. CASE i = lo - 1
      BY <3>1, <2>1
    <3>2. CASE i # lo - 1
      <4>1. i \in lo..(n + 1)
        BY <3>2, <2>1, <1>0
      <4>2. f[i] = Search(f, bytes, i)
        BY <4>1, <2>2 DEF IsSearch
      <4>3. g[i] = f[i]
        BY <4>1, <2>3
      <4>. QED
        BY <4>2, <4>3
    <3>. QED
      BY <3>1, <3>2
  <2>6. IsSearch(g, bytes, lo - 1)
    <3>1. g = [i \in (lo - 1)..(n + 1) |-> g[i]]
      OBVIOUS
    <3>. HIDE DEF g
    <3>2. [i \in (lo - 1)..(n + 1) |-> g[i]] = [i \in (lo - 1)..(n + 1) |-> Search(g, bytes, i)]
      BY <2>4, <2>5
    <3>. QED
      BY <3>1, <3>2, Zenon DEF IsSearch, n
  <2>. QED
    BY <2>1, <2>6
<1>3. T = Nat
  <2>1. T \in SUBSET Nat
    OBVIOUS
  <2>. HIDE DEF T
  <2>. QED
    BY <2>1, <1>1, <1>2, Induction
<1>4. n \in T /\ (n + 1) - n = 1 /\ n <= n
  <2>1. n \in T
    <3>. HIDE DEF T
    <3>. QED
      BY <1>0, <1>3
  <2>. QED
    BY <2>1, <1>0
<1>. QED
  BY <1>4

LEMMA FramesIs ==
  ASSUME NEW bytes \in Seq(Nat)
  PROVE  \E f : IsSearch(f, bytes, 1) /\ Frames(bytes) = f[1]
<1>1. \E f : IsSearch(f, bytes, 1)
  BY SearchExists
<1>2. PICK f : f = CHOOSE g : g =
        [i \in 1..(Len(bytes) + 1) |->
           LET frame == FrameAt(bytes, i)
           IN  IF frame = <<>> \/ IsLast(frame[1]) THEN frame ELSE frame \o g[frame[1].next]]
  OBVIOUS
<1>3. Frames(bytes) = f[1]
  BY <1>2 DEF Frames
<1>4. IsSearch(f, bytes, 1)
  BY <1>1, <1>2 DEF IsSearch, Search
<1>. QED
  BY <1>3, <1>4

\* The frames found are those of the answer, and the search has stopped at its end.
IsParse(frames, answer) ==
  /\ frames \in Seq(Parsed) /\ Len(frames) = Len(answer)
  /\ \A i \in 1..Len(answer) : /\ frames[i].channel = answer[i].channel
                               /\ frames[i].data = answer[i].data
                               /\ frames[i].size = answer[i].size

LEMMA AnswerFrames ==
  ASSUME NEW answer, IsAnswer(answer)
  PROVE  /\ Len(answer) \in Nat \ {0} /\ DOMAIN answer = 1..Len(answer)
         /\ \A i \in 1..Len(answer) :
              /\ IsFrame(answer[i]) /\ (IsLast(answer[i]) <=> i = Len(answer))
              /\ answer[i] \in [channel : Nat, data : Seq(Nat), size : Nat]
         /\ Last(answer) = answer[Len(answer)]
<1>1. /\ answer \in Seq([channel : Nat, data : Seq(Nat), size : Nat]) /\ answer # <<>>
      /\ \A i \in DOMAIN answer : IsFrame(answer[i]) /\ (IsLast(answer[i]) <=> i = Len(answer))
  BY DEF IsAnswer
<1>2. Len(answer) \in Nat \ {0} /\ DOMAIN answer = 1..Len(answer)
  BY <1>1
<1>3. \A i \in 1..Len(answer) : answer[i] \in [channel : Nat, data : Seq(Nat), size : Nat]
  BY <1>1, ElementOfSeq
<1>. QED
  BY <1>1, <1>2, <1>3 DEF Last

LEMMA AnswerReadable ==
  ASSUME NEW answer, IsAnswer(answer), Last(answer).channel \in {r, I},
         NEW i \in 1..Len(answer)
  PROVE  Readable(answer[i])
<1>1. IsFrame(answer[i]) /\ (IsLast(answer[i]) <=> i = Len(answer))
      /\ Last(answer) = answer[Len(answer)]
  BY AnswerFrames
<1>2. CASE i = Len(answer)
  <2>1. ~IsUpper(r)
    BY DEF IsUpper, r
  <2>. QED
    BY <1>1, <1>2, <2>1 DEF Readable
<1>3. CASE i # Len(answer)
  BY <1>1, <1>3 DEF Readable, IsLast
<1>. QED
  BY <1>2, <1>3

LEMMA WireLayout ==
  ASSUME NEW answer, IsAnswer(answer)
  PROVE  \E off : LET parts == [i \in 1..Len(answer) |-> Bytes(answer[i])]
                  IN  /\ IsOffsets(off, parts, Len(answer))
                      /\ IsLaidOut(Wire(answer), off, parts, Len(answer))
<1>. DEFINE parts == [i \in 1..Len(answer) |-> Bytes(answer[i])]
<1>1. Len(answer) \in Nat \ {0} /\ DOMAIN answer = 1..Len(answer)
  BY AnswerFrames
<1>2. \A i \in 1..Len(answer) : Bytes(answer[i]) \in Seq(Nat)
  BY AnswerFrames, FrameBytes
<1>3. parts \in Seq(Seq(Nat)) /\ Len(parts) = Len(answer)
  BY <1>1, <1>2
<1>4. Wire(answer) = FlattenSeq(parts)
  BY <1>1 DEF Wire
<1>. HIDE DEF parts
<1>5. \E off : /\ IsOffsets(off, parts, Len(answer))
               /\ IsLaidOut(Wire(answer), off, parts, Len(answer))
  BY <1>3, <1>4, FlattenLayout
<1>. QED
  BY <1>5 DEF parts

\* However an answer is cut, either all of it is found, or no end of it.
LEMMA FramesOf ==
  ASSUME NEW answer, IsAnswer(answer), Last(answer).channel \in {r, I},
         NEW bytes \in Seq(Nat), Len(bytes) <= Len(Wire(answer)),
         \A p \in 1..Len(bytes) : bytes[p] = Wire(answer)[p]
  PROVE  /\ Frames(bytes) \in Seq(Parsed)
         /\ IF Len(bytes) = Len(Wire(answer))
              THEN /\ IsParse(Frames(bytes), answer)
                   /\ Last(Frames(bytes)).next = Len(bytes) + 1
              ELSE Frames(bytes) # <<>> => ~IsLast(Last(Frames(bytes)))
<1>. DEFINE m == Len(answer)
            parts == [i \in 1..m |-> Bytes(answer[i])]
            n == Len(bytes)
            w == Wire(answer)
<1>1. m \in Nat \ {0} /\ n \in Nat /\ n <= Len(w) /\ \A p \in 1..n : bytes[p] = w[p]
  BY AnswerFrames
<1>2. PICK off : IsOffsets(off, parts, m) /\ IsLaidOut(w, off, parts, m)
  BY WireLayout
<1>3. \A j \in 1..m : parts[j] = Bytes(answer[j])
  OBVIOUS
<1>. HIDE DEF parts, w, n
<1>4. off[1] = 0 /\ Len(w) = off[m + 1] /\ \A j \in 1..(m + 1) : off[j] \in Nat
  BY <1>2, <1>1 DEF IsOffsets, IsLaidOut
<1>5. ASSUME NEW j \in 1..m
      PROVE  /\ off[j + 1] = off[j] + Len(Bytes(answer[j])) /\ off[j + 1] <= Len(w)
             /\ \A k \in 1..Len(Bytes(answer[j])) : w[off[j] + k] = Bytes(answer[j])[k]
             /\ off[j] \in Nat /\ off[j + 1] \in Nat /\ Len(Bytes(answer[j])) \in Nat
  <2>1. Len(Bytes(answer[j])) \in Nat
    BY AnswerFrames, FrameBytes
  <2>2. j \in 1..(m + 1) /\ j + 1 \in 1..(m + 1)
    BY <1>1
  <2>3. off[j] \in Nat /\ off[j + 1] \in Nat
    BY <2>2, <1>4
  <2>4. parts[j] = Bytes(answer[j])
    BY <1>3
  <2>. HIDE DEF m
  <2>5. off[j + 1] = off[j] + Len(Bytes(answer[j]))
    BY <2>4, <1>2 DEF IsOffsets
  <2>6. off[j + 1] <= Len(w) /\ \A k \in 1..Len(Bytes(answer[j])) :
                                  w[off[j] + k] = Bytes(answer[j])[k]
    BY <2>4, <1>2 DEF IsLaidOut
  <2>. QED
    BY <2>1, <2>3, <2>5, <2>6
<1>6. PICK f : IsSearch(f, bytes, 1) /\ Frames(bytes) = f[1]
  BY FramesIs
<1>7. ASSUME NEW j \in 1..m, off[j] <= n
      PROVE  /\ f[off[j] + 1] = Search(f, bytes, off[j] + 1)
             /\ FrameAt(bytes, off[j] + 1) =
                  IF off[j + 1] <= n THEN <<Recognized(answer[j], off[j + 1] + 1)>> ELSE <<>>
             /\ Recognized(answer[j], off[j + 1] + 1) \in Parsed
             /\ IsLast(Recognized(answer[j], off[j + 1] + 1)) <=> j = m
  <2>. DEFINE i == off[j] + 1
              size == Len(Bytes(answer[j]))
  <2>0. off[j] \in Nat /\ n \in Nat /\ off[j + 1] \in Nat /\ size \in Nat
        /\ off[j + 1] = off[j] + size
    BY <1>1, <1>5
  <2>1. i \in 1..(n + 1) /\ i \in Nat \ {0} /\ i - 1 = off[j]
    <3>1. off[j] \in Nat /\ n \in Nat /\ off[j] <= n
      BY <2>0, <1>7
    <3>. HIDE DEF n
    <3>. QED
      BY <3>1, Position, Zenon
  <2>2. f[i] = Search(f, bytes, i)
    BY <1>6, <2>1 DEF IsSearch, n
  <2>3. Readable(answer[j])
    BY AnswerReadable
  <2>4. Begins(bytes, i, answer[j])
    <3>. SUFFICES ASSUME NEW q \in 1..size, (i - 1) + q <= n
                  PROVE  bytes[(i - 1) + q] = Bytes(answer[j])[q]
      BY DEF Begins, n
    <3>1. off[j] + q \in 1..n
      <4>1. (i - 1) + q = off[j] + q
        BY <2>1
      <4>2. off[j] + q \in 1..off[j] + size
        BY <2>0, Offset, Zenon
      <4>3. off[j] + q <= n /\ n \in Nat
        BY <4>1, <2>0
      <4>. HIDE DEF i, n, size
      <4>. QED
        BY <4>2, <4>3
    <3>. QED
      BY <3>1, <1>1, <1>5, <2>1
  <2>5. (i - 1) + size = off[j + 1] /\ i + size = off[j + 1] + 1
    <3>. HIDE DEF size
    <3>. QED
      BY <2>0
  <2>. HIDE DEF i, size
  <2>6. /\ Recognized(answer[j], off[j + 1] + 1) \in Parsed
        /\ IsLast(Recognized(answer[j], off[j + 1] + 1)) <=> j = m
    <3>1. /\ answer[j] \in [channel : Nat, data : Seq(Nat), size : Nat]
          /\ IsLast(answer[j]) <=> j = m
      BY AnswerFrames
    <3>2. off[j + 1] + 1 \in Nat
      BY <1>5
    <3>. QED
      BY <3>1, <3>2 DEF Recognized, Parsed, IsLast
  <2>7. CASE off[j + 1] <= n
    <3>1. FrameAt(bytes, i) = <<Recognized(answer[j], i + size)>>
      BY <2>1, <2>3, <2>4, <2>5, <2>7, FrameWhole DEF n, size
    <3>. QED
      BY <3>1, <2>2, <2>5, <2>6, <2>7 DEF i
  <2>8. CASE ~(off[j + 1] <= n)
    <3>1. FrameAt(bytes, i) = <<>>
      <4>1. n < (i - 1) + size
        BY <2>5, <2>8, <1>5, <1>1
      <4>. QED
        BY <4>1, <2>1, <2>3, <2>4, FrameCut DEF n, size
    <3>. QED
      BY <3>1, <2>2, <2>6, <2>8 DEF i
  <2>. QED
    BY <2>6, <2>7, <2>8
<1>8. \A j \in 1..m : off[j + 1] <= n /\ j # m =>
        f[off[j] + 1] = <<Recognized(answer[j], off[j + 1] + 1)>> \o f[off[j + 1] + 1]
  <2>. SUFFICES ASSUME NEW j \in 1..m, off[j + 1] <= n, j # m
                PROVE  f[off[j] + 1] =
                         <<Recognized(answer[j], off[j + 1] + 1)>> \o f[off[j + 1] + 1]
    OBVIOUS
  <2>1. off[j] <= n
    BY <1>1, <1>5
  <2>2. FrameAt(bytes, off[j] + 1) = <<Recognized(answer[j], off[j + 1] + 1)>>
        /\ ~IsLast(Recognized(answer[j], off[j + 1] + 1))
        /\ f[off[j] + 1] = Search(f, bytes, off[j] + 1)
    BY <1>7, <2>1
  <2>. DEFINE x == Recognized(answer[j], off[j + 1] + 1)
  <2>3. x.next = off[j + 1] + 1
    BY DEF Recognized
  <2>. HIDE DEF x
  <2>4. <<x>> # <<>> /\ <<x>>[1] = x
    OBVIOUS
  <2>. QED
    BY <2>2, <2>3, <2>4 DEF Search, x
<1>9. ASSUME NEW j \in 1..m, off[j] <= n, ~(off[j + 1] <= n) \/ j = m
      PROVE  f[off[j] + 1] =
               IF off[j + 1] <= n THEN <<Recognized(answer[j], off[j + 1] + 1)>> ELSE <<>>
  <2>. DEFINE x == Recognized(answer[j], off[j + 1] + 1)
  <2>1. /\ FrameAt(bytes, off[j] + 1) = IF off[j + 1] <= n THEN <<x>> ELSE <<>>
        /\ IsLast(x) <=> j = m
        /\ f[off[j] + 1] = Search(f, bytes, off[j] + 1)
    BY <1>7, <1>9
  <2>. HIDE DEF x
  <2>2. <<x>> # <<>> /\ <<x>>[1] = x
    OBVIOUS
  <2>. QED
    BY <2>1, <2>2, <1>9 DEF Search, x
<1>. DEFINE At(j) == off[j] <= n =>
              LET frames == f[off[j] + 1]
              IN  /\ frames \in Seq(Parsed)
                  /\ IF n = Len(w)
                       THEN /\ Len(frames) = (m + 1) - j
                            /\ \A i \in 1..(m + 1) - j :
                                 frames[i] = Recognized(answer[(j - 1) + i], off[j + i] + 1)
                       ELSE Len(frames) > 0 => ~IsLast(frames[Len(frames)])
            T == {k \in Nat : k < m => At(m - k)}
<1>10. At(m)
  <2>. SUFFICES ASSUME off[m] <= n PROVE At(m)
    OBVIOUS
  <2>. DEFINE x == Recognized(answer[m], off[m + 1] + 1)
  <2>1. m \in 1..m /\ (m + 1) - m = 1 /\ (m - 1) + 1 = m
    BY <1>1
  <2>2. CASE n = Len(w)
    <3>1. off[m + 1] <= n
      BY <2>2, <1>1, <1>4
    <3>2. f[off[m] + 1] = <<x>> /\ x \in Parsed
      BY <2>1, <3>1, <1>7, <1>9
    <3>. HIDE DEF x
    <3>3. <<x>> \in Seq(Parsed) /\ Len(<<x>>) = 1 /\ <<x>>[1] = x
      BY <3>2
    <3>4. \A i \in 1..1 : <<x>>[i] = Recognized(answer[(m - 1) + i], off[m + i] + 1)
      BY <2>1, <3>3 DEF x
    <3>. HIDE DEF m
    <3>. QED
      BY <2>1, <2>2, <3>2, <3>3, <3>4
  <2>3. CASE n # Len(w)
    <3>1. ~(off[m + 1] <= n)
      BY <2>3, <1>1, <1>4
    <3>2. f[off[m] + 1] = <<>>
      BY <2>1, <3>1, <1>9
    <3>3. <<>> \in Seq(Parsed) /\ Len(<<>>) = 0
      OBVIOUS
    <3>. HIDE DEF m
    <3>. QED
      BY <2>3, <3>2, <3>3
  <2>. QED
    BY <2>2, <2>3
<1>11. ASSUME NEW j \in 1..m, j # m, At(j + 1)
       PROVE  At(j)
  <2>. SUFFICES ASSUME off[j] <= n PROVE At(j)
    OBVIOUS
  <2>. DEFINE x == Recognized(answer[j], off[j + 1] + 1)
              rest == f[off[j + 1] + 1]
  <2>1. j + 1 \in 1..m /\ (j + 1) - 1 = j /\ j \in Nat /\ off[j + 1] <= Len(w)
    BY <1>1, <1>5, <1>11
  <2>2. CASE ~(off[j + 1] <= n)
    <3>1. f[off[j] + 1] = <<>>
      BY <2>2, <1>9
    <3>2. n # Len(w)
      BY <2>1, <2>2
    <3>3. <<>> \in Seq(Parsed) /\ Len(<<>>) = 0
      OBVIOUS
    <3>. HIDE DEF m
    <3>. QED
      BY <3>1, <3>2, <3>3
  <2>3. CASE off[j + 1] <= n
    <3>1. f[off[j] + 1] = <<x>> \o rest
      BY <2>3, <1>8, <1>11
    <3>2. x \in Parsed /\ ~IsLast(x)
      BY <1>7, <1>11
    <3>3. /\ rest \in Seq(Parsed)
          /\ IF n = Len(w)
               THEN /\ Len(rest) = (m + 1) - (j + 1)
                    /\ \A i \in 1..(m + 1) - (j + 1) :
                         rest[i] = Recognized(answer[j + i], off[(j + 1) + i] + 1)
               ELSE Len(rest) > 0 => ~IsLast(rest[Len(rest)])
      BY <2>1, <2>3, <1>11
    <3>4. x = Recognized(answer[j], off[j + 1] + 1)
      OBVIOUS
    <3>. HIDE DEF x, rest
    <3>5. <<x>> \in Seq(Parsed) /\ Len(<<x>>) = 1 /\ <<x>>[1] = x
      BY <3>2
    <3>. DEFINE frames == <<x>> \o rest
                c == <<x>>
    <3>. HIDE DEF c
    <3>6. c \in Seq(Parsed) /\ Len(c) = 1 /\ c[1] = x /\ frames = c \o rest
      BY <3>5 DEF c
    <3>. HIDE DEF frames
    <3>7. /\ frames \in Seq(Parsed) /\ Len(frames) = Len(c) + Len(rest)
          /\ \A i \in 1..Len(c) + Len(rest) :
               frames[i] = IF i <= Len(c) THEN c[i] ELSE rest[i - Len(c)]
      BY <3>3, <3>6, ConcatProperties
    <3>8. Len(rest) \in Nat /\ Len(frames) = 1 + Len(rest) /\ frames[1] = x
          /\ \A i \in 2..Len(frames) : frames[i] = rest[i - 1]
      BY <3>3, <3>6, <3>7
    <3>9. CASE n = Len(w)
      <4>1. Len(frames) = (m + 1) - j
        <5>1. Len(rest) = (m + 1) - (j + 1) /\ Len(frames) = 1 + Len(rest)
          BY <3>9, <3>3, <3>8
        <5>2. j \in Nat /\ m \in Nat /\ Len(rest) \in Nat
          BY <2>1, <1>1, <3>8
        <5>. HIDE DEF m
        <5>. QED
          BY <5>1, <5>2
      <4>2. ASSUME NEW i \in 1..(m + 1) - j
            PROVE  frames[i] = Recognized(answer[(j - 1) + i], off[j + i] + 1)
        <5>1. CASE i = 1
          <6>1. (j - 1) + i = j /\ j + i = j + 1
            BY <5>1, <2>1
          <6>. QED
            BY <5>1, <6>1, <3>4, <3>8
        <5>2. CASE i # 1
          <6>1. /\ i \in 2..Len(frames) /\ i - 1 \in 1..(m + 1) - (j + 1)
                /\ (j - 1) + i = j + (i - 1) /\ j + i = (j + 1) + (i - 1)
            <7>1. j \in Nat /\ m \in Nat
              BY <2>1, <1>1
            <7>. HIDE DEF m
            <7>2. i \in Nat /\ 1 < i /\ i <= (m + 1) - j
              BY <5>2, <7>1
            <7>. QED
              BY <4>1, <7>1, <7>2
          <6>2. rest[i - 1] = Recognized(answer[j + (i - 1)], off[(j + 1) + (i - 1)] + 1)
            BY <3>9, <3>3, <6>1
          <6>. QED
            BY <6>1, <6>2, <3>8
        <5>. QED
          BY <5>1, <5>2
      <4>. HIDE DEF m
      <4>. QED
        BY <4>1, <4>2, <3>1, <3>7, <3>9 DEF frames
    <3>10. CASE n # Len(w)
      <4>1. ~IsLast(frames[Len(frames)])
        <5>1. CASE Len(rest) = 0
          BY <5>1, <3>2, <3>8
        <5>2. CASE Len(rest) # 0
          <6>1. Len(rest) > 0 /\ Len(frames) \in 2..Len(frames) /\ Len(frames) - 1 = Len(rest)
            BY <5>2, <3>8
          <6>. QED
            BY <6>1, <3>3, <3>8, <3>10
        <5>. QED
          BY <5>1, <5>2
      <4>. HIDE DEF m
      <4>. QED
        BY <4>1, <3>1, <3>7, <3>10 DEF frames
    <3>. QED
      BY <3>9, <3>10
  <2>. QED
    BY <2>2, <2>3
<1>. HIDE DEF At
<1>12. 0 \in T
  <2>1. m - 0 = m
    BY <1>1
  <2>. QED
    BY <2>1, <1>10
<1>13. ASSUME NEW k \in T PROVE k + 1 \in T
  <2>. SUFFICES ASSUME k + 1 < m PROVE At(m - (k + 1))
    OBVIOUS
  <2>. HIDE DEF m
  <2>1. k \in Nat /\ k < m /\ m - (k + 1) \in 1..m /\ (m - (k + 1)) + 1 = m - k
        /\ m - (k + 1) # m
    BY <1>1
  <2>2. At(m - k)
    BY <2>1
  <2>. HIDE DEF T
  <2>. QED
    BY <2>1, <2>2, <1>11
<1>14. At(1)
  <2>1. T = Nat
    <3>1. T \in SUBSET Nat
      OBVIOUS
    <3>. HIDE DEF T
    <3>. QED
      BY <3>1, <1>12, <1>13, Induction
  <2>2. m - 1 \in Nat /\ m - 1 < m /\ m - (m - 1) = 1
    BY <1>1
  <2>3. m - 1 \in T
    <3>. HIDE DEF T, m
    <3>. QED
      BY <2>1, <2>2
  <2>. QED
    BY <2>2, <2>3
<1>15. f[off[1] + 1] = Frames(bytes) /\ off[1] <= n
  BY <1>1, <1>4, <1>6
<1>. DEFINE frames == Frames(bytes)
<1>16. /\ frames \in Seq(Parsed)
       /\ IF n = Len(w)
            THEN /\ Len(frames) = m
                 /\ \A i \in 1..m : frames[i] = Recognized(answer[i], off[i + 1] + 1)
            ELSE Len(frames) > 0 => ~IsLast(frames[Len(frames)])
  <2>1. (m + 1) - 1 = m /\ \A i \in 1..m : (1 - 1) + i = i /\ 1 + i = i + 1
    BY <1>1
  <2>. HIDE DEF m, frames
  <2>2. frames = f[off[1] + 1]
    BY <1>15 DEF frames
  <2>. QED
    BY <1>14, <1>15, <2>1, <2>2 DEF At
<1>. HIDE DEF frames
<1>17. CASE n = Len(w)
  <2>1. IsParse(frames, answer)
    <3>1. frames \in Seq(Parsed) /\ Len(frames) = m
      BY <1>16, <1>17
    <3>2. ASSUME NEW i \in 1..m
          PROVE  /\ frames[i].channel = answer[i].channel /\ frames[i].data = answer[i].data
                 /\ frames[i].size = answer[i].size
      <4>1. frames[i] = Recognized(answer[i], off[i + 1] + 1)
        BY <1>16, <1>17
      <4>. QED
        BY <4>1 DEF Recognized
    <3>. QED
      BY <3>1, <3>2 DEF IsParse
  <2>2. Last(frames).next = n + 1
    <3>1. Last(frames) = Recognized(answer[m], off[m + 1] + 1)
      <4>1. m \in 1..m /\ Last(frames) = frames[Len(frames)]
        BY <1>1 DEF Last
      <4>. QED
        BY <4>1, <1>16, <1>17
    <3>. QED
      BY <3>1, <1>4, <1>17 DEF Recognized
  <2>. QED
    BY <2>1, <2>2, <1>16, <1>17 DEF frames, n, w
<1>18. CASE n # Len(w)
  <2>1. ASSUME frames # <<>> PROVE ~IsLast(Last(frames))
    <3>1. Len(frames) > 0 /\ Last(frames) = frames[Len(frames)]
      BY <2>1, <1>16 DEF Last
    <3>. QED
      BY <3>1, <1>16, <1>18
  <2>. QED
    BY <2>1, <1>16, <1>18 DEF frames, n, w
<1>. QED
  BY <1>17, <1>18

\* So the result is the one that hg meant.
LEMMA ResultOfParse ==
  ASSUME NEW frames, NEW answer, IsAnswer(answer), IsParse(frames, answer)
  PROVE  /\ ResultOf(frames) = ResultOf(answer) /\ frames # <<>>
         /\ Last(frames).channel = Last(answer).channel
<1>1. Len(answer) \in Nat \ {0} /\ DOMAIN answer = 1..Len(answer)
      /\ Last(answer) = answer[Len(answer)]
  BY AnswerFrames
<1>2. DOMAIN frames = 1..Len(answer) /\ Last(frames) = frames[Len(answer)] /\ frames # <<>>
  BY <1>1 DEF IsParse, Last
<1>3. \A i \in 1..Len(answer) : /\ frames[i].channel = answer[i].channel
                                /\ frames[i].data = answer[i].data
                                /\ frames[i].size = answer[i].size
  BY DEF IsParse
<1>4. ASSUME NEW c PROVE DataOf(frames, c) = DataOf(answer, c)
  <2>1. [i \in DOMAIN frames |-> IF frames[i].channel = c THEN frames[i].data ELSE <<>>]
          = [i \in DOMAIN answer |-> IF answer[i].channel = c THEN answer[i].data ELSE <<>>]
    BY <1>1, <1>2, <1>3
  <2>. QED
    BY <2>1, Zenon DEF DataOf
<1>5. Len(answer) \in 1..Len(answer)
  BY <1>1
<1>6. /\ Last(frames).channel = Last(answer).channel /\ Last(frames).data = Last(answer).data
      /\ Last(frames).size = Last(answer).size
  BY <1>1, <1>2, <1>3, <1>5
<1>7. ResultOf(frames) = ResultOf(answer)
  BY <1>4, <1>6 DEF ResultOf
<1>. QED
  BY <1>2, <1>6, <1>7

(***************************************************************************)
(* The inductive invariant.  As long as hg has asked for nothing that is   *)
(* not understood, the two streams hold one of four things: the rest of    *)
(* the hello message, nothing, one command, or the rest of one answer.     *)
(* After that only what has been handed over is still spoken of.           *)
(***************************************************************************)

IsSeq(s) == s \in Seq({s[i] : i \in DOMAIN s})

Greeting(fields) == Bytes([channel |-> o, data |-> fields, size |-> 0])

Greets ==
  /\ readState = "Capabilities" /\ ~started
  /\ written = <<>> /\ results = <<>> /\ answers = <<>> /\ stdin = <<>>
  /\ buffer \in Seq(Nat) /\ stdout \in Seq(Nat)
  /\ IF hello = <<>> THEN buffer = <<>> /\ stdout = <<>>
     ELSE /\ hello \in Hellos
          /\ buffer \o stdout = Greeting(hello)
          /\ ~Contains(hello, NoColon) => stdout # <<>>

\* Nothing is underway, or a command is.
Waits ==
  /\ Len(results) = Len(answers) /\ buffer = <<>> /\ stdout = <<>>
  /\ \/ Len(written) = Len(answers) /\ stdin = <<>>
     \/ /\ Len(written) = Len(answers) + 1
        /\ stdin = PrepareCommand(written[Len(written)])

\* An answer is, and its end has not been read.
IsAnswered ==
  /\ answers # <<>> /\ Len(results) = Len(answers) - 1
  /\ Len(written) = Len(answers) /\ stdin = <<>>
  /\ buffer \in Seq(Nat) /\ stdout \in Seq(Nat) /\ stdout # <<>>
  /\ buffer \o stdout = Wire(answers[Len(answers)])

Serves ==
  /\ readState = "CommandResult" /\ started /\ hello # <<>>
  /\ Waits \/ IsAnswered

TypeInv ==
  /\ written \in Seq(Commands) /\ answers \in Seq(Answers)
  /\ IsSeq(results) /\ IsSeq(received) /\ Len(received) = Len(answers)

ResultsInv ==
  \A i \in 1..Len(answers) : Understood(i) =>
    /\ i <= Len(results) => results[i] = ResultOf(answers[i])
    /\ ~Understood(Len(answers)) => i <= Len(results)

ReceivedInv ==
  \A i \in 1..Len(answers) : Understood(i - 1) =>
    /\ i <= Len(written)
    /\ received[i] = IF i > 1 /\ Last(answers[i - 1]).channel # r THEN <<>> ELSE written[i]

StreamsInv == Understood(Len(answers)) => Greets \/ Serves

IInv == TypeInv /\ ResultsInv /\ ReceivedInv /\ StreamsInv

(***************************************************************************)
(* What the steps need of the streams.                                     *)
(***************************************************************************)

LEMMA AppendSeq ==
  ASSUME NEW s, NEW x, IsSeq(s)
  PROVE  /\ IsSeq(Append(s, x)) /\ Len(s) \in Nat /\ Len(Append(s, x)) = Len(s) + 1
         /\ \A i \in 1..Len(s) : Append(s, x)[i] = s[i]
         /\ Append(s, x)[Len(s) + 1] = x
<1>. DEFINE S == {s[i] : i \in DOMAIN s} \cup {x}
            t == Append(s, x)
<1>1. s \in Seq(S) /\ x \in S
  BY SeqMonotonic DEF IsSeq
<1>. HIDE DEF S
<1>2. /\ t \in Seq(S) /\ Len(t) = Len(s) + 1
      /\ \A i \in 1..Len(s) : t[i] = s[i]
      /\ t[Len(s) + 1] = x /\ Len(s) \in Nat
  BY <1>1, AppendProperties
<1>3. IsSeq(t)
  <2>. HIDE DEF t
  <2>1. DOMAIN t = 1..Len(t) /\ Len(t) \in Nat
    BY <1>2
  <2>2. t \in [1..Len(t) -> {t[i] : i \in DOMAIN t}]
    BY <1>2, <2>1
  <2>. QED
    BY <2>1, <2>2 DEF IsSeq
<1>. HIDE DEF t
<1>4. IsSeq(t) /\ Len(s) \in Nat /\ Len(t) = Len(s) + 1
      /\ (\A i \in 1..Len(s) : t[i] = s[i]) /\ t[Len(s) + 1] = x
  BY <1>2, <1>3
<1>. QED
  BY <1>4 DEF t

LEMMA DataRead ==
  ASSUME NEW b \in Seq(Nat), NEW data \in Seq(Nat), 5 + Len(data) <= Len(b),
         \A k \in 1..Len(data) : b[5 + k] = data[k]
  PROVE  SubSeq(b, 6, 5 + Len(data)) = data
<1>. DEFINE m == Len(data)
            found == SubSeq(b, 6, 5 + m)
<1>1. m \in Nat /\ Len(b) \in Nat
  OBVIOUS
<1>. HIDE DEF m
<1>2. \A p \in 6..(5 + m) : b[p] \in Nat
  BY <1>1 DEF m
<1>3. /\ found \in Seq(Nat) /\ Len(found) = IF 6 <= 5 + m THEN ((5 + m) - 6) + 1 ELSE 0
      /\ \A k \in 1..((5 + m) - 6) + 1 : found[k] = b[(6 + k) - 1]
  <2>1. 6 \in Int /\ 5 + m \in Int
    BY <1>1
  <2>. DEFINE a == 6
              z == 5 + m
  <2>2. \A p \in a..z : b[p] \in Nat
    BY <1>2
  <2>. HIDE DEF a, z
  <2>3. /\ SubSeq(b, a, z) \in Seq(Nat)
        /\ Len(SubSeq(b, a, z)) = IF a <= z THEN (z - a) + 1 ELSE 0
        /\ \A k \in 1..(z - a) + 1 : SubSeq(b, a, z)[k] = b[(a + k) - 1]
    <3>1. a \in Int /\ z \in Int
      BY <2>1 DEF a, z
    <3>. QED
      BY <2>2, <3>1, SubSeqProperties, SMTT(15)
  <2>. QED
    BY <2>3 DEF a, z
<1>. HIDE DEF found
<1>4. Len(found) = m
  <2>1. Len(found) = IF 6 <= 5 + m THEN ((5 + m) - 6) + 1 ELSE 0
    BY <1>3
  <2>2. (IF 6 <= 5 + m THEN ((5 + m) - 6) + 1 ELSE 0) = m
    BY <1>1
  <2>. QED
    BY <2>1, <2>2
<1>5. ASSUME NEW k \in 1..m PROVE found[k] = data[k]
  <2>1. k \in 1..((5 + m) - 6) + 1 /\ (6 + k) - 1 = 5 + k
    BY <1>1
  <2>. QED
    BY <1>3, <2>1 DEF m
<1>6. found = data
  BY <1>3, <1>4, <1>5, SeqEqual DEF m
<1>. QED
  BY <1>6 DEF found, m

LEMMA Regroup ==
  ASSUME NEW x \in Seq(Nat), NEW y \in Seq(Nat), NEW z \in Seq(Nat)
  PROVE  (x \o y) \o z = x \o (y \o z)
<1>. DEFINE S == Nat
<1>1. x \in Seq(S) /\ y \in Seq(S) /\ z \in Seq(S)
  OBVIOUS
<1>. HIDE DEF S
<1>. QED
  BY <1>1

IsPiece(bytes, rest, w) ==
  /\ bytes \in Seq(Nat) /\ rest \in Seq(Nat) /\ w \in Seq(Nat) /\ w = bytes \o rest
  /\ Len(bytes) <= Len(w) /\ \A p \in 1..Len(bytes) : bytes[p] = w[p]
  /\ rest = <<>> <=> Len(bytes) = Len(w)

\* Another piece has been read of what was underway.
LEMMA Piece ==
  ASSUME NEW kept \in Seq(Nat), NEW coming \in Seq(Nat), NEW k \in 1..Len(coming)
  PROVE  IsPiece(kept \o SubSeq(coming, 1, k), After(coming, k), kept \o coming)
<1>. DEFINE piece == SubSeq(coming, 1, k)
            rest == After(coming, k)
            bytes == kept \o piece
            w == kept \o coming
<1>1. Len(coming) \in Nat /\ k \in Nat /\ k <= Len(coming) /\ k >= 1
  OBVIOUS
<1>2. piece \in Seq(Nat) /\ rest \in Seq(Nat) /\ Len(rest) = Len(coming) - k /\ Len(piece) = k
  BY <1>1 DEF After
<1>3. coming = piece \o rest
  <2>1. 1 \in 1..(Len(coming) + 1) /\ k \in (1 - 1)..Len(coming) /\ Len(coming) \in k..Len(coming)
    BY <1>1
  <2>2. SubSeq(coming, 1, k) \o SubSeq(coming, k + 1, Len(coming)) = SubSeq(coming, 1, Len(coming))
    BY <2>1, ConcatAdjacentSubSeq
  <2>3. SubSeq(coming, 1, Len(coming)) = coming
    BY SubSeqFull
  <2>. QED
    BY <2>2, <2>3 DEF After
<1>. HIDE DEF piece, rest
<1>4. w = bytes \o rest /\ w = kept \o coming
  <2>1. (kept \o piece) \o rest = kept \o (piece \o rest)
    <3>1. kept \in Seq(Nat) /\ piece \in Seq(Nat) /\ rest \in Seq(Nat)
      BY <1>2
    <3>. QED
      BY <3>1, Regroup
  <2>. QED
    BY <1>3, <2>1, Zenon
<1>5. bytes \in Seq(Nat) /\ Len(bytes) = Len(kept) + k
  BY <1>2, ConcatProperties
<1>. HIDE DEF bytes, w
<1>6. /\ w \in Seq(Nat) /\ Len(w) = Len(bytes) + Len(rest)
      /\ \A i \in 1..Len(bytes) + Len(rest) :
           w[i] = IF i <= Len(bytes) THEN bytes[i] ELSE rest[i - Len(bytes)]
  <2>. DEFINE v == bytes \o rest
  <2>1. /\ v \in Seq(Nat) /\ Len(v) = Len(bytes) + Len(rest)
        /\ \A i \in 1..Len(bytes) + Len(rest) :
             v[i] = IF i <= Len(bytes) THEN bytes[i] ELSE rest[i - Len(bytes)]
    <3>1. bytes \in Seq(Nat) /\ rest \in Seq(Nat)
      BY <1>2, <1>5
    <3>. QED
      BY <3>1, ConcatProperties, Zenon
  <2>2. v = w
    BY <1>4
  <2>. HIDE DEF v
  <2>. QED
    BY <2>1, <2>2
<1>7. Len(bytes) \in Nat /\ Len(rest) \in Nat /\ (rest = <<>> <=> Len(rest) = 0)
  <2>1. rest \in Seq(Nat) /\ bytes \in Seq(Nat)
    BY <1>2, <1>5
  <2>. HIDE DEF rest
  <2>. QED
    BY <2>1, EmptySeq, LenProperties
<1>8. \A p \in 1..Len(bytes) : bytes[p] = w[p]
  <2>1. \A p \in 1..Len(bytes) : p \in 1..Len(bytes) + Len(rest) /\ p <= Len(bytes)
    BY <1>7
  <2>. QED
    BY <2>1, <1>6
<1>9. Len(bytes) <= Len(w) /\ (rest = <<>> <=> Len(bytes) = Len(w))
  BY <1>6, <1>7
<1>. QED
  BY <1>2, <1>4, <1>5, <1>6, <1>8, <1>9 DEF bytes, piece, rest, w, IsPiece

LEMMA AllAfter ==
  ASSUME NEW b \in Seq(Nat)
  PROVE  After(b, Len(b)) = <<>>
  BY SubSeqEmpty DEF After

\* hg finds in its input the arguments that were written.
LEMMA CommandRead ==
  ASSUME NEW args \in Commands, NEW c, c = PrepareCommand(args)
  PROVE  /\ c \in Seq(Nat) /\ c # <<>> /\ Len(c) = 5 + LengthAt(c, 1)
         /\ Split(SubSeq(c, 6, 5 + LengthAt(c, 1))) = args
         /\ After(c, 5 + LengthAt(c, 1)) = <<>>
<1>. DEFINE data == Joined(args)
            n == Len(data)
<1>1. IsCommand(args)
  BY CommandsAssumption
<1>2. Split(data) = args /\ data \in Seq(Nat) /\ n \in Nat /\ n < Limit
  BY <1>1, SplitJoined DEF IsCommand
<1>3. c = Packet(RunCommand, n, data)
  BY DEF PrepareCommand, Packet
<1>. HIDE DEF data, n
<1>4. IsPacket(c, RunCommand, n, data)
  BY <1>2, <1>3, PacketLayout DEF RunCommand
<1>5. c \in Seq(Nat) /\ Len(c) = 5 + n /\ \A q \in 1..4 : c[1 + q] = ToBigEndian(n)[q]
      /\ \A k \in 1..n : c[5 + k] = data[k]
  BY <1>4 DEF IsPacket, n
<1>6. LengthAt(c, 1) = n
  <2>1. \A q \in 1..4 : c[1 + q] = ToBigEndian(n)[q]
    BY <1>5
  <2>2. 1 \in Nat /\ n \in Nat /\ n < Limit
    BY <1>2
  <2>. QED
    BY <2>1, <2>2, LengthRead
<1>7. SubSeq(c, 6, 5 + n) = data
  BY <1>2, <1>5, DataRead DEF n
<1>8. c # <<>>
  BY <1>2, <1>5
<1>. QED
  BY <1>2, <1>5, <1>6, <1>7, <1>8, AllAfter

LEMMA WireSome ==
  ASSUME NEW answer \in Answers
  PROVE  Wire(answer) \in Seq(Nat) /\ Wire(answer) # <<>>
<1>1. IsAnswer(answer)
  BY AnswersAssumption
<1>. DEFINE parts == [i \in 1..Len(answer) |-> Bytes(answer[i])]
            m == Len(answer)
<1>2. PICK off : IsOffsets(off, parts, m) /\ IsLaidOut(Wire(answer), off, parts, m)
  BY <1>1, WireLayout
<1>3. m \in Nat \ {0} /\ IsFrame(answer[1])
  BY <1>1, AnswerFrames
<1>4. Len(parts[1]) \in Nat /\ Len(parts[1]) >= 5
  <2>1. parts[1] = Bytes(answer[1])
    BY <1>3
  <2>2. Len(Bytes(answer[1])) = 5 + Len(answer[1].data) /\ Len(answer[1].data) \in Nat
    BY <1>3, FrameBytes
  <2>. QED
    BY <2>1, <2>2
<1>. HIDE DEF parts, m
<1>5. Wire(answer) \in Seq(Nat) /\ off[2] <= Len(Wire(answer)) /\ off[2] = off[1] + Len(parts[1])
      /\ off[1] = 0
  <2>1. 1 \in 1..m
    BY <1>3
  <2>2. Wire(answer) \in Seq(Nat) /\ off[1 + 1] <= Len(Wire(answer))
    BY <1>2, <2>1 DEF IsLaidOut
  <2>3. off[1] = 0 /\ off[1 + 1] = off[1] + Len(parts[1])
    BY <1>2, <2>1 DEF IsOffsets
  <2>. QED
    BY <2>2, <2>3
<1>. QED
  BY <1>4, <1>5

\* The hello message is taken for complete when all of it is there.
LEMMA HelloRead ==
  ASSUME NEW fields \in Hellos, NEW bytes \in Seq(Nat), NEW w, w = Greeting(fields),
         Len(bytes) <= Len(w), \A p \in 1..Len(bytes) : bytes[p] = w[p]
  PROVE  /\ IsComplete(bytes, 1) <=> Len(bytes) = Len(w)
         /\ IsComplete(bytes, 1) =>
              HelloIn(bytes) = fields /\ After(bytes, 5 + LengthAt(bytes, 1)) = <<>>
<1>. DEFINE frame == [channel |-> o, data |-> fields, size |-> 0]
            m == Len(fields)
<1>1. fields \in Seq(Nat) /\ m \in Nat /\ m < Limit
  BY HellosAssumption
<1>2. IsFrame(frame) /\ ~IsUpper(frame.channel) /\ frame.data = fields
  BY <1>1, RadixAssumption DEF IsFrame, IsUpper, o
<1>3. w = Bytes(frame)
  BY DEF Greeting
<1>4. Sized(frame) = m
  BY <1>2 DEF Sized
<1>. HIDE DEF frame, m
<1>5. /\ w \in Seq(Nat) /\ Len(w) = 5 + m /\ \A k \in 1..m : w[5 + k] = fields[k]
  <2>1. /\ Bytes(frame) \in Seq(Nat) /\ Len(Bytes(frame)) = 5 + Len(frame.data)
        /\ \A k \in 1..Len(frame.data) : Bytes(frame)[5 + k] = frame.data[k]
    BY <1>2, FrameBytes
  <2>. QED
    BY <2>1, <1>2, <1>3 DEF m
<1>6. Begins(bytes, 1, frame)
  <2>1. ASSUME NEW q \in 1..Len(w), (1 - 1) + q <= Len(bytes)
        PROVE  bytes[(1 - 1) + q] = w[(1 - 1) + q]
    BY <2>1
  <2>. QED
    BY <2>1, <1>3 DEF Begins
<1>7. 1 + 4 <= Len(bytes) => LengthAt(bytes, 1) = m
  BY <1>2, <1>4, <1>6, Header DEF Readable
<1>8. Len(bytes) \in Nat
  OBVIOUS
<1>9. IsComplete(bytes, 1) <=> Len(bytes) = Len(w)
  BY <1>1, <1>5, <1>7, <1>8 DEF IsComplete
<1>10. ASSUME IsComplete(bytes, 1)
       PROVE  HelloIn(bytes) = fields /\ After(bytes, 5 + LengthAt(bytes, 1)) = <<>>
  <2>1. LengthAt(bytes, 1) = m /\ Len(bytes) = 5 + m
    BY <1>10, <1>5, <1>7, <1>9 DEF IsComplete
  <2>2. \A k \in 1..m : bytes[5 + k] = fields[k]
    <3>1. ASSUME NEW k \in 1..m PROVE 5 + k \in 1..Len(bytes)
      <4>1. k \in Nat /\ k <= m /\ m \in Nat
        BY <1>1
      <4>2. 5 + k \in 1..5 + m
        BY <4>1
      <4>. QED
        BY <4>2, <2>1
    <3>. QED
      BY <3>1, <1>5
  <2>3. SubSeq(bytes, 6, 5 + m) = fields
    BY <1>1, <2>1, <2>2, DataRead DEF m
  <2>. QED
    BY <2>1, <2>3, AllAfter DEF HelloIn
<1>. QED
  BY <1>9, <1>10

LEMMA NoFrames == Frames(<<>>) = <<>>
<1>1. <<>> \in Seq(Nat) /\ Len(<<>>) = 0
  OBVIOUS
<1>2. PICK f : IsSearch(f, <<>>, 1) /\ Frames(<<>>) = f[1]
  BY <1>1, FramesIs
<1>3. f[1] = Search(f, <<>>, 1)
  BY <1>1, <1>2 DEF IsSearch
<1>4. FrameAt(<<>>, 1) = <<>>
  BY <1>1 DEF FrameAt
<1>. QED
  BY <1>2, <1>3, <1>4 DEF Search

LEMMA RequestIsLast ==
  \A frame : frame.channel \in {r, I, L} => IsLast(frame)
  BY DEF IsLast, IsUpper, I, L

(***************************************************************************)
(* What a feed does.                                                       *)
(***************************************************************************)

LEMMA FeedAny ==
  ASSUME NEW bytes, FeedCommandResult(bytes)
  PROVE  results' = results \/ \E x : results' = Append(results, x)
<1>1. ASSUME NEW frames, ParseResult(bytes, frames) PROVE \E x : results' = Append(results, x)
  BY <1>1 DEF ParseResult
<1>2. ASSUME NEW frames, ParseLine(bytes, frames) PROVE \E x : results' = Append(results, x)
  BY <1>2 DEF ParseLine
<1>3. ASSUME NEW frames, ParseNothing(bytes, frames) \/ ParseThrows(bytes, frames)
      PROVE  results' = results
  BY <1>3 DEF ParseNothing, ParseThrows
<1>. QED
  BY <1>1, <1>2, <1>3 DEF FeedCommandResult

LEMMA FeedWhole ==
  ASSUME NEW answer, IsAnswer(answer), Last(answer).channel \in {r, I},
         NEW bytes \in Seq(Nat), Len(bytes) <= Len(Wire(answer)),
         \A p \in 1..Len(bytes) : bytes[p] = Wire(answer)[p],
         FeedCommandResult(bytes)
  PROVE  IF Len(bytes) = Len(Wire(answer))
           THEN buffer' = <<>> /\ results' = Append(results, ResultOf(answer))
           ELSE buffer' = bytes /\ results' = results
<1>. DEFINE frames == Frames(bytes)
            last == Last(frames)
<1>1. /\ frames \in Seq(Parsed)
      /\ IF Len(bytes) = Len(Wire(answer))
           THEN IsParse(frames, answer) /\ last.next = Len(bytes) + 1
           ELSE frames # <<>> => ~IsLast(last)
  BY FramesOf
<1>2. \/ ParseNothing(bytes, frames) \/ ParseResult(bytes, frames)
      \/ ParseLine(bytes, frames) \/ ParseThrows(bytes, frames)
  BY DEF FeedCommandResult
<1>. HIDE DEF frames
<1>3. CASE Len(bytes) = Len(Wire(answer))
  <2>1. frames # <<>> /\ last.channel \in {r, I} /\ ResultOf(frames) = ResultOf(answer)
    BY <1>1, <1>3, ResultOfParse
  <2>2. IsLast(last)
    BY <2>1, RequestIsLast
  <2>3. ~ParseNothing(bytes, frames)
    BY <2>1, <2>2 DEF ParseNothing
  <2>4. ~ParseLine(bytes, frames)
    BY <2>1 DEF ParseLine, r, I, L
  <2>5. ~ParseThrows(bytes, frames)
    <3>1. ~IsUpper(r)
      BY DEF IsUpper, r
    <3>. QED
      BY <2>1, <3>1 DEF ParseThrows
  <2>6. ParseResult(bytes, frames)
    BY <1>2, <2>3, <2>4, <2>5
  <2>7. buffer' = After(bytes, Len(bytes))
    <3>1. last.next - 1 = Len(bytes)
      BY <1>1, <1>3
    <3>. QED
      BY <2>6, <3>1 DEF ParseResult
  <2>8. results' = Append(results, ResultOf(answer))
    BY <2>1, <2>6 DEF ParseResult
  <2>. QED
    BY <1>3, <2>7, <2>8, AllAfter
<1>4. CASE Len(bytes) # Len(Wire(answer))
  <2>1. frames # <<>> => ~IsLast(last)
    BY <1>1, <1>4
  <2>2. ~ParseResult(bytes, frames) /\ ~ParseLine(bytes, frames)
    BY <2>1, RequestIsLast DEF ParseResult, ParseLine
  <2>3. ~ParseThrows(bytes, frames)
    BY <2>1 DEF ParseThrows, IsLast
  <2>4. ParseNothing(bytes, frames)
    BY <1>2, <2>2, <2>3
  <2>. QED
    BY <1>4, <2>4 DEF ParseNothing
<1>. QED
  BY <1>3, <1>4

LEMMA FeedEmpty ==
  ASSUME FeedCommandResult(<<>>)
  PROVE  buffer' = <<>> /\ results' = results
  BY NoFrames DEF FeedCommandResult, ParseNothing, ParseResult, ParseLine, ParseThrows

(***************************************************************************)
(* The steps.                                                              *)
(***************************************************************************)

LEMMA Lengths ==
  ASSUME TypeInv
  PROVE  /\ Len(written) \in Nat /\ Len(answers) \in Nat /\ Len(results) \in Nat
         /\ DOMAIN results = 1..Len(results) /\ DOMAIN received = 1..Len(answers)
         /\ \A i \in 1..Len(answers) : answers[i] \in Answers /\ IsAnswer(answers[i])
         /\ \A i \in 1..Len(written) : written[i] \in Commands
<1>1. written \in Seq(Commands) /\ answers \in Seq(Answers) /\ IsSeq(results) /\ IsSeq(received)
      /\ Len(received) = Len(answers)
  BY DEF TypeInv
<1>2. Len(results) \in Nat /\ DOMAIN results = 1..Len(results)
  BY <1>1 DEF IsSeq
<1>3. DOMAIN received = 1..Len(received)
  BY <1>1 DEF IsSeq
<1>4. \A i \in 1..Len(answers) : answers[i] \in Answers
  BY <1>1, ElementOfSeq
<1>5. \A i \in 1..Len(written) : written[i] \in Commands
  BY <1>1, ElementOfSeq
<1>6. Len(written) \in Nat /\ Len(answers) \in Nat
  BY <1>1
<1>. QED
  BY <1>1, <1>2, <1>3, <1>4, <1>5, <1>6, AnswersAssumption

LEMMA UnderstoodDown ==
  ASSUME NEW i \in Nat, NEW j \in Nat, i <= j, Understood(j)
  PROVE  Understood(i)
  BY DEF Understood

LEMMA InitInv == Init => IInv
<1>. SUFFICES ASSUME Init PROVE IInv
  OBVIOUS
<1>1. TypeInv
  <2>1. IsSeq(<<>>)
    BY DEF IsSeq
  <2>. QED
    BY <2>1 DEF Init, TypeInv
<1>2. Len(answers) = 0
  BY DEF Init
<1>3. ResultsInv /\ ReceivedInv
  BY <1>2 DEF ResultsInv, ReceivedInv
<1>4. Greets
  BY DEF Init, Greets
<1>. QED
  BY <1>1, <1>3, <1>4 DEF IInv, StreamsInv

LEMMA ResetInv == Reset => IInv'
<1>. SUFFICES ASSUME Reset PROVE IInv'
  OBVIOUS
<1>1. TypeInv'
  <2>1. IsSeq(<<>>)
    BY DEF IsSeq
  <2>2. IsSeq(results)' /\ IsSeq(received)'
    BY <2>1 DEF Reset, IsSeq
  <2>. QED
    BY <2>2 DEF Reset, TypeInv
<1>2. Len(answers)' = 0
  BY DEF Reset
<1>3. ResultsInv' /\ ReceivedInv'
  BY <1>2 DEF ResultsInv, ReceivedInv
<1>4. Greets'
  BY DEF Reset, Greets
<1>. QED
  BY <1>1, <1>3, <1>4 DEF IInv, StreamsInv

LEMMA HgHelloInv ==
  ASSUME IInv, NEW fields \in Hellos, HgHello(fields)
  PROVE  IInv'
<1>1. UNCHANGED <<written, results, answers, received>>
  BY DEF HgHello
<1>2. TypeInv' /\ ResultsInv' /\ ReceivedInv'
  BY <1>1 DEF IInv, TypeInv, IsSeq, ResultsInv, ReceivedInv, Understood
<1>3. ASSUME Understood(Len(answers)) PROVE Greets'
  <2>1. Greets /\ hello = <<>>
    BY <1>3 DEF IInv, StreamsInv, Serves, HgHello
  <2>2. fields # <<>>
    BY HellosAssumption DEF Contains
  <2>3. stdout' = Greeting(fields) /\ buffer' = <<>> /\ hello' = fields
    BY <2>1 DEF HgHello, Greets, Greeting, protocol
  <2>4. Greeting(fields) \in Seq(Nat) /\ Greeting(fields) # <<>>
    <3>. DEFINE frame == [channel |-> o, data |-> fields, size |-> 0]
    <3>1. fields \in Seq(Nat) /\ Len(fields) \in Nat /\ Len(fields) < Limit
      BY HellosAssumption
    <3>2. IsFrame(frame) /\ frame.data = fields
      BY <3>1 DEF IsFrame, IsUpper, o
    <3>3. Greeting(fields) = Bytes(frame)
      BY DEF Greeting
    <3>. HIDE DEF frame
    <3>4. Bytes(frame) \in Seq(Nat) /\ Len(Bytes(frame)) = 5 + Len(fields)
      BY <3>2, FrameBytes
    <3>. QED
      BY <3>1, <3>3, <3>4
  <2>5. <<>> \o Greeting(fields) = Greeting(fields)
    BY <2>4
  <2>6. /\ readState' = "Capabilities" /\ ~started' /\ written' = <<>> /\ results' = <<>>
        /\ answers' = <<>> /\ stdin' = <<>>
    BY <2>1 DEF Greets, HgHello, protocol
  <2>. QED
    BY <2>2, <2>3, <2>4, <2>5, <2>6 DEF Greets
<1>4. StreamsInv'
  BY <1>1, <1>3 DEF StreamsInv, Understood
<1>. QED
  BY <1>2, <1>4 DEF IInv

\* hg takes what has been written: a command, or input for the one before.
LEMMA TakeInv ==
  ASSUME IInv, NEW answer \in Answers, NEW taken,
         stdout' = stdout \o Wire(answer),
         received' = Append(received, taken), answers' = Append(answers, answer),
         UNCHANGED <<protocol, started, written, results, hello>>,
         Understood(Len(answers)) =>
           /\ Serves /\ stdin # <<>> /\ stdin' = <<>>
           /\ taken = IF answers # <<>> /\ Last(answers[Len(answers)]).channel # r
                        THEN <<>> ELSE written[Len(written)]
  PROVE  IInv'
<1>0. PICK n : n = Len(answers)
  OBVIOUS
<1>1. TypeInv /\ n \in Nat /\ Len(written) \in Nat /\ Len(results) \in Nat
  BY <1>0, Lengths DEF IInv
<1>2. /\ answers' \in Seq(Answers) /\ Len(answers') = n + 1 /\ answers'[n + 1] = answer
      /\ \A i \in 1..n : answers'[i] = answers[i]
  BY <1>0, <1>1, AppendProperties DEF TypeInv
<1>2a. \A i \in 1..(n + 1) : i \in 1..n \/ i = n + 1
  <2>. n \in Nat
    BY <1>1
  <2>. QED
    OBVIOUS
<1>3. /\ IsSeq(received)' /\ Len(received') = n + 1 /\ received'[n + 1] = taken
      /\ \A i \in 1..n : received'[i] = received[i]
  <2>1. IsSeq(received) /\ Len(received) = n
    BY <1>0, <1>1 DEF TypeInv
  <2>2. IsSeq(received)' <=> IsSeq(Append(received, taken))
    BY DEF IsSeq
  <2>. QED
    BY <2>1, <2>2, AppendSeq
<1>4. \A i \in 0..n : Understood(i)' <=> Understood(i)
  <2>. SUFFICES ASSUME NEW i \in 0..n PROVE Understood(i)' <=> Understood(i)
    OBVIOUS
  <2>1. \A k \in 1..i : k \in 1..n
    BY <1>1
  <2>2. \A k \in 1..i : answers'[k] = answers[k]
    BY <1>2, <2>1
  <2>. QED
    BY <2>2, Zenon DEF Understood
<1>5. Understood(n + 1)' => Understood(n)
  <2>1. ASSUME Understood(n + 1)' PROVE Understood(n)'
    <3>1. \A k \in 1..n : k \in 1..(n + 1)
      BY <1>1
    <3>. QED
      BY <2>1, <3>1, Zenon DEF Understood
  <2>2. n \in 0..n
    BY <1>1
  <2>. QED
    BY <2>1, <2>2, <1>4
<1>6. TypeInv'
  <2>1. IsSeq(results)'
    BY <1>1 DEF TypeInv, IsSeq
  <2>. QED
    BY <1>1, <1>2, <1>3, <2>1 DEF TypeInv
<1>7. ASSUME Understood(n)
      PROVE  Len(results) = n /\ Len(written) = n + 1 /\ stdout = <<>> /\ buffer = <<>>
  <2>1. Serves /\ stdin # <<>>
    BY <1>0, <1>7
  <2>. QED
    BY <2>1, <1>0, <1>1 DEF Serves, Waits, IsAnswered
<1>8. ResultsInv'
  <2>. SUFFICES ASSUME NEW i \in 1..(n + 1), Understood(i)'
                PROVE  /\ i <= Len(results) => results[i] = ResultOf(answers'[i])
                       /\ ~Understood(n + 1)' => i <= Len(results)
    BY <1>2 DEF ResultsInv
  <2>1. CASE i \in 1..n
    <3>1. Understood(i)
      BY <1>4, <2>1
    <3>2. /\ i <= Len(results) => results[i] = ResultOf(answers[i])
          /\ ~Understood(n) => i <= Len(results)
      BY <1>0, <2>1, <3>1 DEF IInv, ResultsInv
    <3>3. Understood(n) => i <= Len(results)
      BY <1>7, <2>1, <1>1
    <3>. QED
      BY <3>2, <3>3, <1>2, <2>1
  <2>2. CASE i = n + 1
    <3>1. Len(results) = n
      BY <1>5, <1>7, <2>2
    <3>. QED
      BY <3>1, <2>2, <1>1
  <2>. QED
    BY <2>1, <2>2, <1>2a, Zenon
<1>9. ReceivedInv'
  <2>. SUFFICES ASSUME NEW i \in 1..(n + 1), Understood(i - 1)'
                PROVE  /\ i <= Len(written)
                       /\ received'[i] = IF i > 1 /\ Last(answers'[i - 1]).channel # r
                                           THEN <<>> ELSE written[i]
    BY <1>2 DEF ReceivedInv
  <2>0. Understood(i - 1) /\ (i > 1 => answers'[i - 1] = answers[i - 1])
    BY <1>1, <1>2, <1>4
  <2>1. CASE i \in 1..n
    BY <1>0, <2>0, <2>1, <1>3 DEF IInv, ReceivedInv
  <2>2. CASE i = n + 1
    <3>1. i - 1 = n /\ Understood(n) /\ Len(written) = i
      BY <2>0, <2>2, <1>1, <1>7
    <3>2. taken = IF answers # <<>> /\ Last(answers[n]).channel # r
                    THEN <<>> ELSE written[i]
      BY <1>0, <3>1
    <3>3. answers # <<>> <=> i > 1
      BY <1>0, <3>1, <1>1 DEF TypeInv
    <3>4. n \in Nat /\ Len(written) \in Nat
      BY <1>1
    <3>5. i <= Len(written)
      BY <3>1, <3>4, <2>2
    <3>6. received'[i] = taken
      BY <1>3, <2>2
    <3>7. i > 1 => answers'[i - 1] = answers[n]
      BY <3>1, <2>0
    <3>8. taken = IF i > 1 /\ Last(answers'[i - 1]).channel # r THEN <<>> ELSE written[i]
      BY <3>2, <3>3, <3>7
    <3>. QED
      BY <3>5, <3>6, <3>8
  <2>. QED
    BY <2>1, <2>2, <1>2a, Zenon
<1>10. StreamsInv'
  <2>. SUFFICES ASSUME Understood(n + 1)' PROVE Serves'
    BY <1>2 DEF StreamsInv
  <2>1. Understood(n)
    BY <1>5
  <2>2. /\ Len(results) = n /\ Len(written) = n + 1 /\ stdout = <<>> /\ buffer = <<>>
        /\ Serves /\ stdin' = <<>>
    BY <1>0, <2>1, <1>7
  <2>3. Wire(answer) \in Seq(Nat) /\ Wire(answer) # <<>>
    BY WireSome
  <2>4. stdout' = Wire(answer) /\ buffer' = <<>> /\ buffer' \o stdout' = Wire(answer)
    BY <2>2, <2>3 DEF protocol
  <2>5. answers' # <<>> /\ answers'[Len(answers')] = answer /\ Len(answers') - 1 = n
    <3>1. /\ answers' \in Seq(Answers) /\ Len(answers') = n + 1
          /\ answers'[n + 1] = answer /\ n \in Nat
      BY <1>1, <1>2
    <3>2. Len(answers') # 0 /\ Len(answers') - 1 = n
      BY <3>1
    <3>. QED
      BY <3>1, <3>2
  <2>6. Len(results') = n /\ Len(written') = n + 1
    BY <2>2
  <2>7. IsAnswered'
    <3>1. Len(written') = Len(answers')
      BY <1>2, <2>6
    <3>2. Len(results') = Len(answers') - 1
      BY <2>5, <2>6
    <3>3. buffer' \in Seq(Nat) /\ stdout' \in Seq(Nat) /\ stdout' # <<>>
      BY <2>3, <2>4
    <3>4. buffer' \o stdout' = Wire(answers'[Len(answers')])
      BY <2>4, <2>5
    <3>. QED
      BY <2>2, <2>5, <3>1, <3>2, <3>3, <3>4 DEF IsAnswered
  <2>. QED
    BY <2>2, <2>7 DEF Serves, protocol
<1>. QED
  BY <1>6, <1>8, <1>9, <1>10 DEF IInv

\* What is in hg's input, when all is understood, is one command.
LEMMA InputIs ==
  ASSUME IInv, Understood(Len(answers)), stdin # <<>>
  PROVE  /\ Serves /\ Len(written) = Len(answers) + 1
         /\ Len(stdin) = 5 + LengthAt(stdin, 1)
         /\ Split(SubSeq(stdin, 6, 5 + LengthAt(stdin, 1))) = written[Len(written)]
         /\ After(stdin, 5 + LengthAt(stdin, 1)) = <<>>
<1>1. Serves /\ Waits
  BY DEF IInv, StreamsInv, Greets, Serves, IsAnswered
<1>2. Len(written) = Len(answers) + 1 /\ stdin = PrepareCommand(written[Len(written)])
  BY <1>1 DEF Waits
<1>3. written[Len(written)] \in Commands
  <2>1. /\ Len(written) \in Nat /\ Len(answers) \in Nat
        /\ \A i \in 1..Len(written) : written[i] \in Commands
    BY Lengths DEF IInv
  <2>. QED
    BY <2>1, <1>2
<1>. QED
  BY <1>1, <1>2, <1>3, CommandRead

LEMMA LastAnswer ==
  ASSUME TypeInv, answers # <<>>
  PROVE  Last(answers) = answers[Len(answers)]
  BY DEF Last

LEMMA HgAnswersInv ==
  ASSUME IInv, NEW answer \in Answers, HgAnswers(answer)
  PROVE  IInv'
<1>. DEFINE taken == Split(SubSeq(stdin, 6, 5 + LengthAt(stdin, 1)))
<1>1. /\ stdout' = stdout \o Wire(answer) /\ answers' = Append(answers, answer)
      /\ received' = Append(received, taken)
      /\ stdin' = After(stdin, 5 + LengthAt(stdin, 1))
      /\ UNCHANGED <<protocol, started, written, results, hello>>
      /\ answers # <<>> => Last(Last(answers)).channel = r
      /\ Len(stdin) >= 5
  BY DEF HgAnswers
<1>2. ASSUME Understood(Len(answers))
      PROVE  /\ Serves /\ stdin # <<>> /\ stdin' = <<>>
             /\ taken = IF answers # <<>> /\ Last(answers[Len(answers)]).channel # r
                          THEN <<>> ELSE written[Len(written)]
  <2>1. stdin # <<>>
    BY <1>1
  <2>2. Serves /\ stdin' = <<>> /\ taken = written[Len(written)]
    BY <1>1, <1>2, <2>1, InputIs
  <2>3. answers # <<>> => Last(answers[Len(answers)]).channel = r
    BY <1>1, LastAnswer DEF IInv
  <2>. QED
    BY <2>1, <2>2, <2>3
<1>. HIDE DEF taken
<1>. QED
  BY <1>1, <1>2, TakeInv

LEMMA HgTakesInputInv ==
  ASSUME IInv, NEW answer \in Answers, HgTakesInput(answer)
  PROVE  IInv'
<1>1. /\ stdout' = stdout \o Wire(answer) /\ answers' = Append(answers, answer)
      /\ received' = Append(received, <<>>) /\ stdin' = <<>>
      /\ UNCHANGED <<protocol, started, written, results, hello>>
      /\ answers # <<>> /\ Last(Last(answers)).channel # r /\ stdin # <<>>
  BY DEF HgTakesInput
<1>2. Understood(Len(answers)) => Serves
  BY <1>1, InputIs
<1>3. Last(answers[Len(answers)]).channel # r
  BY <1>1, LastAnswer DEF IInv
<1>. QED
  BY <1>1, <1>2, <1>3, TakeInv

LEMMA WriteInv ==
  ASSUME IInv, NEW args \in Commands, Write(args)
  PROVE  IInv'
<1>1. /\ written' = Append(written, args) /\ stdin' = stdin \o PrepareCommand(args)
      /\ started /\ Len(results) = Len(written)
      /\ UNCHANGED <<buffer, readState, started, results, hello, stdout, received, answers>>
  BY DEF Write, protocol
<1>2. TypeInv /\ Len(written) \in Nat /\ Len(answers) \in Nat
  BY Lengths DEF IInv
<1>3. /\ written' \in Seq(Commands) /\ Len(written') = Len(written) + 1
      /\ written'[Len(written) + 1] = args
      /\ \A i \in 1..Len(written) : written'[i] = written[i]
  BY <1>1, <1>2, AppendProperties DEF TypeInv
<1>4. TypeInv'
  BY <1>1, <1>2, <1>3 DEF TypeInv, IsSeq
<1>5. ResultsInv'
  BY <1>1 DEF IInv, ResultsInv, Understood
<1>6. ReceivedInv'
  <2>. SUFFICES ASSUME NEW i \in 1..Len(answers), Understood(i - 1)
                PROVE  /\ i <= Len(written')
                       /\ received[i] = IF i > 1 /\ Last(answers[i - 1]).channel # r
                                          THEN <<>> ELSE written'[i]
    BY <1>1 DEF ReceivedInv, Understood
  <2>1. /\ i <= Len(written)
        /\ received[i] = IF i > 1 /\ Last(answers[i - 1]).channel # r
                           THEN <<>> ELSE written[i]
    BY DEF IInv, ReceivedInv
  <2>2. i \in 1..Len(written)
    BY <2>1, <1>2
  <2>. QED
    BY <2>1, <2>2, <1>2, <1>3
<1>7. ASSUME Understood(Len(answers)) PROVE Serves'
  <2>1. Serves /\ Len(results) = Len(written)
    BY <1>1, <1>7 DEF IInv, StreamsInv, Greets
  <2>2. ~IsAnswered
    BY <2>1, <1>2 DEF IsAnswered
  <2>3. Waits /\ Len(written) = Len(answers) /\ stdin = <<>>
    BY <2>1, <2>2, <1>2 DEF Serves, Waits
  <2>4. stdin' = PrepareCommand(args)
    <3>1. PrepareCommand(args) \in Seq(Nat)
      BY CommandRead
    <3>2. <<>> \o PrepareCommand(args) = PrepareCommand(args)
      BY <3>1
    <3>. QED
      BY <1>1, <2>3, <3>2
  <2>5. Waits'
    BY <1>1, <1>3, <2>3, <2>4 DEF Waits
  <2>. QED
    BY <1>1, <2>1, <2>5 DEF Serves
<1>8. StreamsInv'
  BY <1>1, <1>7 DEF StreamsInv, Understood
<1>. QED
  BY <1>4, <1>5, <1>6, <1>8 DEF IInv

\* What a feed does to the results, when nothing more is known of it.
LEMMA FedResults ==
  ASSUME IInv, NEW n, Feed(n)
  PROVE  /\ results' = results \/ \E x : results' = Append(results, x)
         /\ UNCHANGED <<written, hello, stdin, received, answers>>
<1>. DEFINE bytes == buffer \o SubSeq(stdout, 1, n)
<1>1. \/ FeedNoHello(bytes) \/ FeedHello(bytes) \/ FeedCommandResult(bytes)
  BY DEF Feed
<1>2. UNCHANGED <<written, hello, stdin, received, answers>>
  BY DEF Feed
<1>. HIDE DEF bytes
<1>3. CASE FeedNoHello(bytes)
  BY <1>2, <1>3 DEF FeedNoHello
<1>4. CASE FeedHello(bytes)
  <2>1. FeedCommandResult(After(bytes, 5 + LengthAt(bytes, 1)))
    BY <1>4 DEF FeedHello
  <2>. QED
    BY <1>2, <2>1, FeedAny
<1>5. CASE FeedCommandResult(bytes)
  BY <1>2, <1>5, FeedAny
<1>. QED
  BY <1>1, <1>3, <1>4, <1>5

LEMMA FeedGreets ==
  ASSUME IInv, Greets, NEW n \in 1..Len(stdout), Feed(n)
  PROVE  /\ results' = results
         /\ Greets' \/ Serves'
<1>. DEFINE bytes == buffer \o SubSeq(stdout, 1, n)
            rest == After(stdout, n)
            w == Greeting(hello)
<1>1. stdout # <<>> /\ buffer \in Seq(Nat) /\ stdout \in Seq(Nat)
  BY DEF Greets
<1>2. hello # <<>> /\ hello \in Hellos /\ w = buffer \o stdout
  BY <1>1 DEF Greets
<1>3. /\ bytes \in Seq(Nat) /\ rest \in Seq(Nat) /\ w = bytes \o rest
      /\ Len(bytes) <= Len(w) /\ \A p \in 1..Len(bytes) : bytes[p] = w[p]
      /\ rest = <<>> <=> Len(bytes) = Len(w)
  <2>1. IsPiece(bytes, rest, w)
    BY <1>1, <1>2, Piece
  <2>. HIDE DEF bytes, rest, w
  <2>. QED
    BY <2>1 DEF IsPiece
<1>4. /\ FeedNoHello(bytes) \/ FeedHello(bytes)
      /\ stdout' = rest /\ UNCHANGED <<written, hello, stdin, received, answers>>
  BY DEF Feed, Greets
<1>. HIDE DEF bytes, rest
<1>5. /\ IsComplete(bytes, 1) <=> Len(bytes) = Len(w)
      /\ IsComplete(bytes, 1) =>
           HelloIn(bytes) = hello /\ After(bytes, 5 + LengthAt(bytes, 1)) = <<>>
  BY <1>2, <1>3, HelloRead
<1>. HIDE DEF w
<1>6. written = <<>> /\ results = <<>> /\ answers = <<>> /\ stdin = <<>>
      /\ readState = "Capabilities" /\ ~started
  BY DEF Greets
<1>7. CASE FeedNoHello(bytes)
  <2>1. buffer' = bytes /\ UNCHANGED <<readState, started, results>>
    BY <1>7 DEF FeedNoHello
  <2>2. ~Contains(hello, NoColon) => rest # <<>>
    BY <1>3, <1>5, <1>7 DEF FeedNoHello
  <2>3. bytes \o rest = Greeting(hello)
    BY <1>3 DEF w
  <2>4. Greets'
    BY <1>2, <1>3, <1>4, <1>6, <2>1, <2>2, <2>3 DEF Greets
  <2>. QED
    BY <2>1, <2>4
<1>8. CASE FeedHello(bytes)
  <2>1. IsComplete(bytes, 1) /\ FeedCommandResult(After(bytes, 5 + LengthAt(bytes, 1)))
        /\ readState' = "CommandResult" /\ started' = (started \/ pid' # 0)
        /\ pid' = IF Contains(HelloIn(bytes), PidField) THEN 1 ELSE pid
    BY <1>8 DEF FeedHello
  <2>2. Contains(HelloIn(bytes), PidField) /\ pid' = 1
    BY <1>2, <1>5, <2>1, HellosAssumption
  <2>3. started'
    <3>1. pid' # 0
      BY <2>2
    <3>. QED
      BY <2>1, <3>1
  <2>4. FeedCommandResult(<<>>)
    BY <1>5, <2>1
  <2>5. buffer' = <<>> /\ results' = results
    BY <2>4, FeedEmpty
  <2>6. stdout' = <<>>
    BY <1>3, <1>4, <1>5, <2>1
  <2>7. Waits'
    BY <1>4, <1>6, <2>5, <2>6 DEF Waits
  <2>. QED
    BY <1>2, <1>4, <2>1, <2>3, <2>5, <2>7 DEF Serves
<1>. QED
  BY <1>4, <1>7, <1>8

LEMMA FeedServes ==
  ASSUME IInv, Serves, Understood(Len(answers)), NEW n \in 1..Len(stdout), Feed(n)
  PROVE  /\ Serves'
         /\ \/ results' = results
            \/ /\ Len(results) + 1 = Len(answers)
               /\ results' = Append(results, ResultOf(answers[Len(answers)]))
<1>. DEFINE bytes == buffer \o SubSeq(stdout, 1, n)
            rest == After(stdout, n)
            answer == answers[Len(answers)]
            w == Wire(answer)
<1>1. stdout # <<>> /\ IsAnswered /\ readState = "CommandResult" /\ started /\ hello # <<>>
  BY DEF Serves, Waits
<1>2. /\ answers # <<>> /\ Len(results) = Len(answers) - 1
      /\ Len(written) = Len(answers) /\ stdin = <<>>
      /\ buffer \in Seq(Nat) /\ stdout \in Seq(Nat) /\ w = buffer \o stdout
  BY <1>1 DEF IsAnswered
<1>3. /\ bytes \in Seq(Nat) /\ rest \in Seq(Nat) /\ w = bytes \o rest
      /\ Len(bytes) <= Len(w) /\ \A p \in 1..Len(bytes) : bytes[p] = w[p]
      /\ rest = <<>> <=> Len(bytes) = Len(w)
  <2>1. IsPiece(bytes, rest, w)
    BY <1>2, Piece
  <2>. HIDE DEF bytes, rest, w
  <2>. QED
    BY <2>1 DEF IsPiece
<1>4. /\ FeedCommandResult(bytes) /\ UNCHANGED <<readState, pid, started>>
      /\ stdout' = rest /\ UNCHANGED <<written, hello, stdin, received, answers>>
  BY <1>1 DEF Feed
<1>. HIDE DEF bytes, rest
<1>5. /\ TypeInv /\ Len(answers) \in Nat \ {0} /\ Len(results) \in Nat
  <2>1. TypeInv /\ Len(answers) \in Nat /\ Len(results) \in Nat
    BY Lengths DEF IInv
  <2>. QED
    BY <1>2, <2>1 DEF TypeInv
<1>6. IsAnswer(answer) /\ Last(answer).channel \in {r, I}
  <2>1. Len(answers) \in 1..Len(answers)
    BY <1>5
  <2>. QED
    BY <1>5, <2>1, Lengths DEF Understood
<1>. HIDE DEF answer
<1>7. IF Len(bytes) = Len(w)
        THEN buffer' = <<>> /\ results' = Append(results, ResultOf(answer))
        ELSE buffer' = bytes /\ results' = results
  BY <1>3, <1>4, <1>6, FeedWhole
<1>. HIDE DEF w
<1>8. CASE Len(bytes) = Len(w)
  <2>1. results' = Append(results, ResultOf(answer)) /\ buffer' = <<>> /\ stdout' = <<>>
    BY <1>3, <1>4, <1>7, <1>8
  <2>2. Len(results') = Len(answers)
    <3>1. Len(Append(results, ResultOf(answer))) = Len(results) + 1
      BY <1>5, AppendSeq DEF TypeInv
    <3>. QED
      BY <1>2, <1>5, <2>1, <3>1
  <2>3. Waits'
    BY <1>2, <1>4, <2>1, <2>2 DEF Waits
  <2>. QED
    BY <1>1, <1>2, <1>4, <1>5, <2>1, <2>3 DEF Serves, answer
<1>9. CASE Len(bytes) # Len(w)
  <2>1. results' = results /\ buffer' = bytes /\ stdout' = rest /\ rest # <<>>
    BY <1>3, <1>4, <1>7, <1>9
  <2>2. bytes \o rest = Wire(answers[Len(answers)])
    BY <1>3 DEF w, answer
  <2>3. IsAnswered'
    BY <1>2, <1>3, <1>4, <2>1, <2>2 DEF IsAnswered
  <2>. QED
    BY <1>1, <1>4, <2>1, <2>3 DEF Serves
<1>. QED
  BY <1>8, <1>9

LEMMA FeedInv ==
  ASSUME IInv, NEW n \in 1..Len(stdout), Feed(n)
  PROVE  IInv'
<1>1. /\ results' = results \/ \E x : results' = Append(results, x)
      /\ UNCHANGED <<written, hello, stdin, received, answers>>
  BY FedResults
<1>2. TypeInv /\ Len(answers) \in Nat /\ Len(results) \in Nat /\ IsSeq(results)
  BY Lengths DEF IInv, TypeInv
<1>3. IsSeq(results)'
  <2>1. IsSeq(results)' <=> IsSeq(results')
    BY DEF IsSeq
  <2>2. ASSUME NEW x PROVE IsSeq(Append(results, x))
    BY <1>2, AppendSeq
  <2>. QED
    BY <1>1, <1>2, <2>1, <2>2, Zenon
<1>4. TypeInv'
  BY <1>1, <1>2, <1>3 DEF TypeInv, IsSeq
<1>5. ReceivedInv'
  BY <1>1 DEF IInv, ReceivedInv, Understood
<1>6. StreamsInv' /\ ResultsInv'
  <2>1. ASSUME Understood(Len(answers))
        PROVE  /\ Greets' \/ Serves'
               /\ \/ results' = results
                  \/ /\ Len(results) + 1 = Len(answers)
                     /\ results' = Append(results, ResultOf(answers[Len(answers)]))
    BY <2>1, FeedGreets, FeedServes DEF IInv, StreamsInv
  <2>2. StreamsInv'
    BY <1>1, <2>1 DEF StreamsInv, Understood
  <2>3. ASSUME NEW i \in 1..Len(answers), Understood(i)
        PROVE  /\ i <= Len(results') => results'[i] = ResultOf(answers[i])
               /\ ~Understood(Len(answers)) => i <= Len(results')
    <3>1. /\ i <= Len(results) => results[i] = ResultOf(answers[i])
          /\ ~Understood(Len(answers)) => i <= Len(results)
      BY <2>3 DEF IInv, ResultsInv
    <3>2. CASE results' = results
      BY <3>1, <3>2
    <3>3. ASSUME NEW x, results' = Append(results, x),
                 i = Len(results) + 1 => x = ResultOf(answers[i])
          PROVE  /\ i <= Len(results') => results'[i] = ResultOf(answers[i])
                 /\ ~Understood(Len(answers)) => i <= Len(results')
      <4>1. /\ Len(results') = Len(results) + 1 /\ results'[Len(results) + 1] = x
            /\ \A k \in 1..Len(results) : results'[k] = results[k]
        BY <1>2, <3>3, AppendSeq
      <4>2. CASE i <= Len(results)
        BY <4>1, <4>2, <3>1, <1>2
      <4>3. CASE i = Len(results) + 1
        BY <4>1, <4>3, <3>3, <1>2
      <4>4. CASE i > Len(results) + 1
        BY <4>1, <4>4, <3>1, <1>2
      <4>. QED
        BY <4>2, <4>3, <4>4, <1>2
    <3>4. CASE Understood(Len(answers)) /\ results' # results
      <4>1. /\ Len(results) + 1 = Len(answers)
            /\ results' = Append(results, ResultOf(answers[Len(answers)]))
        BY <2>1, <3>4
      <4>. QED
        BY <4>1, <3>3
    <3>5. CASE ~Understood(Len(answers)) /\ results' # results
      <4>1. PICK x : results' = Append(results, x)
        BY <1>1, <3>5
      <4>2. i # Len(results) + 1
        BY <3>1, <3>5, <1>2
      <4>. QED
        BY <4>1, <4>2, <3>3
    <3>. QED
      BY <3>2, <3>4, <3>5
  <2>4. ResultsInv'
    BY <1>1, <2>3 DEF ResultsInv, Understood
  <2>. QED
    BY <2>2, <2>4
<1>. QED
  BY <1>4, <1>5, <1>6 DEF IInv

LEMMA StepInv == IInv /\ [Next]_vars => IInv'
<1>. SUFFICES ASSUME IInv, [Next]_vars PROVE IInv'
  OBVIOUS
<1>1. ASSUME NEW fields \in Hellos, HgHello(fields) PROVE IInv'
  BY <1>1, HgHelloInv
<1>2. ASSUME NEW answer \in Answers, HgAnswers(answer) PROVE IInv'
  BY <1>2, HgAnswersInv
<1>3. ASSUME NEW answer \in Answers, HgTakesInput(answer) PROVE IInv'
  BY <1>3, HgTakesInputInv
<1>4. ASSUME NEW args \in Commands, Write(args) PROVE IInv'
  BY <1>4, WriteInv
<1>5. ASSUME NEW n \in 1..Len(stdout), Feed(n) PROVE IInv'
  BY <1>5, FeedInv
<1>6. CASE Reset
  BY <1>6, ResetInv
<1>7. CASE UNCHANGED vars
  BY <1>7 DEF vars, protocol, hg, IInv, TypeInv, IsSeq, ResultsInv, ReceivedInv, StreamsInv,
              Understood, Greets, Serves, Waits, IsAnswered
<1>. QED
  BY <1>1, <1>2, <1>3, <1>4, <1>5, <1>6, <1>7 DEF Next

\* The streams stay as the invariant says: of every run of the service with hg.
THEOREM StreamsInvariant == Spec => []IInv
  BY InitInv, StepInv, PTL DEF Spec

(***************************************************************************)
(* What follows.                                                           *)
(***************************************************************************)

\* However what hg writes is cut, each result is what hg wrote for its command
\* (feedStdOutput, hgprotocol.cpp:49).
THEOREM ResultsMatchAnswers == Spec => []ResultsMatch
<1>1. ASSUME IInv PROVE ResultsMatch
  <2>1. Len(answers) \in Nat /\ Len(results) \in Nat /\ DOMAIN results = 1..Len(results)
    BY <1>1, Lengths DEF IInv
  <2>. SUFFICES ASSUME NEW i \in 1..Len(results),
                       Understood(IF i <= Len(answers) THEN i ELSE Len(answers))
                PROVE  i <= Len(answers) /\ results[i] = ResultOf(answers[i])
    BY <2>1 DEF ResultsMatch
  <2>2. CASE i <= Len(answers)
    BY <1>1, <2>1, <2>2 DEF IInv, ResultsInv
  <2>3. CASE ~(i <= Len(answers))
    <3>1. Len(results) <= Len(answers)
      <4>1. Greets \/ Serves
        BY <1>1, <2>3 DEF IInv, StreamsInv
      <4>. QED
        BY <2>1, <4>1 DEF Greets, Serves, Waits, IsAnswered
    <3>. QED
      BY <2>1, <2>3, <3>1
  <2>. QED
    BY <2>2, <2>3
<1>. QED
  BY <1>1, StreamsInvariant, PTL

\* When all has been read, the commands have started and every command that hg
\* has answered has its result (hgprotocol.cpp:136 and 62).
THEOREM NothingIsWithheld == Spec => []NothingWithheld
<1>1. ASSUME IInv PROVE NothingWithheld
  <2>. SUFFICES ASSUME hello # <<>>, ~Contains(hello, NoColon), stdout = <<>>,
                       Understood(Len(answers))
                PROVE  started /\ Len(results) = Len(answers)
    BY DEF NothingWithheld
  <2>. QED
    BY <1>1 DEF IInv, StreamsInv, Greets, Serves, Waits, IsAnswered
<1>. QED
  BY <1>1, StreamsInvariant, PTL

\* hg reads the arguments of every command as they were given, up to a request
\* that is not understood (prepareCommand, hgprotocol.cpp:19).
THEOREM CommandsArriveWhole == Spec => []CommandsArrive
<1>1. ASSUME IInv PROVE CommandsArrive
  <2>1. /\ Len(answers) \in Nat /\ Len(written) \in Nat /\ Len(received) = Len(answers)
        /\ DOMAIN received = 1..Len(answers)
    BY <1>1, Lengths DEF IInv, TypeInv
  <2>2. \A i \in DOMAIN received :
          Understood(i - 1) =>
            received[i] = IF i > 1 /\ Last(answers[i - 1]).channel # r THEN <<>> ELSE written[i]
    BY <1>1, <2>1 DEF IInv, ReceivedInv
  <2>3. ASSUME Understood(Len(answers))
        PROVE  IF Len(written) > Len(received) THEN Len(stdin) = 5 + LengthAt(stdin, 1)
                                               ELSE stdin = <<>>
    <3>1. CASE stdin = <<>>
      <4>1. Greets \/ Serves
        BY <1>1, <2>3 DEF IInv, StreamsInv
      <4>2. Greets => Len(written) <= Len(received)
        BY <2>1 DEF Greets
      <4>3. IsAnswered => Len(written) <= Len(received)
        BY <2>1 DEF IsAnswered
      <4>4. Waits => Len(written) = Len(answers)
        <5>. SUFFICES ASSUME Waits, Len(written) = Len(answers) + 1,
                             stdin = PrepareCommand(written[Len(written)])
                      PROVE  FALSE
          BY DEF Waits
        <5>1. written[Len(written)] \in Commands
          <6>1. Len(written) \in 1..Len(written)
            BY <2>1
          <6>. QED
            BY <1>1, <6>1, Lengths DEF IInv
        <5>. QED
          BY <3>1, <5>1, CommandRead
      <4>5. Waits => Len(written) <= Len(received)
        BY <4>4, <2>1
      <4>. QED
        BY <3>1, <2>1, <4>1, <4>2, <4>3, <4>5 DEF Serves
    <3>2. CASE stdin # <<>>
      BY <1>1, <2>1, <2>3, <3>2, InputIs
    <3>. QED
      BY <3>1, <3>2
  <2>. QED
    BY <2>2, <2>3 DEF CommandsArrive
<1>. QED
  BY <1>1, StreamsInvariant, PTL

==============================================================================
