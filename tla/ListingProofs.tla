--------------------------- MODULE ListingProofs ----------------------------
(***************************************************************************)
(* Proofs about Listing and CursorCodec, from the bottom up:               *)
(*                                                                         *)
(*  1. base64 and the cursors: what is encoded comes back, for every text  *)
(*     and every position;                                                 *)
(*  2. the order of the rows: what LIMIT n keeps is an upper part of them, *)
(*     and one row more shows whether it is all;                           *)
(*  3. one page;                                                           *)
(*  4. the invariant of a walk, and the theorems.                          *)
(***************************************************************************)
EXTENDS Listing, FiniteSetTheorems, SequenceTheorems, TLAPS

-----------------------------------------------------------------------------
(* base64 and cursors *)

\* The least number of a set that is not empty.
LEMMA SmallestNumber ==
  ASSUME NEW n \in Nat, NEW T \in SUBSET (0..n), T # {}
  PROVE  \E i \in T : \A j \in T : i <= j
<1> DEFINE Below == {0..i : i \in T}
<1>1. FiniteSubsetsOf(0..n) = SUBSET (0..n)
  <2>1. IsFiniteSet(0..n)
    BY FS_Interval
  <2>2. QED
    BY <2>1, FS_FiniteSubsetsOfFinite, Zenon
<1>2. IsWellFoundedOn(StrictSubsetOrdering(0..n), SUBSET (0..n))
  BY <1>1, FS_StrictSubsetOrderingWellFounded
<1>3. Below \subseteq SUBSET (0..n) /\ Below # {}
  <2>1. \A i \in T : 0..i \subseteq 0..n
    OBVIOUS
  <2>2. QED
    BY <2>1, Zenon
<1>4. PICK b \in Below : \A c \in Below : <<c, b>> \notin StrictSubsetOrdering(0..n)
  <2> HIDE DEF Below
  <2>1. QED
    BY <1>2, <1>3, WFMin
<1>5. PICK i \in T : b = 0..i
  OBVIOUS
<1>6. ASSUME NEW j \in T, ~(i <= j) PROVE FALSE
  <2>1. 0..j \in Below /\ 0..j \subseteq 0..i /\ 0..i # 0..j
    <3>1. i \in 0..i /\ i \notin 0..j
      BY <1>6
    <3>2. QED
      BY <1>6, <3>1
  <2>2. <<0..j, b>> \in StrictSubsetOrdering(0..n)
    BY <1>3, <1>5, <2>1 DEF StrictSubsetOrdering
  <2>3. QED
    BY <1>4, <2>1, <2>2
<1>7. QED
  BY <1>6

\* Digits() of digits followed by '=' are the digits.
LEMMA DigitsBeforePads ==
  ASSUME NEW s \in Seq(Int), NEW n \in 0..Len(s),
         \A i \in 1..n : s[i] # Pad,
         \A i \in (n + 1)..Len(s) : s[i] = Pad
  PROVE  Digits(s) = SubSeq(s, 1, n)
<1> DEFINE Step(f) == [i \in 0..Len(s) |-> IF i = 0 THEN <<>>
                                  ELSE IF s[i] = Pad THEN f[i - 1]
                                  ELSE Append(f[i - 1], s[i])]
           kept == CHOOSE f : f = Step(f)
           Cut(i) == SubSeq(s, 1, IF i <= n THEN i ELSE n)
           g == [i \in 0..Len(s) |-> Cut(i)]
<1>1. Digits(s) = kept[Len(s)]
  BY DEF Digits
<1>2. g = Step(g)
  <2>1. ASSUME NEW i \in 0..Len(s)
        PROVE  g[i] = Step(g)[i]
    <3>1. CASE i = 0
      BY <3>1
    <3>2. CASE i # 0 /\ i <= n
      <4>1. i - 1 \in 0..Len(s) /\ i - 1 <= n /\ i \in 1..n
        BY <3>2
      <4>2. g[i] = SubSeq(s, 1, i) /\ g[i - 1] = SubSeq(s, 1, i - 1)
        BY <3>2, <4>1
      <4>3. SubSeq(s, 1, i) = Append(SubSeq(s, 1, i - 1), s[i])
        BY <4>1
      <4>4. QED
        BY <3>2, <4>1, <4>2, <4>3
    <3>3. CASE i # 0 /\ ~(i <= n)
      <4>1. i - 1 \in 0..Len(s) /\ s[i] = Pad
        BY <3>3
      <4>2. Cut(i) = Cut(i - 1)
        BY <3>3
      <4>3. QED
        BY <3>3, <4>1, <4>2
    <3>4. QED
      BY <3>1, <3>2, <3>3
  <2>2. QED
    BY <2>1
<1>3. kept = Step(kept)
  <2> HIDE DEF g, Step
  <2>1. \E f : f = Step(f)
    BY <1>2
  <2>2. QED
    BY <2>1
<1>4. \A i \in 0..Len(s) : kept[i] = g[i]
  <2> DEFINE T == {i \in 0..Len(s) : kept[i] # g[i]}
  <2> SUFFICES ASSUME T # {} PROVE FALSE
    OBVIOUS
  <2> HIDE DEF g, kept
  <2>1. PICK i \in T : \A j \in T : i <= j
    <3> T \in SUBSET (0..Len(s)) /\ Len(s) \in Nat
      OBVIOUS
    <3> HIDE DEF T
    <3>1. QED
      BY SmallestNumber
  <2>2. kept[i] = Step(kept)[i] /\ g[i] = Step(g)[i] /\ i \in 0..Len(s)
    BY <1>2, <1>3
  <2>3. i # 0 => kept[i - 1] = g[i - 1]
    BY <2>1
  <2>4. QED
    BY <2>2, <2>3
<1>5. Len(s) \in 0..Len(s) /\ g[Len(s)] = SubSeq(s, 1, n)
  OBVIOUS
<1>6. QED
  <2> HIDE DEF g, kept
  <2>1. QED
    BY <1>1, <1>4, <1>5

\* Division of a number that is given by its quotient and its remainder.
LEMMA Quotients ==
  ASSUME NEW q \in Nat, NEW r \in Nat
  PROVE  /\ r < 4 => (q * 4 + r) \div 4 = q /\ (q * 4 + r) % 4 = r
         /\ r < 16 => (q * 16 + r) \div 16 = q /\ (q * 16 + r) % 16 = r
         /\ r < 64 => (q * 64 + r) \div 64 = q /\ (q * 64 + r) % 64 = r
         /\ r < 256 => (q * 256 + r) \div 256 = q /\ (q * 256 + r) % 256 = r
         /\ r < 1024 => (q * 1024 + r) \div 1024 = q /\ (q * 1024 + r) % 1024 = r
<1>1. r < 4 => (q * 4 + r) \div 4 = q /\ (q * 4 + r) % 4 = r
  BY SMT
<1>2. r < 16 => (q * 16 + r) \div 16 = q /\ (q * 16 + r) % 16 = r
  BY SMT
<1>3. r < 64 => (q * 64 + r) \div 64 = q /\ (q * 64 + r) % 64 = r
  BY SMT
<1>4. r < 256 => (q * 256 + r) \div 256 = q /\ (q * 256 + r) % 256 = r
  BY SMT
<1>5. r < 1024 => (q * 1024 + r) \div 1024 = q /\ (q * 1024 + r) % 1024 = r
  BY SMT
<1>6. QED
  BY <1>1, <1>2, <1>3, <1>4, <1>5

\* The four digits of a group of three bytes, and the bytes of four digits; each
\* depends on two neighbours.
Sextet1(a, b) == ((a * 256 + b) \div 1024) % 64
Sextet2(a, b) == ((a * 256 + b) \div 16) % 64
Sextet3(b, c) == ((b * 256 + c) \div 64) % 64
Sextet4(c, d) == ((c * 256 + d) \div 256) % 64
Octet1(w, x)  == ((w * 64 + x) \div 16) % 256
Octet2(x, y)  == ((x * 64 + y) \div 4) % 256
Octet3(y, z)  == ((y * 64 + z) \div 1) % 256

\* The digits of a, b, c, d are digits, and stand for a, b, c.
GroupKept(a, b, c, d) ==
  /\ Sextet1(a, b) \in 0..63 /\ Sextet2(a, b) \in 0..63
  /\ Sextet3(b, c) \in 0..63 /\ Sextet4(c, d) \in 0..63
  /\ Octet1(Sextet1(a, b), Sextet2(a, b)) = a
  /\ Octet2(Sextet2(a, b), Sextet3(b, c)) = b
  /\ Octet3(Sextet3(b, c), Sextet4(c, d)) = c

\* Three bytes in four digits and back, the arithmetic of one group.
LEMMA GroupOfThree ==
  ASSUME NEW a \in 0..255, NEW b \in 0..255, NEW c \in 0..255, NEW d \in 0..255
  PROVE  GroupKept(a, b, c, d)
<1> DEFINE w == Sextet1(a, b)
           x == Sextet2(a, b)
           y == Sextet3(b, c)
           z == Sextet4(c, d)
<1> USE DEF Sextet1, Sextet2, Sextet3, Sextet4
<1>1. PICK h1 \in 0..63, l1 \in 0..3 : a = h1 * 4 + l1
  <2> DEFINE h == a \div 4
  <2>1. h \in 0..63 /\ a - h * 4 \in 0..3
    BY SMT
  <2> HIDE DEF h
  <2>2. a = h * 4 + (a - h * 4)
    BY <2>1
  <2>3. QED
    BY <2>1, <2>2
<1>2. PICK h2 \in 0..15, l2 \in 0..15 : b = h2 * 16 + l2
  <2> DEFINE h == b \div 16
  <2>1. h \in 0..15 /\ b - h * 16 \in 0..15
    BY SMT
  <2> HIDE DEF h
  <2>2. b = h * 16 + (b - h * 16)
    BY <2>1
  <2>3. QED
    BY <2>1, <2>2
<1>3. PICK h3 \in 0..3, l3 \in 0..63 : c = h3 * 64 + l3
  <2> DEFINE h == c \div 64
  <2>1. h \in 0..3 /\ c - h * 64 \in 0..63
    BY SMT
  <2> HIDE DEF h
  <2>2. c = h * 64 + (c - h * 64)
    BY <2>1
  <2>3. QED
    BY <2>1, <2>2
<1>4. w = h1
  <2>1. a * 256 + b = h1 * 1024 + (l1 * 256 + b) /\ l1 * 256 + b \in 0..1023
    BY <1>1
  <2>2. (a * 256 + b) \div 1024 = h1
    BY <2>1, Quotients
  <2>3. QED
    BY <2>2
<1>5. x = l1 * 16 + h2
  <2>1. a * 256 + b = (a * 16 + h2) * 16 + l2 /\ a * 16 + h2 \in Nat
    BY <1>2
  <2>2. (a * 256 + b) \div 16 = a * 16 + h2
    BY <2>1, Quotients
  <2>3. a * 16 + h2 = h1 * 64 + (l1 * 16 + h2) /\ l1 * 16 + h2 \in 0..63
    BY <1>1
  <2>4. (h1 * 64 + (l1 * 16 + h2)) % 64 = l1 * 16 + h2
    BY <2>3, Quotients
  <2>5. QED
    BY <2>2, <2>3, <2>4
<1>6. y = l2 * 4 + h3
  <2>1. b * 256 + c = (b * 4 + h3) * 64 + l3 /\ b * 4 + h3 \in Nat
    BY <1>3
  <2>2. (b * 256 + c) \div 64 = b * 4 + h3
    BY <2>1, Quotients
  <2>3. b * 4 + h3 = h2 * 64 + (l2 * 4 + h3) /\ l2 * 4 + h3 \in 0..63
    BY <1>2
  <2>4. (h2 * 64 + (l2 * 4 + h3)) % 64 = l2 * 4 + h3
    BY <2>3, Quotients
  <2>5. QED
    BY <2>2, <2>3, <2>4
<1>7. z = l3
  <2>1. (c * 256 + d) \div 256 = c
    BY Quotients
  <2>2. QED
    BY <1>3, <2>1, Quotients
<1> HIDE DEF w, x, y, z
<1>8. ((w * 64 + x) \div 16) % 256 = a
  <2>1. w * 64 + x = a * 16 + h2
    BY <1>1, <1>4, <1>5
  <2>2. (w * 64 + x) \div 16 = a
    BY <2>1, Quotients
  <2>3. QED
    BY <2>2
<1>9. ((x * 64 + y) \div 4) % 256 = b
  <2>1. x * 64 + y = (l1 * 256 + b) * 4 + h3 /\ l1 * 256 + b \in Nat
    BY <1>2, <1>5, <1>6
  <2>2. (x * 64 + y) \div 4 = l1 * 256 + b
    BY <2>1, Quotients
  <2>3. QED
    BY <2>2, Quotients
<1>10. ((y * 64 + z) \div 1) % 256 = c
  <2>1. y * 64 + z = l2 * 256 + c
    BY <1>3, <1>6, <1>7
  <2>2. (y * 64 + z) \div 1 = l2 * 256 + c
    BY <2>1
  <2>3. QED
    BY <2>2, Quotients
<1>11. QED
  BY <1>1, <1>2, <1>3, <1>4, <1>5, <1>6, <1>7, <1>8, <1>9, <1>10
     DEF w, x, y, z, Octet1, Octet2, Octet3, GroupKept

\* A digit of s, zero behind the last.
Digit(s, k) == IF k <= Len(s) THEN s[k] ELSE 0

\* Bits() for bits whose digit and whose place in it are known.
LEMMA BitsAt ==
  ASSUME NEW s, NEW k \in Int
  PROVE  /\ \A f \in Int : f \div 8 = k /\ f % 8 = 0 =>
              Bits(s, 8, f, 6) = ((Digit(s, k + 1) * 256 + Digit(s, k + 2)) \div 1024) % 64
         /\ \A f \in Int : f \div 8 = k /\ f % 8 = 6 =>
              Bits(s, 8, f, 6) = ((Digit(s, k + 1) * 256 + Digit(s, k + 2)) \div 16) % 64
         /\ \A f \in Int : f \div 8 = k /\ f % 8 = 4 =>
              Bits(s, 8, f, 6) = ((Digit(s, k + 1) * 256 + Digit(s, k + 2)) \div 64) % 64
         /\ \A f \in Int : f \div 8 = k /\ f % 8 = 2 =>
              Bits(s, 8, f, 6) = ((Digit(s, k + 1) * 256 + Digit(s, k + 2)) \div 256) % 64
         /\ \A f \in Int : f \div 6 = k /\ f % 6 = 0 =>
              Bits(s, 6, f, 8) = ((Digit(s, k + 1) * 64 + Digit(s, k + 2)) \div 16) % 256
         /\ \A f \in Int : f \div 6 = k /\ f % 6 = 2 =>
              Bits(s, 6, f, 8) = ((Digit(s, k + 1) * 64 + Digit(s, k + 2)) \div 4) % 256
         /\ \A f \in Int : f \div 6 = k /\ f % 6 = 4 =>
              Bits(s, 6, f, 8) = ((Digit(s, k + 1) * 64 + Digit(s, k + 2)) \div 1) % 256
<1>1. ASSUME NEW f \in Int, f \div 8 = k, f % 8 = 0
      PROVE  Bits(s, 8, f, 6) = ((Digit(s, k + 1) * 256 + Digit(s, k + 2)) \div 1024) % 64
  <2>1. f \div 8 + 1 = k + 1 /\ k + 1 + 1 = k + 2
    BY <1>1
  <2> DEFINE e == 1024
  <2>2. 2 * 8 - (f % 8) - 6 = 10 /\ 2^10 = e
    BY <1>1
  <2>3. 2^8 = 256 /\ 2^6 = 64
    OBVIOUS
  <2>4. Bits(s, 8, f, 6) =
          ((Digit(s, f \div 8 + 1) * 2^8 + Digit(s, f \div 8 + 1 + 1))
             \div 2^(2 * 8 - (f % 8) - 6)) % 2^6
    BY Zenon DEF Bits, Digit
  <2> HIDE DEF e
  <2>5. Bits(s, 8, f, 6) = ((Digit(s, k + 1) * 256 + Digit(s, k + 2)) \div e) % 64
    BY <2>1, <2>2, <2>3, <2>4, Zenon
  <2>6. QED
    BY <2>5 DEF e
<1>2. ASSUME NEW f \in Int, f \div 8 = k, f % 8 = 6
      PROVE  Bits(s, 8, f, 6) = ((Digit(s, k + 1) * 256 + Digit(s, k + 2)) \div 16) % 64
  <2>1. f \div 8 + 1 = k + 1 /\ k + 1 + 1 = k + 2
    BY <1>2
  <2>2. 2 * 8 - (f % 8) - 6 = 4 /\ 2^4 = 16
    BY <1>2
  <2>3. 2^8 = 256 /\ 2^6 = 64
    OBVIOUS
  <2>4. Bits(s, 8, f, 6) =
          ((Digit(s, f \div 8 + 1) * 2^8 + Digit(s, f \div 8 + 1 + 1))
             \div 2^(2 * 8 - (f % 8) - 6)) % 2^6
    BY Zenon DEF Bits, Digit
  <2>5. QED
    BY <2>1, <2>2, <2>3, <2>4, Zenon
<1>3. ASSUME NEW f \in Int, f \div 8 = k, f % 8 = 4
      PROVE  Bits(s, 8, f, 6) = ((Digit(s, k + 1) * 256 + Digit(s, k + 2)) \div 64) % 64
  <2>1. f \div 8 + 1 = k + 1 /\ k + 1 + 1 = k + 2
    BY <1>3
  <2>2. 2 * 8 - (f % 8) - 6 = 6 /\ 2^6 = 64
    BY <1>3
  <2>3. 2^8 = 256 /\ 2^6 = 64
    OBVIOUS
  <2>4. Bits(s, 8, f, 6) =
          ((Digit(s, f \div 8 + 1) * 2^8 + Digit(s, f \div 8 + 1 + 1))
             \div 2^(2 * 8 - (f % 8) - 6)) % 2^6
    BY Zenon DEF Bits, Digit
  <2>5. QED
    BY <2>1, <2>2, <2>3, <2>4, Zenon
<1>4. ASSUME NEW f \in Int, f \div 8 = k, f % 8 = 2
      PROVE  Bits(s, 8, f, 6) = ((Digit(s, k + 1) * 256 + Digit(s, k + 2)) \div 256) % 64
  <2>1. f \div 8 + 1 = k + 1 /\ k + 1 + 1 = k + 2
    BY <1>4
  <2>2. 2 * 8 - (f % 8) - 6 = 8 /\ 2^8 = 256
    BY <1>4
  <2>3. 2^8 = 256 /\ 2^6 = 64
    OBVIOUS
  <2>4. Bits(s, 8, f, 6) =
          ((Digit(s, f \div 8 + 1) * 2^8 + Digit(s, f \div 8 + 1 + 1))
             \div 2^(2 * 8 - (f % 8) - 6)) % 2^6
    BY Zenon DEF Bits, Digit
  <2>5. QED
    BY <2>1, <2>2, <2>3, <2>4, Zenon
<1>5. ASSUME NEW f \in Int, f \div 6 = k, f % 6 = 0
      PROVE  Bits(s, 6, f, 8) = ((Digit(s, k + 1) * 64 + Digit(s, k + 2)) \div 16) % 256
  <2>1. f \div 6 + 1 = k + 1 /\ k + 1 + 1 = k + 2
    BY <1>5
  <2>2. 2 * 6 - (f % 6) - 8 = 4 /\ 2^4 = 16
    BY <1>5
  <2>3. 2^6 = 64 /\ 2^8 = 256
    OBVIOUS
  <2>4. Bits(s, 6, f, 8) =
          ((Digit(s, f \div 6 + 1) * 2^6 + Digit(s, f \div 6 + 1 + 1))
             \div 2^(2 * 6 - (f % 6) - 8)) % 2^8
    BY Zenon DEF Bits, Digit
  <2>5. QED
    BY <2>1, <2>2, <2>3, <2>4, Zenon
<1>6. ASSUME NEW f \in Int, f \div 6 = k, f % 6 = 2
      PROVE  Bits(s, 6, f, 8) = ((Digit(s, k + 1) * 64 + Digit(s, k + 2)) \div 4) % 256
  <2>1. f \div 6 + 1 = k + 1 /\ k + 1 + 1 = k + 2
    BY <1>6
  <2>2. 2 * 6 - (f % 6) - 8 = 2 /\ 2^2 = 4
    BY <1>6
  <2>3. 2^6 = 64 /\ 2^8 = 256
    OBVIOUS
  <2>4. Bits(s, 6, f, 8) =
          ((Digit(s, f \div 6 + 1) * 2^6 + Digit(s, f \div 6 + 1 + 1))
             \div 2^(2 * 6 - (f % 6) - 8)) % 2^8
    BY Zenon DEF Bits, Digit
  <2>5. QED
    BY <2>1, <2>2, <2>3, <2>4, Zenon
<1>7. ASSUME NEW f \in Int, f \div 6 = k, f % 6 = 4
      PROVE  Bits(s, 6, f, 8) = ((Digit(s, k + 1) * 64 + Digit(s, k + 2)) \div 1) % 256
  <2>1. f \div 6 + 1 = k + 1 /\ k + 1 + 1 = k + 2
    BY <1>7
  <2>2. 2 * 6 - (f % 6) - 8 = 0 /\ 2^0 = 1
    BY <1>7
  <2>3. 2^6 = 64 /\ 2^8 = 256
    OBVIOUS
  <2>4. Bits(s, 6, f, 8) =
          ((Digit(s, f \div 6 + 1) * 2^6 + Digit(s, f \div 6 + 1 + 1))
             \div 2^(2 * 6 - (f % 6) - 8)) % 2^8
    BY Zenon DEF Bits, Digit
  <2>5. QED
    BY <2>1, <2>2, <2>3, <2>4, Zenon
<1>8. QED
  BY <1>1, <1>2, <1>3, <1>4, <1>5, <1>6, <1>7

\* The four digits that stand for the bytes from 3 * m + 1 on.
LEMMA EncodedGroup ==
  ASSUME NEW s, NEW m \in Nat
  PROVE  /\ Bits(s, 8, 24 * m, 6) = Sextet1(Digit(s, 3 * m + 1), Digit(s, 3 * m + 2))
         /\ Bits(s, 8, 24 * m + 6, 6) = Sextet2(Digit(s, 3 * m + 1), Digit(s, 3 * m + 2))
         /\ Bits(s, 8, 24 * m + 12, 6) = Sextet3(Digit(s, 3 * m + 2), Digit(s, 3 * m + 3))
         /\ Bits(s, 8, 24 * m + 18, 6) = Sextet4(Digit(s, 3 * m + 3), Digit(s, 3 * m + 4))
<1>1. Bits(s, 8, 24 * m, 6) = Sextet1(Digit(s, 3 * m + 1), Digit(s, 3 * m + 2))
  <2> DEFINE f == 24 * m
             k == 3 * m
  <2>1. f \in Int /\ k \in Int /\ f \div 8 = k /\ f % 8 = 0
    BY SMT
  <2>2. k + 1 = 3 * m + 1 /\ k + 2 = 3 * m + 2
    OBVIOUS
  <2> HIDE DEF f, k
  <2>3. Bits(s, 8, f, 6) = Sextet1(Digit(s, k + 1), Digit(s, k + 2))
    BY <2>1, BitsAt DEF Sextet1
  <2>4. QED
    BY <2>2, <2>3, Zenon DEF f
<1>2. Bits(s, 8, 24 * m + 6, 6) = Sextet2(Digit(s, 3 * m + 1), Digit(s, 3 * m + 2))
  <2> DEFINE f == 24 * m + 6
             k == 3 * m
  <2>1. f \in Int /\ k \in Int /\ f \div 8 = k /\ f % 8 = 6
    BY SMT
  <2>2. k + 1 = 3 * m + 1 /\ k + 2 = 3 * m + 2
    OBVIOUS
  <2> HIDE DEF f, k
  <2>3. Bits(s, 8, f, 6) = Sextet2(Digit(s, k + 1), Digit(s, k + 2))
    BY <2>1, BitsAt DEF Sextet2
  <2>4. QED
    BY <2>2, <2>3, Zenon DEF f
<1>3. Bits(s, 8, 24 * m + 12, 6) = Sextet3(Digit(s, 3 * m + 2), Digit(s, 3 * m + 3))
  <2> DEFINE f == 24 * m + 12
             k == 3 * m + 1
  <2>1. f \in Int /\ k \in Int /\ f \div 8 = k /\ f % 8 = 4
    BY SMT
  <2>2. k + 1 = 3 * m + 2 /\ k + 2 = 3 * m + 3
    OBVIOUS
  <2> HIDE DEF f, k
  <2>3. Bits(s, 8, f, 6) = Sextet3(Digit(s, k + 1), Digit(s, k + 2))
    BY <2>1, BitsAt DEF Sextet3
  <2>4. QED
    BY <2>2, <2>3, Zenon DEF f
<1>4. Bits(s, 8, 24 * m + 18, 6) = Sextet4(Digit(s, 3 * m + 3), Digit(s, 3 * m + 4))
  <2> DEFINE f == 24 * m + 18
             k == 3 * m + 2
  <2>1. f \in Int /\ k \in Int /\ f \div 8 = k /\ f % 8 = 2
    BY SMT
  <2>2. k + 1 = 3 * m + 3 /\ k + 2 = 3 * m + 4
    OBVIOUS
  <2> HIDE DEF f, k
  <2>3. Bits(s, 8, f, 6) = Sextet4(Digit(s, k + 1), Digit(s, k + 2))
    BY <2>1, BitsAt DEF Sextet4
  <2>4. QED
    BY <2>2, <2>3, Zenon DEF f
<1>5. QED
  BY <1>1, <1>2, <1>3, <1>4

\* The three bytes that four digits from 4 * m + 1 on stand for.
LEMMA DecodedGroup ==
  ASSUME NEW s, NEW m \in Nat
  PROVE  /\ Bits(s, 6, 24 * m, 8) = Octet1(Digit(s, 4 * m + 1), Digit(s, 4 * m + 2))
         /\ Bits(s, 6, 24 * m + 8, 8) = Octet2(Digit(s, 4 * m + 2), Digit(s, 4 * m + 3))
         /\ Bits(s, 6, 24 * m + 16, 8) = Octet3(Digit(s, 4 * m + 3), Digit(s, 4 * m + 4))
<1>1. Bits(s, 6, 24 * m, 8) = Octet1(Digit(s, 4 * m + 1), Digit(s, 4 * m + 2))
  <2> DEFINE f == 24 * m
             k == 4 * m
  <2>1. f \in Int /\ k \in Int /\ f \div 6 = k /\ f % 6 = 0
    BY SMT
  <2>2. k + 1 = 4 * m + 1 /\ k + 2 = 4 * m + 2
    OBVIOUS
  <2> HIDE DEF f, k
  <2>3. Bits(s, 6, f, 8) = Octet1(Digit(s, k + 1), Digit(s, k + 2))
    BY <2>1, BitsAt DEF Octet1
  <2>4. QED
    BY <2>2, <2>3, Zenon DEF f
<1>2. Bits(s, 6, 24 * m + 8, 8) = Octet2(Digit(s, 4 * m + 2), Digit(s, 4 * m + 3))
  <2> DEFINE f == 24 * m + 8
             k == 4 * m + 1
  <2>1. f \in Int /\ k \in Int /\ f \div 6 = k /\ f % 6 = 2
    BY SMT
  <2>2. k + 1 = 4 * m + 2 /\ k + 2 = 4 * m + 3
    OBVIOUS
  <2> HIDE DEF f, k
  <2>3. Bits(s, 6, f, 8) = Octet2(Digit(s, k + 1), Digit(s, k + 2))
    BY <2>1, BitsAt DEF Octet2
  <2>4. QED
    BY <2>2, <2>3, Zenon DEF f
<1>3. Bits(s, 6, 24 * m + 16, 8) = Octet3(Digit(s, 4 * m + 3), Digit(s, 4 * m + 4))
  <2> DEFINE f == 24 * m + 16
             k == 4 * m + 2
  <2>1. f \in Int /\ k \in Int /\ f \div 6 = k /\ f % 6 = 4
    BY SMT
  <2>2. k + 1 = 4 * m + 3 /\ k + 2 = 4 * m + 4
    OBVIOUS
  <2> HIDE DEF f, k
  <2>3. Bits(s, 6, f, 8) = Octet3(Digit(s, k + 1), Digit(s, k + 2))
    BY <2>1, BitsAt DEF Octet3
  <2>4. QED
    BY <2>2, <2>3, Zenon DEF f
<1>4. QED
  BY <1>1, <1>2, <1>3

\* A byte of a text, or the zero behind the last, is a byte.
LEMMA DigitRange ==
  ASSUME NEW s \in Seq(0..255), NEW k \in Nat \ {0}
  PROVE  Digit(s, k) \in 0..255
<1>1. CASE k <= Len(s)
  <2>1. k \in 1..Len(s)
    BY <1>1
  <2>2. s[k] \in 0..255
    BY <2>1, ElementOfSeq
  <2>3. QED
    BY <1>1, <2>2 DEF Digit
<1>2. CASE ~(k <= Len(s))
  BY <1>2 DEF Digit
<1>3. QED
  BY <1>1, <1>2

\* The digits of a group are digits, and stand for its bytes.
LEMMA GroupValues ==
  ASSUME NEW s \in Seq(0..255), NEW m \in Nat
  PROVE  /\ Bits(s, 8, 24 * m, 6) \in 0..63 /\ Bits(s, 8, 24 * m + 6, 6) \in 0..63
         /\ Bits(s, 8, 24 * m + 12, 6) \in 0..63 /\ Bits(s, 8, 24 * m + 18, 6) \in 0..63
         /\ Octet1(Bits(s, 8, 24 * m, 6), Bits(s, 8, 24 * m + 6, 6)) = Digit(s, 3 * m + 1)
         /\ Octet2(Bits(s, 8, 24 * m + 6, 6), Bits(s, 8, 24 * m + 12, 6)) = Digit(s, 3 * m + 2)
         /\ Octet3(Bits(s, 8, 24 * m + 12, 6), Bits(s, 8, 24 * m + 18, 6)) = Digit(s, 3 * m + 3)
<1> DEFINE a == Digit(s, 3 * m + 1)
           b == Digit(s, 3 * m + 2)
           c == Digit(s, 3 * m + 3)
           d == Digit(s, 3 * m + 4)
           w == Bits(s, 8, 24 * m, 6)
           x == Bits(s, 8, 24 * m + 6, 6)
           y == Bits(s, 8, 24 * m + 12, 6)
           z == Bits(s, 8, 24 * m + 18, 6)
<1>1. a \in 0..255 /\ b \in 0..255 /\ c \in 0..255 /\ d \in 0..255
  <2>2. /\ 3 * m + 1 \in Nat \ {0} /\ 3 * m + 2 \in Nat \ {0}
        /\ 3 * m + 3 \in Nat \ {0} /\ 3 * m + 4 \in Nat \ {0}
    OBVIOUS
  <2>3. QED
    BY <2>2, DigitRange, Zenon
<1>2. w = Sextet1(a, b) /\ x = Sextet2(a, b) /\ y = Sextet3(b, c) /\ z = Sextet4(c, d)
  BY EncodedGroup, Zenon
<1>3. /\ w \in 0..63 /\ x \in 0..63 /\ y \in 0..63 /\ z \in 0..63
      /\ Octet1(w, x) = a /\ Octet2(x, y) = b /\ Octet3(y, z) = c
  <2> HIDE DEF a, b, c, d, w, x, y, z
  <2>1. GroupKept(a, b, c, d)
    BY <1>1, GroupOfThree, Zenon
  <2>2. QED
    BY <1>2, <2>1, Zenon DEF GroupKept
<1>4. QED
  BY <1>3

\* One group of bytes through the encoding and back.
LEMMA GroupRoundTrip ==
  ASSUME NEW s \in Seq(0..255), NEW m \in Nat, NEW t,
         NEW n \in Nat, n = (8 * Len(s) + 5) \div 6,
         \A i \in 1..n : Digit(t, i) = Bits(s, 8, 6 * (i - 1), 6)
  PROVE  /\ \A j \in {0, 6, 12, 18} : Bits(s, 8, 24 * m + j, 6) \in 0..63
         /\ 3 * m + 1 <= Len(s) => Bits(t, 6, 24 * m, 8) = s[3 * m + 1]
         /\ 3 * m + 2 <= Len(s) => Bits(t, 6, 24 * m + 8, 8) = s[3 * m + 2]
         /\ 3 * m + 3 <= Len(s) => Bits(t, 6, 24 * m + 16, 8) = s[3 * m + 3]
<1> DEFINE a == Digit(s, 3 * m + 1)
           b == Digit(s, 3 * m + 2)
           c == Digit(s, 3 * m + 3)
           d == Digit(s, 3 * m + 4)
           w == Bits(s, 8, 24 * m, 6)
           x == Bits(s, 8, 24 * m + 6, 6)
           y == Bits(s, 8, 24 * m + 12, 6)
           z == Bits(s, 8, 24 * m + 18, 6)
<1>3. /\ w \in 0..63 /\ x \in 0..63 /\ y \in 0..63 /\ z \in 0..63
      /\ Octet1(w, x) = a /\ Octet2(x, y) = b /\ Octet3(y, z) = c
  BY GroupValues, Zenon
<1>4. /\ 4 * m + 1 <= n => Digit(t, 4 * m + 1) = w
      /\ 4 * m + 2 <= n => Digit(t, 4 * m + 2) = x
      /\ 4 * m + 3 <= n => Digit(t, 4 * m + 3) = y
      /\ 4 * m + 4 <= n => Digit(t, 4 * m + 4) = z
  <2>1. /\ 6 * ((4 * m + 1) - 1) = 24 * m /\ 6 * ((4 * m + 2) - 1) = 24 * m + 6
        /\ 6 * ((4 * m + 3) - 1) = 24 * m + 12 /\ 6 * ((4 * m + 4) - 1) = 24 * m + 18
    OBVIOUS
  <2>2. /\ 4 * m + 1 <= n => 4 * m + 1 \in 1..n
        /\ 4 * m + 2 <= n => 4 * m + 2 \in 1..n
        /\ 4 * m + 3 <= n => 4 * m + 3 \in 1..n
        /\ 4 * m + 4 <= n => 4 * m + 4 \in 1..n
    OBVIOUS
  <2> HIDE DEF w, x, y, z
  <2>3. QED
    BY <2>1, <2>2, Zenon DEF w, x, y, z
<1>5. /\ 3 * m + 1 <= Len(s) => 4 * m + 1 <= n /\ 4 * m + 2 <= n
      /\ 3 * m + 2 <= Len(s) => 4 * m + 2 <= n /\ 4 * m + 3 <= n
      /\ 3 * m + 3 <= Len(s) => 4 * m + 3 <= n /\ 4 * m + 4 <= n
  BY SMT
<1>6. ASSUME 3 * m + 1 <= Len(s) PROVE Bits(t, 6, 24 * m, 8) = s[3 * m + 1]
  <2>1. Digit(t, 4 * m + 1) = w /\ Digit(t, 4 * m + 2) = x /\ a = s[3 * m + 1]
    BY <1>4, <1>5, <1>6, Zenon DEF Digit
  <2>2. QED
    BY <1>3, <2>1, DecodedGroup, Zenon
<1>7. ASSUME 3 * m + 2 <= Len(s) PROVE Bits(t, 6, 24 * m + 8, 8) = s[3 * m + 2]
  <2>1. Digit(t, 4 * m + 2) = x /\ Digit(t, 4 * m + 3) = y /\ b = s[3 * m + 2]
    BY <1>4, <1>5, <1>7, Zenon DEF Digit
  <2>2. QED
    BY <1>3, <2>1, DecodedGroup, Zenon
<1>8. ASSUME 3 * m + 3 <= Len(s) PROVE Bits(t, 6, 24 * m + 16, 8) = s[3 * m + 3]
  <2>1. Digit(t, 4 * m + 3) = y /\ Digit(t, 4 * m + 4) = z /\ c = s[3 * m + 3]
    BY <1>4, <1>5, <1>8, Zenon DEF Digit
  <2>2. QED
    BY <1>3, <2>1, DecodedGroup, Zenon
<1>9. \A j \in {0, 6, 12, 18} : Bits(s, 8, 24 * m + j, 6) \in 0..63
  <2>1. 24 * m + 0 = 24 * m
    OBVIOUS
  <2>2. QED
    BY <1>3, <2>1, Zenon
<1>10. QED
  BY <1>6, <1>7, <1>8, <1>9

\* Every digit that base64_encode() computes is an index into kBase64Chars.
LEMMA SextetRange ==
  ASSUME NEW s \in Seq(0..255), NEW i \in Nat
  PROVE  Bits(s, 8, 6 * i, 6) \in 0..63
<1> DEFINE m == i \div 4
           r == i % 4
<1>1. m \in Nat /\ r \in 0..3 /\ i = 4 * m + r
  BY SMT
<1> HIDE DEF m, r
<1>2. 6 * i = 24 * m + 6 * r
  BY <1>1
<1>3. r \in {0, 1, 2, 3}
  BY <1>1
<1>4. /\ r = 0 => 6 * i = 24 * m
      /\ r = 1 => 6 * i = 24 * m + 6
      /\ r = 2 => 6 * i = 24 * m + 12
      /\ r = 3 => 6 * i = 24 * m + 18
  BY <1>1, <1>2
<1>5. m \in Nat
  BY <1>1
<1>6. QED
  BY <1>3, <1>4, <1>5, GroupValues, Zenon

\* No digit is '='.
LEMMA SixBits == \A x \in 0..63 : x \in Int /\ x # Pad
  BY DEF Pad

\* The digit that base64_encode() computes in the i-th place.
Code(s, i) == Bits(s, 8, 6 * (i - 1), 6)

\* What base64_encode() returns: the digits, then '='.
LEMMA Encoded ==
  ASSUME NEW s \in Seq(0..255), NEW n, n = (8 * Len(s) + 5) \div 6,
         NEW e, e = base64_encode(s)
  PROVE  /\ n \in Nat
         /\ e \in Seq(Int)
         /\ n \in 0..Len(e)
         /\ \A i \in 1..n : e[i] = Code(s, i) /\ e[i] # Pad
         /\ \A i \in (n + 1)..Len(e) : e[i] = Pad
<1> DEFINE k == (-n) % 4
           digits == [i \in 1..n |-> Code(s, i)]
           pads == [i \in 1..k |-> Pad]
<1>1. n \in Nat /\ k \in Nat
  <2>1. Len(s) \in Nat
    OBVIOUS
  <2> DEFINE l == Len(s)
  <2> HIDE DEF l
  <2>2. n = (8 * l + 5) \div 6 /\ l \in Nat
    BY <2>1, Zenon DEF l
  <2>3. n \in Nat
    BY <2>2, SMT
  <2>4. QED
    BY <2>3, SMT
<1> HIDE DEF k
<1>2. \A i \in 1..n : Code(s, i) \in 0..63
  <2>1. ASSUME NEW i \in 1..n PROVE Code(s, i) \in 0..63
    <3>1. i - 1 \in Nat
      BY <1>1
    <3>2. \A j \in Nat : Bits(s, 8, 6 * j, 6) \in 0..63
      BY SextetRange
    <3>3. QED
      BY <3>1, <3>2, Zenon DEF Code
  <2>2. QED
    BY <2>1
<1>3. digits \in Seq(Int) /\ pads \in Seq(Int) /\ Len(digits) = n /\ Len(pads) = k
  <2>1. \A i \in 1..n : Code(s, i) \in Int
    BY <1>2, SixBits, Zenon
  <2>2. digits \in Seq(Int) /\ Len(digits) = n
    BY <1>1, <2>1
  <2>3. Pad \in Int
    BY DEF Pad
  <2>4. pads \in Seq(Int) /\ Len(pads) = k
    BY <1>1, <2>3
  <2>5. QED
    BY <2>2, <2>4
<1>4. e = digits \o pads
  BY Zenon DEF base64_encode, k, Code
<1>5. Len(e) = n + k /\ e \in Seq(Int)
  BY <1>1, <1>3, <1>4
<1>6. ASSUME NEW i \in 1..n PROVE e[i] = Code(s, i) /\ e[i] # Pad
  <2>1. e[i] = digits[i] /\ digits[i] = Code(s, i)
    BY <1>1, <1>3, <1>4
  <2>2. Code(s, i) \in 0..63
    BY <1>2
  <2>3. QED
    BY <2>1, <2>2, SixBits, Zenon
<1>7. ASSUME NEW i \in (n + 1)..Len(e) PROVE e[i] = Pad
  <2>1. e[i] = pads[i - n] /\ i - n \in 1..k
    BY <1>1, <1>3, <1>4, <1>5
  <2>2. QED
    BY <2>1
<1>8. QED
  BY <1>1, <1>5, <1>6, <1>7

\* The byte in every place comes back from the digits.
LEMMA ByteRoundTrip ==
  ASSUME NEW s \in Seq(0..255), NEW t,
         NEW n \in Nat, n = (8 * Len(s) + 5) \div 6,
         \A i \in 1..n : Digit(t, i) = Bits(s, 8, 6 * (i - 1), 6),
         NEW j \in Nat, j + 1 <= Len(s)
  PROVE  Bits(t, 6, 8 * j, 8) = s[j + 1]
<1> DEFINE m == j \div 3
           r == j % 3
           l == Len(s)
<1>1. m \in Nat /\ r \in 0..2 /\ j = 3 * m + r
  BY SMT
<1>2. l \in Nat
  OBVIOUS
<1>3. m \in Nat => /\ 3 * m + 1 <= l => Bits(t, 6, 24 * m, 8) = s[3 * m + 1]
                   /\ 3 * m + 2 <= l => Bits(t, 6, 24 * m + 8, 8) = s[3 * m + 2]
                   /\ 3 * m + 3 <= l => Bits(t, 6, 24 * m + 16, 8) = s[3 * m + 3]
  BY GroupRoundTrip, Zenon
<1>4. j + 1 <= l
  OBVIOUS
<1> HIDE DEF m, r, l
<1>5. r \in {0, 1, 2}
  BY <1>1
<1>6. /\ r = 0 => 8 * j = 24 * m /\ j + 1 = 3 * m + 1
      /\ r = 1 => 8 * j = 24 * m + 8 /\ j + 1 = 3 * m + 2
      /\ r = 2 => 8 * j = 24 * m + 16 /\ j + 1 = 3 * m + 3
  BY <1>1
<1>7. QED
  BY <1>1, <1>3, <1>4, <1>5, <1>6, Zenon

\* What a page's cursor carries comes back: base64_decode() undoes base64_encode(),
\* for every text.
THEOREM Base64RoundTrip ==
  ASSUME NEW s \in Seq(0..255)
  PROVE  base64_decode(base64_encode(s)) = s
<1> DEFINE n == (8 * Len(s) + 5) \div 6
           e == base64_encode(s)
           t == SubSeq(e, 1, n)
<1>1. /\ n \in Nat /\ e \in Seq(Int) /\ n \in 0..Len(e)
      /\ \A i \in 1..n : e[i] = Code(s, i) /\ e[i] # Pad
      /\ \A i \in (n + 1)..Len(e) : e[i] = Pad
  <2>1. n = (8 * Len(s) + 5) \div 6 /\ e = base64_encode(s)
    OBVIOUS
  <2> HIDE DEF e, n
  <2>2. QED
    BY <2>1, Encoded
<1>2. Digits(e) = t
  <2> HIDE DEF e, n
  <2>1. QED
    BY <1>1, DigitsBeforePads
<1>3. Len(t) = n /\ \A i \in 1..n : t[i] = Code(s, i)
  <2> HIDE DEF e, n
  <2>1. QED
    BY <1>1
<1>4. (6 * n) \div 8 = Len(s)
  <2>1. Len(s) \in Nat
    OBVIOUS
  <2> DEFINE l == Len(s)
  <2>2. l \in Nat /\ n = (8 * l + 5) \div 6
    BY <2>1
  <2> HIDE DEF l, n
  <2>3. 6 * n \in (8 * l)..(8 * l + 5)
    BY <2>2, SMT
  <2>4. (6 * n) \div 8 = l
    BY <1>1, <2>2, <2>3, SMT
  <2>5. QED
    BY <2>4 DEF l
<1> HIDE DEF t
<1>5. base64_decode(e) = [k \in 1..Len(s) |-> Bits(t, 6, 8 * (k - 1), 8)]
  BY <1>2, <1>3, <1>4, Zenon DEF base64_decode
<1>6. \A i \in 1..n : Digit(t, i) = Bits(s, 8, 6 * (i - 1), 6)
  <2> HIDE DEF n
  <2>1. \A i \in 1..n : i <= Len(t)
    BY <1>1, <1>3
  <2>2. QED
    BY <1>3, <2>1, Zenon DEF Digit, Code
<1>7. \A k \in 1..Len(s) : Bits(t, 6, 8 * (k - 1), 8) = s[k]
  <2>1. ASSUME NEW j \in Nat, j + 1 <= Len(s) PROVE Bits(t, 6, 8 * j, 8) = s[j + 1]
    BY <1>1, <1>6, <2>1, ByteRoundTrip, Zenon
  <2>2. \A k \in 1..Len(s) : k - 1 \in Nat /\ (k - 1) + 1 <= Len(s) /\ (k - 1) + 1 = k
    <3> HIDE DEF n
    <3>1. QED
      OBVIOUS
  <2>3. QED
    BY <2>1, <2>2, Zenon
<1>8. s = [k \in 1..Len(s) |-> s[k]]
  <2> HIDE DEF n, e
  <2>1. QED
    OBVIOUS
<1>9. QED
  BY <1>5, <1>7, <1>8, Zenon

\* Two sequences with a byte between them.
LEMMA Joined ==
  ASSUME NEW S, NEW u \in Seq(S), NEW v \in Seq(S), NEW b \in S,
         NEW s, s = u \o <<b>> \o v
  PROVE  /\ s \in Seq(S) /\ Len(s) = Len(u) + 1 + Len(v)
         /\ \A k \in 1..Len(u) : s[k] = u[k]
         /\ s[Len(u) + 1] = b
         /\ SubSeq(s, 1, Len(u)) = u
         /\ SubSeq(s, Len(u) + 2, Len(s)) = v
<1> DEFINE n == Len(u)
           l == Len(v)
<1>1. n \in Nat /\ l \in Nat
  OBVIOUS
<1>2. s \in Seq(S) /\ Len(s) = n + 1 + l
  OBVIOUS
<1>3. \A k \in 1..n : s[k] = u[k]
  OBVIOUS
<1>4. s[n + 1] = b
  OBVIOUS
<1>5. \A k \in 1..l : s[n + 1 + k] = v[k]
  OBVIOUS
<1>6. SubSeq(s, 1, n) = u
  <2> DEFINE t == SubSeq(s, 1, n)
  <2>1. t \in Seq(S) /\ Len(t) = n /\ \A k \in 1..n : t[k] = s[k]
    BY <1>1, <1>2
  <2> HIDE DEF t
  <2>2. t = u
    BY <1>1, <1>3, <2>1, SeqEqual
  <2>3. QED
    BY <2>2 DEF t
<1>7. SubSeq(s, n + 2, Len(s)) = v
  <2> DEFINE t == SubSeq(s, n + 2, Len(s))
  <2>1. t \in Seq(S) /\ Len(t) = l /\ \A k \in 1..l : t[k] = s[n + 1 + k]
    <3> HIDE DEF n, l
    <3>1. QED
      BY <1>1, <1>2
  <2> HIDE DEF t
  <2>2. t = v
    BY <1>1, <1>5, <2>1, SeqEqual
  <2>3. QED
    BY <2>2 DEF t
<1>8. QED
  BY <1>2, <1>3, <1>4, <1>6, <1>7

\* A position whose texts are known.
Texts == [at : DOMAIN TimeText, id : DOMAIN IdText]

\* The first bar of a position's text is the one between its time and its id.
LEMMA TextOfPosition ==
  ASSUME NEW p \in Texts, NEW n, n = Len(TimeText[p.at]), NEW s, s = Text(p)
  PROVE  /\ s \in Seq(0..255)
         /\ Separator(s) = n + 1 /\ n \in Nat \ {0} /\ n + 1 < Len(s)
         /\ SubSeq(s, 1, n) = TimeText[p.at]
         /\ SubSeq(s, n + 2, Len(s)) = IdText[p.id]
<1> DEFINE time == TimeText[p.at]
           uuid == IdText[p.id]
           bars == {i \in DOMAIN s : s[i] = Bar}
           bytes == 0..255
<1>1. p.at \in DOMAIN TimeText /\ p.id \in DOMAIN IdText
  BY DEF Texts
<1>2. time \in Seq(bytes \ {Bar}) \ {<<>>} /\ uuid \in Seq(bytes) \ {<<>>}
  BY <1>1, TextAssumption, Zenon
<1>3. Bar \in bytes
  BY DEF Bar
<1>4. s = time \o <<Bar>> \o uuid /\ n = Len(time)
  BY Zenon DEF Text
<1> HIDE DEF time, uuid, bytes
<1>5. time \in Seq(bytes) /\ uuid \in Seq(bytes) /\ \A k \in 1..n : time[k] # Bar
  <2>1. \A k \in 1..n : time[k] \in bytes \ {Bar}
    BY <1>2, <1>4, ElementOfSeq
  <2>2. time \in Seq(bytes)
    BY <1>2
  <2>3. QED
    BY <1>2, <2>1, <2>2
<1>6. n \in Nat \ {0} /\ Len(uuid) \in Nat \ {0}
  BY <1>2, <1>4, <1>5, EmptySeq
<1>7. /\ s \in Seq(bytes) /\ Len(s) = n + 1 + Len(uuid)
      /\ \A k \in 1..n : s[k] = time[k]
      /\ s[n + 1] = Bar
      /\ SubSeq(s, 1, n) = time
      /\ SubSeq(s, n + 2, Len(s)) = uuid
  BY <1>3, <1>4, <1>5, Joined
<1>8. n + 1 \in bars /\ \A i \in bars : n + 1 <= i
  <2>1. DOMAIN s = 1..Len(s) /\ n + 1 \in 1..Len(s)
    BY <1>6, <1>7
  <2>2. ASSUME NEW i \in 1..Len(s), s[i] = Bar PROVE n + 1 <= i
    <3> SUFFICES ASSUME ~(n + 1 <= i) PROVE FALSE
      OBVIOUS
    <3>1. i \in 1..n
      BY <1>6, <1>7
    <3>2. QED
      BY <1>5, <1>7, <2>2, <3>1, Zenon
  <2>3. QED
    BY <1>7, <2>1, <2>2, Zenon
<1>9. Separator(s) = n + 1
  <2>1. Separator(s) = IF bars = {} THEN 0 ELSE CHOOSE i \in bars : \A j \in bars : i <= j
    BY Zenon DEF Separator
  <2>2. bars \subseteq Int
    BY <1>7
  <2> HIDE DEF bars
  <2>3. \A k \in bars : (\A j \in bars : k <= j) => k = n + 1
    BY <1>6, <1>8, <2>2
  <2>4. QED
    BY <1>8, <2>1, <2>3, Zenon
<1>10. n + 1 < Len(s)
  BY <1>6, <1>7
<1>11. QED
  BY <1>6, <1>7, <1>9, <1>10, Zenon DEF time, uuid, bytes

\* A cursor says exactly which row it was made from, and list() accepts it.
THEOREM CursorRoundTrip ==
  ASSUME NEW p \in [at : DOMAIN TimeText, id : DOMAIN IdText]
  PROVE  /\ decode_cursor(encode_cursor(p)) = p
         /\ ~Malformed(encode_cursor(p))
         /\ encode_cursor(p) # <<>>
<1> DEFINE s == Text(p)
           c == encode_cursor(p)
           n == Len(TimeText[p.at])
<1>1. /\ s \in Seq(0..255)
      /\ Separator(s) = n + 1 /\ n \in Nat \ {0} /\ n + 1 < Len(s)
      /\ SubSeq(s, 1, n) = TimeText[p.at]
      /\ SubSeq(s, n + 2, Len(s)) = IdText[p.id]
  <2>1. p \in Texts /\ s = Text(p) /\ n = Len(TimeText[p.at])
    BY DEF Texts
  <2> HIDE DEF s, n
  <2>2. QED
    BY <2>1, TextOfPosition
<1>2. base64_decode(c) = s
  <2>1. c = base64_encode(s)
    BY Zenon DEF encode_cursor
  <2> HIDE DEF c, s, n
  <2>2. QED
    BY <1>1, <2>1, Base64RoundTrip, Zenon
<1>3. p.at \in DOMAIN TimeText /\ p.id \in DOMAIN IdText /\ p = [at |-> p.at, id |-> p.id]
  OBVIOUS
<1>4. (n + 1) - 1 = n /\ (n + 1) + 1 = n + 2 /\ n + 1 \notin {0, 1, Len(s)}
  <2> HIDE DEF s, n
  <2>1. QED
    BY <1>1
<1> HIDE DEF n
<1>5. ~Malformed(c)
  BY <1>1, <1>2, <1>4, Zenon DEF Malformed
<1>6. decode_cursor(c) = [at |-> CHOOSE t \in DOMAIN TimeText : TimeText[t] = SubSeq(s, 1, (n + 1) - 1),
                          id |-> CHOOSE i \in DOMAIN IdText : IdText[i] = SubSeq(s, (n + 1) + 1, Len(s))]
  BY <1>1, <1>2, Zenon DEF decode_cursor
<1>7. (CHOOSE t \in DOMAIN TimeText : TimeText[t] = SubSeq(s, 1, (n + 1) - 1)) = p.at
  <2>1. TimeText[p.at] = SubSeq(s, 1, (n + 1) - 1)
    BY <1>1, <1>4, Zenon
  <2>2. \A t \in DOMAIN TimeText : TimeText[t] = TimeText[p.at] => t = p.at
    BY <1>3, TextAssumption, Zenon
  <2> HIDE DEF s
  <2>3. QED
    BY <1>3, <2>1, <2>2, Zenon
<1>8. (CHOOSE i \in DOMAIN IdText : IdText[i] = SubSeq(s, (n + 1) + 1, Len(s))) = p.id
  <2>1. IdText[p.id] = SubSeq(s, (n + 1) + 1, Len(s))
    BY <1>1, <1>4, Zenon
  <2>2. \A i \in DOMAIN IdText : IdText[i] = IdText[p.id] => i = p.id
    BY <1>3, TextAssumption, Zenon
  <2> HIDE DEF s
  <2>3. QED
    BY <1>3, <2>1, <2>2, Zenon
<1>9. decode_cursor(c) = p
  BY <1>3, <1>6, <1>7, <1>8, Zenon
<1>10. c # <<>>
  <2> SUFFICES ASSUME c = <<>> PROVE FALSE
    OBVIOUS
  <2> DEFINE l == (8 * Len(s) + 5) \div 6
  <2>1. l = (8 * Len(s) + 5) \div 6 /\ c = base64_encode(s)
    BY Zenon DEF encode_cursor
  <2> HIDE DEF l, c, s
  <2>2. l \in 0..Len(c)
    BY <1>1, <2>1, Encoded
  <2>3. Len(c) = 0 /\ Len(s) \in Nat \ {0}
    BY <1>1
  <2>4. QED
    BY <2>1, <2>2, <2>3
<1>11. QED
  BY <1>5, <1>9, <1>10

-----------------------------------------------------------------------------
(* The order of the rows, and what ORDER BY ... LIMIT n keeps of them *)

Place == [at : Int, id : Int]

Above(p, S) == {q \in S : Newer(q, p)}
Behind(p, S) == {q \in S : Newer(p, q)}

\* (updated_at, id) orders the positions strictly and totally.
LEMMA NewerOrder ==
  /\ \A p \in Place : ~Newer(p, p)
  /\ \A p, q \in Place : Newer(p, q) \/ Newer(q, p) \/ p = q
  /\ \A p, q, r \in Place : Newer(p, q) /\ Newer(q, r) => Newer(p, r)
<1>1. \A p \in Place : p.at \in Int /\ p.id \in Int
  BY DEF Place
<1>2. \A p, q \in Place : p.at = q.at /\ p.id = q.id => p = q
  BY DEF Place
<1>3. ASSUME NEW p \in Place, NEW q \in Place
      PROVE  ~Newer(p, p) /\ (Newer(p, q) \/ Newer(q, p) \/ p = q)
  BY <1>1, <1>2 DEF Newer
<1>4. ASSUME NEW p \in Place, NEW q \in Place, NEW r \in Place, Newer(p, q), Newer(q, r)
      PROVE  Newer(p, r)
  BY <1>1, <1>4 DEF Newer
<1>5. QED
  BY <1>3, <1>4

\* A set of sets has a least one.
LEMMA LeastSet ==
  ASSUME NEW S, IsFiniteSet(S), NEW U, U \subseteq SUBSET S, U # {}
  PROVE  \E b \in U : \A c \in U : ~(c \subseteq b /\ c # b)
<1>1. FiniteSubsetsOf(S) = SUBSET S
  BY FS_FiniteSubsetsOfFinite, Zenon
<1>2. IsWellFoundedOn(StrictSubsetOrdering(S), SUBSET S)
  BY <1>1, FS_StrictSubsetOrderingWellFounded
<1>3. PICK b \in U : \A c \in U : <<c, b>> \notin StrictSubsetOrdering(S)
  BY <1>2, WFMin
<1>4. ASSUME NEW c \in U, c \subseteq b, c # b PROVE FALSE
  BY <1>3, <1>4 DEF StrictSubsetOrdering
<1>5. QED
  BY <1>4

\* One of the rows is the newest.
LEMMA NewestExists ==
  ASSUME NEW S \in SUBSET Place, IsFiniteSet(S), S # {}
  PROVE  \E p \in S : \A q \in S : ~Newer(q, p)
<1> DEFINE U == {Above(p, S) : p \in S}
<1>1. U \subseteq SUBSET S /\ U # {}
  BY DEF Above
<1>2. PICK b \in U : \A c \in U : ~(c \subseteq b /\ c # b)
  <2> HIDE DEF U
  <2>1. QED
    BY <1>1, LeastSet
<1>3. PICK p \in S : b = Above(p, S)
  OBVIOUS
<1>4. ASSUME NEW q \in S, Newer(q, p) PROVE FALSE
  <2>1. q \in Above(p, S) /\ q \notin Above(q, S)
    BY <1>4, NewerOrder, Zenon DEF Above
  <2>2. Above(q, S) \subseteq Above(p, S)
    BY <1>4, NewerOrder, Zenon DEF Above
  <2>3. Above(q, S) \in U
    OBVIOUS
  <2>4. QED
    BY <1>2, <1>3, <2>1, <2>2, <2>3, Zenon
<1>5. QED
  BY <1>4

\* One of the rows is the oldest.
LEMMA OldestExists ==
  ASSUME NEW S \in SUBSET Place, IsFiniteSet(S), S # {}
  PROVE  \E p \in S : \A q \in S : ~Newer(p, q)
<1> DEFINE U == {Behind(p, S) : p \in S}
<1>1. U \subseteq SUBSET S /\ U # {}
  BY DEF Behind
<1>2. PICK b \in U : \A c \in U : ~(c \subseteq b /\ c # b)
  <2> HIDE DEF U
  <2>1. QED
    BY <1>1, LeastSet
<1>3. PICK p \in S : b = Behind(p, S)
  OBVIOUS
<1>4. ASSUME NEW q \in S, Newer(p, q) PROVE FALSE
  <2>1. q \in Behind(p, S) /\ q \notin Behind(q, S)
    BY <1>4, NewerOrder, Zenon DEF Behind
  <2>2. Behind(q, S) \subseteq Behind(p, S)
    BY <1>4, NewerOrder, Zenon DEF Behind
  <2>3. Behind(q, S) \in U
    OBVIOUS
  <2>4. QED
    BY <1>2, <1>3, <2>1, <2>2, <2>3, Zenon
<1>5. QED
  BY <1>4

\* First(n, S) by the number of rows above each.
LEMMA FirstIsAPrefix ==
  ASSUME NEW S \in SUBSET Place, IsFiniteSet(S), NEW n \in Nat
  PROVE  /\ First(n, S) \subseteq S
         /\ \A p \in S : IsFiniteSet(Above(p, S)) /\ Cardinality(Above(p, S)) \in Nat
         /\ \A p \in S : p \in First(n, S) <=> Cardinality(Above(p, S)) < n
         /\ \A p, q \in S : Newer(p, q) /\ q \in First(n, S) => p \in First(n, S)
         /\ \A p \in S \ First(n, S), q \in First(n, S) : Newer(q, p)
<1>1. First(n, S) \subseteq S
  BY DEF First
<1>2. \A p \in S : p \in First(n, S) <=> Cardinality(Above(p, S)) < n
  BY Zenon DEF First, Above
<1>3. ASSUME NEW p \in S PROVE IsFiniteSet(Above(p, S)) /\ Cardinality(Above(p, S)) \in Nat
  <2>1. Above(p, S) \in SUBSET S
    BY DEF Above
  <2>2. QED
    BY <2>1, FS_Subset, FS_CardinalityType
<1>4. ASSUME NEW p \in S, NEW q \in S, Newer(p, q), q \in First(n, S)
      PROVE  p \in First(n, S)
  <2>1. Above(p, S) \in SUBSET Above(q, S)
    BY <1>4, NewerOrder, Zenon DEF Above
  <2>2. Cardinality(Above(p, S)) <= Cardinality(Above(q, S))
    BY <1>3, <2>1, FS_Subset
  <2>3. QED
    BY <1>2, <1>3, <1>4, <2>2
<1>5. ASSUME NEW p \in S \ First(n, S), NEW q \in First(n, S) PROVE Newer(q, p)
  <2>1. q \in S /\ q # p /\ q \in Place /\ p \in Place
    BY <1>1
  <2>2. ~Newer(p, q)
    BY <1>4, <2>1
  <2>3. QED
    BY <2>1, <2>2, NewerOrder, Zenon
<1>6. QED
  BY <1>1, <1>2, <1>3, <1>4, <1>5

\* Cutting the result to the page leaves what LIMIT n alone would have.
LEMMA FirstOfFirst ==
  ASSUME NEW S \in SUBSET Place, IsFiniteSet(S), NEW n \in Nat
  PROVE  First(n, First(n + 1, S)) = First(n, S)
<1> DEFINE R == First(n + 1, S)
<1>1. /\ R \subseteq S
      /\ \A p, q \in S : Newer(p, q) /\ q \in R => p \in R
      /\ \A p \in S : p \in R <=> Cardinality(Above(p, S)) < n + 1
  BY FirstIsAPrefix
<1>2. R \in SUBSET Place /\ IsFiniteSet(R)
  BY <1>1, FS_Subset
<1> HIDE DEF R
<1>3. ASSUME NEW p \in R PROVE Above(p, R) = Above(p, S)
  BY <1>1, Zenon DEF Above
<1>4. \A p \in S : /\ Cardinality(Above(p, S)) \in Nat
                   /\ p \in First(n, S) <=> Cardinality(Above(p, S)) < n
  BY FirstIsAPrefix, Zenon
<1>5. /\ First(n, R) \subseteq R /\ First(n, S) \subseteq S
      /\ \A p \in R : p \in First(n, R) <=> Cardinality(Above(p, R)) < n
  BY <1>2, FirstIsAPrefix, Zenon
<1>6. First(n, S) \subseteq R
  BY <1>1, <1>4, <1>5
<1>7. \A p \in R : p \in First(n, R) <=> p \in First(n, S)
  BY <1>1, <1>3, <1>4, <1>5, Zenon
<1>8. First(n, R) = First(n, S)
  BY <1>5, <1>6, <1>7, Zenon
<1>9. QED
  BY <1>8 DEF R

\* The one row more tells exactly whether rows are left behind the page.
LEMMA OneMoreRow ==
  ASSUME NEW S \in SUBSET Place, IsFiniteSet(S), NEW n \in Nat
  PROVE  Cardinality(First(n + 1, S)) > n <=> \E p \in S : p \notin First(n, S)
<1> DEFINE R == First(n + 1, S)
           items == First(n, S)
<1>1. /\ R \subseteq S /\ items \subseteq S
      /\ \A p \in S : IsFiniteSet(Above(p, S)) /\ Cardinality(Above(p, S)) \in Nat
      /\ \A p \in S : p \in R <=> Cardinality(Above(p, S)) < n + 1
      /\ \A p \in S : p \in items <=> Cardinality(Above(p, S)) < n
      /\ \A p \in S \ items, q \in items : Newer(q, p)
  BY FirstIsAPrefix
<1>2. /\ IsFiniteSet(R) /\ Cardinality(R) \in Nat
      /\ IsFiniteSet(items) /\ Cardinality(items) \in Nat
  <2>1. IsFiniteSet(R) /\ IsFiniteSet(items)
    BY <1>1, FS_Subset
  <2>2. QED
    BY <2>1, FS_CardinalityType
<1> HIDE DEF R, items
<1>3. items \subseteq R
  BY <1>1
<1>4. ASSUME S # items PROVE Cardinality(R) > n
  <2>1. S \ items \in SUBSET Place /\ IsFiniteSet(S \ items) /\ S \ items # {}
    BY <1>1, <1>4, FS_Subset
  <2>2. PICK x \in S \ items : \A q \in S \ items : ~Newer(q, x)
    BY <2>1, NewestExists
  <2>3. Above(x, S) = items
    BY <1>1, <2>2, Zenon DEF Above
  <2>4. Cardinality(items) >= n
    BY <1>1, <1>2, <2>2, <2>3
  <2>5. CASE Cardinality(items) = n
    <3>1. x \in R
      BY <1>1, <2>2, <2>3, <2>5
    <3>2. items \cup {x} \in SUBSET R
      BY <1>3, <3>1
    <3>3. Cardinality(items \cup {x}) = n + 1
      BY <1>2, <2>2, <2>5, FS_AddElement
    <3>4. Cardinality(items \cup {x}) <= Cardinality(R)
      BY <1>2, <3>2, FS_Subset
    <3>5. QED
      BY <1>2, <3>3, <3>4
  <2>6. CASE Cardinality(items) > n
    <3>1. Cardinality(items) <= Cardinality(R)
      BY <1>2, <1>3, FS_Subset
    <3>2. QED
      BY <1>2, <2>6, <3>1
  <2>7. QED
    BY <1>2, <2>4, <2>5, <2>6
<1>5. ASSUME S = items, Cardinality(R) > n PROVE FALSE
  <2>1. R = S
    BY <1>1, <1>3, <1>5
  <2>2. S # {}
    BY <1>5, <2>1, FS_EmptySet
  <2>3. PICK x \in S : \A q \in S : ~Newer(x, q)
    BY <2>2, OldestExists
  <2>4. Above(x, S) = S \ {x}
    BY <2>3, NewerOrder, Zenon DEF Above
  <2>5. Cardinality(S \ {x}) = Cardinality(S) - 1
    BY <2>3, FS_RemoveElement
  <2>6. Cardinality(Above(x, S)) < n
    BY <1>1, <1>5, <2>3
  <2>7. QED
    BY <1>2, <1>5, <2>1, <2>4, <2>5, <2>6
<1>6. Cardinality(R) > n <=> \E p \in S : p \notin items
  BY <1>1, <1>4, <1>5, Zenon
<1>7. QED
  BY <1>6 DEF R, items

\* A page with room for a row holds one if there is one.
LEMMA FirstHasOne ==
  ASSUME NEW S \in SUBSET Place, IsFiniteSet(S), S # {}, NEW n \in Nat \ {0}
  PROVE  First(n, S) # {}
<1>1. PICK p \in S : \A q \in S : ~Newer(q, p)
  BY NewestExists
<1>2. Above(p, S) = {}
  BY <1>1 DEF Above
<1>3. Cardinality(Above(p, S)) < n
  BY <1>2, FS_EmptySet
<1>4. p \in First(n, S)
  BY <1>3, FirstIsAPrefix
<1>5. QED
  BY <1>4

\* Back() of a page is its oldest row.
LEMMA BackIsOldest ==
  ASSUME NEW S \in SUBSET Place, IsFiniteSet(S), S # {}
  PROVE  Back(S) \in S /\ \A q \in S : q = Back(S) \/ Newer(q, Back(S))
<1>1. \E p \in S : \A q \in S : ~Newer(p, q)
  BY OldestExists
<1>2. Back(S) \in S /\ \A q \in S : ~Newer(Back(S), q)
  <2>1. Back(S) = CHOOSE p \in S : \A q \in S : ~Newer(p, q)
    BY Zenon DEF Back
  <2>2. QED
    BY <1>1, <2>1, Zenon
<1>3. QED
  BY <1>2, NewerOrder, Zenon

-----------------------------------------------------------------------------
(* One page *)

\* The rows that can be listed.
Row == [live : {TRUE}, at : 1..MaxTime, status : Statuses]

\* A row in the table has a position.
LEMMA LiveRow ==
  ASSUME TypeOK, NEW i \in Ids, rows[i].live
  PROVE  rows[i] \in Row /\ rows[i].at \in 1..MaxTime /\ Position(i) \in Positions
<1>1. rows[i] \in Row \cup {NoRow, Gone}
  BY DEF TypeOK, Row
<1>2. rows[i] # NoRow /\ rows[i] # Gone
  BY DEF NoRow, Gone
<1>3. rows[i] \in Row
  BY <1>1, <1>2
<1>4. rows[i].at \in 1..MaxTime
  BY <1>3 DEF Row
<1>5. QED
  BY <1>3, <1>4 DEF Position, Positions

\* Positions have texts, and are ordered.
LEMMA PositionsFit ==
  Positions = [at : DOMAIN TimeText, id : DOMAIN IdText] /\ Positions \subseteq Place
<1>1. 1..MaxTime \subseteq Int /\ Ids \subseteq Int
  BY IdAssumption, TimeAssumption
<1>2. QED
  BY <1>1, IdAssumption, TimeAssumption, Zenon DEF Positions, Place

\* The cursor of a position.
LEMMA CursorOfPosition ==
  ASSUME NEW p \in Positions
  PROVE  /\ decode_cursor(encode_cursor(p)) = p
         /\ ~Malformed(encode_cursor(p)) /\ encode_cursor(p) # <<>>
<1>1. p \in [at : DOMAIN TimeText, id : DOMAIN IdText]
  BY PositionsFit, Zenon
<1>2. QED
  BY <1>1, CursorRoundTrip, Zenon

\* A cursor that a page came with is a position's.
LEMMA CursorHasPosition ==
  ASSUME TypeOK, cursor # <<>>
  PROVE  decode_cursor(cursor) \in Positions /\ ~Malformed(cursor)
<1>1. PICK p \in Positions : cursor = encode_cursor(p)
  BY Zenon DEF TypeOK, Cursors
<1>2. QED
  BY <1>1, CursorOfPosition, Zenon

\* The rows that the WHERE clause leaves are finitely many positions.
LEMMA SelectedRows ==
  ASSUME TypeOK
  PROVE  /\ Selected \subseteq Positions /\ Selected \subseteq Place /\ IsFiniteSet(Selected)
         /\ \A i \in Ids : Matches(i) /\ After(Position(i), cursor) => Position(i) \in Selected
         /\ \A p \in Selected : /\ p.id \in Ids /\ p = Position(p.id) /\ p.at = rows[p.id].at
                                /\ Matches(p.id) /\ rows[p.id].live /\ After(p, cursor)
<1>1. ASSUME NEW p \in Selected
      PROVE  /\ p.id \in Ids /\ p = Position(p.id) /\ p.at = rows[p.id].at
             /\ Matches(p.id) /\ rows[p.id].live /\ After(p, cursor)
  <2>1. PICK i \in Ids : Matches(i) /\ After(Position(i), cursor) /\ p = Position(i)
    BY Zenon DEF Selected
  <2>2. p.id = i /\ p.at = rows[i].at
    BY <2>1 DEF Position
  <2>3. rows[i].live
    BY <2>1, Zenon DEF Matches
  <2>4. QED
    BY <2>1, <2>2, <2>3, Zenon
<1>2. Selected \subseteq Positions
  BY <1>1, LiveRow, Zenon
<1>3. IsFiniteSet(Selected)
  <2>2. IsFiniteSet(Ids)
    BY IdAssumption
  <2> DEFINE f == [p \in Selected |-> p.id]
  <2>3. f \in [Selected -> Ids]
    BY <1>1
  <2>4. \A p, q \in Selected : f[p] = f[q] => p = q
    BY <1>1, Zenon
  <2>5. f \in Injection(Selected, Ids)
    BY <2>3, <2>4, Zenon DEF Injection, IsInjective
  <2>6. QED
    BY <2>2, <2>5, FS_Injection, Zenon
<1>4. \A i \in Ids : Matches(i) /\ After(Position(i), cursor) => Position(i) \in Selected
  BY Zenon DEF Selected
<1>5. QED
  BY <1>1, <1>2, <1>3, <1>4, PositionsFit, Zenon

\* A page and what it leaves behind.
LEMMA PageOfRows ==
  ASSUME TypeOK, NEW limit \in Limits,
         NEW items, items = First(PageSize(limit), Result(limit))
  PROVE  /\ items \subseteq Selected
         /\ \A p \in Selected \ items, q \in items : Newer(q, p)
         /\ Cardinality(Result(limit)) > PageSize(limit) <=> \E p \in Selected : p \notin items
         /\ Selected # {} => items # {}
         /\ items # {} => Back(items) \in items /\ \A q \in items : q = Back(items) \/ Newer(q, Back(items))
<1> DEFINE S == Selected
           n == PageSize(limit)
<1>1. S \in SUBSET Place /\ IsFiniteSet(S)
  BY SelectedRows, Zenon
<1>2. n \in Nat \ {0}
  BY LimitAssumption DEF PageSize
<1> HIDE DEF S, n
<1>3. items = First(n, First(n + 1, S)) /\ Result(limit) = First(n + 1, S)
  BY Zenon DEF n, S, Result
<1>4. items = First(n, S)
  <2>1. n \in Nat
    BY <1>2
  <2>2. QED
    BY <1>1, <1>3, <2>1, FirstOfFirst, Zenon
<1>5. items \subseteq S /\ \A p \in S \ items, q \in items : Newer(q, p)
  BY <1>1, <1>2, <1>4, FirstIsAPrefix
<1>6. Cardinality(Result(limit)) > n <=> \E p \in S : p \notin items
  BY <1>1, <1>2, <1>3, <1>4, OneMoreRow
<1>7. S # {} => items # {}
  BY <1>1, <1>2, <1>4, FirstHasOne
<1>8. items # {} => Back(items) \in items /\ \A q \in items : q = Back(items) \/ Newer(q, Back(items))
  <2>1. items \in SUBSET Place /\ IsFiniteSet(items)
    BY <1>1, <1>5, FS_Subset
  <2>2. QED
    BY <2>1, BackIsOldest, Zenon
<1>9. QED
  BY <1>5, <1>6, <1>7, <1>8, Zenon DEF S, n

-----------------------------------------------------------------------------
(* The invariant *)

\* The rows listed so far are in front of the next page.
CursorBehind ==
  walk = "walking" =>
    IF cursor = <<>> THEN page = {} /\ seen = {}
    ELSE \A q \in seen \cup page : q = decode_cursor(cursor) \/ Newer(q, decode_cursor(cursor))

\* A listed row has kept the time it was listed with, has got a later one, or
\* was overtaken.
TimesKept ==
  \A q \in seen \cup page :
    rows[q.id] # NoRow /\ (rows[q.id].live /\ q.id \notin overtaken => rows[q.id].at >= q.at)

IInv == TypeOK /\ CursorBehind /\ PagesDescend /\ StillRowsAreListed
          /\ TimesKept /\ RepeatedOnlyWhenOvertaken

\* What create, update and remove have in common.
Committed(w, i, r) ==
  /\ began[w] \in 1..MaxTime
  /\ rows[i].live \/ rows[i] = NoRow
  /\ (r \in Row /\ r.at = began[w]) \/ r = Gone
  /\ Commits(w, i, r)

\* A transaction that writes commits one row.
LEMMA WritesCommit ==
  ASSUME TypeOK, NEW w \in Writers, Create(w) \/ Update(w) \/ Remove(w)
  PROVE  \E i \in Ids, r \in Row \cup {Gone} : Committed(w, i, r)
<1>1. began[w] > 0 /\ began[w] \in 1..MaxTime
  <2>1. began[w] > 0
    BY Zenon DEF Create, Update, Remove
  <2>2. began[w] \in 0..clock /\ clock \in 1..MaxTime
    BY DEF TypeOK
  <2>3. MaxTime \in Int
    BY TimeAssumption
  <2>4. QED
    BY <2>1, <2>2, <2>3
<1>2. \A s \in Statuses : /\ [live |-> TRUE, at |-> began[w], status |-> s] \in Row
                          /\ [live |-> TRUE, at |-> began[w], status |-> s].at = began[w]
  BY <1>1 DEF Row
<1>3. CASE Create(w)
  BY <1>1, <1>2, <1>3, Zenon DEF Create, Committed
<1>4. CASE Update(w)
  BY <1>1, <1>2, <1>4, Zenon DEF Update, Committed
<1>5. CASE Remove(w)
  BY <1>1, <1>5, Zenon DEF Remove, Committed
<1>6. QED
  BY <1>3, <1>4, <1>5

\* A commit keeps everything but the row it writes.
LEMMA CommitEffect ==
  ASSUME TypeOK, NEW w \in Writers, NEW i \in Ids, NEW r, Committed(w, i, r)
  PROVE  /\ rows'[i] = r /\ \A j \in Ids : j # i => rows'[j] = rows[j]
         /\ rows' \in [Ids -> Row \cup {NoRow, Gone}]
         /\ began' \in [Writers -> 0..clock'] /\ clock' = clock
         /\ began'[w] = 0 /\ began[w] # 0
         /\ still' = still \ {i} /\ overtaken \subseteq overtaken' /\ overtaken' \subseteq Ids
         /\ r.live /\ r.at < rows[i].at => i \in overtaken'
         /\ r # NoRow
         /\ UNCHANGED request
<1>1. /\ rows' = [rows EXCEPT ![i] = r] /\ began' = [began EXCEPT ![w] = 0]
      /\ still' = still \ {i} /\ clock' = clock /\ UNCHANGED request
      /\ overtaken' = IF r.live /\ r.at < rows[i].at THEN overtaken \cup {i} ELSE overtaken
  BY Zenon DEF Committed, Commits
<1>2. /\ rows \in [Ids -> Row \cup {NoRow, Gone}] /\ clock \in 1..MaxTime /\ MaxTime \in Int
      /\ began \in [Writers -> 0..clock] /\ overtaken \subseteq Ids
  <2>1. MaxTime \in Int
    BY TimeAssumption
  <2>2. QED
    BY <2>1, Zenon DEF TypeOK, Row
<1>3. r \in Row \/ r = Gone
  BY Zenon DEF Committed
<1>4. r # NoRow
  <2>1. NoRow \notin Row /\ Gone # NoRow
    <3>1. NoRow.live = FALSE /\ NoRow.status = "none" /\ Gone.status = "gone"
      BY Zenon DEF NoRow, Gone
    <3>2. \A x \in Row : x.live = TRUE
      BY Zenon DEF Row
    <3>3. "none" # "gone" /\ TRUE # FALSE
      OBVIOUS
    <3>4. QED
      BY <3>1, <3>2, <3>3, Zenon
  <2>2. QED
    BY <1>3, <2>1
<1>5. rows'[i] = r /\ (\A j \in Ids : j # i => rows'[j] = rows[j]) /\ rows' \in [Ids -> Row \cup {NoRow, Gone}]
  BY <1>1, <1>2, <1>3
<1>6. began' \in [Writers -> 0..clock'] /\ began'[w] = 0 /\ began[w] # 0
  <2>1. began[w] \in 1..MaxTime
    BY Zenon DEF Committed
  <2>2. QED
    BY <1>1, <1>2, <2>1
<1>7. overtaken \subseteq overtaken' /\ overtaken' \subseteq Ids
  BY <1>1, <1>2
<1>8. r.live /\ r.at < rows[i].at => i \in overtaken'
  BY <1>1
<1>9. QED
  BY <1>1, <1>4, <1>5, <1>6, <1>7, <1>8

\* The type invariant holds initially.
LEMMA TypeInit == Init => TypeOK
<1> SUFFICES ASSUME Init PROVE TypeOK
  OBVIOUS
<1> USE DEF Init
<1>1. rows \in [Ids -> Row \cup {NoRow, Gone}]
  OBVIOUS
<1>2. clock \in 1..MaxTime /\ began \in [Writers -> 0..clock]
  BY TimeAssumption
<1>3. cursor \in Cursors /\ (page # {} => cursor # <<>>)
  BY DEF Cursors
<1>4. QED
  BY <1>1, <1>2, <1>3 DEF TypeOK, Row

\* Every step keeps the types.
LEMMA TypeStep == TypeOK /\ [Next]_vars => TypeOK'
<1> SUFFICES ASSUME TypeOK, [Next]_vars PROVE TypeOK'
  OBVIOUS
<1>0. /\ clock \in 1..MaxTime /\ MaxTime \in Int
      /\ began \in [Writers -> 0..clock]
  BY TimeAssumption DEF TypeOK
<1>1. ASSUME NEW w \in Writers, Begin(w) PROVE TypeOK'
  <2>1. began' \in [Writers -> 0..clock']
    BY <1>0, <1>1 DEF Begin
  <2>2. QED
    BY <1>1, <2>1 DEF Begin, TypeOK, request, history, Cursors
<1>2. ASSUME NEW w \in Writers, Create(w) \/ Update(w) \/ Remove(w) PROVE TypeOK'
  <2>1. PICK i \in Ids, r \in Row \cup {Gone} : Committed(w, i, r)
    BY <1>2, WritesCommit
  <2>2. /\ rows' \in [Ids -> Row \cup {NoRow, Gone}] /\ began' \in [Writers -> 0..clock']
        /\ clock' = clock /\ still' = still \ {i} /\ overtaken' \subseteq Ids /\ UNCHANGED request
    BY <2>1, CommitEffect, Zenon
  <2>3. QED
    BY <2>2 DEF TypeOK, request, Cursors, Row
<1>3. ASSUME NEW w \in Writers, Abandon(w) PROVE TypeOK'
  <2>1. began' \in [Writers -> 0..clock']
    BY <1>0, <1>3 DEF Abandon
  <2>2. QED
    BY <1>3, <2>1 DEF Abandon, TypeOK, request, history, Cursors
<1>4. ASSUME Tick PROVE TypeOK'
  <2>1. clock' \in 1..MaxTime /\ began' \in [Writers -> 0..clock']
    BY <1>0, <1>4 DEF Tick
  <2>2. QED
    BY <1>4, <2>1 DEF Tick, TypeOK, request, history, Cursors
<1>5. ASSUME StartWalk PROVE TypeOK'
  BY <1>5 DEF StartWalk, TypeOK, table, Cursors
<1>6. ASSUME NEW limit \in Limits, ListPage(limit) PROVE TypeOK'
  <2> DEFINE items == First(PageSize(limit), Result(limit))
             more == Cardinality(Result(limit)) > PageSize(limit)
  <2>1. /\ page' = items /\ seen' = seen \cup page
        /\ IF more THEN cursor' = NextCursor(items) /\ UNCHANGED walk
                   ELSE walk' = "done" /\ UNCHANGED cursor
        /\ UNCHANGED <<table, filter, history>>
    BY <1>6, Zenon DEF ListPage
  <2> HIDE DEF items, more
  <2>2. items \subseteq Positions
    BY PageOfRows, SelectedRows, Zenon DEF items
  <2>3. items # {} => NextCursor(items) \in Cursors /\ NextCursor(items) # <<>>
    <3>1. items # {} => Back(items) \in Positions
      BY <2>2, PageOfRows, Zenon DEF items
    <3>2. QED
      BY <3>1, CursorOfPosition, Zenon DEF NextCursor, Cursors
  <2>4. more => NextCursor(items) \in Cursors /\ NextCursor(items) # <<>>
    BY <2>3, PageOfRows, Zenon DEF items, more
  <2>5. cursor' \in Cursors /\ (walk' = "walking" /\ page' # {} => cursor' # <<>>)
    BY <2>1, <2>4 DEF TypeOK
  <2>6. QED
    BY <2>1, <2>2, <2>5 DEF TypeOK, table, history, Cursors
<1>7. ASSUME ListFails PROVE TypeOK'
  BY <1>7 DEF ListFails, TypeOK, table, history, Cursors
<1>8. CASE UNCHANGED vars
  BY <1>8 DEF TypeOK, vars, table, request, history, Cursors
<1>9. QED
  BY <1>1, <1>2, <1>3, <1>4, <1>5, <1>6, <1>7, <1>8, Zenon DEF Next, Write, List

\* The clock and the transactions that have not committed do not matter.
LEMMA QuietStep ==
  ASSUME IInv, UNCHANGED <<rows, request, history>>
  PROVE  (CursorBehind /\ PagesDescend /\ StillRowsAreListed /\ TimesKept /\ RepeatedOnlyWhenOvertaken)'
<1>1. /\ rows' = rows /\ walk' = walk /\ filter' = filter /\ cursor' = cursor
      /\ page' = page /\ seen' = seen /\ still' = still /\ overtaken' = overtaken
  BY DEF request, history
<1>2. CursorBehind'
  BY <1>1, Zenon DEF IInv, CursorBehind
<1>3. PagesDescend'
  BY <1>1, Zenon DEF IInv, PagesDescend
<1>4. StillRowsAreListed'
  BY <1>1, Zenon DEF IInv, StillRowsAreListed, Matches, Position, Listed
<1>5. TimesKept'
  BY <1>1, Zenon DEF IInv, TimesKept
<1>6. RepeatedOnlyWhenOvertaken'
  BY <1>1, Zenon DEF IInv, RepeatedOnlyWhenOvertaken
<1>7. QED
  BY <1>2, <1>3, <1>4, <1>5, <1>6

\* Whatever commits while the client walks.
LEMMA CommitKeeps ==
  ASSUME IInv, NEW w \in Writers, NEW i \in Ids, NEW r, Committed(w, i, r)
  PROVE  (CursorBehind /\ PagesDescend /\ StillRowsAreListed /\ TimesKept /\ RepeatedOnlyWhenOvertaken)'
<1>1. /\ rows'[i] = r /\ \A j \in Ids : j # i => rows'[j] = rows[j]
      /\ still' = still \ {i} /\ overtaken \subseteq overtaken'
      /\ r.live /\ r.at < rows[i].at => i \in overtaken'
      /\ r # NoRow
      /\ walk' = walk /\ filter' = filter /\ cursor' = cursor /\ page' = page /\ seen' = seen
  <2>1. TypeOK
    BY Zenon DEF IInv
  <2>2. /\ rows'[i] = r /\ \A j \in Ids : j # i => rows'[j] = rows[j]
        /\ still' = still \ {i} /\ overtaken \subseteq overtaken'
        /\ r.live /\ r.at < rows[i].at => i \in overtaken'
        /\ r # NoRow
        /\ UNCHANGED request
    BY <2>1, CommitEffect
  <2>3. /\ walk' = walk /\ filter' = filter /\ cursor' = cursor /\ page' = page /\ seen' = seen
    BY <2>2 DEF request
  <2>4. QED
    BY <2>2, <2>3
<1>2. CursorBehind'
  BY <1>1, Zenon DEF IInv, CursorBehind
<1>3. PagesDescend'
  BY <1>1, Zenon DEF IInv, PagesDescend
<1>4. StillRowsAreListed'
  <2>1. \A j \in still' : j \in still /\ rows'[j] = rows[j]
    BY <1>1 DEF IInv, TypeOK
  <2>2. QED
    BY <1>1, <2>1, Zenon DEF IInv, StillRowsAreListed, Matches, Position, Listed
<1>5. TimesKept'
  <2> SUFFICES ASSUME NEW q \in seen \cup page
               PROVE  /\ rows'[q.id] # NoRow
                      /\ rows'[q.id].live /\ q.id \notin overtaken' => rows'[q.id].at >= q.at
    BY <1>1, Zenon DEF TimesKept
  <2>1. q \in Positions /\ q.id \in Ids /\ q.at \in Int
    <3>1. q \in Positions /\ q \in Place
      BY PositionsFit DEF IInv, TypeOK
    <3>2. QED
      BY <3>1 DEF Positions, Place
  <2>2. /\ rows[q.id] # NoRow
        /\ rows[q.id].live /\ q.id \notin overtaken => rows[q.id].at >= q.at
    BY Zenon DEF IInv, TimesKept
  <2>3. CASE q.id # i
    BY <1>1, <2>1, <2>2, <2>3, Zenon
  <2>4. CASE q.id = i
    <3>1. rows'[q.id] # NoRow
      BY <1>1, <2>4, Zenon
    <3>2. ASSUME rows'[q.id].live, q.id \notin overtaken' PROVE rows'[q.id].at >= q.at
      <4>1. rows[i].live
        BY <2>2, <2>4, Zenon DEF Committed
      <4>2. rows[i].at \in 1..MaxTime /\ MaxTime \in Int
        BY <4>1, LiveRow, TimeAssumption DEF IInv
      <4>3. r.live /\ ~(r.at < rows[i].at) /\ rows[i].at >= q.at
        BY <1>1, <2>2, <2>4, <3>2, <4>1, Zenon
      <4>4. r \in Row \/ r = Gone
        BY Zenon DEF Committed
      <4>5. ~Gone.live
        BY Zenon DEF Gone
      <4>6. r \in Row
        BY <4>3, <4>4, <4>5, Zenon
      <4>7. r.at \in 1..MaxTime
        BY <4>6 DEF Row
      <4>8. r.at >= q.at
        BY <2>1, <4>2, <4>3, <4>7
      <4>9. QED
        BY <1>1, <2>4, <4>8, Zenon
    <3>3. QED
      BY <3>1, <3>2
  <2>5. QED
    BY <2>3, <2>4
<1>6. RepeatedOnlyWhenOvertaken'
  BY <1>1, Zenon DEF IInv, RepeatedOnlyWhenOvertaken
<1>7. QED
  BY <1>2, <1>3, <1>4, <1>5, <1>6

\* A page is answered.
LEMMA PageKeeps ==
  ASSUME IInv, NEW limit \in Limits, ListPage(limit)
  PROVE  (CursorBehind /\ PagesDescend /\ StillRowsAreListed /\ TimesKept /\ RepeatedOnlyWhenOvertaken)'
<1> DEFINE items == First(PageSize(limit), Result(limit))
           more == Cardinality(Result(limit)) > PageSize(limit)
<1>1. /\ walk = "walking" /\ page' = items /\ seen' = seen \cup page
      /\ IF more THEN cursor' = NextCursor(items) /\ walk' = walk
                 ELSE walk' = "done" /\ cursor' = cursor
      /\ rows' = rows /\ filter' = filter /\ still' = still /\ overtaken' = overtaken
  BY Zenon DEF ListPage, table, history
<1> HIDE DEF items, more
<1>2. /\ items \subseteq Selected
      /\ \A p \in Selected \ items, q \in items : Newer(q, p)
      /\ more <=> \E p \in Selected : p \notin items
      /\ Selected # {} => items # {}
      /\ items # {} => Back(items) \in items /\ \A q \in items : q = Back(items) \/ Newer(q, Back(items))
  <2>1. TypeOK
    BY Zenon DEF IInv
  <2>2. QED
    BY <2>1, PageOfRows, Zenon DEF items, more
<1>3. /\ Selected \subseteq Positions /\ Selected \subseteq Place
      /\ \A i \in Ids : Matches(i) /\ After(Position(i), cursor) => Position(i) \in Selected
      /\ \A p \in Selected : /\ p.id \in Ids /\ p = Position(p.id) /\ p.at = rows[p.id].at
                             /\ Matches(p.id) /\ rows[p.id].live /\ After(p, cursor)
  BY SelectedRows, Zenon DEF IInv
<1>4. /\ seen \subseteq Positions /\ page \subseteq Positions /\ seen \subseteq Place /\ page \subseteq Place
      /\ still \subseteq Ids
  BY PositionsFit, Zenon DEF IInv, TypeOK
<1>5. ASSUME NEW p \in items, NEW q \in seen \cup page PROVE Newer(q, p)
  <2>1. /\ cursor # <<>>
        /\ q = decode_cursor(cursor) \/ Newer(q, decode_cursor(cursor))
    BY <1>1, Zenon DEF IInv, CursorBehind
  <2>2. Newer(decode_cursor(cursor), p)
    BY <1>2, <1>3, <2>1, Zenon DEF After
  <2>3. decode_cursor(cursor) \in Place
    BY <2>1, CursorHasPosition, PositionsFit, Zenon DEF IInv
  <2>4. p \in Place /\ q \in Place
    BY <1>2, <1>3, <1>4, Zenon
  <2>5. QED
    BY <2>1, <2>2, <2>3, <2>4, NewerOrder, Zenon
<1>6. ASSUME more
      PROVE  /\ items # {} /\ cursor' # <<>> /\ decode_cursor(cursor') = Back(items)
             /\ Back(items) \in items
  <2>1. items # {} /\ Back(items) \in items
    BY <1>2, <1>6, Zenon
  <2>2. Back(items) \in Positions
    BY <1>2, <1>3, <2>1, Zenon
  <2>3. cursor' = encode_cursor(Back(items))
    BY <1>1, <1>6, <2>1, Zenon DEF NextCursor
  <2>4. QED
    BY <2>1, <2>2, <2>3, CursorOfPosition, Zenon
<1>7. CursorBehind'
  <2> SUFFICES ASSUME walk' = "walking"
               PROVE  /\ cursor' # <<>>
                      /\ \A q \in seen' \cup page' :
                           q = decode_cursor(cursor') \/ Newer(q, decode_cursor(cursor'))
    BY Zenon DEF CursorBehind
  <2>1. more
    BY <1>1
  <2>2. ASSUME NEW q \in seen \cup page PROVE Newer(q, Back(items))
    BY <1>5, <1>6, <2>1, Zenon
  <2>3. \A q \in items : q = Back(items) \/ Newer(q, Back(items))
    BY <1>2, <1>6, <2>1, Zenon
  <2>4. QED
    BY <1>1, <1>6, <2>1, <2>2, <2>3, Zenon
<1>8. PagesDescend'
  BY <1>1, <1>5, Zenon DEF PagesDescend
<1>9. StillRowsAreListed'
  <2> SUFFICES ASSUME NEW i \in still, Matches(i)
               PROVE  i \in Listed' \/ (walk' = "walking" /\ After(Position(i), cursor'))
    BY <1>1, Zenon DEF StillRowsAreListed, Matches, Position
  <2>1. Listed' = {p.id : p \in (seen \cup page) \cup items}
    BY <1>1, Zenon DEF Listed
  <2>2. i \in Listed \/ After(Position(i), cursor)
    BY <1>1, Zenon DEF IInv, StillRowsAreListed
  <2>3. CASE i \in Listed
    BY <2>1, <2>3, Zenon DEF Listed
  <2>4. CASE Position(i) \in items
    <3>1. Position(i).id = i
      BY DEF Position
    <3>2. QED
      BY <2>1, <2>4, <3>1, Zenon
  <2>5. CASE After(Position(i), cursor) /\ Position(i) \notin items
    <3>1. Position(i) \in Selected
      BY <1>3, <1>4, <2>5, Zenon
    <3>2. more
      BY <1>2, <2>5, <3>1, Zenon
    <3>3. Newer(Back(items), Position(i))
      BY <1>2, <1>6, <2>5, <3>1, <3>2, Zenon
    <3>4. QED
      BY <1>1, <1>6, <3>2, <3>3, Zenon DEF After
  <2>6. QED
    BY <2>2, <2>3, <2>4, <2>5
<1>10. TimesKept'
  <2> SUFFICES ASSUME NEW q \in (seen \cup page) \cup items
               PROVE  /\ rows[q.id] # NoRow
                      /\ rows[q.id].live /\ q.id \notin overtaken => rows[q.id].at >= q.at
    BY <1>1, Zenon DEF TimesKept
  <2>1. CASE q \in seen \cup page
    BY <2>1, Zenon DEF IInv, TimesKept
  <2>2. CASE q \in items
    <3>1. q \in Selected /\ q \in Place
      BY <1>2, <1>3, <2>2, Zenon
    <3>2. q.at \in Int /\ q.at = rows[q.id].at /\ rows[q.id].live
      BY <1>3, <3>1 DEF Place
    <3>3. rows[q.id] # NoRow
      <4>1. ~NoRow.live
        BY DEF NoRow
      <4>2. QED
        BY <3>2, <4>1
    <3>4. QED
      BY <3>2, <3>3
  <2>3. QED
    BY <2>1, <2>2
<1>11. RepeatedOnlyWhenOvertaken'
  <2> SUFFICES ASSUME NEW p \in items, NEW q \in seen \cup page, p.id = q.id, p.id \notin overtaken
               PROVE  FALSE
    BY <1>1, Zenon DEF RepeatedOnlyWhenOvertaken
  <2>1. p \in Place /\ q \in Place
    BY <1>2, <1>3, <1>4, Zenon
  <2>2. p.at = rows[p.id].at /\ rows[p.id].live
    BY <1>2, <1>3, Zenon
  <2>3. rows[q.id].live /\ q.id \notin overtaken => rows[q.id].at >= q.at
    BY Zenon DEF IInv, TimesKept
  <2>4. p.at >= q.at
    BY <2>2, <2>3, Zenon
  <2>5. p.at \in Int /\ p.id \in Int /\ q.at \in Int /\ q.id \in Int
    BY <2>1 DEF Place
  <2>6. q.at > p.at \/ (q.at = p.at /\ q.id > p.id)
    BY <1>5, Zenon DEF Newer
  <2>7. QED
    BY <2>4, <2>5, <2>6
<1>12. QED
  BY <1>7, <1>8, <1>9, <1>10, <1>11

\* Before the first walk nothing has been listed.
LEMMA InvariantInit == Init => IInv
<1> SUFFICES ASSUME Init PROVE IInv
  OBVIOUS
<1>1. TypeOK
  BY TypeInit
<1>2. walk = "idle" /\ page = {} /\ seen = {}
  BY Zenon DEF Init
<1>3. CursorBehind /\ StillRowsAreListed
  BY <1>2 DEF CursorBehind, StillRowsAreListed
<1>4. PagesDescend /\ TimesKept /\ RepeatedOnlyWhenOvertaken
  BY <1>2, Zenon DEF PagesDescend, TimesKept, RepeatedOnlyWhenOvertaken
<1>5. QED
  BY <1>1, <1>3, <1>4 DEF IInv

\* Every step keeps the invariant.
LEMMA InvariantStep == IInv /\ [Next]_vars => IInv'
<1> SUFFICES ASSUME IInv, [Next]_vars PROVE IInv'
  OBVIOUS
<1> DEFINE Rest == CursorBehind /\ PagesDescend /\ StillRowsAreListed
                     /\ TimesKept /\ RepeatedOnlyWhenOvertaken
<1>0. TypeOK'
  BY TypeStep DEF IInv
<1>1. ASSUME UNCHANGED <<rows, request, history>> PROVE Rest'
  BY <1>1, QuietStep
<1>2. ASSUME NEW w \in Writers, Begin(w) PROVE Rest'
  BY <1>1, <1>2, Zenon DEF Begin
<1>3. ASSUME NEW w \in Writers, Create(w) \/ Update(w) \/ Remove(w) PROVE Rest'
  <2>1. PICK i \in Ids, r \in Row \cup {Gone} : Committed(w, i, r)
    BY <1>3, WritesCommit DEF IInv
  <2>2. QED
    BY <2>1, CommitKeeps
<1>4. ASSUME NEW w \in Writers, Abandon(w) PROVE Rest'
  BY <1>1, <1>4, Zenon DEF Abandon
<1>5. ASSUME Tick PROVE Rest'
  BY <1>1, <1>5, Zenon DEF Tick
<1>6. ASSUME StartWalk PROVE Rest'
  <2>1. /\ cursor' = <<>> /\ page' = {} /\ seen' = {} /\ walk' = "walking"
    BY <1>6, Zenon DEF StartWalk
  <2>2. CursorBehind' /\ PagesDescend' /\ TimesKept' /\ RepeatedOnlyWhenOvertaken'
    BY <2>1, Zenon DEF CursorBehind, PagesDescend, TimesKept, RepeatedOnlyWhenOvertaken
  <2>3. StillRowsAreListed'
    BY <2>1, Zenon DEF StillRowsAreListed, After
  <2>4. QED
    BY <2>2, <2>3
<1>7. ASSUME NEW limit \in Limits, ListPage(limit) PROVE Rest'
  BY <1>7, PageKeeps
<1>8. ASSUME ListFails PROVE Rest'
  <2>1. /\ rows' = rows /\ walk' = "idle" /\ page' = page /\ seen' = seen /\ overtaken' = overtaken
    BY <1>8, Zenon DEF ListFails, table, history
  <2>2. CursorBehind' /\ StillRowsAreListed'
    BY <2>1 DEF CursorBehind, StillRowsAreListed
  <2>3. PagesDescend' /\ TimesKept' /\ RepeatedOnlyWhenOvertaken'
    BY <2>1, Zenon DEF IInv, PagesDescend, TimesKept, RepeatedOnlyWhenOvertaken
  <2>4. QED
    BY <2>2, <2>3
<1>9. ASSUME UNCHANGED vars PROVE Rest'
  BY <1>1, <1>9, Zenon DEF vars, table
<1> HIDE DEF Rest
<1>10. Rest'
  BY <1>2, <1>3, <1>4, <1>5, <1>6, <1>7, <1>8, <1>9, Zenon DEF Next, Write, List
<1>11. QED
  BY <1>0, <1>10, Zenon DEF IInv, Rest

-----------------------------------------------------------------------------
(* Theorems *)

\* Every reachable state satisfies the invariant, for any set of ids, writers
\* and limits.
THEOREM ListingInvariant == Spec => []IInv
<1>1. Init => IInv
  BY InvariantInit
<1>2. IInv /\ [Next]_vars => IInv'
  BY InvariantStep
<1>3. QED
  BY <1>1, <1>2, PTL DEF Spec

\* Table, clock, transactions and the client's request keep their types; a
\* cursor is always one that encode_cursor() made.
THEOREM TypeCorrect == Spec => []TypeOK
<1>1. IInv => TypeOK
  BY Zenon DEF IInv
<1>2. QED
  BY <1>1, ListingInvariant, PTL

\* No row that keeps still while a client walks through the pages is left out.
THEOREM StillRowsListed == Spec => []StillRowsAreListed
<1>1. IInv => StillRowsAreListed
  BY Zenon DEF IInv
<1>2. QED
  BY <1>1, ListingInvariant, PTL

\* A row is listed twice in a walk only if a late commit set its time back.
THEOREM RepeatsExplained == Spec => []RepeatedOnlyWhenOvertaken
<1>1. IInv => RepeatedOnlyWhenOvertaken
  BY Zenon DEF IInv
<1>2. QED
  BY <1>1, ListingInvariant, PTL

\* Every page lies behind the pages before it.
THEOREM Descending == Spec => []PagesDescend
<1>1. IInv => PagesDescend
  BY Zenon DEF IInv
<1>2. QED
  BY <1>1, ListingInvariant, PTL

\* What HasMoreIsExact says of a step.
Exact ==
  Answers =>
    /\ (walk' = "walking") = \E i \in Ids : /\ Matches(i)
                                            /\ After(Position(i), cursor)
                                            /\ \A p \in page' : Newer(p, Position(i))
    /\ walk' = "walking" => ~Malformed(cursor')

\* Only list_resources_handler answers a page.
LEMMA AnswersArePages ==
  ASSUME TypeOK, Next, Answers
  PROVE  \E limit \in Limits : ListPage(limit)
<1>1. walk = "walking" /\ walk' # "idle" /\ clock' = clock /\ began' = began
  BY Zenon DEF Answers, table
<1>2. clock \in Int /\ clock # 0 /\ began \in [Writers -> 0..clock]
  <2>1. clock \in 1..MaxTime /\ MaxTime \in Int /\ began \in [Writers -> 0..clock]
    BY TimeAssumption DEF TypeOK
  <2>2. QED
    BY <2>1
<1>3. ASSUME NEW w \in Writers, Begin(w) PROVE FALSE
  BY <1>1, <1>2, <1>3 DEF Begin
<1>4. ASSUME NEW w \in Writers, Create(w) \/ Update(w) \/ Remove(w) PROVE FALSE
  <2>1. PICK i \in Ids, r \in Row \cup {Gone} : Committed(w, i, r)
    BY <1>4, WritesCommit
  <2>2. began'[w] = 0 /\ began[w] # 0
    BY <2>1, CommitEffect
  <2>3. QED
    BY <1>1, <2>2
<1>5. ASSUME NEW w \in Writers, Abandon(w) PROVE FALSE
  BY <1>1, <1>2, <1>5 DEF Abandon
<1>6. ~Tick
  BY <1>1, <1>2 DEF Tick
<1>7. ~StartWalk /\ ~ListFails
  BY <1>1, Zenon DEF StartWalk, ListFails
<1>8. QED
  BY <1>3, <1>4, <1>5, <1>6, <1>7, Zenon DEF Next, Write, List

\* has_more says exactly whether matching rows were left behind the page, and the
\* cursor that comes with it is accepted.
LEMMA PageIsExact ==
  ASSUME TypeOK, NEW limit \in Limits, ListPage(limit)
  PROVE  Exact
<1> DEFINE items == First(PageSize(limit), Result(limit))
           more == Cardinality(Result(limit)) > PageSize(limit)
<1>1. /\ walk = "walking" /\ page' = items
      /\ IF more THEN cursor' = NextCursor(items) /\ walk' = walk
                 ELSE walk' = "done" /\ cursor' = cursor
  BY Zenon DEF ListPage
<1> HIDE DEF items, more
<1>2. /\ items \subseteq Selected
      /\ \A p \in Selected \ items, q \in items : Newer(q, p)
      /\ more <=> \E p \in Selected : p \notin items
      /\ Selected # {} => items # {}
      /\ items # {} => Back(items) \in items
  BY PageOfRows, Zenon DEF items, more
<1>3. /\ Selected \subseteq Positions /\ Selected \subseteq Place
      /\ \A i \in Ids : Matches(i) /\ After(Position(i), cursor) => Position(i) \in Selected
      /\ \A p \in Selected : /\ p.id \in Ids /\ p = Position(p.id)
                             /\ Matches(p.id) /\ After(p, cursor)
  BY SelectedRows, Zenon
<1> DEFINE Left(i) == Matches(i) /\ After(Position(i), cursor) /\ \A p \in items : Newer(p, Position(i))
<1>4. ASSUME more PROVE \E i \in Ids : Left(i)
  <2>1. PICK p \in Selected : p \notin items
    BY <1>2, <1>4
  <2>2. p.id \in Ids /\ p = Position(p.id) /\ Matches(p.id) /\ After(p, cursor) /\ \A q \in items : Newer(q, p)
    BY <1>2, <1>3, <2>1, Zenon
  <2>3. QED
    BY <2>2, Zenon
<1>5. ASSUME NEW i \in Ids, Left(i) PROVE more
  <2>1. Position(i) \in Selected
    BY <1>3, <1>5, Zenon
  <2>2. Position(i) \notin items
    BY <1>3, <1>5, <2>1, NewerOrder, Zenon
  <2>3. QED
    BY <1>2, <2>1, <2>2, Zenon
<1>6. walk' = "walking" <=> more
  BY <1>1
<1>7. ASSUME more PROVE ~Malformed(cursor')
  <2>1. items # {} /\ Back(items) \in Positions
    BY <1>2, <1>3, <1>7, Zenon
  <2>2. cursor' = encode_cursor(Back(items))
    BY <1>1, <1>7, <2>1, Zenon DEF NextCursor
  <2>3. QED
    BY <2>1, <2>2, CursorOfPosition, Zenon
<1>8. (walk' = "walking") = \E i \in Ids : Left(i)
  BY <1>4, <1>5, <1>6, Zenon
<1>9. QED
  BY <1>1, <1>6, <1>7, <1>8, Zenon DEF Exact

\* Whatever is written meanwhile, every page's has_more and cursor are right: the
\* client stops at the last row and not before it.
THEOREM HasMoreExact == Spec => HasMoreIsExact
<1>1. TypeOK /\ [Next]_vars => [Exact]_vars
  <2> SUFFICES ASSUME TypeOK, Next PROVE Exact
    BY Zenon
  <2>1. CASE Answers
    <3>1. PICK limit \in Limits : ListPage(limit)
      BY <2>1, AnswersArePages
    <3>2. QED
      BY <3>1, PageIsExact
  <2>2. CASE ~Answers
    BY <2>2, Zenon DEF Exact
  <2>3. QED
    BY <2>1, <2>2
<1>2. HasMoreIsExact <=> [][Exact]_vars
  BY Zenon DEF HasMoreIsExact, Exact
<1>3. QED
  BY <1>1, <1>2, TypeCorrect, PTL DEF Spec
=============================================================================
