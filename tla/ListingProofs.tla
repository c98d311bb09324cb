--------------------------- MODULE ListingProofs ---------------------------
(***************************************************************************)
(* Proofs about Listing: for any request, page size and changes of a       *)
(* bucket whose keys are texts, the pages of a listing show nothing twice  *)
(* and, but for an object at the very prefix that is asked for and an      *)
(* upload marker before that prefix, skip nothing.  The first part is the  *)
(* byte order that the code relies on when it seeks.                       *)
(***************************************************************************)
EXTENDS Listing, SequenceTheorems, WellFoundedInduction, TLAPS

-----------------------------------------------------------------------------
(***************************************************************************)
(* The order of keys                                                       *)
(***************************************************************************)
Word == Seq(Nat)

LEMMA SmallestNat ==
    ASSUME NEW S, S \subseteq Nat, S # {}
    PROVE  \E m \in S : \A n \in S : m <= n
<1>1. PICK R : IsWellFoundedOn(R, Nat) /\ \A x, y \in Nat : x < y => <<x, y>> \in R
  <2>1. \A x, y \in Nat : x < y => <<x, y>> \in OpToRel(<, Nat)
    BY DEF OpToRel
  <2>2. QED
    BY <2>1, NatLessThanWellFounded
<1>2. PICK x \in S : \A y \in S : ~(<<y, x>> \in R)
  <2>1. IsWellFoundedOn(R, Nat)
    BY <1>1
  <2>2. QED
    BY <2>1, WFMin, Zenon
<1>3. ASSUME NEW y \in S PROVE x <= y
  <2>1. x \in Nat /\ y \in Nat
    OBVIOUS
  <2>2. ~(y < x)
    BY <1>1, <1>2, <2>1
  <2>3. QED
    BY <2>1, <2>2
<1>4. QED
  BY <1>3

LEMMA PrefixAt ==
    ASSUME NEW a \in Word, NEW b \in Word
    PROVE  IsPrefix(a, b) <=> Len(a) <= Len(b) /\ \A j \in 1..Len(a) : a[j] = b[j]
<1> USE DEF Word
<1>1. SubSeq(a, 1, Len(a)) = a
  BY SubSeqFull
<1>2. ASSUME Len(a) <= Len(b)
      PROVE  /\ SubSeq(b, 1, Len(a)) \in Seq(Nat) /\ Len(SubSeq(b, 1, Len(a))) = Len(a)
             /\ \A j \in 1..Len(a) : SubSeq(b, 1, Len(a))[j] = b[j]
  BY <1>2
<1>3. ASSUME Len(a) <= Len(b), \A j \in 1..Len(a) : a[j] = b[j]
      PROVE  a = SubSeq(b, 1, Len(a))
  BY <1>2, <1>3, SeqEqual
<1>4. QED
  BY <1>1, <1>2, <1>3 DEF IsPrefix

\* The words are equal up to n, and a is smaller there.
SplitAt(a, b, n) ==
    /\ n <= Len(a) /\ n < Len(b) /\ \A j \in 1..n : a[j] = b[j]
    /\ n < Len(a) => a[n + 1] < b[n + 1]

LEMMA LessAt ==
    ASSUME NEW a \in Word, NEW b \in Word
    PROVE  Less(a, b) <=> \E n \in Nat : SplitAt(a, b, n)
<1> USE DEF Word
<1>1. ASSUME IsStrictPrefix(a, b) PROVE SplitAt(a, b, Len(a))
  <2>1. Len(a) <= Len(b) /\ \A j \in 1..Len(a) : a[j] = b[j]
    BY <1>1, PrefixAt DEF IsStrictPrefix
  <2>2. Len(a) # Len(b)
    BY <1>1, <2>1, SeqEqual DEF IsStrictPrefix
  <2>3. QED
    BY <2>1, <2>2 DEF SplitAt
<1>2. ASSUME NEW i \in DOMAIN a \cap DOMAIN b, a[i] < b[i], \A j \in 1..(i - 1) : a[j] = b[j]
      PROVE  i - 1 \in Nat /\ SplitAt(a, b, i - 1)
  BY <1>2 DEF SplitAt
<1>3. ASSUME NEW n \in Nat, SplitAt(a, b, n) PROVE Less(a, b)
  <2>1. CASE n = Len(a)
    <3>1. IsPrefix(a, b)
      BY <1>3, <2>1, PrefixAt DEF SplitAt
    <3>2. a # b
      BY <1>3, <2>1 DEF SplitAt
    <3>3. QED
      BY <3>1, <3>2 DEF Less, IsStrictPrefix
  <2>2. CASE n < Len(a)
    <3>1. n + 1 \in DOMAIN a \cap DOMAIN b /\ a[n + 1] < b[n + 1] /\ n + 1 - 1 = n
      BY <1>3, <2>2 DEF SplitAt
    <3>2. QED
      BY <1>3, <3>1 DEF Less, SplitAt
  <2>3. QED
    BY <1>3, <2>1, <2>2 DEF SplitAt
<1>4. ASSUME Less(a, b) PROVE \E n \in Nat : SplitAt(a, b, n)
  <2>1. Len(a) \in Nat
    OBVIOUS
  <2>2. QED
    BY <1>1, <1>2, <1>4, <2>1 DEF Less
<1>5. QED
  BY <1>3, <1>4

LEMMA LessIrreflexive == ASSUME NEW a \in Word PROVE ~Less(a, a)
  BY LessAt DEF SplitAt, Word

LEMMA LessTransitive ==
    ASSUME NEW a \in Word, NEW b \in Word, NEW c \in Word, Less(a, b), Less(b, c)
    PROVE  Less(a, c)
<1> USE DEF Word
<1>1. PICK m \in Nat : SplitAt(a, b, m)
  BY LessAt
<1>2. PICK n \in Nat : SplitAt(b, c, n)
  BY LessAt
<1>a. /\ m <= Len(a) /\ m < Len(b) /\ n <= Len(b) /\ n < Len(c)
      /\ Len(a) \in Nat /\ Len(b) \in Nat /\ Len(c) \in Nat
  BY <1>1, <1>2 DEF SplitAt
<1>b. /\ \A j \in 1..m : a[j] = b[j]
      /\ \A j \in 1..n : b[j] = c[j]
  BY <1>1, <1>2 DEF SplitAt
<1>3. CASE m <= n
  <2>1. m < Len(c) /\ \A j \in 1..m : a[j] = c[j]
    BY <1>3, <1>a, <1>b
  <2>2. ASSUME m < Len(a) PROVE a[m + 1] < c[m + 1]
    <3>1. m + 1 \in 1..Len(a) /\ m + 1 \in 1..Len(b) /\ m + 1 \in 1..Len(c)
      BY <1>a, <2>1, <2>2
    <3>2. a[m + 1] \in Nat /\ b[m + 1] \in Nat /\ c[m + 1] \in Nat
      BY <3>1
    <3>5. a[m + 1] < b[m + 1]
      BY <1>1, <2>2 DEF SplitAt
    <3>3. b[m + 1] = c[m + 1] \/ b[m + 1] < c[m + 1]
      <4>1. CASE m < n
        <5>1. m + 1 \in 1..n
          BY <4>1
        <5>2. QED
          BY <1>b, <5>1
      <4>2. CASE m = n
        BY <1>2, <1>a, <4>2 DEF SplitAt
      <4>3. QED
        BY <1>3, <4>1, <4>2
    <3>4. QED
      BY <3>2, <3>3, <3>5
  <2>3. SplitAt(a, c, m)
    BY <1>a, <2>1, <2>2 DEF SplitAt
  <2>4. QED
    BY <2>3, LessAt
<1>4. CASE n < m
  <2>1. n < Len(a) /\ n < Len(b) /\ n + 1 \in 1..m /\ \A j \in 1..n : a[j] = c[j]
    BY <1>4, <1>a, <1>b
  <2>2. a[n + 1] = b[n + 1] /\ b[n + 1] < c[n + 1]
    BY <1>2, <1>b, <2>1 DEF SplitAt
  <2>3. SplitAt(a, c, n)
    BY <1>a, <2>1, <2>2 DEF SplitAt
  <2>4. QED
    BY <2>3, LessAt
<1>5. QED
  BY <1>3, <1>4

LEMMA LessTotal ==
    ASSUME NEW a \in Word, NEW b \in Word, a # b, ~Less(a, b)
    PROVE  Less(b, a)
<1> USE DEF Word
<1> DEFINE Split == {i \in Nat : \/ i = Len(a) \/ i = Len(b)
                                 \/ i < Len(a) /\ i < Len(b) /\ a[i + 1] # b[i + 1]}
<1>1. PICK n \in Split : \A i \in Split : n <= i
  <2>1. Split \subseteq Nat /\ Len(a) \in Split
    OBVIOUS
  <2>2. QED
    BY <2>1, SmallestNat
<1>2. n <= Len(a) /\ n <= Len(b) /\ n \in Nat
  BY <1>1
<1>3. ASSUME NEW j \in 1..n PROVE a[j] = b[j]
  <2>1. j - 1 \in Nat /\ ~(n <= j - 1) /\ j - 1 + 1 = j
    BY <1>2
  <2>2. j - 1 \notin Split
    BY <1>1, <2>1
  <2>3. QED
    BY <1>2, <2>1, <2>2
<1>4. ~SplitAt(a, b, n)
  BY <1>2, LessAt
<1>5. Len(a) # Len(b) \/ n # Len(a)
  BY <1>3, SeqEqual
<1>6. n < Len(a) /\ n < Len(b) => a[n + 1] # b[n + 1] /\ a[n + 1] \in Nat /\ b[n + 1] \in Nat
  BY <1>1, <1>2
<1>7. SplitAt(b, a, n)
  BY <1>2, <1>3, <1>4, <1>5, <1>6 DEF SplitAt
<1>8. QED
  BY <1>2, <1>7, LessAt

LEMMA LessAsymmetric ==
    ASSUME NEW a \in Word, NEW b \in Word, Less(a, b)
    PROVE  ~Less(b, a) /\ a # b
  BY LessIrreflexive, LessTransitive

\* A key between a prefix and a key below it is below it too.
LEMMA PrefixBetween ==
    ASSUME NEW p \in Word, NEW b \in Word, NEW c \in Word,
           ~Less(b, p), ~Less(c, b), IsPrefix(p, c)
    PROVE  IsPrefix(p, b)
<1> USE DEF Word
<1>1. CASE b = c \/ b = p
  BY <1>1, PrefixAt
<1>2. CASE b # c /\ b # p
  <2>1. Less(p, b) /\ Less(b, c)
    BY <1>2, LessTotal
  <2>2. PICK m \in Nat : SplitAt(p, b, m)
    BY <2>1, LessAt
  <2>3. PICK n \in Nat : SplitAt(b, c, n)
    BY <2>1, LessAt
  <2>4. Len(p) <= Len(c) /\ \A j \in 1..Len(p) : p[j] = c[j]
    BY PrefixAt
  <2>5. m = Len(p)
    <3>1. SUFFICES ASSUME m < Len(p) PROVE FALSE
      BY <2>2 DEF SplitAt
    <3>2. m + 1 \in 1..Len(p) /\ m + 1 \in 1..Len(b) /\ m + 1 \in 1..Len(c)
      BY <2>2, <2>4, <3>1, SMTT(30) DEF SplitAt
    <3>3. p[m + 1] \in Nat /\ b[m + 1] \in Nat /\ c[m + 1] \in Nat
      BY <3>2
    <3>4. p[m + 1] < b[m + 1] /\ p[m + 1] = c[m + 1]
      BY <2>2, <2>4, <3>1, <3>2 DEF SplitAt
    <3>5. CASE n < m
      <4> m < Len(b) /\ Len(p) <= Len(c)
        BY <2>2, <2>4 DEF SplitAt
      <4>1. n + 1 \in 1..m /\ n + 1 \in 1..Len(p) /\ n < Len(b) /\ n + 1 \in 1..Len(c)
        BY <3>1, <3>5
      <4>2. p[n + 1] = b[n + 1] /\ p[n + 1] = c[n + 1] /\ b[n + 1] < c[n + 1] /\ c[n + 1] \in Nat
        <5>1. p[n + 1] = b[n + 1]
          BY <2>2, <4>1 DEF SplitAt
        <5>2. p[n + 1] = c[n + 1]
          BY <2>4, <4>1
        <5>3. n < Len(b)
          BY <4>1
        <5>4. b[n + 1] < c[n + 1] /\ c[n + 1] \in Nat
          <6>1. n < Len(c) /\ c[n + 1] \in Nat
            BY <4>1
          <6>2. QED
            BY <2>3, <5>3, <6>1 DEF SplitAt
        <5>5. QED
          BY <5>1, <5>2, <5>4
      <4>3. QED
        BY <4>2
    <3>6. CASE n = m
      <4>1. b[m + 1] < c[m + 1]
        BY <2>3, <3>2, <3>6 DEF SplitAt
      <4>2. QED
        BY <3>3, <3>4, <4>1
    <3>7. CASE n > m
      <4>1. m + 1 \in 1..n
        BY <3>7
      <4>2. b[m + 1] = c[m + 1]
        BY <2>3, <4>1 DEF SplitAt
      <4>3. QED
        BY <3>3, <3>4, <4>2
    <3>8. QED
      BY <3>5, <3>6, <3>7
  <2>6. QED
    BY <2>2, <2>5, PrefixAt, SMTT(30) DEF SplitAt
<1>3. QED
  BY <1>1, <1>2

LEMMA PrefixNotAbove ==
    ASSUME NEW p \in Word, NEW a \in Word, IsPrefix(p, a)
    PROVE  ~Less(a, p)
<1> USE DEF Word
<1>1. SUFFICES ASSUME NEW n \in Nat, SplitAt(a, p, n) PROVE FALSE
  BY LessAt
<1>2. QED
  BY <1>1, PrefixAt, SMTT(30) DEF SplitAt

LEMMA AppendWord ==
    ASSUME NEW a \in Word, NEW t \in Nat
    PROVE  /\ Append(a, t) \in Word /\ Len(Append(a, t)) = Len(a) + 1
           /\ Append(a, t)[Len(a) + 1] = t /\ \A j \in 1..Len(a) : Append(a, t)[j] = a[j]
  BY DEF Word

LEMMA AppendAbove ==
    ASSUME NEW a \in Word, NEW t \in Nat
    PROVE  Less(a, Append(a, t))
<1>1. SplitAt(a, Append(a, t), Len(a)) /\ Len(a) \in Nat
  BY AppendWord DEF SplitAt, Word
<1>2. QED
  BY <1>1, AppendWord, LessAt

\* The code appends Top to get behind all that is below a common prefix.
LEMMA BelowTop ==
    ASSUME NEW d \in Word, NEW a \in Word, IsPrefix(d, a), \A i \in 1..Len(a) : a[i] < Top
    PROVE  Less(a, Append(d, Top))
<1> USE DEF Word
<1> Top \in Nat
  BY DEF Top
<1>1. Len(d) <= Len(a) /\ \A j \in 1..Len(d) : d[j] = a[j]
  BY PrefixAt
<1>2. SplitAt(a, Append(d, Top), Len(d)) /\ Len(d) \in Nat
  BY <1>1, AppendWord DEF SplitAt
<1>3. QED
  BY <1>2, AppendWord, LessAt

LEMMA UnderTop ==
    ASSUME NEW d \in Word, NEW a \in Word, ~Less(a, d), Less(a, Append(d, Top)),
           \A i \in 1..Len(a) : a[i] < Top
    PROVE  IsPrefix(d, a)
<1> USE DEF Word
<1> Top \in Nat
  BY DEF Top
<1>1. PICK n \in Nat : SplitAt(a, Append(d, Top), n)
  BY AppendWord, LessAt
<1>2. CASE n < Len(d)
  <2>1. SplitAt(a, d, n)
    BY <1>1, <1>2, AppendWord DEF SplitAt
  <2>2. QED
    BY <2>1, LessAt
<1>3. CASE n = Len(d)
  <2>1. \A j \in 1..Len(d) : d[j] = a[j]
    BY <1>1, <1>3, AppendWord DEF SplitAt
  <2>2. Len(d) <= Len(a)
    BY <1>1, <1>3 DEF SplitAt
  <2>3. QED
    BY <2>1, <2>2, PrefixAt
<1>4. QED
  BY <1>1, <1>2, <1>3, AppendWord DEF SplitAt

\* It appends Nul to get behind one key only.
LEMMA BehindNul ==
    ASSUME NEW m \in Word, NEW a \in Word, Less(m, a)
    PROVE  ~Less(a, Append(m, Nul))
<1> USE DEF Word
<1> Nul \in Nat
  BY DEF Nul
<1>1. PICK n \in Nat : SplitAt(m, a, n)
  BY LessAt
<1>2. SUFFICES ASSUME NEW i \in Nat, SplitAt(a, Append(m, Nul), i) PROVE FALSE
  BY AppendWord, LessAt
<1>3. i <= Len(m)
  BY <1>2, AppendWord DEF SplitAt
<1>4. CASE i = Len(m)
  <2>1. n >= Len(m)
    <3>1. SUFFICES ASSUME n < Len(m) PROVE FALSE
      OBVIOUS
    <3>2. n + 1 \in 1..i /\ n + 1 \in 1..Len(m)
      BY <1>4, <3>1
    <3>3. a[n + 1] = m[n + 1] /\ m[n + 1] < a[n + 1] /\ m[n + 1] \in Nat
      BY <1>1, <1>2, <3>1, <3>2, AppendWord DEF SplitAt
    <3>4. QED
      BY <3>3
  <2>2. Len(a) > Len(m)
    BY <1>1, <2>1 DEF SplitAt
  <2>3. a[i + 1] \in Nat /\ a[i + 1] < 0
    BY <1>2, <1>4, <2>2, AppendWord DEF SplitAt, Nul
  <2>4. QED
    BY <2>3
<1>5. CASE i < Len(m)
  <2>1. SplitAt(a, m, i)
    BY <1>2, <1>5, AppendWord DEF SplitAt
  <2>2. QED
    BY <2>1, LessAsymmetric, LessAt
<1>6. QED
  BY <1>3, <1>4, <1>5

LEMMA NoKeyFirst ==
    ASSUME NEW a \in Word
    PROVE  ~Less(a, NoKey) /\ (a # NoKey => Less(NoKey, a)) /\ NoKey \in Word
<1>1. NoKey \in Word /\ Len(NoKey) = 0
  BY DEF NoKey, Word
<1>2. IsPrefix(NoKey, a)
  <2>1. Len(NoKey) <= Len(a) /\ \A j \in 1..Len(NoKey) : NoKey[j] = a[j]
    BY <1>1 DEF Word
  <2>2. QED
    BY <1>1, <2>1, PrefixAt
<1>3. QED
  BY <1>1, <1>2, PrefixNotAbove, LessTotal

LEMMA advanceTokenMax ==
    ASSUME NEW a \in Word, NEW b \in Word, NEW c \in Word
    PROVE  /\ advanceToken(a, b) \in {a, b}
           /\ ~Less(advanceToken(a, b), a) /\ ~Less(advanceToken(a, b), b)
           /\ Less(c, a) \/ Less(c, b) => Less(c, advanceToken(a, b))
           /\ ~Less(c, advanceToken(a, b)) <=> ~Less(c, a) /\ ~Less(c, b)
  BY LessIrreflexive, LessTransitive, LessTotal DEF advanceToken

-----------------------------------------------------------------------------
(***************************************************************************)
(* Keys, prefixes and the delimiter                                        *)
(***************************************************************************)
AnyByte == (Nul + 1)..Top
Text == Seq(AnyByte)
Named == Seq(Chars) \ {NoKey}

\* Every key is a text that JSON and XML carry unharmed.
TextKeys == \A k \in Keys : k \in Seq(Chars)

LEMMA Words ==
    ASSUME TextKeys
    PROVE  /\ Keys \subseteq Named /\ Named \subseteq Text /\ Text \subseteq Word
           /\ AskPrefixes \subseteq Text /\ Starts \subseteq Text
           /\ NoKey \in Text /\ NoKey \notin Named /\ PartsKey \in Keys
<1>1. Keys \subseteq Named /\ AskPrefixes \subseteq Text /\ Starts \subseteq Text /\ NoKey \notin Named
  BY ListingAssumption DEF Named, Text, AnyByte, TextKeys
<1>2. Chars \subseteq AnyByte /\ AnyByte \subseteq Nat
  BY ListingAssumption DEF Nul, Top, AnyByte
<1>3. Named \subseteq Text /\ Text \subseteq Word
  <2>1. Seq(Chars) \subseteq Seq(AnyByte)
    BY <1>2, SeqMonotonic, Zenon
  <2>2. Seq(AnyByte) \subseteq Seq(Nat)
    BY <1>2, SeqMonotonic, Zenon
  <2>3. QED
    BY <2>1, <2>2 DEF Named, Text, Word
<1>4. NoKey \in Text
  BY DEF Text, NoKey
<1>5. PartsKey \in Keys
  BY ListingAssumption DEF PartsKey
<1>6. QED
  BY <1>1, <1>3, <1>4, <1>5

LEMMA NamedBytes ==
    ASSUME TextKeys, NEW k \in Named
    PROVE  k \in Word /\ k # NoKey /\ Len(k) > 0 /\ \A i \in 1..Len(k) : k[i] < Top
<1>1. k \in Seq(Chars) /\ k # <<>>
  BY DEF Named, NoKey
<1>2. Len(k) > 0
  BY <1>1
<1>3. ASSUME NEW i \in 1..Len(k) PROVE k[i] < Top
  <2>1. k[i] \in Chars
    BY <1>1
  <2>2. \A b \in Chars : b < Top
    BY ListingAssumption DEF Nul, Top
  <2>3. QED
    BY <2>1, <2>2
<1>4. QED
  BY <1>2, <1>3, Words DEF Named, NoKey

\* What is sent of a text, and recorded of it, is the text.
LEMMA SentText ==
    ASSUME NEW k \in Seq(Chars)
    PROVE  Sent(k) = k /\ Recorded(k) = k
<1>1. \A i \in DOMAIN k : k[i] \in Chars /\ k[i] \in Utf8
  <2>1. Chars \subseteq Utf8
    BY ListingAssumption
  <2>2. \A i \in DOMAIN k : k[i] \in Chars
    OBVIOUS
  <2>3. QED
    BY <2>1, <2>2
<1>2. k = [i \in DOMAIN k |-> k[i]]
  OBVIOUS
<1>3. QED
  BY <1>1, <1>2 DEF Sent, Recorded, Replaced

LEMMA SentKeys ==
    ASSUME TextKeys, NEW k \in Named \cup Keys \cup {NoKey}
    PROVE  Sent(k) = k /\ Recorded(k) = k
<1>1. k \in Seq(Chars)
  <2>1. ASSUME NEW j \in Keys PROVE j \in Seq(Chars)
    BY DEF TextKeys
  <2>2. NoKey \in Seq(Chars)
    BY DEF NoKey
  <2>3. QED
    BY <2>1, <2>2 DEF Named
<1>2. QED
  BY <1>1, SentText

LEMMA Appended ==
    ASSUME TextKeys, NEW d \in Text
    PROVE  /\ d \in Word /\ Append(d, Top) \in Text /\ Append(d, Top) \in Word /\ Append(d, Nul) \in Word
           /\ Less(d, Append(d, Top)) /\ Less(d, Append(d, Nul))
           /\ \A k \in Named : k # Append(d, Top)
<1>1. Top \in Nat /\ Nul \in Nat /\ Top \in AnyByte /\ d \in Word
  BY Words DEF Top, Nul, AnyByte
<1>2. Append(d, Top) \in Text
  BY <1>1, AppendProperties DEF Text
<1>3. Append(d, Top) \in Word /\ Append(d, Nul) \in Word
  BY <1>1, AppendWord
<1>4. Less(d, Append(d, Top)) /\ Less(d, Append(d, Nul))
  BY <1>1, AppendAbove
<1>5. ASSUME NEW k \in Named, k = Append(d, Top) PROVE FALSE
  <2>1. Len(k) = Len(d) + 1 /\ k[Len(d) + 1] = Top /\ Len(d) \in Nat
    BY <1>1, <1>5, AppendWord DEF Word
  <2>2. QED
    BY <1>1, <2>1, NamedBytes
<1>6. QED
  BY <1>1, <1>2, <1>3, <1>4, <1>5

LEMMA SlashByte == Slash \in Nat /\ Slash # Top
  BY ListingAssumption DEF Nul, Top

\* A common prefix is the part of a key up to the first delimiter.
LEMMA DirPrefixOf ==
    ASSUME TextKeys, NEW r, r.prefix \in Text, NEW k \in Named, RolledUp(r, k)
    PROVE  LET d == DirPrefix(r, k)
           IN  /\ d \in Named /\ IsPrefix(d, k) /\ EndsInSlash(d)
               /\ IsPrefix(r.prefix, k) => IsPrefix(r.prefix, d)
               /\ DelimAt(d, r.prefix) = {Len(d)}
<1> DEFINE p == r.prefix
           D == DelimAt(k, p)
           n == CHOOSE i \in D : \A j \in D : i <= j
           d == SubSeq(k, 1, n)
<1>1. p \in Word /\ k \in Word /\ Len(p) \in Nat /\ Len(k) \in Nat
  BY Words DEF Word
<1>2. D \subseteq Nat /\ D # {}
  BY <1>1 DEF DelimAt, RolledUp
<1>3. n \in D /\ \A j \in D : n <= j
  BY <1>2, SmallestNat
<1>4. n \in (Len(p) + 1)..Len(k) /\ k[n] = Slash
  BY <1>3 DEF DelimAt
<1>5. d = DirPrefix(r, k)
  BY DEF DirPrefix
<1> HIDE DEF n
<1>6. n \in 1..Len(k)
  BY <1>1, <1>4
<1>7. /\ d \in Seq(Chars) /\ Len(d) = n /\ \A i \in 1..n : d[i] = k[i]
  <2>1. k \in Seq(Chars)
    BY DEF Named
  <2>2. d \in Seq(Chars) /\ Len(d) = n
    BY <1>1, <1>6, <2>1
  <2>3. \A i \in 1..n : d[i] = k[i]
    BY <1>1, <1>6, <2>1
  <2>4. QED
    BY <2>2, <2>3
<1>8. d # NoKey /\ d \in Named
  BY <1>6, <1>7 DEF NoKey, Named
<1>9. d \in Word /\ Len(d) <= Len(k)
  BY <1>6, <1>7, <1>8, Words
<1>10. IsPrefix(d, k)
  BY <1>1, <1>7, <1>9, PrefixAt
<1>11. EndsInSlash(d)
  BY <1>4, <1>6, <1>7, <1>8 DEF EndsInSlash, Last
<1>12. ASSUME IsPrefix(p, k) PROVE IsPrefix(p, d)
  <2>1. Len(p) <= Len(k) /\ \A j \in 1..Len(p) : p[j] = k[j]
    BY <1>1, <1>12, PrefixAt
  <2>2. Len(p) <= Len(d) /\ \A j \in 1..Len(p) : p[j] = d[j]
    BY <1>1, <1>4, <1>7, <2>1
  <2>3. QED
    BY <1>1, <1>9, <2>2, PrefixAt
<1>13. DelimAt(d, p) = {Len(d)}
  <2>1. Len(d) \in DelimAt(d, p)
    BY <1>1, <1>4, <1>6, <1>7 DEF DelimAt
  <2>2. ASSUME NEW i \in DelimAt(d, p) PROVE i = Len(d)
    <3>1. i \in (Len(p) + 1)..n /\ d[i] = Slash
      BY <1>7, <2>2 DEF DelimAt
    <3>2. i \in DelimAt(k, p)
      BY <1>1, <1>6, <1>7, <3>1 DEF DelimAt
    <3>3. QED
      BY <1>1, <1>3, <1>4, <1>7, <3>1, <3>2
  <2>3. QED
    BY <2>1, <2>2
<1>14. QED
  BY <1>5, <1>8, <1>10, <1>11, <1>12, <1>13

\* All keys below a common prefix are rolled up into it.
LEMMA RolledBelow ==
    ASSUME TextKeys, NEW r, r.prefix \in Text, r.delim, NEW d \in Named, NEW k \in Named,
           DelimAt(d, r.prefix) = {Len(d)}, IsPrefix(d, k)
    PROVE  RolledUp(r, k) /\ DirPrefix(r, k) = d
<1> DEFINE p == r.prefix
           D == DelimAt(k, p)
<1>1. p \in Word /\ k \in Word /\ d \in Word /\ Len(p) \in Nat /\ Len(k) \in Nat /\ Len(d) \in Nat
  BY Words DEF Word
<1>2. Len(d) <= Len(k) /\ \A i \in 1..Len(d) : d[i] = k[i]
  BY <1>1, PrefixAt
<1>3. Len(d) \in (Len(p) + 1)..Len(d) /\ d[Len(d)] = Slash
  BY DEF DelimAt
<1>4. Len(d) \in D
  BY <1>1, <1>2, <1>3 DEF DelimAt
<1>5. ASSUME NEW j \in D PROVE Len(d) <= j
  <2>1. j \in (Len(p) + 1)..Len(k) /\ k[j] = Slash /\ j \in Nat
    BY <1>1 DEF DelimAt
  <2>2. SUFFICES ASSUME j < Len(d) PROVE FALSE
    BY <1>1, <2>1
  <2>3. j \in (Len(p) + 1)..Len(d) /\ d[j] = Slash
    BY <1>1, <1>2, <2>1, <2>2
  <2>4. QED
    BY <1>1, <2>1, <2>2, <2>3 DEF DelimAt
<1>6. (CHOOSE i \in D : \A j \in D : i <= j) = Len(d)
  <2>1. \A i \in D : i \in Nat
    BY <1>1 DEF DelimAt
  <2>2. \A i \in D : (\A j \in D : i <= j) => i = Len(d)
    BY <1>1, <1>4, <1>5, <2>1
  <2>3. QED
    BY <1>4, <1>5, <2>2
<1>7. DirPrefix(r, k) = SubSeq(k, 1, Len(d))
  BY <1>6 DEF DirPrefix
<1>8. d = SubSeq(k, 1, Len(d))
  <2>1. SubSeq(d, 1, Len(d)) = d
    BY <1>1, SubSeqFull DEF Word
  <2>2. QED
    BY <2>1 DEF IsPrefix
<1>9. QED
  BY <1>4, <1>7, <1>8 DEF RolledUp

\* Only an object at the prefix itself ends in the delimiter and is not rolled up.
LEMMA OwnPrefix ==
    ASSUME TextKeys, NEW r, r.prefix \in Text, r.delim, NEW k \in Named, IsPrefix(r.prefix, k),
           ~RolledUp(r, k), EndsInSlash(k)
    PROVE  k = r.prefix
<1> DEFINE p == r.prefix
<1>1. p \in Word /\ k \in Word /\ Len(p) \in Nat /\ Len(k) \in Nat
  BY Words DEF Word
<1>2. Len(p) <= Len(k) /\ \A i \in 1..Len(p) : p[i] = k[i]
  BY <1>1, PrefixAt
<1>3. k[Len(k)] = Slash
  BY DEF EndsInSlash, Last
<1>4. Len(k) \notin (Len(p) + 1)..Len(k)
  BY <1>3 DEF RolledUp, DelimAt
<1>5. Len(p) = Len(k)
  BY <1>1, <1>2, <1>4
<1>6. QED
  BY <1>1, <1>2, <1>5, SeqEqual DEF Word

-----------------------------------------------------------------------------
(***************************************************************************)
(* The invariant                                                           *)
(***************************************************************************)
Items == [key : Text, id : Int]
Entries == [key : Keys, id : Nat]

TypeInv ==
    /\ store \in [Keys -> Seq(Version)] /\ \A k \in Keys : Distinct(store[k])
    /\ ask \in [api : APIs, prefix : AskPrefixes, delim : BOOLEAN, max : Nat \ {0}]
    /\ ~OfObjects => ~ask.delim
    /\ marker \in Items
    /\ cursor \subseteq Entries /\ rest \in Seq(Entries)
    /\ page \in [items : Seq(Items), next : Items]
    /\ got \in Seq(Items) /\ pages \in Nat
    /\ writes \in Nat /\ renewed \in BOOLEAN
    /\ phase \in {"paging", "scan", "done"}
    /\ phase # "scan" => cursor = {} /\ rest = <<>> /\ page = EmptyPage
    /\ page.items = <<>> => page = EmptyPage
    /\ rest # <<>> => ask.api = "versions"

\* The version IDs that will be handed out are new.
IdsInv ==
    OfObjects =>
        /\ \A k \in Keys : \A i \in DOMAIN store[k] : store[k][i].id < NewVersion + writes
        /\ marker.id < NewVersion + writes /\ page.next.id < NewVersion + writes

\* The scan of objects and versions meets keys, that of parts one key; it does
\* not begin before the prefix, unless the client's upload marker does.
EarlyMarker == ask.api = "uploads" /\ marker.key # NoKey /\ Less(marker.key, ask.prefix)

CursorInv ==
    \A e \in cursor : /\ OfObjects => e.id = 0
                      /\ ask.api = "parts" => e.key = PartsKey
                      /\ ask.api # "parts" => EarlyMarker \/ ~Less(e.key, ask.prefix)

\* Seeking forward in the database stays within what is ahead of the cursor.
Closed(S) == S \subseteq Objects /\ \A e \in S : \A o \in Objects : Before(e, o) => o \in S
ClosedInv == OfObjects => Closed(cursor)

\* What was shown: something below the prefix, a common prefix just when it is
\* the part of a key up to the delimiter.
Proper(x) ==
    IF x.id = PrefixID
    THEN /\ OfObjects /\ ask.delim /\ IsPrefix(ask.prefix, x.key)
         /\ x.key \in Named /\ DelimAt(x.key, ask.prefix) = {Len(x.key)}
    ELSE /\ x \in Entries
         /\ ask.api = "parts" => x.key = PartsKey
         /\ ask.api # "parts" => IsPrefix(ask.prefix, x.key)
         /\ OfObjects => ~RolledUp(ask, x.key)
         /\ ask.api = "objects" => x.id = 0

\* All that x stands for sorts before e.
Edge(x) == IF x.id = PrefixID THEN Append(x.key, Top) ELSE x.key
Under(x, e) == IF OfObjects THEN Less(Edge(x), e.key) ELSE Before(x, e)

\* x is not behind the marker m.
Reached(m, x) == Under(x, m) \/ (x.key = m.key /\ (OfObjects \/ x.id = m.id))

MarkerInv == ~OfObjects /\ phase # "done" => got = <<>> \/ Proper(marker)

Given == ToSet(got) \cup ToSet(page.items)

ShownInv ==
    /\ \A x \in Given : Proper(x)
    /\ phase # "done" => \A x \in ToSet(got) : Reached(marker, x)
    /\ page.items # <<>> => \A x \in Given : Reached(page.next, x)

\* What the scan meets again: the entry the marker names.
Again(x, e) ==
    \/ /\ ask.api = "versions" /\ ~IsPrefixMarker(ask, marker)
       /\ e.key = marker.key /\ x.key = e.key
    \/ ask.api = "uploads" /\ e = marker
    \/ ask.api = "parts" /\ e.id <= marker.id

AheadInv ==
    \A e \in cursor :
        /\ \A x \in ToSet(page.items) : Under(x, e)
        /\ \A x \in ToSet(got) : Under(x, e) \/ Again(x, e)

\* In the history h, id comes after the version that clients know as mid.
Later(h, mid, id) ==
    \E i, j \in DOMAIN h : i < j /\ markerVersionID(h[i].id) = mid /\ h[j].id = id

\* What follows a marker in its key's history was not shown.
Unshown(m, shown) ==
    ask.api = "versions" /\ m.key \in Keys =>
        \A j \in DOMAIN store[m.key] :
            Later(store[m.key], m.id, store[m.key][j].id) =>
                Item(m.key, store[m.key][j].id) \notin shown

\* The versions still to be emitted are the end of their key's history, which
\* the page has not reached or is in the middle of.
RestIs(k, h) ==
    /\ IsPrefix(ask.prefix, k) /\ ~RolledUp(ask, k)
    /\ \A e \in cursor : Less(k, e.key)
    /\ \A x \in Given : Under(x, rest[1]) \/ x.key = k
    /\ \E i \in DOMAIN h :
          /\ Len(rest) = Len(h) - i + 1
          /\ \A j \in DOMAIN rest : rest[j] = Item(k, h[i + j - 1].id)
          /\ page.items # <<>> =>
                \/ Under(Last(page.items), rest[1])
                \/ i > 1 /\ page.next = Item(k, markerVersionID(h[i - 1].id))

RestInv == rest # <<>> => RestIs(rest[1].key, store[rest[1].key])

OnceInv == ~renewed =>
    /\ IsInjective(got \o page.items)
    /\ \A i \in DOMAIN rest : rest[i] \notin Given
    /\ phase # "done" => Unshown(marker, ToSet(got))
    /\ page.items # <<>> => Unshown(page.next, Given)

CountInv == phase # "done" => Len(got) >= pages

\* The page continues behind its last item.
NextInv ==
    page.items # <<>> => /\ page.next.key = Last(page.items).key
                         /\ ~OfObjects => page.next = Last(page.items)

PageInv == CursorInv /\ ClosedInv /\ MarkerInv /\ ShownInv /\ AheadInv /\ RestInv /\ NextInv

\* An object at the prefix asked for looks like a common prefix when it is
\* the marker.
OwnFolder == ask.delim /\ EndsInSlash(ask.prefix) /\ ask.prefix \in Keys

Resume(m) == IF IsPrefixMarker(ask, m) THEN Append(m.key, Top) ELSE m.key

\* A listing from marker m meets x.
Pending(m, x) ==
    CASE ask.api = "uploads" -> Before(m, x)
      [] ask.api = "parts" -> m.id < x.id
      [] OTHER -> \/ Less(Resume(m), x.key)
                  \/ /\ ask.api = "versions" /\ ~IsPrefixMarker(ask, m)
                     /\ x.key = m.key /\ Later(store[x.key], m.id, x.id)

Entry(x) == IF ask.api = "versions" THEN Item(x.key, 0) ELSE x

SteadyInv ==
    \A x \in steady :
        /\ x \in Listed(ask, store)
        /\ ask.api # "parts" => IsPrefix(ask.prefix, x.key)

\* What was there throughout was shown in an earlier page or is still to come,
\* on this page if there is one, with the versions of the current key or ahead.
Kept(x) ==
    /\ Shown(ask, x) \in ToSet(got) \/ (phase # "done" /\ Pending(marker, x))
    /\ phase = "scan" => \/ Shown(ask, x) \in Given \/ x \in ToSet(rest)
                         \/ Entry(x) \in cursor /\ Pending(marker, x)

\* The listing ended at a key between the client's marker and the prefix.
CutShort == phase = "done" /\ EarlyMarker

KeptInv == OwnFolder \/ CutShort \/ \A x \in steady : Kept(x)

-----------------------------------------------------------------------------
(***************************************************************************)
(* Histories                                                               *)
(***************************************************************************)
LEMMA RemovedAt ==
    ASSUME NEW h \in Seq(Version), NEW i \in DOMAIN h
    PROVE  LET g == RemoveAt(h, i)
           IN  /\ g \in Seq(Version) /\ Len(g) = Len(h) - 1
               /\ \A j \in 1..Len(g) : g[j] = h[IF j < i THEN j ELSE j + 1]
<1> DEFINE a == SubSeq(h, 1, i - 1)
           b == SubSeq(h, i + 1, Len(h))
<1>1. i \in 1..Len(h) /\ Len(h) \in Nat
  OBVIOUS
<1>2. a \in Seq(Version) /\ Len(a) = i - 1 /\ \A j \in 1..(i - 1) : a[j] = h[j]
  BY <1>1
<1>3. b \in Seq(Version) /\ Len(b) = Len(h) - i /\ \A j \in 1..(Len(h) - i) : b[j] = h[i + j]
  BY <1>1
<1>4. RemoveAt(h, i) = a \o b
  BY DEF RemoveAt
<1> HIDE DEF a, b
<1>5. /\ a \o b \in Seq(Version) /\ Len(a \o b) = Len(a) + Len(b)
      /\ \A j \in 1..(Len(a) + Len(b)) : (a \o b)[j] = IF j <= Len(a) THEN a[j] ELSE b[j - Len(a)]
  BY <1>2, <1>3, SMTT(40)
<1>6. ASSUME NEW j \in 1..(Len(h) - 1) PROVE (a \o b)[j] = h[IF j < i THEN j ELSE j + 1]
  <2>1. CASE j < i
    <3>3. j \in 1..(i - 1) /\ j <= Len(a) /\ j \in 1..(Len(a) + Len(b))
      BY <1>1, <1>2, <1>3, <2>1
    <3>1. (a \o b)[j] = a[j] /\ j \in 1..(i - 1)
      BY <1>5, <3>3
    <3>2. QED
      BY <1>2, <2>1, <3>1
  <2>2. CASE ~(j < i)
    <3>1. j - Len(a) \in 1..(Len(h) - i) /\ i + (j - Len(a)) = j + 1 /\ ~(j <= Len(a))
      BY <1>1, <1>2, <2>2
    <3>4. j \in 1..(Len(a) + Len(b))
      BY <1>1, <1>2, <1>3
    <3>5. (a \o b)[j] = b[j - Len(a)]
      BY <1>5, <3>1, <3>4
    <3>2. b[j - Len(a)] = h[i + (j - Len(a))]
      BY <1>3, <3>1
    <3>3. QED
      BY <2>2, <3>1, <3>2, <3>5
  <2>3. QED
    BY <2>1, <2>2
<1>7. Len(a \o b) = Len(h) - 1
  BY <1>1, <1>2, <1>3, <1>5
<1>8. QED
  BY <1>4, <1>5, <1>6, <1>7

LEMMA PutFirst ==
    ASSUME NEW h \in Seq(Version), NEW v \in Version
    PROVE  /\ <<v>> \o h \in Seq(Version) /\ Len(<<v>> \o h) = Len(h) + 1
           /\ (<<v>> \o h)[1] = v /\ \A j \in 2..(Len(h) + 1) : (<<v>> \o h)[j] = h[j - 1]
  OBVIOUS

LEMMA markerVersionIDInjective ==
    ASSUME NEW i \in Nat, NEW j \in Nat
    PROVE  /\ markerVersionID(i) \in Int /\ markerVersionID(i) # NoID
           /\ markerVersionID(i) = markerVersionID(j) => i = j
           /\ \A n \in Nat : i < n => markerVersionID(i) < n
  BY DEF markerVersionID, NullID, NoID

\* What a change leaves of a history stays in order.
LEMMA LaterPut ==
    ASSUME NEW h \in Seq(Version), NEW v \in Version, NEW m \in Int, NEW n \in Nat
    PROVE  /\ Later(h, m, n) => Later(<<v>> \o h, m, n)
           /\ Later(<<v>> \o h, m, n) /\ m # markerVersionID(v.id) => Later(h, m, n)
<1> DEFINE g == <<v>> \o h
<1>1. Len(g) = Len(h) + 1 /\ g[1] = v /\ \A j \in 2..(Len(h) + 1) : g[j] = h[j - 1]
  BY PutFirst
<1>2. Len(h) \in Nat /\ DOMAIN h = 1..Len(h)
  OBVIOUS
<1>3. DOMAIN g = 1..(Len(h) + 1)
  BY <1>1, PutFirst
<1> HIDE DEF g
<1>4. ASSUME Later(h, m, n) PROVE Later(g, m, n)
  <2>1. PICK i, j \in DOMAIN h : i < j /\ markerVersionID(h[i].id) = m /\ h[j].id = n
    BY <1>4 DEF Later
  <2>2. i + 1 \in 2..(Len(h) + 1) /\ j + 1 \in 2..(Len(h) + 1) /\ i + 1 < j + 1
    BY <1>2, <2>1
  <2>3. g[i + 1] = h[i] /\ g[j + 1] = h[j]
    BY <1>1, <1>2, <2>2
  <2>4. i + 1 \in DOMAIN g /\ j + 1 \in DOMAIN g
    BY <1>2, <1>3, <2>2
  <2>5. QED
    BY <2>1, <2>2, <2>3, <2>4 DEF Later
<1>5. ASSUME Later(g, m, n), m # markerVersionID(v.id) PROVE Later(h, m, n)
  <2>1. PICK i, j \in DOMAIN g : i < j /\ markerVersionID(g[i].id) = m /\ g[j].id = n
    BY <1>5 DEF Later
  <2>2. i # 1
    BY <1>1, <1>5, <2>1
  <2>3. i \in 2..(Len(h) + 1) /\ j \in 2..(Len(h) + 1) /\ i - 1 \in DOMAIN h /\ j - 1 \in DOMAIN h /\ i - 1 < j - 1
    BY <1>2, <1>3, <2>1, <2>2
  <2>4. g[i] = h[i - 1] /\ g[j] = h[j - 1]
    BY <1>1, <2>3
  <2>5. QED
    BY <2>1, <2>3, <2>4 DEF Later
<1>6. QED
  BY <1>4, <1>5 DEF g

LEMMA LaterRemove ==
    ASSUME NEW h \in Seq(Version), NEW r \in DOMAIN h, NEW m \in Int, NEW n \in Nat
    PROVE  /\ Later(RemoveAt(h, r), m, n) => Later(h, m, n)
           /\ Later(h, m, n) /\ h[r].id # n /\ markerVersionID(h[r].id) # m
                => Later(RemoveAt(h, r), m, n)
<1> DEFINE g == RemoveAt(h, r)
<1>1. g \in Seq(Version) /\ Len(g) = Len(h) - 1 /\ \A j \in 1..Len(g) : g[j] = h[IF j < r THEN j ELSE j + 1]
  BY RemovedAt
<1>2. Len(h) \in Nat /\ DOMAIN h = 1..Len(h) /\ DOMAIN g = 1..(Len(h) - 1) /\ r \in 1..Len(h)
  BY <1>1
<1> HIDE DEF g
<1>3. ASSUME Later(g, m, n) PROVE Later(h, m, n)
  <2>1. PICK i, j \in DOMAIN g : i < j /\ markerVersionID(g[i].id) = m /\ g[j].id = n
    BY <1>3 DEF Later
  <2> DEFINE a == IF i < r THEN i ELSE i + 1
             b == IF j < r THEN j ELSE j + 1
  <2>2. a \in DOMAIN h /\ b \in DOMAIN h /\ a < b
    BY <1>2, <2>1
  <2>3. g[i] = h[a] /\ g[j] = h[b]
    BY <1>1, <1>2, <2>1
  <2>4. QED
    BY <2>1, <2>2, <2>3 DEF Later
<1>4. ASSUME Later(h, m, n), h[r].id # n, markerVersionID(h[r].id) # m PROVE Later(g, m, n)
  <2>1. PICK i, j \in DOMAIN h : i < j /\ markerVersionID(h[i].id) = m /\ h[j].id = n
    BY <1>4 DEF Later
  <2>2. i # r /\ j # r
    BY <1>4, <2>1
  <2> DEFINE a == IF i < r THEN i ELSE i - 1
             b == IF j < r THEN j ELSE j - 1
  <2>3. a \in DOMAIN g /\ b \in DOMAIN g /\ a < b
    BY <1>2, <2>1, <2>2
  <2>4. (IF a < r THEN a ELSE a + 1) = i /\ (IF b < r THEN b ELSE b + 1) = j
    BY <1>2, <2>1, <2>2
  <2>5. g[a] = h[i] /\ g[b] = h[j]
    BY <1>1, <1>2, <2>3, <2>4
  <2>6. QED
    BY <2>1, <2>3, <2>5 DEF Later
<1>5. QED
  BY <1>3, <1>4 DEF g

LEMMA DistinctPut ==
    ASSUME NEW h \in Seq(Version), NEW v \in Version, Distinct(h), \A i \in DOMAIN h : h[i].id # v.id
    PROVE  Distinct(<<v>> \o h)
<1> DEFINE g == <<v>> \o h
<1>1. g \in Seq(Version) /\ Len(g) = Len(h) + 1 /\ g[1] = v /\ \A j \in 2..(Len(h) + 1) : g[j] = h[j - 1]
  BY PutFirst
<1>2. Len(h) \in Nat /\ DOMAIN h = 1..Len(h) /\ DOMAIN g = 1..(Len(h) + 1)
  BY <1>1
<1> HIDE DEF g
<1>3. ASSUME NEW i \in DOMAIN g, NEW j \in DOMAIN g, g[i].id = g[j].id PROVE i = j
  <2>1. \A l \in DOMAIN g : l # 1 => l \in 2..(Len(h) + 1) /\ l - 1 \in DOMAIN h /\ g[l] = h[l - 1]
    BY <1>1, <1>2
  <2>2. CASE i = 1 \/ j = 1
    BY <1>1, <1>3, <2>1, <2>2
  <2>3. CASE i # 1 /\ j # 1
    <3>1. i - 1 = j - 1
      BY <1>3, <2>1, <2>3 DEF Distinct
    <3>2. QED
      BY <1>2, <3>1
  <2>4. QED
    BY <2>2, <2>3
<1>4. QED
  BY <1>3 DEF Distinct, g

LEMMA DistinctRemove ==
    ASSUME NEW h \in Seq(Version), NEW r \in DOMAIN h, Distinct(h)
    PROVE  Distinct(RemoveAt(h, r)) /\ \A i \in DOMAIN RemoveAt(h, r) :
              RemoveAt(h, r)[i].id # h[r].id /\ \E j \in DOMAIN h : RemoveAt(h, r)[i] = h[j]
<1> DEFINE g == RemoveAt(h, r)
           from(j) == IF j < r THEN j ELSE j + 1
<1>1. g \in Seq(Version) /\ Len(g) = Len(h) - 1 /\ \A j \in 1..Len(g) : g[j] = h[from(j)]
  BY RemovedAt
<1>2. Len(h) \in Nat /\ DOMAIN h = 1..Len(h) /\ DOMAIN g = 1..(Len(h) - 1) /\ r \in 1..Len(h)
  BY <1>1
<1> HIDE DEF g
<1>3. ASSUME NEW i \in DOMAIN g
      PROVE  from(i) \in DOMAIN h /\ from(i) # r /\ g[i] = h[from(i)]
  BY <1>1, <1>2
<1>4. ASSUME NEW i \in DOMAIN g, NEW j \in DOMAIN g, g[i].id = g[j].id PROVE i = j
  <2>1. from(i) = from(j)
    BY <1>3, <1>4 DEF Distinct
  <2>2. QED
    BY <1>2, <2>1
<1>5. ASSUME NEW i \in DOMAIN g PROVE g[i].id # h[r].id /\ \E j \in DOMAIN h : g[i] = h[j]
  <2>1. from(i) \in DOMAIN h /\ from(i) # r /\ g[i] = h[from(i)]
    BY <1>3
  <2> HIDE DEF from
  <2>2. QED
    BY <2>1 DEF Distinct
<1>6. QED
  BY <1>4, <1>5 DEF Distinct, g

-----------------------------------------------------------------------------
(***************************************************************************)
(* Type correctness                                                        *)
(***************************************************************************)
LEMMA EntryItems ==
    ASSUME TextKeys
    PROVE  /\ Entries \subseteq Items /\ EmptyPage \in [items : Seq(Items), next : Items]
           /\ NoID \in Int /\ PrefixID \in Int
<1>1. NoID \in Int /\ PrefixID \in Int
  BY DEF NoID, PrefixID
<1>2. Item(NoKey, NoID) \in Items
  BY <1>1, Words DEF Item, Items
<1>3. QED
  BY <1>1, <1>2, Words DEF Entries, Items, EmptyPage

LEMMA StoredEntries ==
    ASSUME TypeInv, NEW k \in Keys
    PROVE  Stored(store, k) \subseteq Entries /\ Item(k, 0) \in Entries
<1>1. store[k] \in Seq(Version)
  BY DEF TypeInv
<1>2. ASSUME NEW i \in DOMAIN store[k] PROVE store[k][i].id \in Nat
  <2>1. store[k][i] \in Version
    BY <1>1
  <2>2. QED
    BY <2>1 DEF Version
<1>3. QED
  BY <1>2 DEF Stored, Entries, Item

LEMMA TypeInit ==
    ASSUME TextKeys, Init
    PROVE  TypeInv
<1>1. ASSUME NEW h \in Histories PROVE h \in Seq(Version) /\ Distinct(h)
  <2>1. [id : 0..(NewVersion - 1), del : BOOLEAN] \subseteq Version
    BY DEF Version
  <2>2. QED
    BY <2>1, ListingAssumption, SeqMonotonic
<1>2. store \in [Keys -> Seq(Version)] /\ \A k \in Keys : Distinct(store[k])
  BY <1>1 DEF Init
<1>3. ask \in [api : APIs, prefix : AskPrefixes, delim : BOOLEAN, max : Nat \ {0}]
  <2>1. \A raw \in 0..(MaxPage + 1) : MaxKeys(raw) \in Nat \ {0}
    BY ListingAssumption DEF MaxKeys
  <2>2. QED
    BY <2>1 DEF Init
<1>4. ~OfObjects => ~ask.delim
  BY <1>3, ListingAssumption DEF Init, OfObjects
<1>5. marker \in Items
  <2>1. UploadStarts \subseteq Items
    BY ListingAssumption, EntryItems DEF Items, Text, AnyByte
  <2>2. \A k \in Starts : Item(k, NoID) \in Items
    BY Words, EntryItems DEF Item, Items
  <2>3. \A n \in UploadIDs \cup {NoID} : Item(NoKey, n) \in Items
    BY ListingAssumption, Words, EntryItems DEF Item, Items
  <2>4. QED
    BY <2>1, <2>2, <2>3 DEF Init
<1>6. /\ cursor = {} /\ rest = <<>> /\ page = EmptyPage
      /\ got = <<>> /\ pages = 0 /\ writes = 0 /\ renewed = FALSE /\ phase = "paging"
  BY DEF Init
<1>7. rest \in Seq(Entries) /\ got \in Seq(Items)
  BY <1>6
<1>8. QED
  BY <1>2, <1>3, <1>4, <1>5, <1>6, <1>7, EntryItems DEF TypeInv

LEMMA TypeOpen ==
    ASSUME TypeInv, NEW entries, entries \subseteq Entries, NEW at, Open(entries, at)
    PROVE  TypeInv'
<1>1. cursor' \subseteq Entries
  BY DEF Open, Seek
<1>2. /\ UNCHANGED <<store, ask, marker, rest, page, got, pages, writes, renewed>>
      /\ phase' = "scan" /\ phase = "paging"
  BY DEF Open, bucketVars
<1>3. OfObjects' = OfObjects
  BY <1>2 DEF OfObjects
<1>4. rest' = <<>> /\ page' = EmptyPage
  BY <1>2 DEF TypeInv
<1>5. QED
  BY <1>1, <1>2, <1>3, <1>4 DEF TypeInv

\* The marker a page ends with reaches the next request as it is.
LEMMA ReplyMarker ==
    ASSUME TextKeys, TypeInv, PageInv, NEW truncated \in BOOLEAN, Reply(truncated)
    PROVE  marker' = IF truncated THEN page.next ELSE marker
<1>1. page.next \in Items /\ page.items \in Seq(Items)
  BY DEF TypeInv
<1>2. page.next.key \in Named \cup {NoKey} \cup Keys
  <2>1. CASE page.items = <<>>
    BY <2>1 DEF TypeInv, EmptyPage, Item
  <2>2. CASE page.items # <<>>
    <3>1. Last(page.items) \in Given
      BY <1>1, <2>2 DEF Last, ToSet, Given
    <3>2. Proper(Last(page.items)) /\ page.next.key = Last(page.items).key
      BY <2>2, <3>1 DEF PageInv, ShownInv, NextInv
    <3>3. QED
      BY <3>2 DEF Proper, Entries
  <2>3. QED
    BY <2>1, <2>2
<1>3. Sent(page.next.key) = page.next.key
  BY <1>2, SentKeys
<1>4. Item(page.next.key, page.next.id) = page.next
  BY <1>1 DEF Items, Item
<1>5. QED
  BY <1>3, <1>4 DEF Reply

LEMMA TypeReply ==
    ASSUME TextKeys, TypeInv, PageInv, NEW truncated \in BOOLEAN, Reply(truncated)
    PROVE  TypeInv'
<1>1. /\ UNCHANGED <<store, ask, writes, renewed>>
      /\ got' = got \o page.items /\ pages' = pages + 1
      /\ cursor' = {} /\ rest' = <<>> /\ page' = EmptyPage
      /\ phase' \in {"paging", "done"} /\ marker' \in {marker, page.next}
  BY ReplyMarker DEF Reply, bucketVars
<1>2. OfObjects' = OfObjects
  BY <1>1 DEF OfObjects
<1>3. got' \in Seq(Items) /\ pages' \in Nat /\ marker' \in Items /\ rest' \in Seq(Entries)
  BY <1>1 DEF TypeInv
<1>4. QED
  BY <1>1, <1>2, <1>3, EntryItems DEF TypeInv

\* A step of the scan that is none of its ends.
LEMMA TypeStep ==
    ASSUME TypeInv, phase = "scan", UNCHANGED <<bucketVars, clientVars>>,
           cursor' \subseteq cursor, rest' \in Seq(Entries), rest' # <<>> => ask.api = "versions",
           \/ page' = page
           \/ \E item \in Items, next \in Items : Emit(item, next)
    PROVE  TypeInv'
<1>1. UNCHANGED <<store, ask, marker, got, pages, writes, renewed, phase>>
  BY DEF bucketVars, clientVars
<1>2. OfObjects' = OfObjects
  BY <1>1 DEF OfObjects
<1>3. /\ page' \in [items : Seq(Items), next : Items]
      /\ page'.items = <<>> => page' = EmptyPage
  <2>1. CASE page' = page
    BY <2>1 DEF TypeInv
  <2>2. ASSUME NEW item \in Items, NEW next \in Items, Emit(item, next)
        PROVE  page' \in [items : Seq(Items), next : Items] /\ page'.items # <<>>
    <3>1. page.items \in Seq(Items)
      BY DEF TypeInv
    <3>2. Append(page.items, item) \in Seq(Items) /\ Append(page.items, item) # <<>>
      BY <3>1, AppendProperties
    <3>3. QED
      BY <2>2, <3>2 DEF Emit
  <2>3. QED
    BY <2>1, <2>2
<1>4. QED
  BY <1>1, <1>2, <1>3 DEF TypeInv

LEMMA TypeChange ==
    ASSUME TypeInv, NEW k \in Keys, NEW h \in Seq(Version), Distinct(h), Change(k, h), renewed' \in BOOLEAN
    PROVE  TypeInv'
<1>1. /\ UNCHANGED <<ask, marker, got, pages, phase, cursor, rest, page>>
      /\ store' = [store EXCEPT ![k] = h] /\ writes' = writes + 1
  BY DEF Change, clientVars, scanVars
<1>2. OfObjects' = OfObjects
  BY <1>1 DEF OfObjects
<1>3. store' \in [Keys -> Seq(Version)] /\ \A j \in Keys : Distinct(store'[j])
  BY <1>1 DEF TypeInv
<1>4. QED
  BY <1>1, <1>2, <1>3 DEF TypeInv

-----------------------------------------------------------------------------
(***************************************************************************)
(* Where the cursor is                                                     *)
(***************************************************************************)
LEMMA ItemFields == \A k, i : Item(k, i).key = k /\ Item(k, i).id = i
  BY DEF Item

LEMMA BeforeOrder ==
    ASSUME TextKeys, NEW u \in Items, NEW v \in Items
    PROVE  /\ ~Before(u, u) /\ (Before(u, v) => ~Before(v, u) /\ u # v)
           /\ ~Before(u, v) /\ u # v => Before(v, u)
           /\ \A w \in Items : Before(u, v) /\ Before(v, w) => Before(u, w)
<1>1. \A w \in Items : w.key \in Word /\ w.id \in Int
  BY Words DEF Items
<1>2. u # v => u.key # v.key \/ u.id # v.id
  BY DEF Items
<1>3. ~Before(u, u)
  BY <1>1, LessIrreflexive DEF Before
<1>4. ASSUME NEW w \in Items, Before(u, v), Before(v, w) PROVE Before(u, w)
  <2>1. CASE Less(u.key, v.key) /\ Less(v.key, w.key)
    BY <1>1, <2>1, LessTransitive DEF Before
  <2>2. CASE u.key = v.key \/ v.key = w.key
    <3>1. v.key = w.key /\ u.key = v.key /\ u.id < v.id /\ v.id < w.id => u.id < w.id
      BY <1>1
    <3>2. ~Less(u.key, u.key) /\ ~Less(v.key, v.key)
      BY <1>1, LessIrreflexive
    <3>3. QED
      BY <1>4, <2>2, <3>1, <3>2 DEF Before
  <2>3. QED
    BY <1>4, <2>1, <2>2 DEF Before
<1>5. Before(u, v) => ~Before(v, u) /\ u # v
  BY <1>3, <1>4
<1>6. ASSUME ~Before(u, v), u # v PROVE Before(v, u)
  <2>1. CASE u.key # v.key
    BY <1>1, <1>6, <2>1, LessTotal DEF Before
  <2>2. CASE u.key = v.key
    <3>1. v.id < u.id
      BY <1>1, <1>2, <1>6, <2>2 DEF Before
    <3>2. QED
      BY <2>2, <3>1 DEF Before
  <2>3. QED
    BY <2>1, <2>2
<1>7. QED
  BY <1>3, <1>4, <1>5, <1>6

LEMMA EdgeAbove ==
    ASSUME TextKeys, NEW x \in Items
    PROVE  /\ x.key \in Word /\ Edge(x) \in Word /\ ~Less(Edge(x), x.key)
           /\ \A a \in Word : Less(Edge(x), a) => Less(x.key, a)
<1>1. x.key \in Text /\ x.key \in Word
  BY Words DEF Items
<1>2. CASE x.id = PrefixID
  <2>1. Edge(x) \in Word /\ Less(x.key, Edge(x))
    BY <1>1, <1>2, Appended DEF Edge
  <2>2. QED
    BY <1>1, <2>1, LessAsymmetric, LessTransitive
<1>3. CASE x.id # PrefixID
  BY <1>1, <1>3, LessIrreflexive DEF Edge
<1>4. QED
  BY <1>2, <1>3

\* The entry at the cursor is the first of those ahead.
LEMMA AtFirst ==
    ASSUME TextKeys, TypeInv, CursorInv, NEW e \in cursor, At(e), NEW f \in cursor, f # e
    PROVE  Before(e, f) /\ (OfObjects => Less(e.key, f.key))
<1>1. e \in Entries /\ f \in Entries /\ e \in Items /\ f \in Items
  BY EntryItems DEF TypeInv
<1>2. Before(e, f)
  BY <1>1, BeforeOrder DEF At
<1>3. ASSUME OfObjects PROVE Less(e.key, f.key)
  <2>1. e.id = 0 /\ f.id = 0
    BY <1>3 DEF CursorInv
  <2>2. QED
    BY <1>2, <2>1 DEF Before
<1>4. QED
  BY <1>2, <1>3

LEMMA AskTypes ==
    ASSUME TextKeys, TypeInv
    PROVE  /\ ask.prefix \in Text /\ ask.prefix \in Word /\ ask.max \in Nat \ {0} /\ ask.delim \in BOOLEAN
           /\ ask.api \in {"objects", "versions", "uploads", "parts"}
<1>1. ask.api \in APIs /\ ask.prefix \in AskPrefixes /\ ask.max \in Nat \ {0} /\ ask.delim \in BOOLEAN
  BY DEF TypeInv
<1>2. QED
  BY <1>1, Words, ListingAssumption

LEMMA ProperKey ==
    ASSUME TextKeys, NEW x, Proper(x)
    PROVE  x.key \in Named /\ x.key # NoKey
<1>1. x.key \in Named
  BY Words DEF Proper, Entries
<1>2. QED
  BY <1>1, NamedBytes

\* What was shown before a key is before the common prefix the key is in, and
\* not that common prefix.
LEMMA BeforeDirPrefix ==
    ASSUME TextKeys, TypeInv, OfObjects, ask.delim, NEW d \in Named, DelimAt(d, ask.prefix) = {Len(d)},
           NEW k \in Named, IsPrefix(d, k), NEW x \in Items, Proper(x), Less(Edge(x), k)
    PROVE  Less(Edge(x), d) /\ x.key # d
<1>1. /\ d \in Word /\ k \in Word /\ Edge(x) \in Word /\ x.key \in Named /\ x.key \in Word
      /\ d \in Text /\ Top \in Nat
  BY EdgeAbove, ProperKey, Words DEF Top
<1>2. Less(Edge(x), d)
  <2>1. SUFFICES ASSUME ~Less(Edge(x), d) PROVE FALSE
    OBVIOUS
  <2>2. IsPrefix(d, Edge(x))
    <3>1. ~Less(k, Edge(x))
      BY <1>1, LessAsymmetric
    <3>2. QED
      BY <1>1, <2>1, <3>1, PrefixBetween
  <2>3. CASE x.id # PrefixID
    <3>1. RolledUp(ask, x.key)
      BY <1>1, <2>2, <2>3, AskTypes, RolledBelow DEF Edge
    <3>2. QED
      BY <2>3, <3>1 DEF Proper
  <2>4. CASE x.id = PrefixID
    <3>1. Edge(x) = Append(x.key, Top) /\ DelimAt(x.key, ask.prefix) = {Len(x.key)}
      BY <2>4 DEF Edge, Proper
    <3>2. Len(d) <= Len(x.key) + 1 /\ \A j \in 1..Len(d) : d[j] = Append(x.key, Top)[j]
      BY <1>1, <2>2, <3>1, AppendWord, PrefixAt, ZenonT(60)
    <3>3. Len(d) # Len(x.key) + 1
      <4>1. SUFFICES ASSUME Len(d) = Len(x.key) + 1 PROVE FALSE
        OBVIOUS
      <4>2. d[Len(d)] = Top /\ Len(d) \in 1..Len(d)
        <5>1. Len(d) \in 1..Len(d) /\ Append(x.key, Top)[Len(x.key) + 1] = Top
          BY <1>1, AppendWord, NamedBytes DEF Word
        <5>2. d[Len(d)] = Append(x.key, Top)[Len(d)]
          BY <3>2, <5>1
        <5>3. QED
          BY <4>1, <5>1, <5>2
      <4>3. QED
        BY <4>2, NamedBytes DEF Top
    <3>4. Len(d) <= Len(x.key) /\ \A j \in 1..Len(d) : d[j] = x.key[j]
      BY <1>1, <3>2, <3>3, AppendWord DEF Word
    <3>5. IsPrefix(d, x.key) /\ IsPrefix(x.key, x.key)
      BY <1>1, <3>4, PrefixAt
    <3>6. DirPrefix(ask, x.key) = d /\ DirPrefix(ask, x.key) = x.key
      BY <1>1, <3>1, <3>5, AskTypes, RolledBelow
    <3>7. Less(k, Append(d, Top))
      BY <1>1, BelowTop, NamedBytes
    <3>8. QED
      BY <1>1, <3>1, <3>6, <3>7, Appended, LessAsymmetric
  <2>5. QED
    BY <2>3, <2>4
<1>3. QED
  BY <1>2, EdgeAbove

\* Behind the common prefix d is what sorts after d with Top appended.
LEMMA BehindDirPrefix ==
    ASSUME TextKeys, NEW d \in Named, NEW f \in Entries
    PROVE  /\ ~Before(f, Item(Append(d, Top), NoID)) => Less(Append(d, Top), f.key)
           /\ Before(f, Item(Append(d, Top), NoID)) /\ ~Less(f.key, d) => IsPrefix(d, f.key)
<1>1. f.key \in Named /\ f.key \in Word /\ d \in Text /\ d \in Word /\ f.id \in Nat
  BY Words DEF Entries
<1>2. f.key # Append(d, Top) /\ Append(d, Top) \in Word
  BY <1>1, Appended
<1>3. Before(f, Item(Append(d, Top), NoID)) <=> Less(f.key, Append(d, Top))
  BY <1>2, ItemFields DEF Before
<1>4. QED
  BY <1>1, <1>2, <1>3, LessTotal, UnderTop, NamedBytes

-----------------------------------------------------------------------------
(***************************************************************************)
(* One iteration of a scan                                                 *)
(***************************************************************************)
\* What a scan may emit for the entries it leaves behind: it was not shown yet,
\* and what it stands for is behind all that was shown and before all ahead.
Fits(item, next, ahead) ==
    /\ phase = "scan" /\ rest = <<>>
    /\ item \in Items /\ next \in Items /\ Proper(item)
    /\ next.key = item.key /\ (OfObjects => next.id = NoID) /\ (~OfObjects => next = item)
    /\ \A x \in Given : Under(x, next) /\ x # item
    /\ ahead \subseteq cursor /\ \A f \in ahead : Under(item, f)
    /\ OfObjects => Closed(ahead)
    /\ \A x \in steady : Entry(x) \in cursor \ ahead => Shown(ask, x) = item

\* An entry may be left out when nothing that has to be shown is meant by it.
Idle(e) ==
    /\ e \in cursor /\ At(e)
    /\ \A x \in steady : Entry(x) = e => ~Pending(marker, x)

\* A page ends behind all entries below the prefix, or before them.
Ended ==
    /\ phase = "scan" /\ rest = <<>>
    /\ EarlyMarker \/ \A x \in steady : Entry(x) \notin cursor

Base == TypeInv /\ PageInv /\ SteadyInv

LEMMA ClosedRest ==
    ASSUME Base, OfObjects, NEW e \in cursor, At(e)
    PROVE  Closed(cursor \ {e})
<1>1. Closed(cursor) /\ \A f \in cursor : ~Before(f, e)
  BY DEF Base, PageInv, ClosedInv, At
<1>2. QED
  BY <1>1 DEF Closed

LEMMA ObjectEntries ==
    ASSUME TypeInv, NEW o \in Objects
    PROVE  o \in Entries /\ o.id = 0
<1>1. PICK k \in Keys : o = Item(k, 0)
  BY DEF Objects, Pointers
<1>2. QED
  BY <1>1, StoredEntries, ItemFields

\* The seek behind a common prefix goes forward.
LEMMA JumpAhead ==
    ASSUME TextKeys, Base, OfObjects, NEW e \in cursor, At(e), RolledUp(ask, e.key)
    PROVE  LET at == Item(Append(DirPrefix(ask, e.key), Top), NoID)
           IN  Jump(e) = {f \in cursor : ~Before(f, at)} /\ Closed(Jump(e))
<1> DEFINE d == DirPrefix(ask, e.key)
           at == Item(Append(d, Top), NoID)
<1>1. e \in Entries /\ e.key \in Named /\ e.key \in Word /\ ask.prefix \in Text
  BY AskTypes, Words DEF Base, TypeInv, Entries
<1>2. d \in Named /\ IsPrefix(d, e.key)
  BY <1>1, DirPrefixOf
<1>3. Jump(e) = {o \in Objects : ~Before(o, at)}
  BY DEF Jump, Seek
<1> HIDE DEF d
<1>4. d \in Text /\ d \in Word /\ Append(d, Top) \in Text /\ Append(d, Top) \in Word
  BY <1>2, Words, Appended
<1>5. at \in Items
  BY <1>4, EntryItems DEF Items, Item
<1>6. Less(e.key, Append(d, Top))
  BY <1>1, <1>2, <1>4, BelowTop, NamedBytes
<1>7. Closed(cursor)
  BY DEF Base, PageInv, ClosedInv
<1>8. ASSUME NEW o \in Objects, ~Before(o, at) PROVE o \in cursor
  <2>1. o \in Entries /\ o.key \in Word
    BY ObjectEntries, Words DEF Base, Entries
  <2>2. Less(Append(d, Top), o.key)
    BY <1>2, <1>8, <2>1, BehindDirPrefix
  <2>3. Less(e.key, o.key)
    BY <1>1, <1>4, <1>6, <2>1, <2>2, LessTransitive
  <2>4. QED
    BY <1>7, <2>3 DEF Closed, Before
<1>9. Jump(e) = {f \in cursor : ~Before(f, at)}
  BY <1>3, <1>7, <1>8 DEF Closed
<1>10. ASSUME NEW f \in Jump(e), NEW o \in Objects, Before(f, o) PROVE o \in Jump(e)
  <2>1. f \in Objects /\ ~Before(f, at)
    BY <1>3
  <2>2. f \in Items /\ o \in Items
    BY <2>1, ObjectEntries, EntryItems DEF Base
  <2>3. ~Before(o, at)
    BY <1>5, <1>10, <2>1, <2>2, BeforeOrder
  <2>4. QED
    BY <1>3, <2>3
<1>11. Closed(Jump(e))
  BY <1>3, <1>10 DEF Closed
<1>12. QED
  BY <1>9, <1>11 DEF d

LEMMA NextIsLast ==
    ASSUME TextKeys, Base, NEW k \in Named, NEW i, OfObjects, \A x \in Given : Under(x, Item(k, i))
    PROVE  advanceToken(page.next.key, k) = k
<1>1. page.next.key \in Word /\ k \in Word /\ page.items \in Seq(Items)
  BY Words DEF Base, TypeInv, Items
<1>2. Less(page.next.key, k)
  <2>1. CASE page.items = <<>>
    <3>1. page.next.key = NoKey
      BY <2>1, ItemFields DEF Base, TypeInv, EmptyPage
    <3>2. QED
      BY <1>1, <3>1, NamedBytes, NoKeyFirst
  <2>2. CASE page.items # <<>>
    <3> DEFINE x == Last(page.items)
    <3>1. x \in Items /\ x \in ToSet(page.items)
      BY <1>1, <2>2 DEF Last, ToSet
    <3>2. Under(x, Item(k, i)) /\ page.next.key = x.key
      BY <2>2, <3>1 DEF Given, Base, PageInv, NextInv
    <3>3. Less(Edge(x), k)
      BY <3>2, ItemFields DEF Under
    <3>4. QED
      BY <1>1, <3>1, <3>2, <3>3, EdgeAbove
  <2>3. QED
    BY <2>1, <2>2
<1>3. QED
  BY <1>2 DEF advanceToken

\* The rolled-up entry e is shown as its common prefix.
LEMMA FitsDirPrefix ==
    ASSUME TextKeys, Base, OfObjects, NEW e \in cursor, At(e), Inside(e), RolledUp(ask, e.key),
           \A x \in Given : Under(x, e)
    PROVE  LET d == DirPrefix(ask, e.key)
           IN  d \in Named /\ Fits(Item(d, PrefixID), Item(d, NoID), Jump(e))
<1> DEFINE d == DirPrefix(ask, e.key)
<1>1. /\ e \in Entries /\ e.key \in Named /\ e.key \in Word /\ ask.delim /\ ask.prefix \in Text
      /\ phase = "scan" /\ rest = <<>>
  BY AskTypes, Words DEF Base, TypeInv, Entries, RolledUp, At
<1>2. d \in Named /\ IsPrefix(d, e.key) /\ IsPrefix(ask.prefix, d) /\ DelimAt(d, ask.prefix) = {Len(d)}
  BY <1>1, DirPrefixOf DEF Inside
<1> HIDE DEF d
<1>3. d \in Text /\ d \in Word
  BY <1>2, Words
<1>4. Item(d, PrefixID) \in Items /\ Item(d, NoID) \in Items /\ Proper(Item(d, PrefixID))
  BY <1>1, <1>2, <1>3, ItemFields, EntryItems DEF Items, Proper, Item
<1>5. ASSUME NEW x \in Given PROVE Under(x, Item(d, NoID)) /\ x # Item(d, PrefixID)
  <2>1. x \in Items /\ Proper(x) /\ Less(Edge(x), e.key)
    BY <1>5 DEF Base, PageInv, ShownInv, TypeInv, Given, ToSet, Under
  <2>2. Less(Edge(x), d) /\ x.key # d
    BY <1>1, <1>2, <2>1, BeforeDirPrefix DEF Base
  <2>3. QED
    BY <2>2, ItemFields DEF Under
<1>6. Jump(e) = {f \in cursor : ~Before(f, Item(Append(d, Top), NoID))} /\ Closed(Jump(e))
  BY JumpAhead DEF d
<1>7. ASSUME NEW f \in Jump(e) PROVE Under(Item(d, PrefixID), f)
  <2>1. f \in Entries /\ ~Before(f, Item(Append(d, Top), NoID))
    BY <1>6, <1>7 DEF Base, TypeInv
  <2>2. Less(Append(d, Top), f.key)
    BY <1>2, <2>1, BehindDirPrefix
  <2>3. QED
    BY <2>2, ItemFields DEF Under, Edge
<1>8. ASSUME NEW x \in steady, Entry(x) \in cursor \ Jump(e) PROVE Shown(ask, x) = Item(d, PrefixID)
  <2> DEFINE f == Entry(x)
  <2>1. f \in cursor /\ f \in Entries /\ f.key = x.key /\ Before(f, Item(Append(d, Top), NoID))
    BY <1>6, <1>8, ItemFields DEF Base, TypeInv, Entry
  <2>2. ~Less(f.key, d)
    <3>1. ~Less(f.key, e.key)
      BY <1>1, <2>1, AtFirst, LessIrreflexive, LessAsymmetric, Words DEF Base, PageInv, Entries
    <3>2. ~Less(e.key, d)
      BY <1>1, <1>2, <1>3, PrefixNotAbove
    <3>3. f.key \in Word
      BY <2>1, Words DEF Entries
    <3>4. QED
      BY <1>1, <1>3, <3>1, <3>2, <3>3, LessTotal, LessTransitive
  <2>3. IsPrefix(d, x.key) /\ x.key \in Named
    BY <1>2, <2>1, <2>2, BehindDirPrefix, Words DEF Entries
  <2>4. RolledUp(ask, x.key) /\ DirPrefix(ask, x.key) = d
    BY <1>1, <1>2, <2>3, RolledBelow
  <2>5. QED
    BY <2>4 DEF Shown, OfObjects
<1>9. Fits(Item(d, PrefixID), Item(d, NoID), Jump(e))
  BY <1>1, <1>4, <1>5, <1>6, <1>7, <1>8, ItemFields DEF Fits
<1>10. QED
  BY <1>2, <1>9 DEF d

LEMMA ProperPrefix ==
    ASSUME TextKeys, NEW x, Proper(x), x.id = PrefixID
    PROVE  EndsInSlash(x.key) /\ IsPrefixMarker(ask, x)
<1>1. x.key # NoKey /\ DelimAt(x.key, ask.prefix) = {Len(x.key)} /\ ask.delim
  BY ProperKey DEF Proper
<1>2. x.key[Len(x.key)] = Slash
  BY <1>1 DEF DelimAt
<1>3. QED
  BY <1>1, <1>2 DEF EndsInSlash, Last, IsPrefixMarker

\* A plain entry is shown as it is.
LEMMA FitsEntry ==
    ASSUME TextKeys, Base, NEW e \in cursor, At(e), ask.api # "versions",
           ask.api # "parts" => Inside(e), OfObjects => ~RolledUp(ask, e.key),
           \A x \in Given : Under(x, e)
    PROVE  Fits(e, IF OfObjects THEN Item(e.key, NoID) ELSE e, cursor \ {e})
<1> DEFINE next == IF OfObjects THEN Item(e.key, NoID) ELSE e
<1>1. e \in Entries /\ e \in Items /\ e.key \in Word /\ phase = "scan" /\ rest = <<>> /\ e.id \in Nat
  BY EntryItems, Words DEF Base, TypeInv, At, Entries
<1>2. next \in Items /\ next.key = e.key /\ (OfObjects => next.id = NoID) /\ (~OfObjects => next = e)
  BY <1>1, ItemFields, EntryItems DEF Items, Item
<1>3. e.id # PrefixID
  BY <1>1 DEF PrefixID
<1>4. Proper(e)
  BY <1>1, <1>3 DEF Proper, Inside, Base, PageInv, CursorInv, OfObjects
<1>5. ASSUME NEW x \in Given PROVE Under(x, next) /\ x # e
  <2>1. Under(x, e)
    OBVIOUS
  <2>2. Under(x, next)
    BY <2>1, <1>2 DEF Under
  <2>3. ~Under(e, e)
    BY <1>1, <1>3, LessIrreflexive, BeforeOrder DEF Under, Edge
  <2>4. QED
    BY <2>1, <2>2, <2>3
<1>6. ASSUME NEW f \in cursor \ {e} PROVE Under(e, f)
  BY <1>3, AtFirst DEF Under, Edge, Base, PageInv
<1>7. ASSUME NEW x \in steady, Entry(x) \in cursor \ (cursor \ {e}) PROVE Shown(ask, x) = e
  BY <1>7 DEF Entry, Shown, OfObjects
<1>8. OfObjects => Closed(cursor \ {e})
  BY ClosedRest
<1>9. QED
  BY <1>1, <1>2, <1>4, <1>5, <1>6, <1>7, <1>8 DEF Fits

LEMMA EndedOutside ==
    ASSUME TextKeys, Base, NEW e \in cursor, At(e), ask.api # "parts", ~Inside(e)
    PROVE  Ended
<1>1. phase = "scan" /\ rest = <<>> /\ e \in Entries /\ e.key \in Word /\ ask.prefix \in Word
  BY AskTypes, Words DEF At, Base, TypeInv, Entries
<1>2. ASSUME ~EarlyMarker, NEW x \in steady, Entry(x) \in cursor PROVE FALSE
  <2>1. IsPrefix(ask.prefix, x.key) /\ Entry(x).key = x.key
    BY ItemFields DEF Base, SteadyInv, Entry
  <2>2. ~Less(x.key, e.key) /\ x.key \in Word
    BY <1>2, <2>1, Words DEF At, Before, Base, TypeInv, Entries
  <2>3. ~Less(e.key, ask.prefix)
    BY <1>2 DEF Base, PageInv, CursorInv
  <2>4. IsPrefix(ask.prefix, e.key)
    BY <1>1, <2>1, <2>2, <2>3, PrefixBetween
  <2>5. QED
    BY <2>4 DEF Inside
<1>3. QED
  BY <1>1, <1>2 DEF Ended

LEMMA MetaEntry ==
    ASSUME TextKeys, Base, NEW e \in cursor
    PROVE  Item(Recorded(e.key), e.id) = e
<1>1. e \in [key : Keys, id : Nat]
  BY DEF Base, TypeInv, Entries
<1>2. Recorded(e.key) = e.key
  BY <1>1, SentKeys
<1>3. QED
  BY <1>1, <1>2 DEF Item

LEMMA EndedHere == AtEnd => Ended
  BY DEF AtEnd, Ended

LEMMA ResumeAbove ==
    ASSUME TextKeys, TypeInv, NEW m \in Items
    PROVE  /\ Resume(m) \in Text /\ Resume(m) \in Word /\ m.key \in Word
           /\ ~Less(Resume(m), m.key)
           /\ \A a \in Word : Less(Resume(m), a) => Less(m.key, a)
<1>1. m.key \in Text /\ m.key \in Word
  BY Words DEF Items
<1>2. CASE IsPrefixMarker(ask, m)
  <2>1. Resume(m) = Append(m.key, Top)
    BY <1>2 DEF Resume
  <2>2. Resume(m) \in Text /\ Resume(m) \in Word /\ Less(m.key, Resume(m))
    BY <1>1, <2>1, Appended
  <2>3. QED
    BY <1>1, <2>2, LessAsymmetric, LessTransitive
<1>3. CASE ~IsPrefixMarker(ask, m)
  <2>1. Resume(m) = m.key
    BY <1>3 DEF Resume
  <2>2. QED
    BY <1>1, <2>1, LessIrreflexive
<1>4. QED
  BY <1>2, <1>3

LEMMA IdleHidden ==
    ASSUME TextKeys, Base, NEW e \in cursor, At(e), ask.api = "objects", Hidden(e)
    PROVE  Idle(e)
<1>1. phase = "scan" /\ rest = <<>> /\ e \in Entries /\ e.key \in Word /\ marker \in Items
  BY Words DEF At, Base, TypeInv, Entries
<1>2. ASSUME NEW x \in steady, Entry(x) = e, Pending(marker, x) PROVE FALSE
  <2>1. x = e
    BY <1>2 DEF Entry
  <2>2. Less(Resume(marker), e.key)
    BY <1>2, <2>1 DEF Pending
  <2>3. Less(marker.key, e.key)
    BY <1>1, <2>2, ResumeAbove DEF Base
  <2>4. e \in Listed(ask, store)
    BY <2>1 DEF Base, SteadyInv
  <2>5. \E k \in Keys : e = Item(k, 0) /\ store[k] # <<>> /\ ~Head(store[k]).del
    BY <2>4 DEF Listed
  <2>6. Live(e.key)
    BY <2>5, ItemFields DEF Live
  <2>7. QED
    BY <2>3, <2>6 DEF Hidden, Passed
<1>3. QED
  BY <1>1, <1>2 DEF Idle

LEMMA IdleMarker ==
    ASSUME TextKeys, Base, NEW e \in cursor, At(e),
           (ask.api = "uploads" /\ e = marker) \/ (ask.api = "parts" /\ e.id <= marker.id)
    PROVE  Idle(e)
<1>1. phase = "scan" /\ rest = <<>> /\ e \in Entries /\ marker \in Items
  BY DEF At, Base, TypeInv
<1>2. ASSUME NEW x \in steady, Entry(x) = e, Pending(marker, x) PROVE FALSE
  <2>1. x = e
    BY <1>2 DEF Entry
  <2>2. CASE ask.api = "uploads"
    <3>1. Before(marker, marker)
      BY <1>2, <2>1, <2>2 DEF Pending
    <3>2. QED
      BY <1>1, <3>1, BeforeOrder
  <2>3. CASE ask.api = "parts"
    <3>1. marker.id < e.id
      BY <1>2, <2>1, <2>3 DEF Pending
    <3>2. marker.id \in Int /\ e.id \in Nat
      BY <1>1 DEF Items, Entries
    <3>3. QED
      BY <2>3, <3>1, <3>2
  <2>4. QED
    BY <2>2, <2>3
<1>3. QED
  BY <1>1, <1>2 DEF Idle

\* All that was shown is before an entry, unless the scan meets the marker again.
LEMMA GivenUnder ==
    ASSUME Base, NEW e \in cursor, NEW x \in Given
    PROVE  Under(x, e) \/ (x \in ToSet(got) /\ Again(x, e))
  BY DEF Base, PageInv, AheadInv, Given

LEMMA VersionsRolledUp ==
    ASSUME TextKeys, Base, NEW e \in cursor, ask.api = "versions", RolledUp(ask, e.key), NEW x \in Given
    PROVE  Under(x, e)
<1>1. SUFFICES ASSUME ~IsPrefixMarker(ask, marker), e.key = marker.key, x.key = e.key PROVE FALSE
  BY GivenUnder DEF Again
<1>2. Proper(x)
  BY DEF Base, PageInv, ShownInv
<1>3. x.id = PrefixID
  BY <1>1, <1>2 DEF Proper, OfObjects
<1>4. QED
  BY <1>1, <1>2, <1>3, ProperPrefix DEF IsPrefixMarker

\* What an iteration of a scan comes to.
LEMMA ScanSteps ==
    ASSUME TextKeys, Base, Scan
    PROVE  \/ \E e \in cursor : Idle(e) /\ Skip(e)
           \/ Ended /\ Reply(FALSE)
           \/ phase = "scan" /\ rest = <<>> /\ full /\ Reply(TRUE)
           \/ \E item, next, ahead : Fits(item, next, ahead) /\ EmitEntry(item, next, ahead)
           \/ \E e \in cursor : /\ ask.api = "versions" /\ At(e) /\ Inside(e)
                                /\ ~RolledUp(ask, e.key) /\ Gather(e)
           \/ EmitVersion
<1>1. ASSUME NEW e \in cursor, ListObjects(e)
      PROVE  \/ Idle(e) /\ Skip(e)
             \/ Ended /\ Reply(FALSE)
             \/ phase = "scan" /\ rest = <<>> /\ full /\ Reply(TRUE)
             \/ \E item, next, ahead : Fits(item, next, ahead) /\ EmitEntry(item, next, ahead)
  <2>1. ask.api = "objects" /\ At(e) /\ OfObjects /\ phase = "scan" /\ rest = <<>>
    BY <1>1 DEF ListObjects, OfObjects, At
  <2>2. ASSUME NEW x \in Given PROVE Under(x, e)
    BY <2>1, GivenUnder DEF Again
  <2>3. CASE Hidden(e) /\ Skip(e)
    BY <2>1, <2>3, IdleHidden
  <2>4. CASE ~Hidden(e) /\ ~Inside(e) /\ Reply(FALSE)
    BY <2>1, <2>4, EndedOutside
  <2>5. CASE full /\ Reply(TRUE)
    BY <2>1, <2>5
  <2>6. CASE /\ Inside(e) /\ RolledUp(ask, e.key)
             /\ EmitPrefix(e)
    <3> DEFINE d == DirPrefix(ask, e.key)
               item == Item(d, PrefixID)
    <3>1. d \in Named /\ Fits(item, Item(d, NoID), Jump(e))
      BY <2>1, <2>2, <2>6, FitsDirPrefix
    <3>2. NextToken(page.next.key, item) = d
      BY <2>1, <3>1, NextIsLast, ItemFields DEF NextToken, Fits
    <3>5. ~Repeated(e)
      BY <3>1 DEF Repeated, Fits, Given
    <3>3. EmitEntry(item, Item(d, NoID), Jump(e))
      BY <2>6, <3>2, <3>5 DEF EmitPrefix, EmitEntry
    <3>4. QED
      BY <3>1, <3>3
  <2>7. CASE Inside(e) /\ ~RolledUp(ask, e.key) /\ EmitObject(e)
    <3>1. Fits(e, Item(e.key, NoID), cursor \ {e})
      BY <2>1, <2>2, <2>7, FitsEntry
    <3>2. e.key \in Named /\ Recorded(e.key) = e.key
      BY Words, SentKeys DEF Base, TypeInv, Entries
    <3>3. NextToken(page.next.key, Item(e.key, 0)) = e.key
      BY <2>1, <3>1, <3>2, NextIsLast, ItemFields DEF NextToken, Fits
    <3>4. EmitEntry(e, Item(e.key, NoID), cursor \ {e})
      BY <2>7, <3>2, <3>3 DEF EmitObject
    <3>5. QED
      BY <3>1, <3>4
  <2>8. QED
    BY <1>1, <2>3, <2>4, <2>5, <2>6, <2>7 DEF ListObjects
<1>2. ASSUME NEW e \in cursor, ListObjectVersions(e)
      PROVE  \/ Ended /\ Reply(FALSE)
             \/ phase = "scan" /\ rest = <<>> /\ full /\ Reply(TRUE)
             \/ \E item, next, ahead : Fits(item, next, ahead) /\ EmitEntry(item, next, ahead)
             \/ ask.api = "versions" /\ At(e) /\ Inside(e) /\ ~RolledUp(ask, e.key) /\ Gather(e)
  <2>1. ask.api = "versions" /\ At(e) /\ OfObjects /\ phase = "scan" /\ rest = <<>>
    BY <1>2 DEF ListObjectVersions, OfObjects, At
  <2>2. CASE ~Inside(e) /\ Reply(FALSE)
    BY <2>1, <2>2, EndedOutside
  <2>3. CASE full /\ Reply(TRUE)
    BY <2>1, <2>3
  <2>4. CASE /\ Inside(e) /\ RolledUp(ask, e.key)
             /\ LET dirPrefix == DirPrefix(ask, e.key)
                IN  EmitEntry(Item(dirPrefix, PrefixID), Item(dirPrefix, NoID), Jump(e))
    <3>1. \A x \in Given : Under(x, e)
      BY <2>1, <2>4, VersionsRolledUp
    <3>2. Fits(Item(DirPrefix(ask, e.key), PrefixID), Item(DirPrefix(ask, e.key), NoID), Jump(e))
      BY <2>1, <2>4, <3>1, FitsDirPrefix
    <3>3. QED
      BY <2>4, <3>2
  <2>5. CASE Inside(e) /\ ~RolledUp(ask, e.key) /\ Gather(e)
    BY <2>1, <2>5
  <2>6. QED
    BY <1>2, <2>2, <2>3, <2>4, <2>5 DEF ListObjectVersions
<1>3. ASSUME NEW e \in cursor, ListMultipartUploads(e)
      PROVE  \/ Idle(e) /\ Skip(e)
             \/ Ended /\ Reply(FALSE)
             \/ phase = "scan" /\ rest = <<>> /\ full /\ Reply(TRUE)
             \/ \E item, next, ahead : Fits(item, next, ahead) /\ EmitEntry(item, next, ahead)
  <2>1. ask.api = "uploads" /\ At(e) /\ ~OfObjects /\ phase = "scan" /\ rest = <<>>
    BY <1>3 DEF ListMultipartUploads, OfObjects, At
  <2>2. CASE ~Inside(e) /\ Reply(FALSE)
    BY <2>1, <2>2, EndedOutside
  <2>3. CASE e = marker /\ Skip(e)
    BY <2>1, <2>3, IdleMarker
  <2>4. CASE full /\ Reply(TRUE)
    BY <2>1, <2>4
  <2>5. CASE Inside(e) /\ e # marker /\ EmitEntry(e, e, cursor \ {e})
    <3>1. \A x \in Given : Under(x, e)
      BY <2>1, <2>5, GivenUnder DEF Again
    <3>2. Fits(e, e, cursor \ {e})
      BY <2>1, <2>5, <3>1, FitsEntry
    <3>3. QED
      BY <2>5, <3>2
  <2>6. QED
    BY <1>3, <2>2, <2>3, <2>4, <2>5, MetaEntry DEF ListMultipartUploads
<1>4. ASSUME NEW e \in cursor, handleListParts(e)
      PROVE  \/ Idle(e) /\ Skip(e)
             \/ phase = "scan" /\ rest = <<>> /\ full /\ Reply(TRUE)
             \/ \E item, next, ahead : Fits(item, next, ahead) /\ EmitEntry(item, next, ahead)
  <2>1. ask.api = "parts" /\ At(e) /\ ~OfObjects /\ phase = "scan" /\ rest = <<>>
    BY <1>4 DEF handleListParts, OfObjects, At
  <2>2. CASE e.id <= marker.id /\ Skip(e)
    BY <2>1, <2>2, IdleMarker
  <2>3. CASE full /\ Reply(TRUE)
    BY <2>1, <2>3
  <2>4. CASE e.id > marker.id /\ EmitEntry(e, e, cursor \ {e})
    <3>1. \A x \in Given : Under(x, e)
      <4>1. ~(e.id <= marker.id)
        BY <2>4 DEF Base, TypeInv, Items, Entries
      <4>2. QED
        BY <2>1, <4>1, GivenUnder DEF Again
    <3>2. Fits(e, e, cursor \ {e})
      BY <2>1, <3>1, FitsEntry
    <3>3. QED
      BY <2>4, <3>2
  <2>5. QED
    BY <1>4, <2>2, <2>3, <2>4 DEF handleListParts
<1>5. QED
  BY <1>1, <1>2, <1>3, <1>4, EndedHere DEF Scan

-----------------------------------------------------------------------------
(***************************************************************************)
(* The begin of a page                                                     *)
(***************************************************************************)
\* The cursor meets what is pending and, but for the marker itself, nothing that
\* was shown.
Begins(entries, at) ==
    /\ entries \subseteq Entries
    /\ \A e \in Seek(entries, at) :
          /\ OfObjects => e.id = 0
          /\ ask.api = "parts" => e.key = PartsKey
          /\ ask.api # "parts" => EarlyMarker \/ ~Less(e.key, ask.prefix)
          /\ \A x \in ToSet(got) : Under(x, e) \/ Again(x, e)
    /\ OfObjects => Closed(Seek(entries, at))
    /\ \A x \in steady : Pending(marker, x) => Entry(x) \in Seek(entries, at)

LEMMA GotTypes ==
    ASSUME TextKeys, Base, phase = "paging", NEW x \in ToSet(got)
    PROVE  x \in Items /\ Proper(x) /\ Reached(marker, x) /\ x.key # NoKey
<1>1. x \in Items /\ Proper(x) /\ Reached(marker, x)
  BY DEF Base, TypeInv, PageInv, ShownInv, Given, ToSet
<1>2. QED
  BY <1>1, ProperKey

\* After something was shown the marker is a key.
LEMMA MarkerKey ==
    ASSUME TextKeys, Base, phase = "paging", NEW x \in ToSet(got), ask.api # "parts"
    PROVE  marker.key # NoKey
<1>1. x \in Items /\ Reached(marker, x) /\ x.key # NoKey
  BY GotTypes
<1>2. x.key \in Word /\ Edge(x) \in Word
  BY <1>1, EdgeAbove
<1>3. QED
  BY <1>1, <1>2, NoKeyFirst DEF Reached, Under, Before

\* What was shown sorts before what sorts behind the marker.
LEMMA ShownBehind ==
    ASSUME TextKeys, Base, phase = "paging", OfObjects, NEW x \in ToSet(got), NEW k \in Named,
           ~Less(k, Resume(marker))
    PROVE  Less(Edge(x), k) \/ (x.key = marker.key /\ k = marker.key /\ ~IsPrefixMarker(ask, marker))
<1>1. x \in Items /\ Proper(x) /\ Reached(marker, x)
  BY GotTypes
<1>2. /\ k \in Word /\ Edge(x) \in Word /\ x.key \in Word /\ marker \in Items /\ marker.key \in Word
      /\ marker.key \in Text /\ Resume(marker) \in Word /\ ~Less(Resume(marker), marker.key)
  BY <1>1, EdgeAbove, ResumeAbove, Words DEF Base, TypeInv, Items
<1>3. CASE Less(Edge(x), marker.key)
  BY <1>2, <1>3, LessTotal, LessTransitive
<1>4. CASE x.key = marker.key
  <2>1. CASE IsPrefixMarker(ask, marker)
    <3>1. Resume(marker) = Append(marker.key, Top) /\ k # Append(marker.key, Top)
      BY <1>2, <2>1, Appended DEF Resume
    <3>2. Less(Append(marker.key, Top), k)
      BY <1>2, <3>1, LessTotal
    <3>3. Edge(x) = Append(marker.key, Top) \/ Edge(x) = marker.key
      BY <1>4 DEF Edge
    <3>4. QED
      BY <1>2, <3>1, <3>2, <3>3, Appended, LessTransitive
  <2>2. CASE ~IsPrefixMarker(ask, marker)
    <3>1. Edge(x) = marker.key
      BY <1>1, <1>4, <2>2, ProperPrefix DEF Edge, IsPrefixMarker
    <3>2. Resume(marker) = marker.key
      BY <2>2 DEF Resume
    <3>3. QED
      BY <1>2, <1>4, <2>2, <3>1, <3>2, LessTotal
  <2>3. QED
    BY <2>1, <2>2
<1>5. QED
  BY <1>1, <1>3, <1>4 DEF Reached, Under

LEMMA SeekClosed ==
    ASSUME TextKeys, TypeInv, NEW at, at.key \in Word, at.id = NoID
    PROVE  Closed(Seek(Objects, at))
<1>1. ASSUME NEW o \in Objects
      PROVE  o.key \in Word /\ o.id = 0 /\ (Before(o, at) <=> Less(o.key, at.key))
  <2>1. o.key \in Word /\ o.id = 0
    BY ObjectEntries, Words DEF Entries
  <2>2. QED
    BY <2>1 DEF Before, NoID
<1>2. ASSUME NEW e \in Objects, ~Before(e, at), NEW o \in Objects, Before(e, o) PROVE ~Before(o, at)
  <2>1. Less(e.key, o.key)
    BY <1>1, <1>2 DEF Before
  <2>2. QED
    BY <1>1, <1>2, <2>1, LessTransitive
<1>3. QED
  BY <1>2 DEF Closed, Seek

LEMMA ObjectsBegin ==
    ASSUME TextKeys, Base, phase = "paging", ask.api = "objects"
    PROVE  Begins(Objects, Item(SeekKey(ask, marker.key), NoID))
<1> DEFINE entries == Objects
           m == marker.key
           behind == Append(m, IF ask.delim /\ EndsInSlash(m) THEN Top ELSE Nul)
           at == Item(SeekKey(ask, m), NoID)
<1>1. OfObjects /\ marker \in Items /\ m \in Text /\ m \in Word /\ ask.prefix \in Word
  BY AskTypes, Words DEF Base, TypeInv, Items, OfObjects
<1>2. entries \subseteq Entries
  BY ObjectEntries DEF Base
<1>3. ASSUME NEW a \in Word PROVE Less(a, at.key) <=> Less(a, ask.prefix) \/ (m # NoKey /\ Less(a, behind))
  <2>1. behind \in Word
    BY <1>1, Appended
  <2>2. CASE m = NoKey
    BY <2>2, ItemFields DEF SeekKey
  <2>3. CASE m # NoKey
    <3>1. at.key = advanceToken(ask.prefix, behind)
      BY <2>3, ItemFields DEF SeekKey
    <3>2. QED
      BY <1>1, <2>1, <2>3, <3>1, advanceTokenMax
  <2>4. QED
    BY <2>2, <2>3
<1>4. ASSUME NEW e \in Entries, e.id = 0
      PROVE  e.key \in Named /\ e.key \in Word /\ (Before(e, at) <=> Less(e.key, at.key))
  BY <1>4, ItemFields, Words DEF Before, Entries, NoID
<1>5. ASSUME NEW e \in Seek(entries, at), NEW x \in ToSet(got)
      PROVE  Under(x, e)
  <2>1. e \in Entries /\ e.id = 0 /\ ~Before(e, at)
    BY <1>2, <1>5, ObjectEntries DEF Seek, Base
  <2>2. e.key \in Named /\ e.key \in Word /\ ~Less(e.key, at.key)
    BY <1>4, <2>1
  <2>3. m # NoKey /\ ~Less(e.key, behind)
    BY <1>1, <1>3, <2>2, MarkerKey
  <2>4. Less(m, e.key)
    <3>1. Less(m, behind) /\ behind \in Word
      BY <1>1, Appended
    <3>2. QED
      BY <1>1, <2>2, <2>3, <3>1, LessTotal, LessTransitive
  <2>5. ~Less(e.key, Resume(marker))
    BY <1>1, <2>2, <2>3, <2>4, LessAsymmetric DEF Resume, IsPrefixMarker
  <2>6. e.key # m
    BY <1>1, <2>4, LessIrreflexive
  <2>7. QED
    BY <1>1, <2>2, <2>5, <2>6, ShownBehind DEF Under
<1>6. ASSUME NEW x \in steady, Pending(marker, x) PROVE Entry(x) \in Seek(entries, at)
  <2>1. x \in Listed(ask, store) /\ IsPrefix(ask.prefix, x.key) /\ Entry(x) = x
    BY <1>1 DEF Base, SteadyInv, Entry, OfObjects
  <2>2. \E k \in Keys : x = Item(k, 0) /\ store[k] # <<>>
    BY <1>1, <2>1 DEF Listed
  <2>3. x \in entries /\ x \in Entries /\ x.id = 0
    BY <1>2, <2>2, ItemFields DEF Objects, Pointers
  <2>4. Less(Resume(marker), x.key)
    BY <1>6 DEF Pending
  <2>5. x.key \in Word
    BY <1>4, <2>3
  <2>6. ~Less(x.key, behind)
    <3>1. CASE IsPrefixMarker(ask, marker)
      BY <1>1, <2>4, <2>5, <3>1, Appended, LessAsymmetric DEF Resume, IsPrefixMarker
    <3>2. CASE ~IsPrefixMarker(ask, marker)
      BY <1>1, <2>4, <2>5, <3>2, BehindNul DEF Resume, IsPrefixMarker
    <3>3. QED
      BY <3>1, <3>2
  <2>7. ~Less(x.key, at.key)
    BY <1>1, <1>3, <2>1, <2>5, <2>6, PrefixNotAbove
  <2>8. QED
    BY <1>4, <2>1, <2>3, <2>7 DEF Seek
<1>7. ASSUME NEW e \in Seek(entries, at) PROVE e.id = 0 /\ ~Less(e.key, ask.prefix)
  <2>1. e \in Entries /\ e.id = 0 /\ ~Before(e, at)
    BY <1>2, <1>7, ObjectEntries DEF Seek, Base
  <2>2. QED
    BY <1>3, <1>4, <2>1
<1>8. Closed(Seek(entries, at))
  <2>1. at.key \in Word
    <3>1. behind \in Word
      BY <1>1, Appended
    <3>2. QED
      BY <1>1, <3>1, ItemFields DEF SeekKey, advanceToken
  <2>2. QED
    BY <2>1, SeekClosed, ItemFields DEF Base
<1>9. QED
  BY <1>2, <1>5, <1>6, <1>7, <1>8 DEF Begins

LEMMA VersionsBegin ==
    ASSUME TextKeys, Base, phase = "paging", ask.api = "versions"
    PROVE  Begins(Objects, Item(advanceToken(ask.prefix, Resume(marker)), NoID))
<1> DEFINE entries == Objects
           at == Item(advanceToken(ask.prefix, Resume(marker)), NoID)
<1>1. OfObjects /\ marker \in Items /\ Resume(marker) \in Word /\ ask.prefix \in Word /\ marker.key \in Word
  BY AskTypes, ResumeAbove DEF Base, TypeInv, OfObjects
<1>2. entries \subseteq Entries
  BY ObjectEntries DEF Base
<1>3. ASSUME NEW e \in Entries, e.id = 0
      PROVE  /\ e.key \in Named /\ e.key \in Word
             /\ ~Before(e, at) <=> ~Less(e.key, ask.prefix) /\ ~Less(e.key, Resume(marker))
  <2>1. e.key \in Named /\ e.key \in Word
    BY Words DEF Entries
  <2>2. Before(e, at) <=> Less(e.key, at.key)
    BY <1>3, ItemFields DEF Before, NoID
  <2>3. QED
    BY <1>1, <2>1, <2>2, advanceTokenMax, ItemFields
<1>4. ASSUME NEW e \in Seek(entries, at)
      PROVE  e.id = 0 /\ e \in Entries /\ ~Less(e.key, ask.prefix) /\ ~Less(e.key, Resume(marker))
  <2>1. e \in Entries /\ e.id = 0 /\ ~Before(e, at)
    BY <1>2, <1>4, ObjectEntries DEF Seek, Base
  <2>2. QED
    BY <1>3, <2>1
<1>5. ASSUME NEW e \in Seek(entries, at), NEW x \in ToSet(got)
      PROVE  Under(x, e) \/ Again(x, e)
  BY <1>1, <1>3, <1>4, ShownBehind DEF Under, Again
<1>6. ASSUME NEW x \in steady, Pending(marker, x) PROVE Entry(x) \in Seek(entries, at)
  <2>1. x \in Listed(ask, store) /\ IsPrefix(ask.prefix, x.key) /\ Entry(x) = Item(x.key, 0)
    BY DEF Base, SteadyInv, Entry
  <2>2. PICK k \in Keys : x \in Stored(store, k)
    BY <2>1 DEF Listed
  <2>3. x.key = k /\ store[k] # <<>>
    BY <2>2, ItemFields DEF Stored
  <2>4. Entry(x) \in entries /\ Entry(x) \in Entries /\ Entry(x).id = 0 /\ Entry(x).key = x.key
    BY <1>2, <2>1, <2>3, ItemFields DEF Objects, Pointers
  <2>5. x.key \in Word
    BY <1>3, <2>4
  <2>6. Less(Resume(marker), x.key) \/ x.key = Resume(marker)
    BY <1>6 DEF Pending, Resume
  <2>7. ~Less(x.key, Resume(marker)) /\ ~Less(x.key, ask.prefix)
    BY <1>1, <2>1, <2>5, <2>6, LessAsymmetric, LessIrreflexive, PrefixNotAbove
  <2>8. QED
    BY <1>3, <2>4, <2>7 DEF Seek
<1>7. Closed(Seek(entries, at))
  BY <1>1, ItemFields, SeekClosed DEF advanceToken, Base
<1>8. QED
  BY <1>2, <1>4, <1>5, <1>6, <1>7 DEF Begins

LEMMA UploadsBegin ==
    ASSUME TextKeys, Base, phase = "paging", ask.api = "uploads"
    PROVE  Begins(UNION {Stored(store, k) : k \in Keys},
                  IF marker.key # NoKey THEN marker ELSE Item(ask.prefix, NoID))
<1> DEFINE entries == UNION {Stored(store, k) : k \in Keys}
           at == IF marker.key # NoKey THEN marker ELSE Item(ask.prefix, NoID)
<1>1. ~OfObjects /\ marker \in Items /\ ask.prefix \in Word /\ marker.key \in Word /\ ask.prefix \in Text
  BY AskTypes, Words DEF Base, TypeInv, OfObjects, Items
<1>2. entries \subseteq Entries /\ Entries \subseteq Items
  BY StoredEntries, EntryItems DEF Base
<1>3. at \in Items /\ (EarlyMarker \/ ~Less(at.key, ask.prefix))
  <2>1. CASE marker.key = NoKey
    BY <1>1, <2>1, ItemFields, EntryItems, LessIrreflexive DEF Items, Item
  <2>2. CASE marker.key # NoKey
    BY <1>1, <2>2 DEF EarlyMarker
  <2>3. QED
    BY <2>1, <2>2
<1>4. ASSUME NEW e \in Seek(entries, at) PROVE e \in Entries /\ (EarlyMarker \/ ~Less(e.key, ask.prefix))
  <2>1. e \in Entries /\ ~Before(e, at) /\ e.key \in Word /\ at.key \in Word
    BY <1>2, <1>3, Words DEF Seek, Entries, Items
  <2>2. ~Less(e.key, at.key)
    BY <2>1 DEF Before
  <2>3. QED
    BY <1>1, <1>3, <2>1, <2>2, LessTotal, LessTransitive
<1>5. ASSUME NEW e \in Seek(entries, at), NEW x \in ToSet(got)
      PROVE  Under(x, e) \/ Again(x, e)
  <2>1. at = marker
    BY <1>1, MarkerKey
  <2>2. CASE e = marker
    BY <2>2 DEF Again
  <2>3. CASE e # marker
    <3>1. Before(marker, e) /\ e \in Items
      BY <1>1, <1>2, <1>4, <2>1, <2>3, BeforeOrder DEF Seek
    <3>2. x \in Items /\ Reached(marker, x)
      BY GotTypes
    <3>3. Before(x, marker) \/ x = marker
      BY <1>1, <3>2 DEF Reached, Under, Items
    <3>4. Before(x, e)
      BY <1>1, <3>1, <3>2, <3>3, BeforeOrder
    <3>5. QED
      BY <1>1, <3>4 DEF Under
  <2>4. QED
    BY <2>2, <2>3
<1>6. ASSUME NEW x \in steady, Pending(marker, x) PROVE Entry(x) \in Seek(entries, at)
  <2>1. x \in entries /\ IsPrefix(ask.prefix, x.key) /\ Entry(x) = x
    BY DEF Base, SteadyInv, Entry, Listed
  <2>2. Before(marker, x) /\ x \in Items /\ x.key \in Word /\ x.id \in Nat
    BY <1>2, <1>6, <2>1, Words DEF Pending, Items, Entries
  <2>3. ~Before(x, at)
    <3>1. CASE marker.key # NoKey
      BY <1>1, <2>2, <3>1, BeforeOrder
    <3>2. CASE marker.key = NoKey
      <4>1. ~Less(x.key, ask.prefix)
        BY <1>1, <2>1, <2>2, PrefixNotAbove
      <4>2. QED
        BY <2>2, <3>2, <4>1, ItemFields DEF Before, NoID
    <3>3. QED
      BY <3>1, <3>2
  <2>4. QED
    BY <2>1, <2>3 DEF Seek
<1>7. QED
  BY <1>1, <1>2, <1>4, <1>5, <1>6 DEF Begins

LEMMA PartsBegin ==
    ASSUME TextKeys, Base, phase = "paging", ask.api = "parts"
    PROVE  Begins(Stored(store, PartsKey), Item(PartsKey, NoID))
<1> DEFINE entries == Stored(store, PartsKey)
           at == Item(PartsKey, NoID)
<1>1. ~OfObjects /\ marker \in Items /\ PartsKey \in Keys /\ PartsKey \in Word
  BY Words DEF Base, TypeInv, OfObjects
<1>2. entries \subseteq Entries /\ \A e \in entries : e.key = PartsKey
  BY <1>1, StoredEntries, ItemFields DEF Base, Stored
<1>3. ASSUME NEW e \in entries PROVE e \in Seek(entries, at)
  <2>1. e.id \in Nat
    BY <1>2 DEF Entries
  <2>2. QED
    BY <1>1, <1>2, <2>1, LessIrreflexive, ItemFields DEF Seek, Before, NoID
<1>4. ASSUME NEW e \in Seek(entries, at), NEW x \in ToSet(got)
      PROVE  Under(x, e) \/ Again(x, e)
  <2>1. e.key = PartsKey /\ e.id \in Nat
    BY <1>2 DEF Seek, Entries
  <2>2. x \in Items /\ Proper(x) /\ Reached(marker, x)
    BY GotTypes
  <2>3. x.key = PartsKey /\ x.id \in Int /\ marker.id \in Int
    BY <1>1, <2>2 DEF Proper, Items
  <2>4. marker.key # NoKey => marker.key = PartsKey
    <3>1. got # <<>>
      BY <1>4 DEF ToSet
    <3>2. QED
      BY <1>1, <3>1 DEF Base, PageInv, MarkerInv, Proper
  <2>5. x.id <= marker.id
    <3>1. CASE Before(x, marker)
      <4>1. marker.key # NoKey
        <5>1. ~Less(x.key, NoKey) /\ x.key # NoKey
          BY <1>1, <2>2, <2>3, NoKeyFirst, ProperKey
        <5>2. QED
          BY <3>1, <5>1 DEF Before
      <4>2. QED
        BY <1>1, <2>3, <2>4, <3>1, <4>1, LessIrreflexive DEF Before
    <3>2. CASE ~Before(x, marker)
      BY <1>1, <2>2, <2>3, <3>2 DEF Reached, Under
    <3>3. QED
      BY <3>1, <3>2
  <2>6. CASE e.id <= marker.id
    BY <2>6 DEF Again
  <2>7. CASE ~(e.id <= marker.id)
    <3>1. x.id < e.id
      BY <2>1, <2>3, <2>5, <2>7
    <3>2. QED
      BY <1>1, <2>1, <2>3, <3>1 DEF Under, Before
  <2>8. QED
    BY <2>6, <2>7
<1>5. ASSUME NEW x \in steady PROVE Entry(x) \in Seek(entries, at)
  BY <1>3 DEF Base, SteadyInv, Entry, Listed
<1>6. QED
  BY <1>1, <1>2, <1>4, <1>5 DEF Begins, Seek

LEMMA RequestBegins ==
    ASSUME TextKeys, Base, Request
    PROVE  \E entries, at : Begins(entries, at) /\ Open(entries, at)
<1>1. CASE handleListObjects
  BY <1>1, ObjectsBegin DEF handleListObjects, Open
<1>2. CASE handleListObjectVersions
  <2>1. Resume(marker) = IF IsPrefixMarker(ask, marker) THEN Append(marker.key, Top) ELSE marker.key
    BY DEF Resume
  <2>2. QED
    BY <1>2, <2>1, VersionsBegin DEF handleListObjectVersions, Open
<1>3. CASE handleListMultipartUploads
  BY <1>3, UploadsBegin DEF handleListMultipartUploads, Open
<1>4. CASE ListParts
  BY <1>4, PartsBegin DEF ListParts, Open
<1>5. QED
  BY <1>1, <1>2, <1>3, <1>4 DEF Request

-----------------------------------------------------------------------------
(***************************************************************************)
(* The page                                                                *)
(***************************************************************************)
LEMMA SameAsk ==
    ASSUME UNCHANGED ask
    PROVE  /\ OfObjects' = OfObjects /\ OwnFolder' = OwnFolder
           /\ \A x : Proper(x)' <=> Proper(x)
           /\ \A x, e : Under(x, e)' <=> Under(x, e)
           /\ \A m, x : Reached(m, x)' <=> Reached(m, x)
           /\ \A m : Resume(m)' = Resume(m)
           /\ \A x : Entry(x)' = Entry(x)
<1>1. OfObjects' = OfObjects /\ OwnFolder' = OwnFolder
  BY DEF OfObjects, OwnFolder
<1>2. \A x : Proper(x)' <=> Proper(x)
  BY <1>1 DEF Proper
<1>3. \A x, e : Under(x, e)' <=> Under(x, e)
  BY <1>1 DEF Under
<1>4. \A m, x : Reached(m, x)' <=> Reached(m, x)
  BY <1>1, <1>3 DEF Reached
<1>5. (\A m : Resume(m)' = Resume(m)) /\ \A x : Entry(x)' = Entry(x)
  BY DEF Resume, Entry
<1>6. QED
  BY <1>1, <1>2, <1>3, <1>4, <1>5

LEMMA SameAgain ==
    ASSUME UNCHANGED <<ask, marker>>
    PROVE  (\A x, e : Again(x, e)' <=> Again(x, e)) /\ EarlyMarker' = EarlyMarker
  BY DEF Again, EarlyMarker

LEMMA SameClosed ==
    ASSUME UNCHANGED store
    PROVE  Objects' = Objects /\ \A S : Closed(S)' <=> Closed(S)
<1>1. Objects' = Objects
  BY DEF Objects, Pointers
<1>2. QED
  BY <1>1 DEF Closed

LEMMA ToSetConcat ==
    ASSUME NEW S, NEW a \in Seq(S), NEW b \in Seq(S)
    PROVE  ToSet(a \o b) = ToSet(a) \cup ToSet(b)
<1>1. /\ a \o b \in Seq(S) /\ Len(a \o b) = Len(a) + Len(b) /\ Len(a) \in Nat /\ Len(b) \in Nat
      /\ \A i \in 1..(Len(a) + Len(b)) : (a \o b)[i] = IF i <= Len(a) THEN a[i] ELSE b[i - Len(a)]
  OBVIOUS
<1>2. DOMAIN a = 1..Len(a) /\ DOMAIN b = 1..Len(b) /\ DOMAIN (a \o b) = 1..(Len(a) + Len(b))
  BY <1>1
<1> DEFINE c == a \o b
<1> HIDE DEF c
<1>3. ASSUME NEW i \in DOMAIN c PROVE c[i] \in ToSet(a) \cup ToSet(b)
  <2>1. CASE i <= Len(a)
    <3>1. i \in DOMAIN a /\ c[i] = a[i]
      BY <1>1, <1>2, <1>3, <2>1 DEF c
    <3>2. QED
      BY <3>1 DEF ToSet
  <2>2. CASE ~(i <= Len(a))
    <3>1. i - Len(a) \in DOMAIN b /\ c[i] = b[i - Len(a)]
      BY <1>1, <1>2, <1>3, <2>2 DEF c
    <3>2. QED
      BY <3>1 DEF ToSet
  <2>3. QED
    BY <2>1, <2>2
<1>4. ASSUME NEW i \in DOMAIN a PROVE a[i] \in ToSet(c)
  <2>1. i \in DOMAIN c /\ c[i] = a[i]
    BY <1>1, <1>2 DEF c
  <2>2. QED
    BY <2>1 DEF ToSet
<1>5. ASSUME NEW i \in DOMAIN b PROVE b[i] \in ToSet(c)
  <2>1. Len(a) + i \in DOMAIN c /\ ~(Len(a) + i <= Len(a)) /\ (Len(a) + i) - Len(a) = i
    BY <1>1, <1>2 DEF c
  <2>2. c[Len(a) + i] = b[i]
    BY <1>1, <1>2, <2>1 DEF c
  <2>3. QED
    BY <2>1, <2>2 DEF ToSet
<1>6. ToSet(c) = ToSet(a) \cup ToSet(b)
  BY <1>3, <1>4, <1>5 DEF ToSet
<1>7. QED
  BY <1>6 DEF c

LEMMA AppendSet ==
    ASSUME NEW S, NEW s \in Seq(S), NEW x \in S
    PROVE  /\ Append(s, x) \in Seq(S) /\ Append(s, x) # <<>> /\ Last(Append(s, x)) = x
           /\ ToSet(Append(s, x)) = ToSet(s) \cup {x}
           /\ IsInjective(s) /\ x \notin ToSet(s) => IsInjective(Append(s, x))
<1>1. /\ Append(s, x) \in Seq(S) /\ Append(s, x) # <<>> /\ Len(Append(s, x)) = Len(s) + 1
      /\ Append(s, x)[Len(s) + 1] = x /\ \A i \in 1..Len(s) : Append(s, x)[i] = s[i]
  BY AppendProperties
<1>2. Len(s) \in Nat /\ DOMAIN s = 1..Len(s) /\ DOMAIN Append(s, x) = 1..(Len(s) + 1)
  BY <1>1
<1> DEFINE c == Append(s, x)
<1> HIDE DEF c
<1>3. Last(c) = x
  BY <1>1 DEF Last, c
<1>4. ToSet(c) = ToSet(s) \cup {x}
  <2>1. ASSUME NEW i \in DOMAIN c PROVE c[i] \in ToSet(s) \cup {x}
    <3>1. i = Len(s) + 1 \/ i \in 1..Len(s)
      BY <1>2 DEF c
    <3>2. QED
      BY <1>1, <1>2, <3>1 DEF c, ToSet
  <2>2. ASSUME NEW i \in DOMAIN s PROVE s[i] \in ToSet(c)
    <3>1. i \in DOMAIN c /\ c[i] = s[i]
      BY <1>1, <1>2 DEF c
    <3>2. QED
      BY <3>1 DEF ToSet
  <2>3. x \in ToSet(c)
    <3>1. Len(s) + 1 \in DOMAIN c /\ c[Len(s) + 1] = x
      BY <1>1, <1>2 DEF c
    <3>2. QED
      BY <3>1 DEF ToSet
  <2>4. QED
    BY <2>1, <2>2, <2>3 DEF ToSet
<1>5. ASSUME IsInjective(s), x \notin ToSet(s) PROVE IsInjective(c)
  <2>1. ASSUME NEW i \in DOMAIN c, NEW j \in DOMAIN c, c[i] = c[j] PROVE i = j
    <3>1. \A l \in DOMAIN c : l # Len(s) + 1 => l \in DOMAIN s /\ c[l] = s[l] /\ s[l] \in ToSet(s)
      BY <1>1, <1>2 DEF c, ToSet
    <3>2. c[Len(s) + 1] = x
      BY <1>1 DEF c
    <3>3. QED
      BY <1>5, <2>1, <3>1, <3>2 DEF IsInjective
  <2>2. QED
    BY <2>1 DEF IsInjective
<1>6. QED
  BY <1>1, <1>3, <1>4, <1>5 DEF c

LEMMA GivenEmit ==
    ASSUME TypeInv, NEW item \in Items, NEW next, Emit(item, next), UNCHANGED got
    PROVE  /\ Given' = Given \cup {item} /\ page'.items # <<>>
           /\ page'.next = next /\ Last(page'.items) = item
           /\ ToSet(page'.items) = ToSet(page.items) \cup {item}
           /\ IsInjective(got \o page.items) /\ item \notin Given => IsInjective((got \o page.items)')
<1>1. got \in Seq(Items) /\ page.items \in Seq(Items)
  BY DEF TypeInv
<1>2. page'.items = Append(page.items, item) /\ page'.next = next
  BY DEF Emit
<1>3. ToSet(page'.items) = ToSet(page.items) \cup {item}
  BY <1>1, <1>2, AppendSet
<1>4. Given' = Given \cup {item}
  BY <1>3 DEF Given
<1>5. ASSUME IsInjective(got \o page.items), item \notin Given PROVE IsInjective((got \o page.items)')
  <2>1. got \o Append(page.items, item) = Append(got \o page.items, item) /\ got \o page.items \in Seq(Items)
    BY <1>1
  <2>2. item \notin ToSet(got \o page.items)
    BY <1>1, <1>5, ToSetConcat DEF Given
  <2>3. IsInjective(Append(got \o page.items, item))
    BY <1>5, <2>1, <2>2, AppendSet
  <2>4. QED
    BY <1>2, <2>1, <2>3
<1>6. QED
  BY <1>1, <1>2, <1>3, <1>4, <1>5, AppendSet

\* The versions of a key that are listed are the end of its history, behind the
\* version that the marker names.
LEMMA KeyVersions ==
    ASSUME TypeInv, NEW k \in Keys, keyVersions(k) # <<>>
    PROVE  LET h == store[k]
               v == keyVersions(k)
           IN  /\ v \in Seq(Version)
               /\ \E i \in DOMAIN h :
                  /\ Len(v) = Len(h) - i + 1 /\ \A j \in DOMAIN v : v[j] = h[i + j - 1]
                  /\ IF k = marker.key /\ ~IsPrefixMarker(ask, marker)
                     THEN i > 1 /\ markerVersionID(h[i - 1].id) = marker.id ELSE i = 1
<1> DEFINE h == store[k]
           v == keyVersions(k)
           at == {i \in DOMAIN h : markerVersionID(h[i].id) = marker.id}
           n == CHOOSE i \in at : TRUE
<1>1. h \in Seq(Version) /\ Len(h) \in Nat /\ DOMAIN h = 1..Len(h)
  BY DEF TypeInv
<1>2. CASE k = marker.key /\ ~IsPrefixMarker(ask, marker)
  <2>1. v = versionsAfterMarker(h, marker.id)
    BY <1>2 DEF keyVersions
  <2>2. at # {} /\ v = SubSeq(h, n + 1, Len(h))
    BY <2>1 DEF versionsAfterMarker
  <2>3. n \in at
    BY <2>2
  <2> HIDE DEF n
  <2>4. n \in 1..Len(h) /\ markerVersionID(h[n].id) = marker.id
    BY <1>1, <2>3
  <2>5. v \in Seq(Version) /\ n + 1 <= Len(h)
    BY <1>1, <2>2, <2>4
  <2>6. Len(v) = Len(h) - n /\ \A j \in 1..(Len(h) - n) : v[j] = h[n + j]
    BY <1>1, <2>2, <2>4
  <2>7. n + 1 \in DOMAIN h /\ n + 1 > 1 /\ (n + 1) - 1 = n /\ Len(v) = Len(h) - (n + 1) + 1
    BY <1>1, <2>4, <2>5, <2>6
  <2>8. ASSUME NEW j \in DOMAIN v PROVE v[j] = h[(n + 1) + j - 1]
    <3>1. j \in 1..Len(v) /\ j \in Nat
      BY <2>5
    <3>3. j \in 1..(Len(h) - n) /\ (n + 1) + j - 1 = n + j
      BY <1>1, <2>4, <2>6, <3>1
    <3>2. QED
      BY <2>6, <3>3
  <2> HIDE DEF v
  <2>9. \E i \in DOMAIN h :
                  /\ Len(v) = Len(h) - i + 1 /\ \A j \in DOMAIN v : v[j] = h[i + j - 1]
                  /\ i > 1 /\ markerVersionID(h[i - 1].id) = marker.id
    BY <2>4, <2>7, <2>8
  <2>10. QED
    BY <1>2, <2>5, <2>9 DEF v
<1>3. CASE ~(k = marker.key /\ ~IsPrefixMarker(ask, marker))
  <2>1. v = h
    BY <1>3 DEF keyVersions
  <2>2. 1 \in DOMAIN h /\ Len(v) = Len(h) - 1 + 1
    BY <1>1, <2>1
  <2>3. \A j \in DOMAIN v : v[j] = h[1 + j - 1]
    BY <1>1, <2>1
  <2>4. QED
    BY <1>1, <1>3, <2>1, <2>2, <2>3
<1>4. QED
  BY <1>2, <1>3

\* They are all of those behind it.
LEMMA KeyVersionsAll ==
    ASSUME TypeInv, NEW k \in Keys, NEW j \in DOMAIN store[k],
           k = marker.key /\ ~IsPrefixMarker(ask, marker) => Later(store[k], marker.id, store[k][j].id)
    PROVE  \E l \in DOMAIN keyVersions(k) : keyVersions(k)[l] = store[k][j]
<1> DEFINE h == store[k]
           v == keyVersions(k)
           at == {i \in DOMAIN h : markerVersionID(h[i].id) = marker.id}
           n == CHOOSE i \in at : TRUE
<1>1. h \in Seq(Version) /\ Len(h) \in Nat /\ DOMAIN h = 1..Len(h) /\ Distinct(h)
  BY DEF TypeInv
<1>2. ASSUME NEW i \in DOMAIN h PROVE h[i].id \in Nat
  <2>1. h[i] \in Version
    BY <1>1
  <2>2. QED
    BY <2>1 DEF Version
<1>3. CASE k = marker.key /\ ~IsPrefixMarker(ask, marker)
  <2>1. PICK a, b \in DOMAIN h : a < b /\ markerVersionID(h[a].id) = marker.id /\ h[b].id = h[j].id
    BY <1>3 DEF Later
  <2>2. b = j
    BY <1>1, <2>1 DEF Distinct
  <2>3. a \in at /\ marker.id # NoID
    BY <1>2, <2>1, markerVersionIDInjective
  <2>4. n \in at
    BY <2>3
  <2> HIDE DEF n
  <2>5. n = a
    BY <1>1, <1>2, <2>1, <2>4, markerVersionIDInjective DEF Distinct
  <2>6. v = SubSeq(h, a + 1, Len(h))
    BY <1>3, <2>3, <2>5 DEF keyVersions, versionsAfterMarker, n
  <2>7. a \in 1..Len(h) /\ j \in 1..Len(h) /\ a < j
    BY <1>1, <2>1, <2>2
  <2>8. Len(v) = Len(h) - a /\ v \in Seq(Version) /\ \A i \in 1..(Len(h) - a) : v[i] = h[a + i]
    BY <1>1, <2>6, <2>7, SMTT(60)
  <2>9. j - a \in 1..(Len(h) - a) /\ a + (j - a) = j
    BY <1>1, <2>7
  <2>10. j - a \in DOMAIN v /\ v[j - a] = h[j]
    BY <2>8, <2>9
  <2>11. QED
    BY <2>10
<1>4. CASE ~(k = marker.key /\ ~IsPrefixMarker(ask, marker))
  BY <1>4 DEF keyVersions
<1>5. QED
  BY <1>3, <1>4

LEMMA PageOpen ==
    ASSUME Base, NEW entries, NEW at, Begins(entries, at), Open(entries, at)
    PROVE  PageInv'
<1>1. /\ UNCHANGED <<store, ask, marker, got, rest, page>> /\ cursor' = Seek(entries, at)
      /\ phase = "paging" /\ phase' = "scan" /\ rest = <<>> /\ page = EmptyPage /\ page.items = <<>>
  BY DEF Open, bucketVars, Base, TypeInv, EmptyPage
<1>2. Given' = Given /\ ToSet(page.items) = {}
  BY <1>1 DEF Given, ToSet
<1>3. CursorInv' /\ ClosedInv'
  BY <1>1, SameAsk, SameAgain, SameClosed DEF CursorInv, ClosedInv, Begins
<1>4. MarkerInv' /\ NextInv'
  BY <1>1, SameAsk DEF MarkerInv, NextInv, Base, PageInv
<1>5. ShownInv'
  BY <1>1, <1>2, SameAsk DEF ShownInv, Base, PageInv
<1>6. AheadInv'
  BY <1>1, <1>2, SameAsk, SameAgain DEF AheadInv, Begins
<1>7. RestInv'
  BY <1>1 DEF RestInv
<1>8. QED
  BY <1>3, <1>4, <1>5, <1>6, <1>7 DEF PageInv

LEMMA PageSkip ==
    ASSUME Base, NEW e \in cursor, Idle(e), Skip(e)
    PROVE  PageInv'
<1>1. /\ UNCHANGED <<store, ask, marker, got, rest, page, phase>>
      /\ cursor' = cursor \ {e} /\ rest = <<>> /\ At(e)
  BY DEF Skip, Idle, At, bucketVars, clientVars
<1>2. Given' = Given
  BY <1>1 DEF Given
<1>3. CursorInv' /\ ClosedInv' /\ MarkerInv' /\ NextInv'
  <2>1. CursorInv' /\ MarkerInv' /\ NextInv'
    BY <1>1, SameAsk, SameAgain DEF CursorInv, MarkerInv, NextInv, Base, PageInv
  <2>2. ClosedInv'
    BY <1>1, SameAsk, SameClosed, ClosedRest DEF ClosedInv
  <2>3. QED
    BY <2>1, <2>2
<1>4. ShownInv'
  BY <1>1, <1>2, SameAsk DEF ShownInv, Base, PageInv
<1>5. AheadInv'
  BY <1>1, SameAsk, SameAgain DEF AheadInv, Base, PageInv
<1>6. RestInv'
  BY <1>1 DEF RestInv
<1>7. QED
  BY <1>3, <1>4, <1>5, <1>6 DEF PageInv

LEMMA PageEmit ==
    ASSUME Base, NEW item, NEW next, NEW ahead, Fits(item, next, ahead), EmitEntry(item, next, ahead)
    PROVE  PageInv'
<1>1. /\ UNCHANGED <<store, ask, marker, got, rest, phase>> /\ cursor' = ahead /\ rest = <<>>
      /\ Emit(item, next) /\ item \in Items /\ ahead \subseteq cursor
  BY DEF EmitEntry, Fits, bucketVars, clientVars
<1>2. /\ Given' = Given \cup {item} /\ page'.items # <<>> /\ page'.next = next /\ Last(page'.items) = item
      /\ ToSet(page'.items) = ToSet(page.items) \cup {item}
  BY <1>1, GivenEmit DEF Base
<1>3. CursorInv' /\ ClosedInv' /\ MarkerInv'
  <2>1. CursorInv' /\ MarkerInv'
    BY <1>1, SameAsk, SameAgain DEF CursorInv, MarkerInv, Base, PageInv
  <2>2. ClosedInv'
    BY <1>1, SameAsk, SameClosed DEF ClosedInv, Fits
  <2>3. QED
    BY <2>1, <2>2
<1>4. NextInv'
  BY <1>1, <1>2, SameAsk DEF NextInv, Fits
<1>5. ShownInv'
  <2>1. \A x \in Given' : Proper(x)'
    BY <1>1, <1>2, SameAsk DEF Fits, Base, PageInv, ShownInv
  <2>2. \A x \in ToSet(got) : Reached(marker, x) \/ phase = "done"
    BY DEF Base, PageInv, ShownInv
  <2>3. \A x \in Given : Reached(next, x)
    BY DEF Fits, Reached
  <2>4. Reached(next, item)
    BY DEF Fits, Reached
  <2>5. QED
    BY <1>1, <1>2, <2>1, <2>2, <2>3, <2>4, SameAsk DEF ShownInv
<1>6. AheadInv'
  <2>1. ASSUME NEW f \in ahead
        PROVE  /\ \A x \in ToSet(page.items) \cup {item} : Under(x, f)
               /\ \A x \in ToSet(got) : Under(x, f) \/ Again(x, f)
    BY DEF Fits, Base, PageInv, AheadInv
  <2>2. QED
    BY <1>1, <1>2, <2>1, SameAsk, SameAgain DEF AheadInv
<1>7. RestInv'
  BY <1>1 DEF RestInv
<1>8. QED
  BY <1>3, <1>4, <1>5, <1>6, <1>7 DEF PageInv

LEMMA PageReply ==
    ASSUME TextKeys, Base, NEW truncated \in BOOLEAN, truncated => full, phase = "scan", Reply(truncated)
    PROVE  PageInv'
<1>1. /\ UNCHANGED <<store, ask>> /\ got' = got \o page.items
      /\ cursor' = {} /\ rest' = <<>> /\ page' = EmptyPage /\ page'.items = <<>>
      /\ phase' = (IF truncated THEN "paging" ELSE "done")
      /\ marker' = IF truncated THEN page.next ELSE marker
  BY ReplyMarker DEF Reply, bucketVars, EmptyPage, Base
<1>2. Given' = Given
  <2>1. ToSet(got') = ToSet(got) \cup ToSet(page.items)
    BY <1>1, ToSetConcat DEF Base, TypeInv
  <2>2. ToSet(page'.items) = {}
    BY <1>1 DEF ToSet
  <2>3. QED
    BY <2>1, <2>2 DEF Given
<1>3. ToSet(got') = Given
  BY <1>1, ToSetConcat DEF Base, TypeInv, Given
<1>4. page.items \in Seq(Items)
  BY DEF Base, TypeInv
<1>5. truncated => page.items # <<>> /\ Last(page.items) \in Given
  <2>1. truncated => Len(page.items) >= ask.max /\ ask.max > 0
    BY AskTypes DEF full, Base
  <2>2. truncated => Len(page.items) > 0
    BY <1>4, <2>1, AskTypes DEF Base
  <2>3. Len(page.items) > 0 => page.items # <<>> /\ Last(page.items) \in ToSet(page.items)
    BY <1>4 DEF Last, ToSet
  <2>4. QED
    BY <2>2, <2>3 DEF Given
<1>6. CursorInv' /\ ClosedInv' /\ AheadInv' /\ RestInv' /\ NextInv'
  BY <1>1 DEF CursorInv, ClosedInv, Closed, AheadInv, RestInv, NextInv
<1>7. MarkerInv'
  BY <1>1, <1>5, SameAsk DEF MarkerInv, Base, PageInv, NextInv, ShownInv
<1>8. ShownInv'
  BY <1>1, <1>2, <1>3, <1>5, SameAsk DEF ShownInv, Base, PageInv
<1>9. QED
  BY <1>6, <1>7, <1>8 DEF PageInv

LEMMA PageFail ==
    ASSUME Base, Fail
    PROVE  PageInv'
<1>1. /\ UNCHANGED <<store, ask, marker, got>> /\ phase = "scan" /\ phase' = "paging"
      /\ cursor' = {} /\ rest' = <<>> /\ page' = EmptyPage /\ page'.items = <<>>
  BY DEF Fail, bucketVars, EmptyPage
<1>2. Given' \subseteq Given /\ ToSet(page'.items) = {}
  BY <1>1 DEF Given, ToSet
<1>3. CursorInv' /\ ClosedInv' /\ AheadInv' /\ RestInv' /\ NextInv'
  BY <1>1 DEF CursorInv, ClosedInv, Closed, AheadInv, RestInv, NextInv
<1>4. MarkerInv' /\ ShownInv'
  BY <1>1, <1>2, SameAsk DEF MarkerInv, ShownInv, Base, PageInv
<1>5. QED
  BY <1>3, <1>4 DEF PageInv

LEMMA PageChange ==
    ASSUME Base, NEW k, NEW h, Change(k, h)
    PROVE  PageInv'
<1>1. UNCHANGED <<ask, marker, got, phase, cursor, rest, page>> /\ cursor = {} /\ rest = <<>> /\ page = EmptyPage
  BY DEF Change, clientVars, scanVars, Base, TypeInv
<1>2. Given' = Given /\ page.items = <<>>
  BY <1>1 DEF Given, EmptyPage
<1>3. CursorInv' /\ ClosedInv' /\ AheadInv' /\ RestInv' /\ NextInv'
  BY <1>1, <1>2 DEF CursorInv, ClosedInv, Closed, AheadInv, RestInv, NextInv
<1>4. MarkerInv' /\ ShownInv'
  BY <1>1, <1>2, SameAsk DEF MarkerInv, ShownInv, Base, PageInv
<1>5. QED
  BY <1>3, <1>4 DEF PageInv

LEMMA PageGather ==
    ASSUME TextKeys, Base, NEW e \in cursor, ask.api = "versions", At(e), Inside(e), ~RolledUp(ask, e.key), Gather(e)
    PROVE  /\ PageInv' /\ rest' \in Seq(Entries)
           /\ DOMAIN rest' = DOMAIN keyVersions(e.key)
           /\ \A j \in DOMAIN rest' : rest'[j] = Item(e.key, keyVersions(e.key)[j].id)
<1> DEFINE k == e.key
           h == store[k]
           v == keyVersions(k)
<1>1. /\ UNCHANGED <<store, ask, marker, got, page, phase>> /\ cursor' = cursor \ {e}
      /\ rest' = [j \in DOMAIN v |-> Item(k, v[j].id)] /\ OfObjects
  BY DEF Gather, bucketVars, clientVars, OfObjects
<1>2. k \in Keys /\ e \in Entries /\ h \in Seq(Version) /\ k \in Word /\ e.id = 0
  BY <1>1, Words DEF Base, TypeInv, Entries, PageInv, CursorInv
<1>3. v \in Seq(Version)
  <2>1. CASE v = <<>>
    BY <2>1
  <2>2. CASE v # <<>>
    BY <1>2, <2>2, KeyVersions DEF Base
  <2>3. QED
    BY <2>1, <2>2
<1> HIDE DEF v
<1>4. ASSUME NEW j \in DOMAIN v PROVE Item(k, v[j].id) \in Entries
  <2>1. v[j] \in Version
    BY <1>3
  <2>2. QED
    BY <1>2, <2>1 DEF Version, Item, Entries
<1>5. rest' \in Seq(Entries) /\ Len(rest') = Len(v) /\ DOMAIN rest' = DOMAIN v
  <2>1. DOMAIN v = 1..Len(v) /\ Len(v) \in Nat
    BY <1>3
  <2>2. QED
    BY <1>1, <1>4, <2>1
<1>6. \A j \in DOMAIN rest' : rest'[j] = Item(k, v[j].id)
  BY <1>1, <1>5
<1>7. Given' = Given
  BY <1>1 DEF Given
<1>8. CursorInv' /\ ClosedInv' /\ MarkerInv' /\ NextInv'
  <2>1. CursorInv' /\ MarkerInv' /\ NextInv'
    BY <1>1, SameAsk, SameAgain DEF CursorInv, MarkerInv, NextInv, Base, PageInv
  <2>2. ClosedInv'
    BY <1>1, SameAsk, SameClosed, ClosedRest DEF ClosedInv
  <2>3. QED
    BY <2>1, <2>2
<1>9. ShownInv'
  BY <1>1, <1>7, SameAsk DEF ShownInv, Base, PageInv
<1>10. AheadInv'
  BY <1>1, SameAsk, SameAgain DEF AheadInv, Base, PageInv
<1>11. RestInv'
  <2>0. rest' = <<>> => RestInv'
    BY DEF RestInv
  <2>1. SUFFICES ASSUME rest' # <<>> PROVE RestInv'
    BY <2>0
  <2>2. v # <<>> /\ 1 \in DOMAIN rest'
    BY <1>3, <1>5, <2>1
  <2>3. rest'[1].key = k
    BY <1>6, <2>2, ItemFields
  <2>4. PICK i \in DOMAIN h : Len(v) = Len(h) - i + 1 /\ \A j \in DOMAIN v : v[j] = h[i + j - 1]
    BY <1>2, <2>2, KeyVersions DEF v, Base
  <2>5. \A f \in cursor' : Less(k, f.key)
    BY <1>1, AtFirst DEF Base, PageInv
  <2>6. \A x \in Given : Under(x, rest'[1]) \/ x.key = k
    BY <1>1, <2>3, GivenUnder DEF Under, Again
  <2>7. page.items # <<>> => Under(Last(page.items), rest'[1])
    <3>1. page.items # <<>> => Last(page.items) \in ToSet(page.items)
      BY DEF Base, TypeInv, Last, ToSet
    <3>2. page.items # <<>> => Under(Last(page.items), e)
      BY <3>1 DEF Base, PageInv, AheadInv
    <3>3. QED
      BY <1>1, <2>3, <3>2 DEF Under
  <2>8. \A j \in DOMAIN rest' : rest'[j] = Item(k, h[i + j - 1].id)
    BY <1>5, <1>6, <2>4
  <2>9. IsPrefix(ask.prefix, k) /\ ~RolledUp(ask, k)
    BY DEF Inside
  <2> HIDE DEF k, h
  <2>10. /\ IsPrefix(ask.prefix, k) /\ ~RolledUp(ask, k)
         /\ \A f \in cursor' : Less(k, f.key)
         /\ \A x \in Given' : Under(x, rest[1])' \/ x.key = k
         /\ \E l \in DOMAIN h :
               /\ Len(rest') = Len(h) - l + 1
               /\ \A j \in DOMAIN rest' : rest'[j] = Item(k, h[l + j - 1].id)
               /\ page.items # <<>> =>
                     \/ Under(Last(page.items), rest[1])'
                     \/ l > 1 /\ page.next = Item(k, markerVersionID(h[l - 1].id))
    <3>1. Under(Last(page.items), rest[1])' <=> Under(Last(page.items), rest'[1])
      BY <1>1, SameAsk DEF Under
    <3>2. \A x : Under(x, rest[1])' <=> Under(x, rest'[1])
      BY <1>1, SameAsk DEF Under
    <3>3. QED
      BY <1>5, <1>7, <2>4, <2>5, <2>6, <2>7, <2>8, <2>9, <3>1, <3>2
  <2>11. RestIs(k, h)'
    BY <1>1, <2>10 DEF RestIs, k, h
  <2>12. QED
    BY <1>1, <2>3, <2>11 DEF RestInv, k, h
<1>12. QED
  BY <1>5, <1>6, <1>8, <1>9, <1>10, <1>11 DEF PageInv, v

\* The rest of a key, as the end of its history.
LEMMA RestAt ==
    ASSUME Base, rest # <<>>
    PROVE  LET k == rest[1].key
               h == store[k]
           IN  /\ rest \in Seq(Entries) /\ Len(rest) > 0 /\ k \in Keys /\ h \in Seq(Version)
               /\ ask.api = "versions" /\ OfObjects
               /\ \E i \in DOMAIN h :
                  /\ Len(rest) = Len(h) - i + 1
                  /\ \A j \in DOMAIN rest : rest[j] = Item(k, h[i + j - 1].id)
                  /\ rest[1] = Item(k, h[i].id)
                  /\ page.items # <<>> =>
                        \/ Under(Last(page.items), rest[1])
                        \/ i > 1 /\ page.next = Item(k, markerVersionID(h[i - 1].id))
<1> DEFINE k == rest[1].key
           h == store[k]
<1>1. rest \in Seq(Entries) /\ Len(rest) > 0 /\ 1 \in DOMAIN rest
  BY DEF Base, TypeInv
<1>2. k \in Keys
  <2>1. rest[1] \in Entries
    BY <1>1
  <2>2. QED
    BY <2>1 DEF Entries
<1>3. h \in Seq(Version) /\ ask.api = "versions" /\ OfObjects
  BY <1>2 DEF Base, TypeInv, OfObjects
<1>4. PICK i \in DOMAIN h :
                  /\ Len(rest) = Len(h) - i + 1
                  /\ \A j \in DOMAIN rest : rest[j] = Item(k, h[i + j - 1].id)
                  /\ page.items # <<>> =>
                        \/ Under(Last(page.items), rest[1])
                        \/ i > 1 /\ page.next = Item(k, markerVersionID(h[i - 1].id))
  BY DEF Base, PageInv, RestInv, RestIs
<1>5. rest[1] = Item(k, h[i].id)
  <2>1. i + 1 - 1 = i
    BY <1>3
  <2>2. QED
    BY <1>1, <1>4, <2>1
<1>6. QED
  BY <1>1, <1>2, <1>3, <1>4, <1>5

\* The step that emits one version.
EmitHead ==
    /\ ask.api = "versions" /\ phase = "scan" /\ rest # <<>> /\ ~full /\ rest' = Tail(rest)
    /\ Emit(Head(rest), Item(Head(rest).key, markerVersionID(Head(rest).id)))
    /\ UNCHANGED <<bucketVars, clientVars, cursor>>

LEMMA HeadFacts ==
    ASSUME TextKeys, Base, rest # <<>>
    PROVE  LET item == Head(rest)
               next == Item(item.key, markerVersionID(item.id))
           IN  /\ item = rest[1] /\ item \in Entries /\ item \in Items /\ next \in Items /\ Proper(item)
               /\ next.key = item.key /\ item.id # PrefixID
<1> DEFINE item == Head(rest)
           next == Item(item.key, markerVersionID(item.id))
<1>1. rest \in Seq(Entries) /\ Len(rest) > 0 /\ OfObjects /\ ask.api = "versions"
  BY RestAt
<1>2. item = rest[1] /\ item \in Entries /\ item \in Items
  BY <1>1, EntryItems
<1>3. item.id \in Nat /\ item.id # PrefixID /\ item.key \in Text
  BY <1>2 DEF Entries, PrefixID, Items
<1>4. next \in Items /\ next.key = item.key
  BY <1>3, markerVersionIDInjective, ItemFields DEF Items, Item
<1>5. Proper(item)
  BY <1>1, <1>2, <1>3 DEF Proper, Base, PageInv, RestInv, RestIs
<1>6. QED
  BY <1>2, <1>3, <1>4, <1>5

LEMMA PageVersion ==
    ASSUME TextKeys, Base, EmitHead
    PROVE  PageInv'
<1> DEFINE item == Head(rest)
           next == Item(item.key, markerVersionID(item.id))
           k == rest[1].key
           h == store[k]
<1>1. /\ UNCHANGED <<store, ask, marker, got, cursor, phase>> /\ rest' = Tail(rest)
      /\ Emit(item, next) /\ rest # <<>>
  BY DEF EmitHead, bucketVars, clientVars
<1>2. /\ item = rest[1] /\ item \in Items /\ next \in Items /\ Proper(item)
      /\ next.key = k /\ item.id # PrefixID /\ OfObjects
  BY <1>1, HeadFacts, RestAt
<1>3. /\ Given' = Given \cup {item} /\ page'.items # <<>> /\ page'.next = next /\ Last(page'.items) = item
      /\ ToSet(page'.items) = ToSet(page.items) \cup {item}
  BY <1>1, <1>2, GivenEmit DEF Base
<1> HIDE DEF item, next
<1>4. /\ IsPrefix(ask.prefix, k) /\ ~RolledUp(ask, k)
      /\ \A f \in cursor : Less(k, f.key)
      /\ \A x \in Given : Under(x, rest[1]) \/ x.key = k
  BY <1>1 DEF Base, PageInv, RestInv, RestIs
<1>5. CursorInv' /\ ClosedInv' /\ MarkerInv'
  BY <1>1, SameAsk, SameAgain, SameClosed DEF CursorInv, ClosedInv, MarkerInv, Base, PageInv
<1>6. NextInv'
  BY <1>1, <1>2, <1>3, SameAsk DEF NextInv
<1>7. ShownInv'
  <2>1. \A x \in Given' : Proper(x)'
    BY <1>1, <1>2, <1>3, SameAsk DEF Base, PageInv, ShownInv
  <2>2. \A x \in ToSet(got) : Reached(marker, x) \/ phase = "done"
    BY DEF Base, PageInv, ShownInv
  <2>3. \A x \in Given : Reached(next, x)
    BY <1>2, <1>4 DEF Reached, Under
  <2>4. Reached(next, item)
    BY <1>2 DEF Reached
  <2>5. QED
    BY <1>1, <1>3, <2>1, <2>2, <2>3, <2>4, SameAsk DEF ShownInv
<1>8. AheadInv'
  <2>1. ASSUME NEW f \in cursor
        PROVE  /\ \A x \in ToSet(page.items) \cup {item} : Under(x, f)
               /\ \A x \in ToSet(got) : Under(x, f) \/ Again(x, f)
    BY <1>2, <1>4 DEF Base, PageInv, AheadInv, Under, Edge
  <2>2. QED
    BY <1>1, <1>3, <2>1, SameAsk, SameAgain DEF AheadInv
<1>9. RestInv'
  <2>0. rest' = <<>> => RestInv'
    BY DEF RestInv
  <2>1. SUFFICES ASSUME rest' # <<>> PROVE RestInv'
    BY <2>0
  <2>2. rest \in Seq(Entries) /\ Len(rest) > 0 /\ h \in Seq(Version) /\ k \in Keys
    BY <1>1, RestAt
  <2>3. PICK i \in DOMAIN h :
                  /\ Len(rest) = Len(h) - i + 1
                  /\ \A j \in DOMAIN rest : rest[j] = Item(k, h[i + j - 1].id)
                  /\ rest[1] = Item(k, h[i].id)
    BY <1>1, RestAt
  <2>4. rest' \in Seq(Entries) /\ Len(rest') = Len(rest) - 1 /\ \A j \in 1..Len(rest') : rest'[j] = rest[j + 1]
    BY <1>1, <2>2
  <2>5. Len(rest') > 0
    BY <2>1, <2>4
  <2>6. i \in 1..Len(h) /\ i + 1 \in 1..Len(h) /\ Len(rest') = Len(h) - (i + 1) + 1 /\ i \in Nat
    <3>1. Len(h) \in Nat /\ DOMAIN h = 1..Len(h)
      BY <2>2
    <3>2. Len(rest) = Len(h) - i + 1
      BY <2>3
    <3>3. i \in 1..Len(h)
      BY <3>1
    <3> HIDE DEF h
    <3>4. Len(rest') = Len(h) - i
      BY <2>4, <3>1, <3>2, <3>3
    <3>5. QED
      BY <2>5, <3>1, <3>3, <3>4
  <2>7. ASSUME NEW j \in DOMAIN rest' PROVE rest'[j] = Item(k, h[(i + 1) + j - 1].id)
    <3>1. j \in 1..Len(rest') /\ j + 1 \in DOMAIN rest
      BY <2>2, <2>4
    <3>2. rest'[j] = rest[j + 1]
      BY <2>4, <3>1
    <3>3. i + (j + 1) - 1 = (i + 1) + j - 1
      BY <2>4, <2>6, <3>1
    <3>4. QED
      BY <2>3, <3>1, <3>2, <3>3
  <2>8. rest'[1].key = k
    <3>1. 1 \in DOMAIN rest'
      BY <2>4, <2>5
    <3>2. QED
      BY <2>7, <3>1, ItemFields
  <2>9. next = Item(k, markerVersionID(h[(i + 1) - 1].id))
    <3>1. (i + 1) - 1 = i
      BY <2>6
    <3>2. item = Item(k, h[i].id) /\ item.key = k /\ item.id = h[i].id
      BY <1>2, <2>3, ItemFields, SMTT(40)
    <3>3. QED
      BY <3>1, <3>2 DEF next
  <2> HIDE DEF k, h
  <2>10. \A x \in Given' : Under(x, rest'[1]) \/ x.key = k
    <3>1. item.key = k
      BY <1>2 DEF k
    <3>2. \A x \in Given : Under(x, rest'[1]) \/ x.key = k
      BY <1>2, <1>4, <2>8 DEF Under, k
    <3>3. QED
      BY <1>3, <3>1, <3>2
  <2>11. \E l \in DOMAIN h :
               /\ Len(rest') = Len(h) - l + 1
               /\ \A j \in DOMAIN rest' : rest'[j] = Item(k, h[l + j - 1].id)
               /\ l > 1 /\ page'.next = Item(k, markerVersionID(h[l - 1].id))
    <3>1. i + 1 \in DOMAIN h /\ i + 1 > 1
      BY <2>2, <2>6
    <3>2. QED
      BY <1>3, <2>6, <2>7, <2>9, <3>1
  <2>12. \A x : Under(x, rest[1])' <=> Under(x, rest'[1])
    BY <1>1, SameAsk DEF Under
  <2>13. /\ IsPrefix(ask.prefix, k) /\ ~RolledUp(ask, k)
         /\ \A f \in cursor' : Less(k, f.key)
         /\ \A x \in Given' : Under(x, rest[1])' \/ x.key = k
         /\ \E l \in DOMAIN h :
               /\ Len(rest') = Len(h) - l + 1
               /\ \A j \in DOMAIN rest' : rest'[j] = Item(k, h[l + j - 1].id)
               /\ page'.items # <<>> =>
                     \/ Under(Last(page.items), rest[1])'
                     \/ l > 1 /\ page'.next = Item(k, markerVersionID(h[l - 1].id))
    BY <1>1, <1>4, <2>10, <2>11, <2>12 DEF k
  <2>14. \A kk, hh : kk = k /\ hh = h => RestIs(kk, hh)'
    BY <1>1, <2>13 DEF RestIs
  <2>15. rest'[1].key = k /\ store'[rest'[1].key] = h
    BY <1>1, <2>8 DEF h
  <2>16. QED
    BY <2>14, <2>15 DEF RestInv
<1>10. QED
  BY <1>5, <1>6, <1>7, <1>8, <1>9 DEF PageInv

-----------------------------------------------------------------------------
(***************************************************************************)
(* Nothing is shown twice                                                  *)
(***************************************************************************)
LEMMA SameUnshown ==
    ASSUME UNCHANGED <<store, ask>>
    PROVE  \A m, shown : Unshown(m, shown)' <=> Unshown(m, shown)
  BY DEF Unshown

LEMMA UnshownNothing ==
    ASSUME TypeInv, NEW m, m.id = NoID, NEW shown
    PROVE  Unshown(m, shown)
<1>1. SUFFICES ASSUME m.key \in Keys, NEW i \in DOMAIN store[m.key] PROVE markerVersionID(store[m.key][i].id) # NoID
  BY DEF Unshown, Later
<1>2. store[m.key] \in Seq(Version)
  BY <1>1 DEF TypeInv
<1>3. store[m.key][i] \in Version
  BY <1>1, <1>2
<1>4. QED
  BY <1>3, markerVersionIDInjective DEF Version

LEMMA InjectiveFront ==
    ASSUME NEW S, NEW a \in Seq(S), NEW b \in Seq(S), IsInjective(a \o b)
    PROVE  IsInjective(a)
<1>1. /\ a \o b \in Seq(S) /\ Len(a \o b) = Len(a) + Len(b) /\ Len(a) \in Nat /\ Len(b) \in Nat
      /\ \A i \in 1..Len(a) : (a \o b)[i] = a[i]
  OBVIOUS
<1>2. \A i \in DOMAIN a : i \in DOMAIN (a \o b) /\ (a \o b)[i] = a[i]
  BY <1>1
<1>3. QED
  BY <1>2 DEF IsInjective

LEMMA OnceOpen ==
    ASSUME Base, OnceInv, NEW entries, NEW at, Open(entries, at)
    PROVE  OnceInv'
<1>1. /\ UNCHANGED <<store, ask, marker, got, rest, page, renewed>>
      /\ phase = "paging" /\ phase' = "scan" /\ rest = <<>>
  BY DEF Open, bucketVars, Base, TypeInv
<1>2. Given' = Given
  BY <1>1 DEF Given
<1>3. QED
  BY <1>1, <1>2, SameUnshown DEF OnceInv

LEMMA OnceSkip ==
    ASSUME Base, OnceInv, NEW e, Idle(e), Skip(e)
    PROVE  OnceInv'
<1>1. UNCHANGED <<store, ask, marker, got, rest, page, renewed, phase>>
  BY DEF Skip, bucketVars, clientVars
<1>2. Given' = Given
  BY <1>1 DEF Given
<1>3. QED
  BY <1>1, <1>2, SameUnshown DEF OnceInv

LEMMA OnceEmit ==
    ASSUME Base, OnceInv, NEW item, NEW next, NEW ahead, Fits(item, next, ahead), EmitEntry(item, next, ahead)
    PROVE  OnceInv'
<1>1. /\ UNCHANGED <<store, ask, marker, got, rest, phase, renewed>> /\ rest = <<>>
      /\ Emit(item, next) /\ item \in Items /\ item \notin Given
  BY DEF EmitEntry, Fits, bucketVars, clientVars
<1>2. /\ page'.next = next
      /\ IsInjective(got \o page.items) => IsInjective((got \o page.items)')
  BY <1>1, GivenEmit DEF Base
<1>3. Unshown(next, Given')
  <2>1. CASE ask.api = "versions"
    <3>1. next.id = NoID
      BY <2>1 DEF Fits, OfObjects
    <3>2. QED
      BY <3>1, UnshownNothing DEF Base
  <2>2. CASE ask.api # "versions"
    BY <2>2 DEF Unshown
  <2>3. QED
    BY <2>1, <2>2
<1>4. QED
  BY <1>1, <1>2, <1>3, SameUnshown DEF OnceInv

LEMMA OnceReply ==
    ASSUME TextKeys, Base, OnceInv, NEW truncated \in BOOLEAN, truncated => full, phase = "scan", Reply(truncated)
    PROVE  OnceInv'
<1>1. /\ UNCHANGED <<store, ask, renewed>> /\ got' = got \o page.items
      /\ rest' = <<>> /\ page' = EmptyPage /\ page'.items = <<>>
      /\ phase' = (IF truncated THEN "paging" ELSE "done")
      /\ marker' = IF truncated THEN page.next ELSE marker
  BY ReplyMarker DEF Reply, bucketVars, EmptyPage, Base
<1>2. got \in Seq(Items) /\ page.items \in Seq(Items)
  BY DEF Base, TypeInv
<1>3. ToSet(got') = Given /\ (got \o page.items)' = got \o page.items
  BY <1>1, <1>2, ToSetConcat DEF Given
<1>4. truncated => page.items # <<>>
  BY <1>2, AskTypes DEF full, Base
<1>5. QED
  BY <1>1, <1>3, <1>4, SameUnshown DEF OnceInv

LEMMA OnceFail ==
    ASSUME Base, OnceInv, Fail
    PROVE  OnceInv'
<1>1. /\ UNCHANGED <<store, ask, marker, got, renewed>> /\ phase = "scan" /\ phase' = "paging"
      /\ rest' = <<>> /\ page' = EmptyPage /\ page'.items = <<>>
  BY DEF Fail, bucketVars, EmptyPage
<1>2. got \in Seq(Items) /\ page.items \in Seq(Items) /\ (got \o page.items)' = got
  BY <1>1 DEF Base, TypeInv
<1>3. IsInjective(got \o page.items) => IsInjective(got)
  BY <1>2, InjectiveFront
<1>4. QED
  BY <1>1, <1>2, <1>3, SameUnshown DEF OnceInv

LEMMA OnceGather ==
    ASSUME TextKeys, Base, OnceInv, NEW e \in cursor, ask.api = "versions", At(e), Inside(e), ~RolledUp(ask, e.key), Gather(e)
    PROVE  OnceInv'
<1> DEFINE k == e.key
           h == store[k]
           v == keyVersions(k)
<1>1. UNCHANGED <<store, ask, marker, got, page, phase, renewed>> /\ phase # "done" /\ OfObjects
  BY DEF Gather, bucketVars, clientVars, At, OfObjects
<1>2. Given' = Given
  BY <1>1 DEF Given
<1>3. k \in Keys /\ k \in Word /\ e.id = 0 /\ e \in Entries
  BY <1>1, Words DEF Base, TypeInv, Entries, PageInv, CursorInv
<1>4. DOMAIN rest' = DOMAIN v /\ \A j \in DOMAIN rest' : rest'[j] = Item(k, v[j].id)
  BY PageGather
<1>5. ASSUME ~renewed, NEW j \in DOMAIN rest', rest'[j] \in Given PROVE FALSE
  <2> DEFINE x == rest'[j]
  <2>1. x = Item(k, v[j].id) /\ x.key = k /\ x.id = v[j].id
    BY <1>4, <1>5, ItemFields
  <2>2. v # <<>> /\ j \in DOMAIN v
    BY <1>4, <1>5
  <2>3. v \in Seq(Version)
    BY <1>3, <2>2, KeyVersions DEF Base
  <2>4. PICK i \in DOMAIN h :
            /\ Len(v) = Len(h) - i + 1 /\ \A l \in DOMAIN v : v[l] = h[i + l - 1]
            /\ IF k = marker.key /\ ~IsPrefixMarker(ask, marker)
               THEN i > 1 /\ markerVersionID(h[i - 1].id) = marker.id ELSE i = 1
    BY <1>3, <2>2, KeyVersions DEF Base
  <2> HIDE DEF v
  <2>5. x.id # PrefixID
    <3>1. v[j] \in Version
      BY <2>2, <2>3
    <3>2. QED
      BY <2>1, <3>1 DEF Version, PrefixID
  <2>6. ~Under(x, e)
    BY <1>1, <1>3, <2>1, <2>5, LessIrreflexive DEF Under, Edge
  <2>7. x \in ToSet(got) /\ k = marker.key /\ ~IsPrefixMarker(ask, marker)
    BY <1>1, <1>5, <2>6, GivenUnder DEF Again
  <2>8. i > 1 /\ markerVersionID(h[i - 1].id) = marker.id
    BY <2>4, <2>7
  <2>9. h \in Seq(Version) /\ Len(h) \in Nat /\ DOMAIN h = 1..Len(h)
    BY <1>3 DEF Base, TypeInv
  <2>10. j \in 1..Len(v) /\ i \in 1..Len(h)
    BY <2>2, <2>3, <2>9
  <2> HIDE DEF h
  <2>11. i - 1 \in DOMAIN h /\ i + j - 1 \in DOMAIN h /\ i - 1 < i + j - 1
    <3>1. Len(v) = Len(h) - i + 1
      BY <2>4
    <3>2. i \in Nat /\ j \in Nat /\ i > 1 /\ j >= 1 /\ j <= Len(h) - i + 1
      BY <2>8, <2>9, <2>10, <3>1
    <3>3. i - 1 \in 1..Len(h) /\ i + j - 1 \in 1..Len(h) /\ i - 1 < i + j - 1
      BY <2>9, <3>2
    <3>4. QED
      BY <2>9, <3>3
  <2>12. v[j] = h[i + j - 1]
    BY <2>2, <2>4
  <2>13. Later(h, marker.id, h[i + j - 1].id)
    BY <2>8, <2>11 DEF Later
  <2>14. Unshown(marker, ToSet(got))
    BY <1>1, <1>5 DEF OnceInv
  <2>15. Item(k, h[i + j - 1].id) \notin ToSet(got)
    BY <1>3, <2>7, <2>11, <2>13, <2>14 DEF Unshown, h
  <2>16. QED
    BY <2>1, <2>7, <2>12, <2>15
<1>6. QED
  BY <1>1, <1>2, <1>5, SameUnshown DEF OnceInv

\* The history behind the version at the head of the rest is the tail of the rest.
LEMMA BehindHead ==
    ASSUME Base, rest # <<>>, NEW j \in DOMAIN store[rest[1].key],
           Later(store[rest[1].key], markerVersionID(Head(rest).id), store[rest[1].key][j].id)
    PROVE  \E n \in DOMAIN rest : n > 1 /\ rest[n] = Item(rest[1].key, store[rest[1].key][j].id)
<1> DEFINE k == rest[1].key
           h == store[k]
<1>1. rest \in Seq(Entries) /\ Len(rest) > 0 /\ k \in Keys /\ h \in Seq(Version)
  BY RestAt
<1>2. PICK i \in DOMAIN h :
                  /\ Len(rest) = Len(h) - i + 1
                  /\ \A l \in DOMAIN rest : rest[l] = Item(k, h[i + l - 1].id)
                  /\ rest[1] = Item(k, h[i].id)
  BY RestAt
<1>3. Head(rest).id = h[i].id
  <2>1. Head(rest) = Item(k, h[i].id)
    BY <1>1, <1>2
  <2>2. QED
    BY <2>1, ItemFields
<1>4. Distinct(h)
  BY <1>1 DEF Base, TypeInv
<1>5. PICK a, b \in DOMAIN h : a < b /\ markerVersionID(h[a].id) = markerVersionID(h[i].id) /\ h[b].id = h[j].id
  BY <1>3 DEF Later
<1> HIDE DEF h
<1>6. h[a].id = h[i].id
  <2>1. h[a] \in Version /\ h[i] \in Version
    BY <1>1
  <2>2. QED
    BY <1>5, <2>1, markerVersionIDInjective DEF Version
<1>7. a = i /\ b = j
  BY <1>4, <1>5, <1>6 DEF Distinct, h
<1>8. DOMAIN h = 1..Len(h) /\ Len(h) \in Nat /\ DOMAIN rest = 1..Len(rest) /\ Len(rest) \in Nat
  BY <1>1
<1>9. i \in 1..Len(h) /\ j \in 1..Len(h) /\ i < j
  BY <1>5, <1>7, <1>8 DEF h
<1>10. Len(rest) = Len(h) - i + 1
  BY <1>2
<1> DEFINE n == j - i + 1
<1>11. n \in 1..Len(rest) /\ n > 1 /\ i + n - 1 = j
  <2>1. i \in Nat /\ j \in Nat /\ i < j /\ j <= Len(h) /\ Len(h) \in Nat
    BY <1>8, <1>9
  <2>2. n \in Nat /\ n > 1 /\ n <= Len(h) - i + 1 /\ i + n - 1 = j
    BY <2>1
  <2>3. QED
    BY <1>8, <1>10, <2>2
<1>12. rest[n] = Item(k, h[j].id)
  <2>1. rest[n] = Item(k, h[i + n - 1].id)
    BY <1>2, <1>8, <1>11
  <2>2. QED
    BY <1>11, <2>1
<1>13. QED
  BY <1>8, <1>11, <1>12 DEF h

LEMMA RestDistinct ==
    ASSUME Base, rest # <<>>, NEW n \in DOMAIN rest, n > 1
    PROVE  rest[n] # rest[1]
<1> DEFINE k == rest[1].key
           h == store[k]
<1>1. rest \in Seq(Entries) /\ Len(rest) > 0 /\ k \in Keys /\ h \in Seq(Version)
  BY RestAt
<1>2. PICK i \in DOMAIN h :
                  /\ Len(rest) = Len(h) - i + 1
                  /\ \A l \in DOMAIN rest : rest[l] = Item(k, h[i + l - 1].id)
                  /\ rest[1] = Item(k, h[i].id)
  BY RestAt
<1>3. Distinct(h)
  BY <1>1 DEF Base, TypeInv
<1> HIDE DEF h
<1>4. DOMAIN h = 1..Len(h) /\ Len(h) \in Nat /\ DOMAIN rest = 1..Len(rest) /\ Len(rest) \in Nat
  BY <1>1
<1>5. Len(rest) = Len(h) - i + 1
  BY <1>2
<1>6. i \in 1..Len(h) /\ i + n - 1 \in 1..Len(h) /\ i # i + n - 1
  BY <1>4, <1>5
<1>7. h[i].id # h[i + n - 1].id
  BY <1>3, <1>4, <1>6 DEF Distinct
<1>8. rest[n] = Item(k, h[i + n - 1].id)
  BY <1>2
<1>9. QED
  BY <1>2, <1>7, <1>8, ItemFields

LEMMA OnceVersion ==
    ASSUME TextKeys, Base, OnceInv, EmitHead
    PROVE  OnceInv'
<1> DEFINE item == Head(rest)
           next == Item(item.key, markerVersionID(item.id))
           k == rest[1].key
           h == store[k]
<1>1. /\ UNCHANGED <<store, ask, marker, got, phase, renewed>> /\ rest' = Tail(rest)
      /\ Emit(item, next) /\ rest # <<>> /\ phase # "done"
  BY DEF EmitHead, bucketVars, clientVars
<1>2. item = rest[1] /\ item \in Items /\ next.key = k /\ next.id = markerVersionID(item.id)
  BY <1>1, HeadFacts, ItemFields
<1>3. /\ Given' = Given \cup {item} /\ page'.items # <<>> /\ page'.next = next
      /\ IsInjective(got \o page.items) /\ item \notin Given => IsInjective((got \o page.items)')
  BY <1>1, <1>2, GivenEmit DEF Base
<1>4. SUFFICES ASSUME ~renewed PROVE OnceInv'
  BY <1>1 DEF OnceInv
<1>5. rest \in Seq(Entries) /\ Len(rest) > 0 /\ DOMAIN rest = 1..Len(rest)
  BY <1>1, RestAt
<1>6. \A n \in DOMAIN rest : rest[n] \notin Given
  BY <1>4 DEF OnceInv
<1>7. \A n \in DOMAIN rest : n > 1 => rest[n] \notin Given'
  BY <1>1, <1>2, <1>3, <1>6, RestDistinct
<1>8. IsInjective((got \o page.items)')
  <2>1. item \notin Given
    BY <1>2, <1>5, <1>6
  <2>2. QED
    BY <1>3, <1>4, <2>1 DEF OnceInv
<1>9. \A n \in DOMAIN rest' : rest'[n] \notin Given'
  <2>1. ASSUME NEW n \in DOMAIN rest' PROVE rest'[n] \notin Given'
    <3>1. Len(rest') = Len(rest) - 1 /\ rest' \in Seq(Entries) /\ \A l \in 1..Len(rest') : rest'[l] = rest[l + 1]
      BY <1>1, <1>5
    <3>2. n \in 1..Len(rest') /\ rest'[n] = rest[n + 1] /\ n + 1 \in 1..Len(rest) /\ n + 1 > 1
      BY <1>5, <3>1
    <3>3. QED
      BY <1>5, <1>7, <3>2
  <2>2. QED
    BY <2>1
<1>10. Unshown(next, Given')
  <2>1. SUFFICES ASSUME NEW j \in DOMAIN h, Later(h, next.id, h[j].id)
                 PROVE  Item(k, h[j].id) \notin Given'
    BY <1>2 DEF Unshown
  <2>2. \E n \in DOMAIN rest : n > 1 /\ rest[n] = Item(k, h[j].id)
    BY <1>1, <1>2, <2>1, BehindHead
  <2>3. QED
    BY <1>7, <2>2, SMTT(30)
<1>11. QED
  <2>1. Unshown(marker, ToSet(got))
    BY <1>1, <1>4 DEF OnceInv
  <2> HIDE DEF item, next
  <2>2. Unshown(marker, ToSet(got))' /\ Unshown(page.next, Given)'
    BY <1>1, <1>3, <1>10, <2>1, SameUnshown
  <2>3. QED
    BY <1>1, <1>8, <1>9, <2>2 DEF OnceInv

-----------------------------------------------------------------------------
(***************************************************************************)
(* Changes between two pages                                               *)
(***************************************************************************)
LEMMA PutIs ==
    ASSUME Base, NEW k \in Keys, Put(k)
    PROVE  \E v \in Version :
              /\ Change(k, <<v>> \o store[k]) /\ UNCHANGED renewed
              /\ \A i \in DOMAIN store[k] : store[k][i].id # v.id
              /\ OfObjects => v.id = NewVersion + writes
              /\ steady' = steady \cap Listed(ask, store')
<1>1. PICK new \in IF OfObjects THEN [id : {NewVersion + writes}, del : BOOLEAN]
                                ELSE [id : UploadIDs, del : {FALSE}] :
          Item(k, new.id) \notin Stored(store, k) /\ Change(k, <<new>> \o store[k])
  BY DEF Put
<1>2. NewVersion + writes \in Nat /\ UploadIDs \subseteq Nat
  BY ListingAssumption DEF Base, TypeInv
<1>3. new \in Version /\ (OfObjects => new.id = NewVersion + writes)
  BY <1>1, <1>2 DEF Version
<1>4. \A i \in DOMAIN store[k] : store[k][i].id # new.id
  BY <1>1 DEF Stored
<1>5. QED
  BY <1>1, <1>3, <1>4 DEF Put

LEMMA RenewIs ==
    ASSUME Base, NEW k \in Keys, Renew(k)
    PROVE  \E v \in Version, i \in DOMAIN store[k] :
              /\ OfObjects /\ v.id = 0 /\ store[k][i].id = 0
              /\ Change(k, <<v>> \o RemoveAt(store[k], i))
              /\ renewed' = (renewed \/ marker = Item(k, NullID))
              /\ steady' = {x \in steady \cap Listed(ask, store') : ask.api = "versions" => x # Item(k, 0)}
<1>1. PICK i \in DOMAIN store[k], del \in BOOLEAN :
          store[k][i].id = 0 /\ Change(k, <<[id |-> 0, del |-> del]>> \o RemoveAt(store[k], i))
  BY DEF Renew
<1> DEFINE v == [id |-> 0, del |-> del]
<1>2. v \in Version /\ v.id = 0
  BY DEF Version
<1>3. Change(k, <<v>> \o RemoveAt(store[k], i))
  BY <1>1
<1> HIDE DEF v
<1>4. QED
  BY <1>1, <1>2, <1>3 DEF Renew

LEMMA DiscardIs ==
    ASSUME Base, NEW k \in Keys, Discard(k)
    PROVE  \E i \in DOMAIN store[k] :
              /\ Change(k, RemoveAt(store[k], i)) /\ UNCHANGED renewed
              /\ steady' = {x \in steady \cap Listed(ask, store') :
                               ~(/\ ask.api = "versions" /\ x.key = k
                                 /\ marker = Item(k, markerVersionID(store[k][i].id)))}
  BY DEF Discard

LEMMA ChangeTo ==
    ASSUME Base, NEW k \in Keys, NEW h, Change(k, h)
    PROVE  /\ UNCHANGED <<ask, marker, got, pages, phase, cursor, rest, page>>
           /\ phase = "paging" /\ rest = <<>> /\ page = EmptyPage /\ page.items = <<>>
           /\ store' = [store EXCEPT ![k] = h] /\ store'[k] = h
           /\ \A j \in Keys : j # k => store'[j] = store[j]
           /\ writes' = writes + 1 /\ Given' = Given
<1>1. /\ UNCHANGED <<ask, marker, got, pages, phase, cursor, rest, page>>
      /\ store' = [store EXCEPT ![k] = h] /\ writes' = writes + 1 /\ phase = "paging"
  BY DEF Change, clientVars, scanVars
<1>2. rest = <<>> /\ page = EmptyPage /\ page.items = <<>>
  BY <1>1 DEF Base, TypeInv, EmptyPage
<1>3. store'[k] = h /\ \A j \in Keys : j # k => store'[j] = store[j]
  BY <1>1 DEF Base, TypeInv
<1>4. QED
  BY <1>1, <1>2, <1>3 DEF Given

LEMMA HistoryTypes ==
    ASSUME Base, NEW k \in Keys
    PROVE  /\ store[k] \in Seq(Version) /\ Distinct(store[k])
           /\ \A i \in DOMAIN store[k] : store[k][i] \in Version /\ store[k][i].id \in Nat
<1>1. store[k] \in Seq(Version) /\ Distinct(store[k])
  BY DEF Base, TypeInv
<1>2. \A i \in DOMAIN store[k] : store[k][i] \in Version
  BY <1>1
<1>3. QED
  BY <1>1, <1>2 DEF Version

\* With a version overwritten in place the others are what they were.
LEMMA RenewTypes ==
    ASSUME NEW h \in Seq(Version), Distinct(h), NEW i \in DOMAIN h, NEW v \in Version, v.id = h[i].id
    PROVE  /\ RemoveAt(h, i) \in Seq(Version) /\ <<v>> \o RemoveAt(h, i) \in Seq(Version)
           /\ Distinct(<<v>> \o RemoveAt(h, i))
<1>1. RemoveAt(h, i) \in Seq(Version) /\ Distinct(RemoveAt(h, i))
      /\ \A j \in DOMAIN RemoveAt(h, i) : RemoveAt(h, i)[j].id # v.id
  BY RemovedAt, DistinctRemove
<1>2. QED
  BY <1>1, DistinctPut, PutFirst

LEMMA TypeOthers ==
    ASSUME Base, NEW k \in Keys, Put(k) \/ Renew(k) \/ Discard(k)
    PROVE  TypeInv'
<1>1. store[k] \in Seq(Version) /\ Distinct(store[k]) /\ renewed \in BOOLEAN
  BY HistoryTypes DEF Base, TypeInv
<1>2. CASE Put(k)
  <2>1. PICK v \in Version : /\ Change(k, <<v>> \o store[k]) /\ UNCHANGED renewed
                             /\ \A i \in DOMAIN store[k] : store[k][i].id # v.id
    BY <1>2, PutIs
  <2>2. <<v>> \o store[k] \in Seq(Version) /\ Distinct(<<v>> \o store[k])
    BY <1>1, <2>1, DistinctPut, PutFirst
  <2>3. QED
    BY <1>1, <2>1, <2>2, TypeChange DEF Base
<1>3. CASE Renew(k)
  <2>1. PICK v \in Version, i \in DOMAIN store[k] :
           /\ v.id = 0 /\ store[k][i].id = 0 /\ Change(k, <<v>> \o RemoveAt(store[k], i))
           /\ renewed' = (renewed \/ marker = Item(k, NullID))
    BY <1>3, RenewIs
  <2>2. renewed' \in BOOLEAN
    BY <1>1, <2>1
  <2>3. QED
    BY <1>1, <2>1, <2>2, RenewTypes, TypeChange DEF Base
<1>4. CASE Discard(k)
  <2>1. PICK i \in DOMAIN store[k] : Change(k, RemoveAt(store[k], i)) /\ UNCHANGED renewed
    BY <1>4, DiscardIs
  <2>2. QED
    BY <1>1, <2>1, RemovedAt, DistinctRemove, TypeChange DEF Base
<1>5. QED
  BY <1>2, <1>3, <1>4

LEMMA OnceChange ==
    ASSUME Base, OnceInv, NEW k \in Keys, NEW h \in Seq(Version), Change(k, h), ~renewed' => ~renewed,
           ask.api = "versions" /\ ~renewed' /\ k = marker.key =>
              \A n \in Nat : Later(h, marker.id, n) => Later(store[k], marker.id, n)
    PROVE  OnceInv'
<1>1. /\ UNCHANGED <<ask, marker, got, phase, rest, page>> /\ Given' = Given
      /\ phase = "paging" /\ rest = <<>> /\ page.items = <<>>
      /\ store'[k] = h /\ \A j \in Keys : j # k => store'[j] = store[j]
  BY ChangeTo
<1>2. SUFFICES ASSUME ~renewed' PROVE OnceInv'
  BY DEF OnceInv
<1>3. Unshown(marker, ToSet(got)) /\ IsInjective(got \o page.items)
  BY <1>1, <1>2 DEF OnceInv
<1>4. Unshown(marker, ToSet(got))'
  <2>1. ASSUME ask.api = "versions", marker.key \in Keys, NEW j \in DOMAIN store'[marker.key],
               Later(store'[marker.key], marker.id, store'[marker.key][j].id)
        PROVE  Item(marker.key, store'[marker.key][j].id) \notin ToSet(got)
    <3>1. CASE marker.key # k
      BY <1>1, <1>3, <2>1, <3>1 DEF Unshown
    <3>2. CASE marker.key = k
      <4>1. h[j] \in Version /\ h[j] = store'[marker.key][j]
        BY <1>1, <2>1, <3>2
      <4>2. h[j].id \in Nat /\ Later(h, marker.id, h[j].id)
        BY <1>1, <2>1, <3>2, <4>1 DEF Version
      <4>3. Later(store[k], marker.id, h[j].id)
        BY <1>2, <2>1, <3>2, <4>2
      <4>4. PICK b \in DOMAIN store[k] : store[k][b].id = h[j].id
        BY <4>3 DEF Later
      <4>5. Item(k, store[k][b].id) \notin ToSet(got)
        BY <1>3, <2>1, <3>2, <4>3, <4>4 DEF Unshown
      <4>6. QED
        BY <3>2, <4>1, <4>4, <4>5
    <3>3. QED
      BY <3>1, <3>2
  <2>2. QED
    BY <1>1, <2>1 DEF Unshown
<1>5. QED
  BY <1>1, <1>3, <1>4 DEF OnceInv

LEMMA OnceOthers ==
    ASSUME Base, IdsInv, OnceInv, NEW k \in Keys, Put(k) \/ Renew(k) \/ Discard(k)
    PROVE  OnceInv'
<1>1. /\ store[k] \in Seq(Version) /\ Distinct(store[k]) /\ marker.id \in Int /\ marker \in Items
      /\ \A i \in DOMAIN store[k] : store[k][i].id \in Nat
  BY HistoryTypes DEF Base, TypeInv, Items
<1>2. CASE Put(k)
  <2>1. PICK v \in Version : /\ Change(k, <<v>> \o store[k]) /\ UNCHANGED renewed
                             /\ OfObjects => v.id = NewVersion + writes
    BY <1>2, PutIs
  <2>2. <<v>> \o store[k] \in Seq(Version)
    BY <1>1, <2>1, PutFirst
  <2>3. ASSUME ask.api = "versions" PROVE marker.id # markerVersionID(v.id)
    <3>1. v.id = NewVersion + writes /\ marker.id < NewVersion + writes
      BY <2>1, <2>3 DEF IdsInv, OfObjects
    <3>2. NewVersion + writes \in Nat \ {0}
      BY ListingAssumption DEF Base, TypeInv
    <3>3. markerVersionID(v.id) = v.id
      BY <3>1, <3>2 DEF markerVersionID
    <3>4. QED
      BY <1>1, <3>1, <3>2, <3>3
  <2>4. QED
    BY <1>1, <2>1, <2>2, <2>3, LaterPut, OnceChange
<1>3. CASE Renew(k)
  <2>1. PICK v \in Version, i \in DOMAIN store[k] :
           /\ v.id = 0 /\ store[k][i].id = 0 /\ Change(k, <<v>> \o RemoveAt(store[k], i))
           /\ renewed' = (renewed \/ marker = Item(k, NullID))
    BY <1>3, RenewIs
  <2> DEFINE g == RemoveAt(store[k], i)
  <2>2. g \in Seq(Version) /\ <<v>> \o g \in Seq(Version)
    BY <1>1, <2>1, RenewTypes
  <2>3. ASSUME ~renewed', k = marker.key PROVE marker.id # markerVersionID(v.id)
    <3>1. marker # Item(k, NullID)
      BY <2>1, <2>3
    <3>2. marker.id # NullID
      BY <1>1, <2>3, <3>1 DEF Items, Item
    <3>3. QED
      BY <2>1, <3>2 DEF markerVersionID
  <2>4. ASSUME ~renewed', k = marker.key, NEW n \in Nat, Later(<<v>> \o g, marker.id, n)
        PROVE  Later(store[k], marker.id, n)
    <3>1. Later(g, marker.id, n)
      BY <1>1, <2>2, <2>3, <2>4, LaterPut
    <3>2. QED
      BY <1>1, <3>1, LaterRemove
  <2>5. ~renewed' => ~renewed
    BY <2>1
  <2>6. QED
    BY <2>1, <2>2, <2>4, <2>5, OnceChange
<1>4. CASE Discard(k)
  <2>1. PICK i \in DOMAIN store[k] : Change(k, RemoveAt(store[k], i)) /\ UNCHANGED renewed
    BY <1>4, DiscardIs
  <2>2. RemoveAt(store[k], i) \in Seq(Version)
    BY <1>1, RemovedAt
  <2>3. QED
    BY <1>1, <2>1, <2>2, LaterRemove, OnceChange
<1>5. QED
  BY <1>2, <1>3, <1>4

-----------------------------------------------------------------------------
(***************************************************************************)
(* Version IDs                                                             *)
(***************************************************************************)
LEMMA IdsKept ==
    ASSUME Base, IdsInv, UNCHANGED <<store, ask, writes>>, marker' \in {marker, page.next},
           OfObjects => page'.next = page.next \/ page'.next.id < NewVersion + writes
    PROVE  IdsInv'
<1>1. OfObjects' = OfObjects
  BY SameAsk
<1>2. QED
  BY <1>1 DEF IdsInv

LEMMA NoIdLow ==
    ASSUME Base
    PROVE  NoID < NewVersion + writes /\ NewVersion + writes \in Nat /\ NewVersion + writes > 0 /\ writes \in Nat
  BY ListingAssumption DEF Base, TypeInv, NoID

LEMMA IdsVersion ==
    ASSUME TextKeys, Base, IdsInv, EmitHead
    PROVE  IdsInv'
<1> DEFINE item == Head(rest)
           k == rest[1].key
           h == store[k]
<1>1. /\ UNCHANGED <<store, ask, writes, marker>>
      /\ page'.next = Item(item.key, markerVersionID(item.id)) /\ rest # <<>>
  BY DEF EmitHead, bucketVars, clientVars, Emit
<1>2. rest \in Seq(Entries) /\ Len(rest) > 0 /\ k \in Keys /\ OfObjects
  BY <1>1, RestAt
<1>3. PICK i \in DOMAIN h : rest[1] = Item(k, h[i].id)
  BY <1>1, RestAt
<1>4. item.id = h[i].id
  BY <1>1, <1>3, HeadFacts, ItemFields
<1>5. h[i].id \in Nat /\ h[i].id < NewVersion + writes
  BY <1>2, HistoryTypes DEF IdsInv
<1>6. markerVersionID(item.id) < NewVersion + writes
  BY <1>4, <1>5, NoIdLow, markerVersionIDInjective
<1>7. page'.next.id < NewVersion + writes
  BY <1>1, <1>6, ItemFields
<1>8. QED
  BY <1>1, <1>7, IdsKept

Low(h, n) == \A i \in DOMAIN h : h[i].id < n

LEMMA LowPut ==
    ASSUME NEW h \in Seq(Version), NEW v \in Version, NEW n \in Nat, Low(h, n), v.id < n
    PROVE  Low(<<v>> \o h, n)
<1> DEFINE g == <<v>> \o h
<1>1. g \in Seq(Version) /\ Len(g) = Len(h) + 1 /\ g[1] = v /\ \A j \in 2..(Len(h) + 1) : g[j] = h[j - 1]
  BY PutFirst
<1>2. Len(h) \in Nat /\ DOMAIN h = 1..Len(h) /\ DOMAIN g = 1..(Len(h) + 1)
  BY <1>1
<1> HIDE DEF g
<1>3. ASSUME NEW j \in DOMAIN g PROVE g[j].id < n
  <2>1. CASE j = 1
    BY <1>1, <2>1
  <2>2. CASE j # 1
    <3>1. j \in 2..(Len(h) + 1) /\ j - 1 \in DOMAIN h
      BY <1>2, <2>2
    <3>2. g[j] = h[j - 1]
      BY <1>1, <3>1
    <3>3. QED
      BY <3>1, <3>2 DEF Low
  <2>3. QED
    BY <2>1, <2>2
<1>4. QED
  BY <1>3 DEF Low, g

LEMMA LowRemove ==
    ASSUME NEW h \in Seq(Version), NEW i \in DOMAIN h, Distinct(h), NEW n, Low(h, n)
    PROVE  Low(RemoveAt(h, i), n)
<1>1. ASSUME NEW j \in DOMAIN RemoveAt(h, i) PROVE RemoveAt(h, i)[j].id < n
  <2>1. \E l \in DOMAIN h : RemoveAt(h, i)[j] = h[l]
    BY DistinctRemove
  <2>2. QED
    BY <2>1 DEF Low
<1>2. QED
  BY <1>1 DEF Low

LEMMA IdsChange ==
    ASSUME Base, IdsInv, NEW k \in Keys, NEW g, Change(k, g), OfObjects => Low(g, NewVersion + writes + 1)
    PROVE  IdsInv'
<1> DEFINE n == NewVersion + writes
<1>1. n \in Nat /\ writes \in Nat /\ NewVersion \in Nat
  BY NoIdLow, ListingAssumption
<1>2. /\ UNCHANGED <<ask, marker, page>> /\ writes' = writes + 1
      /\ store'[k] = g /\ \A j \in Keys : j # k => store'[j] = store[j]
  BY ChangeTo
<1>3. NewVersion + writes' = n + 1 /\ OfObjects' = OfObjects
  BY <1>1, <1>2, SameAsk
<1>4. ASSUME OfObjects PROVE marker.id < n + 1 /\ page.next.id < n + 1
  <2>1. marker.id < n /\ page.next.id < n
    BY <1>4 DEF IdsInv
  <2>2. marker.id \in Int /\ page.next.id \in Int
    BY DEF Base, TypeInv, Items
  <2>3. QED
    BY <1>1, <2>1, <2>2
<1>5. ASSUME OfObjects, NEW j \in Keys, NEW i \in DOMAIN store'[j] PROVE store'[j][i].id < n + 1
  <2>1. CASE j = k
    BY <1>2, <1>5, <2>1 DEF Low
  <2>2. CASE j # k
    <3>1. store'[j] = store[j] /\ store[j][i].id \in Nat
      BY <1>2, <1>5, <2>2, HistoryTypes
    <3>2. store[j][i].id < n
      BY <1>5, <3>1 DEF IdsInv
    <3>3. QED
      BY <1>1, <3>1, <3>2
  <2>3. QED
    BY <2>1, <2>2
<1>6. QED
  BY <1>2, <1>3, <1>4, <1>5 DEF IdsInv

LEMMA IdsOthers ==
    ASSUME Base, IdsInv, NEW k \in Keys, Put(k) \/ Renew(k) \/ Discard(k)
    PROVE  IdsInv'
<1> DEFINE n == NewVersion + writes
           h == store[k]
<1>1. h \in Seq(Version) /\ Distinct(h) /\ \A i \in DOMAIN h : h[i].id \in Nat
  BY HistoryTypes
<1>2. n \in Nat /\ n + 1 \in Nat /\ n < n + 1 /\ 0 < n + 1
  BY NoIdLow
<1>3. ASSUME OfObjects PROVE Low(h, n + 1)
  <2>1. \A i \in DOMAIN h : h[i].id < n
    BY <1>3 DEF IdsInv
  <2> HIDE DEF h, n
  <2>2. QED
    BY <1>1, <1>2, <2>1 DEF Low
<1>4. CASE Put(k)
  <2>1. PICK v \in Version : Change(k, <<v>> \o h) /\ (OfObjects => v.id = n)
    BY <1>4, PutIs
  <2>2. OfObjects => Low(<<v>> \o h, n + 1)
    BY <1>1, <1>2, <1>3, <2>1, LowPut
  <2>3. QED
    BY <2>1, <2>2, IdsChange
<1>5. CASE Renew(k)
  <2>1. PICK v \in Version, i \in DOMAIN h : v.id = 0 /\ h[i].id = 0 /\ Change(k, <<v>> \o RemoveAt(h, i))
    BY <1>5, RenewIs
  <2>2. OfObjects => Low(RemoveAt(h, i), n + 1) /\ RemoveAt(h, i) \in Seq(Version)
    BY <1>1, <1>3, LowRemove, RemovedAt
  <2>3. OfObjects => Low(<<v>> \o RemoveAt(h, i), n + 1)
    BY <1>2, <2>1, <2>2, LowPut
  <2>4. QED
    BY <2>1, <2>3, IdsChange
<1>6. CASE Discard(k)
  <2>1. PICK i \in DOMAIN h : Change(k, RemoveAt(h, i))
    BY <1>6, DiscardIs
  <2>2. OfObjects => Low(RemoveAt(h, i), n + 1)
    BY <1>1, <1>3, LowRemove
  <2>3. QED
    BY <2>1, <2>2, IdsChange
<1>7. QED
  BY <1>4, <1>5, <1>6

-----------------------------------------------------------------------------
(***************************************************************************)
(* Nothing is skipped                                                      *)
(***************************************************************************)
LEMMA SamePending ==
    ASSUME UNCHANGED <<store, ask>>
    PROVE  \A m, x : Pending(m, x)' <=> Pending(m, x)
<1>1. \A m : Resume(m)' = Resume(m)
  BY SameAsk
<1>2. QED
  BY <1>1 DEF Pending

LEMMA SteadyKept ==
    ASSUME Base, UNCHANGED <<store, ask, steady>>
    PROVE  SteadyInv'
  BY DEF Base, SteadyInv

LEMMA SteadyItem ==
    ASSUME TextKeys, Base, NEW x \in steady
    PROVE  /\ x \in Entries /\ x.key \in Keys /\ x.key \in Named /\ x.key \in Word
           /\ ask.api = "versions" =>
                 \E j \in DOMAIN store[x.key] : x = Item(x.key, store[x.key][j].id)
<1>1. x \in Listed(ask, store) /\ ask.api \in {"objects", "versions", "uploads", "parts"}
  BY AskTypes DEF Base, SteadyInv
<1>2. CASE ask.api = "objects"
  <2>1. \E k \in Keys : x = Item(k, 0)
    BY <1>1, <1>2 DEF Listed
  <2>2. x \in Entries
    BY <2>1, StoredEntries DEF Base
  <2>3. QED
    BY <1>2, <2>2, Words DEF Entries
<1>3. CASE ask.api # "objects"
  <2>1. PICK k \in Keys : x \in Stored(store, k)
    BY <1>1, <1>3, Words DEF Listed
  <2>2. x \in Entries
    BY <2>1, StoredEntries DEF Base
  <2>3. PICK j \in DOMAIN store[k] : x = Item(k, store[k][j].id)
    BY <2>1 DEF Stored
  <2>4. x.key = k
    BY <2>3, ItemFields
  <2>5. QED
    BY <2>2, <2>3, <2>4, Words DEF Entries
<1>4. QED
  BY <1>2, <1>3

LEMMA EmptyRest == rest = <<>> => ToSet(rest) = {}
  BY DEF ToSet

LEMMA KeptOpen ==
    ASSUME Base, NEW entries, NEW at, Begins(entries, at), Open(entries, at), NEW x \in steady, Kept(x)
    PROVE  Kept(x)'
<1>1. /\ UNCHANGED <<store, ask, marker, got, rest, page>> /\ cursor' = Seek(entries, at)
      /\ phase = "paging" /\ phase' = "scan"
  BY DEF Open, bucketVars
<1>2. Given' = Given /\ ToSet(got) \subseteq Given
  BY <1>1 DEF Given
<1>3. QED
  BY <1>1, <1>2, SameAsk, SamePending DEF Kept, Begins

LEMMA KeptSkip ==
    ASSUME Base, NEW e, Idle(e), Skip(e), NEW x \in steady, Kept(x)
    PROVE  Kept(x)'
<1>1. UNCHANGED <<store, ask, marker, got, rest, page, phase>> /\ cursor' = cursor \ {e}
  BY DEF Skip, bucketVars, clientVars
<1>2. Given' = Given
  BY <1>1 DEF Given
<1>3. QED
  BY <1>1, <1>2, SameAsk, SamePending DEF Kept, Idle

LEMMA KeptEmit ==
    ASSUME Base, NEW item, NEW next, NEW ahead, Fits(item, next, ahead), EmitEntry(item, next, ahead),
           NEW x \in steady, Kept(x)
    PROVE  Kept(x)'
<1>1. /\ UNCHANGED <<store, ask, marker, got, rest, phase>> /\ cursor' = ahead
      /\ Emit(item, next) /\ item \in Items
  BY DEF EmitEntry, Fits, bucketVars, clientVars
<1>2. Given' = Given \cup {item}
  BY <1>1, GivenEmit DEF Base
<1>3. Entry(x) \in cursor => Entry(x) \in ahead \/ Shown(ask, x) = item
  BY DEF Fits
<1>4. QED
  BY <1>1, <1>2, <1>3, SameAsk, SamePending DEF Kept

LEMMA KeptGather ==
    ASSUME TextKeys, Base, NEW e \in cursor, ask.api = "versions", At(e), Inside(e), ~RolledUp(ask, e.key), Gather(e),
           NEW x \in steady, Kept(x)
    PROVE  Kept(x)'
<1> DEFINE k == e.key
           v == keyVersions(k)
<1>1. UNCHANGED <<store, ask, marker, got, page, phase>> /\ cursor' = cursor \ {e} /\ rest = <<>>
  BY DEF Gather, bucketVars, clientVars, At
<1>2. Given' = Given
  BY <1>1 DEF Given
<1>3. DOMAIN rest' = DOMAIN v /\ \A j \in DOMAIN rest' : rest'[j] = Item(k, v[j].id)
  BY PageGather
<1>4. ASSUME Entry(x) = e, Pending(marker, x) PROVE x \in ToSet(rest')
  <2>1. x.key = k
    BY <1>4, ItemFields DEF Entry
  <2>2. k \in Keys /\ k \in Word
    BY <2>1, SteadyItem
  <2>3. PICK j \in DOMAIN store[k] : x = Item(k, store[k][j].id)
    BY <2>1, SteadyItem
  <2>4. k = marker.key /\ ~IsPrefixMarker(ask, marker) => Later(store[k], marker.id, store[k][j].id)
    <3>1. ASSUME k = marker.key, ~IsPrefixMarker(ask, marker) PROVE ~Less(Resume(marker), k)
      BY <2>2, <3>1, LessIrreflexive DEF Resume
    <3>2. x.id = store[k][j].id
      BY <2>3, ItemFields
    <3>3. QED
      BY <1>4, <2>1, <3>1, <3>2 DEF Pending
  <2>5. PICK l \in DOMAIN v : v[l] = store[k][j]
    BY <2>2, <2>4, KeyVersionsAll DEF Base
  <2>6. rest'[l] = x /\ l \in DOMAIN rest'
    BY <1>3, <2>3, <2>5
  <2>7. QED
    BY <2>6 DEF ToSet
<1>5. QED
  BY <1>1, <1>2, <1>4, EmptyRest, SameAsk, SamePending DEF Kept

LEMMA KeptVersion ==
    ASSUME TextKeys, Base, EmitHead, NEW x \in steady, Kept(x)
    PROVE  Kept(x)'
<1> DEFINE item == Head(rest)
           next == Item(item.key, markerVersionID(item.id))
           k == rest[1].key
<1>1. /\ UNCHANGED <<store, ask, marker, got, cursor, phase>> /\ rest' = Tail(rest)
      /\ Emit(item, next) /\ rest # <<>>
  BY DEF EmitHead, bucketVars, clientVars
<1>2. item = rest[1] /\ item \in Items /\ ~RolledUp(ask, k)
  BY <1>1, HeadFacts DEF Base, PageInv, RestInv, RestIs
<1>3. Given' = Given \cup {item}
  BY <1>1, <1>2, GivenEmit DEF Base
<1>4. ASSUME x \in ToSet(rest) PROVE Shown(ask, x) \in Given' \/ x \in ToSet(rest')
  <2>1. rest \in Seq(Entries) /\ Len(rest) > 0
    BY <1>1, RestAt
  <2>2. PICK n \in DOMAIN rest : x = rest[n]
    BY <1>4 DEF ToSet
  <2>3. CASE n = 1
    <3>1. x = item /\ Shown(ask, x) = x
      BY <1>2, <2>2, <2>3 DEF Shown
    <3>2. QED
      BY <1>3, <3>1
  <2>4. CASE n # 1
    <3>1. rest' \in Seq(Entries) /\ Len(rest') = Len(rest) - 1 /\ \A l \in 1..Len(rest') : rest'[l] = rest[l + 1]
      BY <1>1, <2>1
    <3>2. n - 1 \in 1..Len(rest') /\ (n - 1) + 1 = n
      BY <2>1, <2>4, <3>1
    <3>3. rest'[n - 1] = x /\ n - 1 \in DOMAIN rest'
      BY <2>2, <3>1, <3>2
    <3>4. QED
      BY <3>3 DEF ToSet
  <2>5. QED
    BY <2>3, <2>4
<1> HIDE DEF item, next, k
<1>5. QED
  BY <1>1, <1>3, <1>4, SameAsk, SamePending DEF Kept

LEMMA KeptFail ==
    ASSUME Base, Fail, NEW x \in steady, Kept(x)
    PROVE  Kept(x)'
<1>1. UNCHANGED <<store, ask, marker, got>> /\ phase = "scan" /\ phase' = "paging"
  BY DEF Fail, bucketVars
<1>2. QED
  BY <1>1, SameAsk, SamePending DEF Kept

\* The next page begins right behind the last item of this one.
LEMMA ResumeLast ==
    ASSUME TextKeys, Base, ~OwnFolder, OfObjects, page.items # <<>>, NEW k \in Word, Less(Edge(Last(page.items)), k)
    PROVE  Less(Resume(page.next), k)
<1> DEFINE x == Last(page.items)
<1>1. x \in Items /\ x \in Given
  BY DEF Base, TypeInv, Last, ToSet, Given
<1>2. Proper(x) /\ page.next.key = x.key
  BY <1>1 DEF Base, PageInv, ShownInv, NextInv
<1>3. CASE x.id = PrefixID
  <2>1. IsPrefixMarker(ask, page.next)
    BY <1>2, <1>3, ProperPrefix DEF IsPrefixMarker
  <2>2. QED
    BY <1>2, <1>3, <2>1 DEF Edge, Resume
<1>4. CASE x.id # PrefixID
  <2>1. x.key \in Keys /\ x.key \in Named /\ IsPrefix(ask.prefix, x.key) /\ ~RolledUp(ask, x.key)
    BY <1>2, <1>4, ProperKey DEF Proper, Entries, OfObjects
  <2>2. ~IsPrefixMarker(ask, page.next)
    BY <1>2, <2>1, AskTypes, OwnPrefix DEF IsPrefixMarker, OwnFolder, Base
  <2>3. QED
    BY <1>2, <1>4, <2>2 DEF Edge, Resume
<1>5. QED
  BY <1>3, <1>4

\* What a full page has not come to is pending for the next one.
LEMMA AheadPending ==
    ASSUME TextKeys, Base, ~OwnFolder, page.items # <<>>, NEW x \in steady, Entry(x) \in cursor
    PROVE  Pending(page.next, x)
<1> DEFINE y == Last(page.items)
           f == Entry(x)
<1>1. y \in Items /\ y \in ToSet(page.items) /\ y \in Given
  BY DEF Base, TypeInv, Last, ToSet, Given
<1>2. Under(y, f) /\ Proper(y)
  BY <1>1 DEF Base, PageInv, AheadInv, ShownInv
<1>3. f.key = x.key /\ x.key \in Word
  BY SteadyItem, ItemFields DEF Entry
<1>4. CASE OfObjects
  <2>1. Less(Edge(y), x.key)
    BY <1>2, <1>3, <1>4 DEF Under
  <2>2. Less(Resume(page.next), x.key)
    BY <1>3, <1>4, <2>1, ResumeLast
  <2>3. QED
    BY <1>4, <2>2 DEF Pending, OfObjects
<1>5. CASE ~OfObjects
  <2>1. page.next = y /\ f = x /\ Before(y, x)
    BY <1>2, <1>5 DEF Base, PageInv, NextInv, Entry, Under, OfObjects
  <2>2. CASE ask.api = "uploads"
    BY <2>1, <2>2 DEF Pending
  <2>3. CASE ask.api = "parts"
    <3>1. y.key = PartsKey /\ x.key = PartsKey
      BY <1>2, <1>5, <2>1, <2>3 DEF Proper, Base, PageInv, CursorInv
    <3>2. y.id < x.id
      BY <1>3, <2>1, <3>1, LessIrreflexive DEF Before
    <3>3. QED
      BY <2>1, <2>3, <3>2 DEF Pending
  <2>4. QED
    BY <1>5, <2>2, <2>3, AskTypes DEF OfObjects, Base
<1>6. QED
  BY <1>4, <1>5

LEMMA RestPending ==
    ASSUME TextKeys, Base, ~OwnFolder, page.items # <<>>, NEW x \in steady, x \in ToSet(rest)
    PROVE  Pending(page.next, x)
<1> DEFINE k == rest[1].key
           h == store[k]
<1>1. rest # <<>>
  BY EmptyRest
<1>2. rest \in Seq(Entries) /\ Len(rest) > 0 /\ k \in Keys /\ h \in Seq(Version) /\ ask.api = "versions" /\ OfObjects
  BY <1>1, RestAt
<1>3. PICK i \in DOMAIN h :
                  /\ Len(rest) = Len(h) - i + 1
                  /\ \A j \in DOMAIN rest : rest[j] = Item(k, h[i + j - 1].id)
                  /\ \/ Under(Last(page.items), rest[1])
                     \/ i > 1 /\ page.next = Item(k, markerVersionID(h[i - 1].id))
  BY <1>1, RestAt
<1>4. PICK n \in DOMAIN rest : x = rest[n]
  BY DEF ToSet
<1>5. x.key = k /\ x.id = h[i + n - 1].id
  <2> HIDE DEF h, k
  <2>1. x = Item(k, h[i + n - 1].id)
    BY <1>3, <1>4
  <2>2. QED
    BY <2>1, ItemFields
<1>6. CASE Under(Last(page.items), rest[1])
  <2>1. Less(Edge(Last(page.items)), k) /\ k \in Word
    BY <1>2, <1>6, Words DEF Under
  <2>2. Less(Resume(page.next), x.key)
    BY <1>2, <1>5, <2>1, ResumeLast
  <2>3. QED
    BY <1>2, <2>2 DEF Pending
<1>7. CASE i > 1 /\ page.next = Item(k, markerVersionID(h[i - 1].id))
  <2>1. page.next.key = k /\ page.next.id = markerVersionID(h[i - 1].id)
    BY <1>7, ItemFields
  <2>2. ~IsPrefixMarker(ask, page.next)
    <3>1. IsPrefix(ask.prefix, k) /\ ~RolledUp(ask, k) /\ k \in Named
      BY <1>1, <1>2, Words DEF Base, PageInv, RestInv, RestIs
    <3>2. QED
      BY <1>2, <2>1, <3>1, AskTypes, OwnPrefix DEF IsPrefixMarker, OwnFolder, Base
  <2>3. Later(h, page.next.id, x.id)
    <3> HIDE DEF h
    <3>1. DOMAIN h = 1..Len(h) /\ Len(h) \in Nat /\ DOMAIN rest = 1..Len(rest) /\ Len(rest) \in Nat
      BY <1>2
    <3>2. Len(rest) = Len(h) - i + 1
      BY <1>3
    <3>3. i \in Nat /\ n \in Nat /\ i > 1 /\ n >= 1 /\ n <= Len(h) - i + 1 /\ i <= Len(h)
      BY <1>7, <3>1, <3>2
    <3>4. i - 1 \in 1..Len(h) /\ i + n - 1 \in 1..Len(h) /\ i - 1 < i + n - 1
      BY <3>1, <3>3
    <3>5. QED
      BY <1>5, <2>1, <3>1, <3>4 DEF Later
  <2>4. QED
    BY <1>2, <1>5, <2>1, <2>2, <2>3 DEF Pending
<1>8. QED
  BY <1>3, <1>6, <1>7

LEMMA KeptReply ==
    ASSUME TextKeys, Base, ~OwnFolder, NEW truncated \in BOOLEAN, truncated => full,
           ~truncated => Ended /\ ~EarlyMarker, phase = "scan", Reply(truncated), NEW x \in steady, Kept(x)
    PROVE  Kept(x)'
<1>1. /\ UNCHANGED <<store, ask>> /\ got' = got \o page.items
      /\ phase' = (IF truncated THEN "paging" ELSE "done")
      /\ marker' = IF truncated THEN page.next ELSE marker
  BY ReplyMarker DEF Reply, bucketVars, Base
<1>2. ToSet(got') = Given
  BY <1>1, ToSetConcat DEF Base, TypeInv, Given
<1>3. Shown(ask, x) \in Given \/ x \in ToSet(rest) \/ (Entry(x) \in cursor /\ Pending(marker, x))
  BY DEF Kept
<1>4. Shown(ask, x)' = Shown(ask, x)
  BY <1>1
<1>5. CASE ~truncated
  <2>1. Shown(ask, x) \in Given
    BY <1>3, <1>5, EmptyRest DEF Ended
  <2>2. phase' # "scan"
    BY <1>1, <1>5
  <2>3. QED
    BY <1>1, <1>2, <2>1, <2>2 DEF Kept
<1>6. CASE truncated
  <2>1. page.items # <<>>
    BY <1>6, AskTypes DEF full, Base, TypeInv
  <2>2. Shown(ask, x) \in Given \/ Pending(page.next, x)
    BY <1>3, <2>1, AheadPending, RestPending
  <2>3. Pending(marker, x)' <=> Pending(page.next, x)
    <3>1. Pending(marker, x)' <=> Pending(page.next, x)
      BY <1>1, <1>6, SameAsk DEF Pending
    <3>2. QED
      BY <3>1
  <2>4. phase' # "scan" /\ phase' # "done"
    BY <1>1, <1>6
  <2>5. QED
    BY <1>1, <1>2, <2>2, <2>3, <2>4 DEF Kept
<1>7. QED
  BY <1>5, <1>6

\* A change leaves what comes after the marker after it.
LEMMA KeptChange ==
    ASSUME TextKeys, Base, NEW k \in Keys, NEW h, Change(k, h), NEW x \in steady, Kept(x),
           ask.api = "versions" /\ x.key = k /\ k = marker.key =>
              (Later(store[k], marker.id, x.id) => Later(h, marker.id, x.id))
    PROVE  Kept(x)'
<1>1. /\ UNCHANGED <<ask, marker, got, phase>> /\ phase = "paging"
      /\ store'[k] = h /\ \A j \in Keys : j # k => store'[j] = store[j]
  BY ChangeTo
<1>2. x.key \in Keys
  BY SteadyItem
<1>3. Pending(marker, x) => Pending(marker, x)'
  <2>1. \A m : Resume(m)' = Resume(m)
    BY <1>1, SameAsk
  <2>2. ask.api = "versions" /\ x.key = marker.key /\ Later(store[x.key], marker.id, x.id)
            => Later(store'[x.key], marker.id, x.id)
    BY <1>1, <1>2
  <2>3. QED
    BY <1>1, <2>1, <2>2 DEF Pending
<1>4. QED
  BY <1>1, <1>3 DEF Kept

LEMMA KeptOthers ==
    ASSUME TextKeys, Base, NEW k \in Keys, Put(k) \/ Renew(k) \/ Discard(k), NEW x \in steady', x \in steady, Kept(x)
    PROVE  Kept(x)'
<1>1. store[k] \in Seq(Version) /\ Distinct(store[k]) /\ marker.id \in Int /\ marker \in Items /\ x.id \in Nat
  BY HistoryTypes, SteadyItem DEF Base, TypeInv, Items, Entries
<1>2. CASE Put(k)
  <2>1. PICK v \in Version : Change(k, <<v>> \o store[k])
    BY <1>2, PutIs
  <2>2. QED
    BY <1>1, <2>1, LaterPut, KeptChange
<1>3. CASE Renew(k)
  <2>1. PICK v \in Version, i \in DOMAIN store[k] :
           /\ v.id = 0 /\ store[k][i].id = 0 /\ Change(k, <<v>> \o RemoveAt(store[k], i))
           /\ steady' = {y \in steady \cap Listed(ask, store') : ask.api = "versions" => y # Item(k, 0)}
    BY <1>3, RenewIs
  <2> DEFINE g == RemoveAt(store[k], i)
  <2>2. g \in Seq(Version)
    BY <1>1, RenewTypes, RemovedAt
  <2>3. ASSUME ask.api = "versions", x.key = k, Later(store[k], marker.id, x.id)
        PROVE  Later(<<v>> \o g, marker.id, x.id)
    <3>1. x.id # 0
      BY <2>1, <2>3, SteadyItem, ItemFields
    <3>2. CASE marker.id # markerVersionID(0)
      <4>1. Later(g, marker.id, x.id)
        BY <1>1, <2>1, <2>3, <3>1, <3>2, LaterRemove
      <4>2. QED
        BY <1>1, <2>2, <4>1, LaterPut
    <3>3. CASE marker.id = markerVersionID(0)
      <4>1. PICK j \in DOMAIN store[k] : store[k][j].id = x.id
        BY <2>3 DEF Later
      <4>2. j # i
        BY <2>1, <3>1, <4>1
      <4>3. PICK l \in DOMAIN g : g[l] = store[k][j]
        <5>1. Len(g) = Len(store[k]) - 1 /\ \A l \in 1..Len(g) : g[l] = store[k][IF l < i THEN l ELSE l + 1]
          BY <1>1, RemovedAt
        <5>2. i \in 1..Len(store[k]) /\ j \in 1..Len(store[k]) /\ Len(store[k]) \in Nat
          BY <1>1
        <5> DEFINE l == IF j < i THEN j ELSE j - 1
        <5>3. l \in 1..(Len(store[k]) - 1) /\ (IF l < i THEN l ELSE l + 1) = j
          BY <4>2, <5>2
        <5> HIDE DEF l
        <5>4. l \in DOMAIN g /\ g[l] = store[k][j]
          BY <2>2, <5>1, <5>3
        <5>5. QED
          BY <5>4
      <4> HIDE DEF g
      <4>4. /\ <<v>> \o g \in Seq(Version) /\ Len(<<v>> \o g) = Len(g) + 1
            /\ (<<v>> \o g)[1] = v /\ \A n \in 2..(Len(g) + 1) : (<<v>> \o g)[n] = g[n - 1]
        BY <2>2, PutFirst
      <4>5. l \in 1..Len(g) /\ Len(g) \in Nat
        BY <2>2
      <4>6. 1 \in DOMAIN (<<v>> \o g) /\ l + 1 \in DOMAIN (<<v>> \o g) /\ 1 < l + 1 /\ l + 1 \in 2..(Len(g) + 1)
        BY <4>4, <4>5
      <4>7. (<<v>> \o g)[l + 1] = g[l]
        <5>1. l + 1 - 1 = l
          BY <4>5
        <5>2. QED
          BY <4>4, <4>6, <5>1
      <4>8. QED
        BY <2>1, <3>3, <4>1, <4>3, <4>4, <4>6, <4>7 DEF Later
    <3>4. QED
      BY <3>2, <3>3
  <2>4. QED
    BY <2>1, <2>3, KeptChange
<1>4. CASE Discard(k)
  <2>1. PICK i \in DOMAIN store[k] :
           /\ Change(k, RemoveAt(store[k], i))
           /\ steady' = {y \in steady \cap Listed(ask, store') :
                            ~(/\ ask.api = "versions" /\ y.key = k
                              /\ marker = Item(k, markerVersionID(store[k][i].id)))}
    BY <1>4, DiscardIs
  <2>2. ASSUME ask.api = "versions", x.key = k, k = marker.key, Later(store[k], marker.id, x.id)
        PROVE  Later(RemoveAt(store[k], i), marker.id, x.id)
    <3>1. markerVersionID(store[k][i].id) # marker.id
      <4>1. marker # Item(k, markerVersionID(store[k][i].id))
        BY <2>1, <2>2
      <4>2. QED
        BY <1>1, <2>2, <4>1 DEF Items, Item
    <3>2. x \in Listed(ask, store')
      BY <2>1
    <3>3. PICK j \in Keys : x \in Stored(store', j)
      BY <2>2, <3>2 DEF Listed
    <3>4. x \in Stored(store', k)
      BY <2>2, <3>3, ItemFields DEF Stored
    <3>5. store'[k] = RemoveAt(store[k], i)
      BY <2>1, ChangeTo
    <3>6. PICK l \in DOMAIN RemoveAt(store[k], i) : x.id = RemoveAt(store[k], i)[l].id
      BY <3>4, <3>5, ItemFields DEF Stored
    <3>7. store[k][i].id # x.id
      BY <1>1, <3>6, DistinctRemove
    <3>8. QED
      BY <1>1, <2>2, <3>1, <3>7, LaterRemove
  <2>3. QED
    BY <2>1, <2>2, KeptChange
<1>5. QED
  BY <1>2, <1>3, <1>4

-----------------------------------------------------------------------------
(***************************************************************************)
(* Every step keeps the invariant                                          *)
(***************************************************************************)
Inv == Base /\ IdsInv /\ OnceInv /\ CountInv /\ KeptInv

LEMMA KeptAll ==
    ASSUME KeptInv, UNCHANGED <<ask, steady>>, phase # "done" \/ UNCHANGED <<marker, phase>>,
           \A x \in steady : ~OwnFolder /\ Kept(x) => Kept(x)'
    PROVE  KeptInv'
<1>1. OwnFolder' = OwnFolder
  BY SameAsk
<1>2. CutShort => CutShort'
  BY SameAgain DEF CutShort
<1>3. QED
  BY <1>1, <1>2 DEF KeptInv

LEMMA InvOpen ==
    ASSUME Inv, NEW entries, NEW at, Begins(entries, at), Open(entries, at)
    PROVE  Inv'
<1>1. UNCHANGED <<store, ask, marker, got, pages, steady, writes, page>> /\ phase = "paging"
  BY DEF Open, bucketVars
<1>2. Base'
  <2>1. TypeInv'
    BY TypeOpen DEF Inv, Base, Begins
  <2>2. PageInv' /\ SteadyInv'
    BY <1>1, PageOpen, SteadyKept DEF Inv
  <2>3. QED
    BY <2>1, <2>2 DEF Base
<1>3. IdsInv' /\ OnceInv'
  BY <1>1, IdsKept, OnceOpen DEF Inv
<1>4. CountInv'
  BY <1>1 DEF Inv, CountInv
<1>5. KeptInv'
  BY <1>1, KeptOpen, KeptAll DEF Inv
<1>6. QED
  BY <1>2, <1>3, <1>4, <1>5 DEF Inv

LEMMA InvSkip ==
    ASSUME Inv, NEW e \in cursor, Idle(e), Skip(e)
    PROVE  Inv'
<1>1. /\ UNCHANGED <<store, ask, marker, got, pages, steady, writes, phase, rest, page>>
      /\ UNCHANGED <<bucketVars, clientVars>>
      /\ cursor' \subseteq cursor /\ phase = "scan" /\ rest = <<>>
  BY DEF Skip, Idle, At, bucketVars, clientVars
<1>2. Base'
  <2>1. TypeInv'
    <3>1. rest' \in Seq(Entries) /\ page' = page
      BY <1>1 DEF Inv, Base, TypeInv
    <3>2. QED
      BY <1>1, <3>1, TypeStep DEF Inv, Base
  <2>2. PageInv' /\ SteadyInv'
    BY <1>1, PageSkip, SteadyKept DEF Inv
  <2>3. QED
    BY <2>1, <2>2 DEF Base
<1>3. IdsInv' /\ OnceInv'
  BY <1>1, IdsKept, OnceSkip DEF Inv
<1>4. CountInv'
  BY <1>1 DEF Inv, CountInv
<1>5. KeptInv'
  BY <1>1, KeptSkip, KeptAll DEF Inv
<1>6. QED
  BY <1>2, <1>3, <1>4, <1>5 DEF Inv

LEMMA InvEmit ==
    ASSUME Inv, NEW item, NEW next, NEW ahead, Fits(item, next, ahead), EmitEntry(item, next, ahead)
    PROVE  Inv'
<1>1. /\ UNCHANGED <<store, ask, marker, got, pages, steady, writes, phase, rest>>
      /\ UNCHANGED <<bucketVars, clientVars>>
      /\ cursor' \subseteq cursor /\ phase = "scan" /\ rest = <<>> /\ Emit(item, next)
      /\ item \in Items /\ next \in Items /\ (OfObjects => next.id = NoID)
  BY DEF EmitEntry, Fits, bucketVars, clientVars
<1>2. Base'
  <2>1. TypeInv'
    <3>1. rest' \in Seq(Entries)
      BY <1>1 DEF Inv, Base, TypeInv
    <3>2. QED
      BY <1>1, <3>1, TypeStep DEF Inv, Base
  <2>2. PageInv' /\ SteadyInv'
    BY <1>1, PageEmit, SteadyKept DEF Inv
  <2>3. QED
    BY <2>1, <2>2 DEF Base
<1>3. IdsInv'
  <2>1. page'.next = next
    BY <1>1 DEF Emit
  <2>2. OfObjects => page'.next.id < NewVersion + writes
    BY <1>1, <2>1, NoIdLow DEF Inv
  <2>3. QED
    BY <1>1, <2>2, IdsKept DEF Inv
<1>4. OnceInv'
  BY OnceEmit DEF Inv
<1>5. CountInv'
  BY <1>1 DEF Inv, CountInv
<1>6. KeptInv'
  BY <1>1, KeptEmit, KeptAll DEF Inv
<1>7. QED
  BY <1>2, <1>3, <1>4, <1>5, <1>6 DEF Inv

LEMMA InvGather ==
    ASSUME TextKeys, Inv, NEW e \in cursor, ask.api = "versions", At(e), Inside(e), ~RolledUp(ask, e.key), Gather(e)
    PROVE  Inv'
<1>1. /\ UNCHANGED <<store, ask, marker, got, pages, steady, writes, phase, page>>
      /\ UNCHANGED <<bucketVars, clientVars>>
      /\ cursor' \subseteq cursor /\ phase = "scan"
  BY DEF Gather, At, bucketVars, clientVars
<1>2. Base'
  <2>1. TypeInv'
    <3>1. rest' \in Seq(Entries)
      BY PageGather DEF Inv
    <3>2. QED
      BY <1>1, <3>1, TypeStep DEF Inv, Base
  <2>2. PageInv' /\ SteadyInv'
    BY <1>1, PageGather, SteadyKept DEF Inv
  <2>3. QED
    BY <2>1, <2>2 DEF Base
<1>3. IdsInv' /\ OnceInv'
  BY <1>1, IdsKept, OnceGather DEF Inv
<1>4. CountInv'
  BY <1>1 DEF Inv, CountInv
<1>5. KeptInv'
  BY <1>1, KeptGather, KeptAll DEF Inv
<1>6. QED
  BY <1>2, <1>3, <1>4, <1>5 DEF Inv

LEMMA InvVersion ==
    ASSUME TextKeys, Inv, EmitHead
    PROVE  Inv'
<1>1. /\ UNCHANGED <<store, ask, marker, got, pages, steady, writes, phase, cursor>>
      /\ UNCHANGED <<bucketVars, clientVars>>
      /\ phase = "scan" /\ ask.api = "versions" /\ rest # <<>> /\ rest' = Tail(rest)
      /\ Emit(Head(rest), Item(Head(rest).key, markerVersionID(Head(rest).id)))
  BY DEF EmitHead, bucketVars, clientVars
<1>2. Base'
  <2>1. TypeInv'
    <3>1. rest' \in Seq(Entries)
      BY <1>1 DEF Inv, Base, TypeInv
    <3>2. Head(rest) \in Items /\ Item(Head(rest).key, markerVersionID(Head(rest).id)) \in Items
      BY <1>1, HeadFacts DEF Inv
    <3>3. QED
      BY <1>1, <3>1, <3>2, TypeStep DEF Inv, Base
  <2>2. PageInv' /\ SteadyInv'
    BY <1>1, PageVersion, SteadyKept DEF Inv
  <2>3. QED
    BY <2>1, <2>2 DEF Base
<1>3. IdsInv' /\ OnceInv'
  BY IdsVersion, OnceVersion DEF Inv
<1>4. CountInv'
  BY <1>1 DEF Inv, CountInv
<1>5. KeptInv'
  BY <1>1, KeptVersion, KeptAll DEF Inv
<1>6. QED
  BY <1>2, <1>3, <1>4, <1>5 DEF Inv

\* A page that is cut has an entry at least, for it is full.
LEMMA InvReply ==
    ASSUME TextKeys, Inv, NEW truncated \in BOOLEAN, truncated => full, ~truncated => Ended,
           phase = "scan", Reply(truncated)
    PROVE  Inv'
<1>1. /\ UNCHANGED <<store, ask, steady, writes>>
      /\ got' = got \o page.items /\ pages' = pages + 1 /\ page' = EmptyPage
      /\ phase' = (IF truncated THEN "paging" ELSE "done")
      /\ marker' = (IF truncated THEN page.next ELSE marker)
  BY ReplyMarker DEF Reply, bucketVars, Inv, Base
<1>2. Base'
  <2>1. TypeInv'
    BY TypeReply DEF Inv, Base
  <2>2. PageInv' /\ SteadyInv'
    BY <1>1, PageReply, SteadyKept DEF Inv
  <2>3. QED
    BY <2>1, <2>2 DEF Base
<1>3. IdsInv'
  <2>1. page'.next.id < NewVersion + writes
    BY <1>1, NoIdLow, ItemFields DEF Inv, EmptyPage
  <2>2. QED
    BY <1>1, <2>1, IdsKept DEF Inv
<1>4. OnceInv'
  BY OnceReply DEF Inv
<1>5. CountInv'
  <2>1. SUFFICES ASSUME truncated PROVE Len(got') >= pages'
    BY <1>1 DEF CountInv
  <2>2. Len(page.items) >= ask.max /\ ask.max \in Nat \ {0}
    BY <2>1, AskTypes DEF full, Inv, Base
  <2>3. page.items \in Seq(Items) /\ got \in Seq(Items) /\ pages \in Nat
    BY DEF Inv, Base, TypeInv
  <2>4. Len(got) >= pages
    BY DEF Inv, CountInv
  <2>5. Len(got') = Len(got) + Len(page.items) /\ Len(got) \in Nat /\ Len(page.items) \in Nat
    BY <1>1, <2>3
  <2>6. QED
    BY <1>1, <2>2, <2>3, <2>4, <2>5
<1>6. KeptInv'
  <2>1. CASE ~truncated /\ EarlyMarker
    <3>1. EarlyMarker' /\ phase' = "done"
      BY <1>1, <2>1, SameAgain
    <3>2. QED
      BY <3>1 DEF KeptInv, CutShort
  <2>2. CASE truncated \/ ~EarlyMarker
    <3>1. ASSUME ~OwnFolder, NEW x \in steady, Kept(x) PROVE Kept(x)'
      BY <2>2, <3>1, KeptReply DEF Inv
    <3>2. QED
      BY <1>1, <3>1, KeptAll DEF Inv
  <2>3. QED
    BY <2>1, <2>2
<1>7. QED
  BY <1>2, <1>3, <1>4, <1>5, <1>6 DEF Inv

LEMMA InvScan ==
    ASSUME TextKeys, Inv, Scan
    PROVE  Inv'
<1>1. Base
  BY DEF Inv
<1>2. CASE \E e \in cursor : Idle(e) /\ Skip(e)
  BY <1>2, InvSkip
<1>3. CASE Ended /\ Reply(FALSE)
  BY <1>3, InvReply DEF Ended
<1>4. CASE phase = "scan" /\ rest = <<>> /\ full /\ Reply(TRUE)
  BY <1>4, InvReply
<1>5. CASE \E item, next, ahead : Fits(item, next, ahead) /\ EmitEntry(item, next, ahead)
  BY <1>5, InvEmit
<1>6. CASE \E e \in cursor : ask.api = "versions" /\ At(e) /\ Inside(e) /\ ~RolledUp(ask, e.key) /\ Gather(e)
  BY <1>6, InvGather
<1>7. CASE EmitVersion
  <2>1. (phase = "scan" /\ full /\ Reply(TRUE)) \/ EmitHead
    <3>1. rest # <<>> => Recorded(Head(rest).key) = Head(rest).key
      BY <1>1, HeadFacts, SentKeys DEF Entries
    <3>2. QED
      BY <1>7, <3>1 DEF EmitVersion, EmitHead
  <2>2. QED
    BY <2>1, InvReply, InvVersion
<1>8. QED
  BY <1>1, <1>2, <1>3, <1>4, <1>5, <1>6, <1>7, ScanSteps

LEMMA InvFail ==
    ASSUME TextKeys, Inv, Fail
    PROVE  Inv'
<1>1. /\ UNCHANGED <<store, ask, marker, got, pages, steady, writes, renewed>>
      /\ phase = "scan" /\ phase' = "paging" /\ cursor' = {} /\ rest' = <<>> /\ page' = EmptyPage
  BY DEF Fail, bucketVars
<1>2. Base'
  <2>1. TypeInv'
    <3>1. OfObjects' = OfObjects
      BY <1>1, SameAsk
    <3>2. rest' \in Seq(Entries)
      BY <1>1
    <3>3. QED
      BY <1>1, <3>1, <3>2, EntryItems DEF Inv, Base, TypeInv
  <2>2. PageInv' /\ SteadyInv'
    BY <1>1, PageFail, SteadyKept DEF Inv
  <2>3. QED
    BY <2>1, <2>2 DEF Base
<1>3. IdsInv'
  <2>1. page'.next.id < NewVersion + writes
    BY <1>1, NoIdLow, ItemFields DEF Inv, EmptyPage
  <2>2. QED
    BY <1>1, <2>1, IdsKept DEF Inv
<1>4. OnceInv'
  BY OnceFail DEF Inv
<1>5. CountInv'
  BY <1>1 DEF Inv, CountInv
<1>6. KeptInv'
  BY <1>1, KeptFail, KeptAll DEF Inv
<1>7. QED
  BY <1>2, <1>3, <1>4, <1>5, <1>6 DEF Inv

LEMMA InvOthers ==
    ASSUME TextKeys, Inv, NEW k \in Keys, Put(k) \/ Renew(k) \/ Discard(k)
    PROVE  Inv'
<1>1. \E h : Change(k, h)
  BY DEF Put, Renew, Discard
<1>2. /\ UNCHANGED <<ask, marker, got, pages, phase>>
      /\ PageInv'
  BY <1>1, ChangeTo, PageChange DEF Inv
<1>3. steady' \subseteq steady \cap Listed(ask, store')
  BY DEF Put, Renew, Discard
<1>4. SteadyInv'
  BY <1>2, <1>3 DEF Inv, Base, SteadyInv
<1>5. Base'
  BY <1>2, <1>4, TypeOthers DEF Inv, Base
<1>6. IdsInv' /\ OnceInv'
  BY IdsOthers, OnceOthers DEF Inv
<1>7. CountInv'
  BY <1>2 DEF Inv, CountInv
<1>8. KeptInv'
  <2>1. OwnFolder' = OwnFolder
    BY <1>2, SameAsk
  <2>2. ASSUME ~OwnFolder, NEW x \in steady' PROVE Kept(x)'
    <3>1. x \in steady /\ Kept(x)
      BY <1>1, <1>3, <2>2 DEF Inv, KeptInv, CutShort, Change
    <3>2. QED
      BY <3>1, KeptOthers DEF Inv
  <2>3. QED
    BY <2>1, <2>2 DEF KeptInv
<1>9. QED
  BY <1>5, <1>6, <1>7, <1>8 DEF Inv

LEMMA InvStutter ==
    ASSUME Inv, UNCHANGED vars
    PROVE  Inv'
<1>1. /\ UNCHANGED <<store, ask, marker, cursor, rest, page, got, pages, steady, writes, renewed, phase>>
      /\ Given' = Given
  BY DEF vars, bucketVars, clientVars, scanVars, Given
<1>2. TypeInv'
  BY <1>1, SameAsk DEF Inv, Base, TypeInv
<1>3. PageInv'
  <2>1. CursorInv' /\ ClosedInv' /\ MarkerInv' /\ ShownInv' /\ NextInv'
    <3>1. CursorInv' /\ ClosedInv'
      BY <1>1, SameAsk, SameAgain, SameClosed DEF Inv, Base, PageInv, CursorInv, ClosedInv
    <3>2. MarkerInv' /\ ShownInv' /\ NextInv'
      BY <1>1, SameAsk DEF Inv, Base, PageInv, MarkerInv, ShownInv, NextInv
    <3>3. QED
      BY <3>1, <3>2
  <2>2. AheadInv'
    BY <1>1, SameAsk, SameAgain DEF Inv, Base, PageInv, AheadInv
  <2>3. RestInv'
    BY <1>1, SameAsk DEF Inv, Base, PageInv, RestInv, RestIs
  <2>4. QED
    BY <2>1, <2>2, <2>3 DEF PageInv
<1>4. Base'
  BY <1>1, <1>2, <1>3, SteadyKept DEF Inv, Base
<1>5. IdsInv'
  BY <1>1, IdsKept DEF Inv
<1>6. OnceInv'
  BY <1>1, SameUnshown DEF Inv, OnceInv
<1>7. CountInv'
  BY <1>1 DEF Inv, CountInv
<1>8. KeptInv'
  <2>1. ASSUME NEW x \in steady, Kept(x) PROVE Kept(x)'
    BY <1>1, <2>1, SameAsk, SamePending DEF Kept
  <2>2. QED
    BY <1>1, <2>1, KeptAll DEF Inv
<1>9. QED
  BY <1>4, <1>5, <1>6, <1>7, <1>8 DEF Inv

\* The first page has to come to everything listed behind the marker.
LEMMA InitPending ==
    ASSUME TextKeys, Init, Base, NEW x \in steady
    PROVE  Pending(marker, x)
<1>1. Within(ask, marker, x) /\ x \in Entries /\ x.key \in Named
  BY SteadyItem DEF Init
<1>2. x.key # NoKey /\ x.key \in Word /\ x.id \in Nat /\ Less(NoKey, x.key)
  BY <1>1, NamedBytes, NoKeyFirst DEF Entries
<1>4. CASE ask.api = "uploads"
  BY <1>1, <1>2, <1>4 DEF Within, Pending, Before
<1>5. CASE ask.api = "parts"
  BY <1>1, <1>5 DEF Within, Pending
<1>6. CASE OfObjects
  <2>1. Less(Resume(marker), x.key)
    BY <1>1, <1>2, <1>6 DEF Within, Resume, IsPrefixMarker, EndsInSlash, OfObjects
  <2>2. QED
    BY <1>6, <2>1 DEF Pending, OfObjects
<1>7. QED
  BY <1>4, <1>5, <1>6, AskTypes DEF Base, OfObjects

LEMMA InvInit ==
    ASSUME TextKeys, Init
    PROVE  Inv
<1>1. /\ cursor = {} /\ rest = <<>> /\ page = EmptyPage /\ page.items = <<>>
      /\ got = <<>> /\ pages = 0 /\ writes = 0 /\ renewed = FALSE /\ phase = "paging"
      /\ steady = {x \in Listed(ask, store) : Within(ask, marker, x)}
  BY ItemFields DEF Init, EmptyPage
<1>2. Given = {} /\ ToSet(got) = {}
  BY <1>1 DEF Given, ToSet
<1>3. Base
  <2>1. PageInv
    BY <1>1, <1>2 DEF PageInv, CursorInv, ClosedInv, Closed, MarkerInv, ShownInv, AheadInv, RestInv, NextInv
  <2>2. SteadyInv
    BY <1>1 DEF SteadyInv, Within
  <2>3. QED
    BY <2>1, <2>2, TypeInit DEF Base
<1>4. IdsInv
  <2>1. ASSUME NEW k \in Keys, NEW i \in DOMAIN store[k] PROVE store[k][i].id < NewVersion + writes
    <3> DEFINE R == [id : 0..(NewVersion - 1), del : BOOLEAN]
    <3>1. store[k] \in Seq(R)
      BY ListingAssumption DEF Init
    <3>2. store[k][i] \in R
      <4> HIDE DEF R
      <4>1. QED
        BY <3>1
    <3>3. store[k][i].id \in 0..(NewVersion - 1)
      BY <3>2
    <3>4. QED
      BY <1>1, <3>3, ListingAssumption
  <2>2. OfObjects => marker.id < NewVersion + writes /\ page.next.id < NewVersion + writes
    <3>1. OfObjects => marker.id = NoID
      BY ItemFields DEF Init, OfObjects
    <3>2. QED
      BY <1>1, <1>3, <3>1, NoIdLow, ItemFields DEF EmptyPage
  <2>3. QED
    BY <2>1, <2>2 DEF IdsInv
<1>5. OnceInv
  <2>1. IsInjective(got \o page.items)
    BY <1>1 DEF IsInjective
  <2>2. Unshown(marker, ToSet(got))
    BY <1>2 DEF Unshown
  <2>3. QED
    BY <1>1, <2>1, <2>2 DEF OnceInv
<1>6. CountInv
  BY <1>1 DEF CountInv
<1>7. KeptInv
  BY <1>1, <1>3, InitPending DEF KeptInv, Kept
<1>8. QED
  BY <1>3, <1>4, <1>5, <1>6, <1>7 DEF Inv

LEMMA InvNext ==
    ASSUME TextKeys, Inv, [Next]_vars
    PROVE  Inv'
<1>1. CASE Request
  BY <1>1, RequestBegins, InvOpen DEF Inv
<1>2. CASE Scan
  BY <1>2, InvScan
<1>3. CASE Fail
  BY <1>3, InvFail
<1>4. ASSUME NEW k \in Keys, Put(k) \/ Renew(k) \/ Discard(k) PROVE Inv'
  BY <1>4, InvOthers
<1>5. CASE UNCHANGED vars
  BY <1>5, InvStutter
<1>6. QED
  BY <1>1, <1>2, <1>3, <1>4, <1>5 DEF Next

LEMMA InvProperties ==
    ASSUME Inv
    PROVE  PagingProgresses /\ (NothingSkipped \/ OwnFolder \/ EarlyMarker)
<1>1. ~renewed => IsInjective(got)
  <2>1. got \in Seq(Items) /\ page.items \in Seq(Items)
    BY DEF Inv, Base, TypeInv
  <2>2. QED
    BY <2>1, InjectiveFront DEF Inv, OnceInv
<1>2. PagingProgresses
  BY <1>1 DEF PagingProgresses, Inv, CountInv
<1>3. NothingSkipped \/ OwnFolder \/ EarlyMarker
  BY DEF Inv, KeptInv, CutShort, Kept, NothingSkipped
<1>4. QED
  BY <1>2, <1>3

-----------------------------------------------------------------------------
(***************************************************************************)
(* The theorems                                                            *)
(***************************************************************************)
\* The invariant holds throughout: for any request, page size and changes between
\* pages of a bucket whose keys are texts, what the pages showed, the entries ahead
\* of the cursor and the marker the next request resumes from fit together
\* (ListObjects in filesystem.go, the other listings in listing.go).  Other keys are
\* accepted too (paths.go:106), and with them it does not hold: a marker reaches the
\* client changed, and the seek behind a common prefix can end up where it was.
THEOREM PagesFit ==
    ASSUME TextKeys
    PROVE  Spec => []Inv
<1>1. Init => Inv
  BY InvInit
<1>2. Inv /\ [Next]_vars => Inv'
  BY InvNext
<1>3. QED
  BY <1>1, <1>2, PTL DEF Spec

\* The variables have their types; between two pages no cursor, no gathered versions
\* and no half-built page are left, whether the page was answered or its
\* transaction failed.
THEOREM ListingTypes ==
    ASSUME TextKeys
    PROVE  Spec => []TypeInv
<1>1. Inv => TypeInv
  BY DEF Inv, Base
<1>2. QED
  BY <1>1, PagesFit, PTL

\* Where keys are texts, no page shows again what an earlier one showed, itself or
\* as the common prefix it is rolled up into, unless the version the marker names
\* was overwritten in place, and no page but the last is empty: the token follows
\* common prefixes as well as objects (filesystem.go:1018), and the scan resumes
\* behind them (listing.go:80).
THEOREM PagesAdvance ==
    ASSUME TextKeys
    PROVE  Spec => []PagingProgresses
<1>1. Inv => PagingProgresses
  BY InvProperties
<1>2. QED
  BY <1>1, PagesFit, PTL

\* Where keys are texts, a listing followed to its end has shown all that was there
\* throughout, whatever others wrote or deleted between its pages and however often
\* the database failed, with two exceptions.  One is made with the delimiter inside a
\* folder whose own name is a key: there the marker of a page that ends on the
\* folder's own object is taken for a common prefix, and the next page resumes behind
\* the whole folder (filesystem.go:954, listing.go:81).  The other lists uploads from
\* a marker that sorts before the prefix (listing.go:254).
THEOREM NothingLost ==
    ASSUME TextKeys
    PROVE  Spec => [](NothingSkipped \/ OwnFolder \/ EarlyMarker)
<1>1. Inv => NothingSkipped \/ OwnFolder \/ EarlyMarker
  BY InvProperties
<1>2. QED
  BY <1>1, PagesFit, PTL

\* So nothing is ever lost of objects, versions and parts where keys are texts and no
\* folder that is listed is an object itself.
THEOREM NothingLostInPlainFolders ==
    ASSUME TextKeys, \A p \in AskPrefixes : EndsInSlash(p) => p \notin Keys, "uploads" \notin APIs
    PROVE  Spec => []NothingSkipped
<1>1. TypeInv /\ (NothingSkipped \/ OwnFolder \/ EarlyMarker) => NothingSkipped
  BY DEF TypeInv, OwnFolder, EarlyMarker
<1>2. QED
  BY <1>1, ListingTypes, NothingLost, PTL

=============================================================================
