--------------------------- MODULE BeatOrderLemmas ---------------------------
(***************************************************************************)
(* Facts about the arithmetic of BeatOrder, for every beat width, sector   *)
(* size and counter width.  The proofs about the fetch engines cite them.  *)
(***************************************************************************)
EXTENDS BeatOrder, FiniteSetTheorems, TLAPS

(* A remainder is below its divisor (the counters and addresses wrap).     *)
LEMMA ModInRange ==
  ASSUME NEW a \in Int, NEW b \in Nat \ {0}
  PROVE  a % b \in 0 .. b - 1
  OBVIOUS

(* A product of naturals grows with its factors (sector base addresses).   *)
LEMMA ProductMonotonic ==
  ASSUME NEW a \in Nat, NEW b \in Nat, NEW c \in Nat, a <= b
  PROVE  a * c <= b * c
  OBVIOUS

(* A beat has at least one byte (BeatBytes is a product of the widths).    *)
LEMMA BeatBytesPositive == BeatBytes \in Nat \ {0}
  BY GroupsAssumption, GroupBytesAssumption DEF BeatBytes

(* There is at least one word to address.                                  *)
LEMMA WordSpacePositive == Span * Sectors \in Nat \ {0}
  BY SectorAssumption

(* Counter arithmetic stays inside the counter.                            *)
LEMMA CountWraps ==
  ASSUME NEW x \in Int
  PROVE  x % CountMod \in Count
<1>1. CountMod \in Nat \ {0}
  BY CountAssumption, BeatBytesPositive
<1>2. x % CountMod \in 0 .. CountMod - 1
  BY <1>1, ModInRange
<1> QED
  BY <1>2 DEF Count

(* A command starts at a word the address register can hold, at an offset  *)
(* inside that word (ddr3_usr_start_addr_in[29:5] and [4:0]).              *)
LEMMA StartOfCommand ==
  ASSUME NEW c \in [addr : Nat, total : Count]
  PROVE  /\ StartWord(c) \in Words
         /\ Offset(c) \in 0 .. BeatBytes - 1
<1>1. c.addr \in Int /\ c.addr \div BeatBytes \in Int
  BY BeatBytesPositive
<1>2. Offset(c) \in 0 .. BeatBytes - 1
  <2>1. c.addr % BeatBytes \in 0 .. BeatBytes - 1
    BY <1>1, BeatBytesPositive, ModInRange
  <2> QED
    BY <2>1 DEF Offset
<1>3. StartWord(c) \in Words
  BY <1>1, WordSpacePositive, ModInRange DEF StartWord, Words
<1> QED
  BY <1>2, <1>3

(* The address after a word is a word: neither the jump to the next sector *)
(* nor the increment leaves the address register.                          *)
LEMMA NextWordType ==
  ASSUME NEW w \in Words
  PROVE  NextWord(w) \in Words
<1> USE SectorAssumption
<1>1. w \in Int
  BY WordSpacePositive DEF Words
<1>2. CASE w % Span = LastWord
  <2> DEFINE s == ((w \div Span) + 1) % Sectors
  <2>1. s \in 0 .. Sectors - 1
    BY <1>1, ModInRange
  <2>2. s * Span <= (Sectors - 1) * Span
    BY <2>1, ProductMonotonic
  <2>3. (Sectors - 1) * Span = Span * Sectors - Span
    OBVIOUS
  <2>4. s * Span \in 0 .. Span * Sectors - 1
    BY <2>1, <2>2, <2>3
  <2> QED
    BY <1>2, <2>4 DEF NextWord, Words
<1>3. CASE w % Span # LastWord
  BY <1>1, <1>3, WordSpacePositive, ModInRange DEF NextWord, Words
<1> QED
  BY <1>2, <1>3

(* Swapping maps lanes to lanes, so a swapped mask is a mask.              *)
LEMMA SwapLaneType ==
  ASSUME NEW l \in Lanes
  PROVE  SwapLane(l) \in Lanes
<1> USE GroupsAssumption, GroupBytesAssumption
<1> DEFINE g == l \div GroupBytes
           r == l % GroupBytes
<1>1. /\ l \in Nat
      /\ l < Groups * GroupBytes
  BY BeatBytesPositive DEF Lanes, BeatBytes
<1>2. g \in 0 .. Groups - 1 /\ r \in 0 .. GroupBytes - 1
  BY <1>1
<1>3. (Groups - 1 - g) * GroupBytes <= (Groups - 1) * GroupBytes
  BY <1>2, ProductMonotonic
<1>4. (Groups - 1) * GroupBytes = Groups * GroupBytes - GroupBytes
  OBVIOUS
<1>5. (Groups - 1 - g) * GroupBytes \in Nat
  BY <1>2
<1>6. (Groups - 1 - g) * GroupBytes + r \in 0 .. Groups * GroupBytes - 1
  BY <1>2, <1>3, <1>4, <1>5
<1> QED
  BY <1>6 DEF SwapLane, Lanes, BeatBytes

(* The swap of a whole mask, from the swap of a lane.                      *)
LEMMA SwapType ==
  ASSUME NEW mask \in SUBSET Lanes
  PROVE  Swap(mask) \in SUBSET Lanes
  BY SwapLaneType DEF Swap

(* Counting the bytes that a mask lets through.                            *)
LEMMA MaskCardinality ==
  /\ \A mask \in SUBSET Lanes : Cardinality(mask) \in Nat
  /\ Cardinality(FullMask) = BeatBytes
  /\ \A off \in 0 .. BeatBytes - 1 : Cardinality(HeadMask(off)) = BeatBytes - off
  /\ \A n \in 0 .. BeatBytes - 1 : Cardinality(TailMask(n)) = n
<1> USE BeatBytesPositive
<1>1. IsFiniteSet(Lanes) /\ Cardinality(Lanes) = BeatBytes
  BY FS_Interval DEF Lanes
<1>2. ASSUME NEW mask \in SUBSET Lanes PROVE Cardinality(mask) \in Nat
  BY <1>1, FS_Subset, FS_CardinalityType
<1>3. ASSUME NEW off \in 0 .. BeatBytes - 1
      PROVE  Cardinality(HeadMask(off)) = BeatBytes - off
  <2>1. HeadMask(off) = 0 .. (BeatBytes - off - 1)
    BY DEF HeadMask, Lanes
  <2> QED
    BY <2>1, FS_Interval
<1>4. ASSUME NEW n \in 0 .. BeatBytes - 1
      PROVE  Cardinality(TailMask(n)) = n
  <2>1. TailMask(n) = (BeatBytes - n) .. (BeatBytes - 1)
    BY DEF TailMask, Lanes
  <2> QED
    BY <2>1, FS_Interval
<1> QED
  BY <1>1, <1>2, <1>3, <1>4 DEF FullMask
-----------------------------------------------------------------------------
(* Quotients and remainders.                                               *)

(* A quotient and a remainder make up the number.                          *)
LEMMA DivisionOf ==
  ASSUME NEW a \in Int, NEW b \in Nat \ {0}
  PROVE  \E q \in Int, r \in 0 .. b - 1 : q = a \div b /\ r = a % b /\ a = q * b + r
<1>1. PICK q \in Int : q = a \div b
  OBVIOUS
<1>2. PICK r \in 0 .. b - 1 : r = a % b
  BY ModInRange
<1>3. a = q * b + r
  BY <1>1, <1>2
<1> QED
  BY <1>1, <1>2, <1>3

(* And no other two do.                                                    *)
LEMMA DivisionUnique ==
  ASSUME NEW b \in Nat \ {0}, NEW q \in Int, NEW r \in 0 .. b - 1,
         NEW a \in Int, a = q * b + r
  PROVE  a \div b = q /\ a % b = r
<1>1. PICK d \in Int, m \in 0 .. b - 1 : d = a \div b /\ m = a % b /\ a = d * b + m
  BY DivisionOf
<1>2. ASSUME NEW x \in Int, NEW y \in Int, NEW s \in 0 .. b - 1, NEW t \in 0 .. b - 1,
             x * b + s = y * b + t
      PROVE  x <= y
  <2> SUFFICES ASSUME x > y PROVE FALSE
    OBVIOUS
  <2>1. x - y - 1 \in Nat
    OBVIOUS
  <2>2. (x - y - 1) * b \in Nat
    BY <2>1
  <2>3. (x - y - 1) * b = x * b - y * b - b
    OBVIOUS
  <2> QED
    BY <1>2, <2>2, <2>3
<1>3. d <= q /\ q <= d
  BY <1>1, <1>2
<1>4. d = q
  BY <1>1, <1>3
<1>5. d * b \in Int /\ q * b \in Int
  BY <1>1
<1>6. m = r
  BY <1>1, <1>4, <1>5
<1> QED
  BY <1>1, <1>4, <1>6

(* Whole multiples add to the quotient and leave the remainder alone.      *)
LEMMA DivisionShift ==
  ASSUME NEW b \in Nat \ {0}, NEW q \in Int, NEW a \in Int
  PROVE  /\ (q * b + a) \div b = q + (a \div b)
         /\ (q * b + a) % b = a % b
<1>1. PICK d \in Int, m \in 0 .. b - 1 : d = a \div b /\ m = a % b /\ a = d * b + m
  BY DivisionOf
<1>2. q * b + a = (q + d) * b + m /\ q * b + a \in Int /\ q + d \in Int
  BY <1>1
<1>3. PICK x \in Int, k \in Int : x = q * b + a /\ k = q + d /\ x = k * b + m
  BY <1>2
<1>4. x \div b = k /\ x % b = m
  <2>1. x = k * b + m
    BY <1>3
  <2>2. \A c \in Nat \ {0}, y, z \in Int : \A n \in 0 .. c - 1 :
          z = y * c + n => z \div c = y /\ z % c = n
    BY DivisionUnique
  <2> QED
    BY <2>1, <2>2, Zenon
<1> QED
  BY <1>1, <1>3, <1>4

(* A sum may be reduced part by part.                                      *)
LEMMA ModOfSum ==
  ASSUME NEW b \in Nat \ {0}, NEW a \in Int, NEW c \in Int
  PROVE  ((a % b) + c) % b = (a + c) % b
<1>1. PICK d \in Int, m \in 0 .. b - 1 : d = a \div b /\ m = a % b /\ a = d * b + m
  BY DivisionOf
<1>2. a + c = d * b + (m + c) /\ m + c \in Int
  BY <1>1
<1>3. (d * b + (m + c)) % b = (m + c) % b
  BY <1>1, <1>2, DivisionShift
<1> QED
  BY <1>1, <1>2, <1>3

(* The word after a word in use is in use, and the words behind it are the *)
(* ones behind the first: the jump over the unused end of a sector of      *)
(* ddr3_usr_logic.v is the closed form of the order of the words.          *)
InUse(w) == w % Span <= LastWord

LEMMA WordParts ==
  ASSUME NEW w \in Words
  PROVE  \E s \in 0 .. Sectors - 1, p \in 0 .. Span - 1 :
           s = w \div Span /\ p = w % Span /\ w = s * Span + p
<1> USE SectorAssumption
<1>1. w \in Int /\ w >= 0 /\ w < Span * Sectors
  BY WordSpacePositive DEF Words
<1>2. PICK s \in Int, p \in 0 .. Span - 1 : s = w \div Span /\ p = w % Span /\ w = s * Span + p
  BY <1>1, DivisionOf
<1>3. s >= 0
  <2> SUFFICES ASSUME s < 0 PROVE FALSE
    OBVIOUS
  <2>1. -s - 1 \in Nat
    OBVIOUS
  <2>2. (-s - 1) * Span \in Nat
    BY <2>1
  <2>3. (-s - 1) * Span = -(s * Span) - Span
    OBVIOUS
  <2> QED
    BY <1>1, <1>2, <2>2, <2>3
<1>4. s < Sectors
  <2> SUFFICES ASSUME s >= Sectors PROVE FALSE
    OBVIOUS
  <2>1. Sectors * Span <= s * Span
    BY ProductMonotonic
  <2> QED
    BY <1>1, <1>2, <2>1
<1> QED
  BY <1>2, <1>3, <1>4

LEMMA WordAtParts ==
  ASSUME NEW w \in Words, NEW i \in Nat, NEW s, NEW p, s = w \div Span, p = w % Span
  PROVE  WordAt(w, i) = (((s + ((p + i) \div (LastWord + 1))) % Sectors) * Span)
                          + ((p + i) % (LastWord + 1))
<1> USE SectorAssumption
<1>1. s \in Int /\ p \in Int
  BY WordParts
<1>2. PICK used \in Nat \ {0} : used = LastWord + 1
  OBVIOUS
<1>3. PICK x \in Int : x = p + i
  BY <1>1
<1>4. (s * used + x) \div used = s + (x \div used) /\ (s * used + x) % used = x % used
  BY <1>1, <1>2, <1>3, DivisionShift, Zenon
<1>5. s * used + p + i = s * used + x
  BY <1>1, <1>3
<1>6. WordAt(w, i) = (((s * used + p + i) \div used) % Sectors) * Span
                       + ((s * used + p + i) % used)
  BY <1>2 DEF WordAt
<1> QED
  BY <1>2, <1>3, <1>4, <1>5, <1>6

(* A word is the first of the words from it on.                            *)
LEMMA WordAtFirst ==
  ASSUME NEW w \in Words, InUse(w)
  PROVE  WordAt(w, 0) = w
<1> USE SectorAssumption
<1>1. PICK s \in 0 .. Sectors - 1, p \in 0 .. Span - 1 :
        s = w \div Span /\ p = w % Span /\ w = s * Span + p
  BY WordParts
<1>2. w \in Nat /\ s \in Nat /\ p <= LastWord
  BY <1>1, WordSpacePositive DEF Words, InUse
<1>3. WordAt(w, 0) = (((s + ((p + 0) \div (LastWord + 1))) % Sectors) * Span)
                       + ((p + 0) % (LastWord + 1))
  <2>1. 0 \in Nat
    OBVIOUS
  <2> QED
    BY <1>1, <2>1, WordAtParts
<1>4. (p + 0) \div (LastWord + 1) = 0 /\ (p + 0) % (LastWord + 1) = p
  BY <1>2
<1>5. (s + 0) % Sectors = s
  BY <1>1
<1> QED
  BY <1>1, <1>3, <1>4, <1>5

(* Where NextWord goes: j sectors on, 0 or 1, to the place that is left.   *)
LEMMA NextWordParts ==
  ASSUME NEW s \in 0 .. Sectors - 1, NEW p \in 0 .. LastWord,
         NEW w \in Words, s = w \div Span, p = w % Span, w = s * Span + p
  PROVE  \E j \in {0, 1}, q \in 0 .. LastWord :
           /\ p + 1 = j * (LastWord + 1) + q
           /\ NextWord(w) = ((s + j) % Sectors) * Span + q
<1> USE SectorAssumption
<1>1. CASE p = LastWord
  <2>1. NextWord(w) = ((s + 1) % Sectors) * Span
    BY <1>1 DEF NextWord
  <2>2. (s + 1) % Sectors \in Nat
    OBVIOUS
  <2>3. ((s + 1) % Sectors) * Span \in Nat
    BY <2>2
  <2>4. NextWord(w) = ((s + 1) % Sectors) * Span + 0
    BY <2>1, <2>3
  <2>5. p + 1 = 1 * (LastWord + 1) + 0 /\ 0 \in 0 .. LastWord
    BY <1>1
  <2> QED
    BY <2>4, <2>5
<1>2. CASE p # LastWord
  <2>1. p + 1 \in 0 .. LastWord
    BY <1>2
  <2>2. s * Span <= (Sectors - 1) * Span
    BY ProductMonotonic
  <2>3. (Sectors - 1) * Span = Span * Sectors - Span
    OBVIOUS
  <2>4. w + 1 \in Nat /\ w + 1 < Span * Sectors /\ w + 1 = s * Span + (p + 1)
    BY <2>1, <2>2, <2>3 DEF Words
  <2>5. (w + 1) % (Span * Sectors) = w + 1
    BY <2>4, WordSpacePositive
  <2>6. NextWord(w) = s * Span + (p + 1)
    BY <1>2, <2>4, <2>5 DEF NextWord
  <2>7. (s + 0) % Sectors = s
    OBVIOUS
  <2>8. p + 1 = 0 * (LastWord + 1) + (p + 1)
    OBVIOUS
  <2> QED
    BY <2>1, <2>6, <2>7, <2>8
<1> QED
  BY <1>1, <1>2

(* So NextWord counts as the closed form does.                             *)
LEMMA WordAtNext ==
  ASSUME NEW w \in Words, InUse(w)
  PROVE  /\ InUse(NextWord(w))
         /\ \A i \in Nat : WordAt(NextWord(w), i) = WordAt(w, i + 1)
         /\ WordAt(w, 1) = NextWord(w)
<1> USE SectorAssumption
<1>1. PICK s \in 0 .. Sectors - 1, p \in 0 .. Span - 1 :
        s = w \div Span /\ p = w % Span /\ w = s * Span + p
  BY WordParts
<1>2. w \in Nat /\ s \in Nat /\ p \in 0 .. LastWord
  BY <1>1, WordSpacePositive DEF Words, InUse
<1>3. PICK j \in {0, 1}, q \in 0 .. LastWord :
        /\ p + 1 = j * (LastWord + 1) + q
        /\ NextWord(w) = ((s + j) % Sectors) * Span + q
  BY <1>1, <1>2, NextWordParts
<1>4. PICK t \in 0 .. Sectors - 1 : t = (s + j) % Sectors
  BY ModInRange
<1>5. NextWord(w) = t * Span + q /\ t \in Nat /\ q \in 0 .. Span - 1 /\ NextWord(w) \in Nat
  BY <1>3, <1>4
<1>6. InUse(NextWord(w))
  <2>1. NextWord(w) % Span = q
    BY <1>5, DivisionUnique
  <2> QED
    BY <2>1 DEF InUse
<1>7. ASSUME NEW i \in Nat
      PROVE  WordAt(NextWord(w), i) = WordAt(w, i + 1)
  <2>1. PICK u \in Nat \ {0} : u = LastWord + 1
    OBVIOUS
  <2>2. PICK x \in Int : x = q + i
    OBVIOUS
  <2>3. PICK d \in Int : d = x \div u
    BY <2>1, <2>2
  <2>4. WordAt(NextWord(w), i) = (((t + ((q + i) \div (LastWord + 1))) % Sectors) * Span)
                                   + ((q + i) % (LastWord + 1))
    <3>1. t = NextWord(w) \div Span /\ q = NextWord(w) % Span
      BY <1>5, DivisionUnique
    <3> QED
      BY <3>1, NextWordType, WordAtParts
  <2>5. WordAt(w, i + 1) = (((s + ((p + (i + 1)) \div (LastWord + 1))) % Sectors) * Span)
                             + ((p + (i + 1)) % (LastWord + 1))
    <3>1. i + 1 \in Nat
      OBVIOUS
    <3> QED
      BY <1>1, <3>1, WordAtParts
  <2>6. p + (i + 1) = j * u + x
    BY <1>2, <1>3, <2>1, <2>2
  <2>7. (j * u + x) \div u = j + (x \div u) /\ (j * u + x) % u = x % u
    <3>1. j \in Int
      OBVIOUS
    <3> QED
      BY <2>1, <2>2, <3>1, DivisionShift, Zenon
  <2>8. (t + d) % Sectors = (s + (j + d)) % Sectors
    <3>1. (((s + j) % Sectors) + d) % Sectors = ((s + j) + d) % Sectors
      <4>1. s + j \in Int
        OBVIOUS
      <4> QED
        BY <4>1, ModOfSum, Zenon
    <3>2. (s + j) + d = s + (j + d)
      OBVIOUS
    <3> QED
      BY <1>4, <3>1, <3>2
  <2>9. WordAt(NextWord(w), i) = (((t + d) % Sectors) * Span) + (x % u)
    BY <2>1, <2>2, <2>3, <2>4
  <2>10. WordAt(w, i + 1) = (((s + (j + d)) % Sectors) * Span) + (x % u)
    <3>1. (p + (i + 1)) \div (LastWord + 1) = j + d
      BY <2>1, <2>3, <2>6, <2>7, Zenon
    <3>2. (p + (i + 1)) % (LastWord + 1) = x % u
      BY <2>1, <2>6, <2>7, Zenon
    <3> QED
      BY <2>5, <3>1, <3>2, Zenon
  <2> QED
    BY <2>8, <2>9, <2>10, Zenon
<1>8. WordAt(w, 1) = NextWord(w)
  <2>1. NextWord(w) \in Words
    BY NextWordType
  <2>2. WordAt(NextWord(w), 0) = NextWord(w)
    BY <1>6, <2>1, WordAtFirst
  <2>3. WordAt(NextWord(w), 0) = WordAt(w, 0 + 1) /\ 0 + 1 = 1
    BY <1>7
  <2> QED
    BY <2>2, <2>3
<1> QED
  BY <1>6, <1>7, <1>8

(***************************************************************************)
(* What a run of bytes owes, one word at a time.                           *)
(***************************************************************************)

Owing == [word : Words, bytes : Nat]

(* Nothing is owed for no bytes.                                           *)
LEMMA OwedNone ==
  ASSUME NEW w \in Words
  PROVE  Owed(w, 0) = << >>
<1>1. (0 + BeatBytes - 1) \div BeatBytes = 0
  BY BeatBytesPositive
<1> QED
  BY <1>1 DEF Owed

(* A part of a word is owed as that part of it.                            *)
LEMMA OwedPart ==
  ASSUME NEW w \in Words, InUse(w), NEW n \in 1 .. BeatBytes - 1
  PROVE  Owed(w, n) = <<[word |-> w, bytes |-> n]>>
<1> USE BeatBytesPositive
<1>1. (n + BeatBytes - 1) \div BeatBytes = 1 /\ n % BeatBytes = n
  <2>1. n + BeatBytes - 1 = 1 * BeatBytes + (n - 1) /\ n - 1 \in 0 .. BeatBytes - 1
    OBVIOUS
  <2> QED
    BY <2>1, DivisionUnique
<1>2. Owed(w, n) = [i \in 1 .. 1 |-> [word |-> WordAt(w, i - 1),
                      bytes |-> IF i * BeatBytes <= n THEN BeatBytes ELSE n % BeatBytes]]
  BY <1>1 DEF Owed
<1>3. \A i \in 1 .. 1 : i = 1 /\ i - 1 = 0 /\ ~(i * BeatBytes <= n)
  OBVIOUS
<1>4. WordAt(w, 0) = w
  BY WordAtFirst
<1>5. Owed(w, n) = [i \in 1 .. 1 |-> [word |-> w, bytes |-> n]]
  BY <1>1, <1>2, <1>3, <1>4
<1> QED
  BY <1>5

(* A whole word comes before the rest.                                     *)
LEMMA OwedWhole ==
  ASSUME NEW w \in Words, InUse(w), NEW n \in Nat, n >= BeatBytes
  PROVE  Owed(w, n) = <<[word |-> w, bytes |-> BeatBytes]>>
                        \o Owed(NextWord(w), n - BeatBytes)
<1> USE BeatBytesPositive
<1> DEFINE m == n - BeatBytes
           size == (m + BeatBytes - 1) \div BeatBytes
           entry(v, l, i) == [word |-> WordAt(v, i - 1),
                              bytes |-> IF i * BeatBytes <= l THEN BeatBytes
                                                              ELSE l % BeatBytes]
           head == <<[word |-> w, bytes |-> BeatBytes]>>
           rest == Owed(NextWord(w), m)
<1>1. m \in Nat /\ size \in Nat
  <2>1. m \in Nat /\ m + BeatBytes - 1 \in Nat
    OBVIOUS
  <2> QED
    BY <2>1
<1>2. (n + BeatBytes - 1) \div BeatBytes = size + 1 /\ n % BeatBytes = m % BeatBytes
  <2>1. /\ n + BeatBytes - 1 = 1 * BeatBytes + (m + BeatBytes - 1)
        /\ n = 1 * BeatBytes + m
        /\ m + BeatBytes - 1 \in Int /\ m \in Int
    BY <1>1
  <2>2. \A x \in Int : /\ (1 * BeatBytes + x) \div BeatBytes = 1 + (x \div BeatBytes)
                       /\ (1 * BeatBytes + x) % BeatBytes = x % BeatBytes
    <3>1. 1 \in Int
      OBVIOUS
    <3> QED
      BY <3>1, DivisionShift, Zenon
  <2> QED
    <3>1. (1 * BeatBytes + m) % BeatBytes = m % BeatBytes
      BY <2>1, <2>2, Zenon
    <3>2. (1 * BeatBytes + (m + BeatBytes - 1)) \div BeatBytes = 1 + size
      BY <2>1, <2>2, Zenon
    <3>3. 1 + size = size + 1
      BY <1>1
    <3> QED
      BY <2>1, <3>1, <3>2, <3>3, Zenon
<1>3. Owed(w, n) = [i \in 1 .. size + 1 |-> entry(w, n, i)]
  BY <1>2, Zenon DEF Owed
<1>4. rest = [i \in 1 .. size |-> entry(NextWord(w), m, i)]
  BY DEF Owed
<1>5. entry(w, n, 1) = head[1]
  <2>1. 1 - 1 = 0 /\ 1 * BeatBytes <= n
    OBVIOUS
  <2> QED
    BY <2>1, WordAtFirst
<1>6. ASSUME NEW i \in 1 .. size
      PROVE  entry(w, n, i + 1) = entry(NextWord(w), m, i)
  <2>1. WordAt(w, i) = WordAt(NextWord(w), i - 1)
    <3>1. i - 1 \in Nat /\ (i - 1) + 1 = i
      BY <1>1
    <3> QED
      BY <3>1, WordAtNext
  <2>2. (i + 1) - 1 = i
    BY <1>1
  <2>3. (i + 1) * BeatBytes <= n <=> i * BeatBytes <= m
    <3>1. (i + 1) * BeatBytes = i * BeatBytes + BeatBytes /\ i * BeatBytes \in Int
      BY <1>1
    <3> QED
      BY <1>1, <3>1
  <2> QED
    BY <1>2, <2>1, <2>2, <2>3, Zenon
<1>7. Len(head) = 1 /\ Len(rest) = size
  BY <1>1, <1>4
<1> HIDE DEF entry, rest, size, m
<1>8. head \o rest = [i \in 1 .. size + 1 |-> entry(w, n, i)]
  <2>1. head \o rest = [i \in 1 .. 1 + size |-> IF i <= 1 THEN head[i] ELSE rest[i - 1]]
    BY <1>1, <1>4, <1>7
  <2>2. ASSUME NEW i \in 1 .. size + 1
        PROVE  (IF i <= 1 THEN head[i] ELSE rest[i - 1]) = entry(w, n, i)
    <3>1. CASE i = 1
      BY <1>5, <3>1
    <3>2. CASE i # 1
      <4>1. i - 1 \in 1 .. size /\ (i - 1) + 1 = i /\ ~(i <= 1)
        BY <1>1, <3>2
      <4>2. rest[i - 1] = entry(NextWord(w), m, i - 1)
        BY <1>4, <4>1, Zenon
      <4>3. entry(w, n, (i - 1) + 1) = entry(NextWord(w), m, i - 1)
        BY <1>6, <4>1, Zenon
      <4> QED
        BY <4>1, <4>2, <4>3, Zenon
    <3> QED
      BY <3>1, <3>2
  <2>3. 1 + size = size + 1
    BY <1>1
  <2> QED
    BY <2>1, <2>2, <2>3, Zenon
<1> QED
  BY <1>3, <1>8 DEF rest, m

(***************************************************************************)
(* The swap keeps the bytes of a mask apart.                               *)
(***************************************************************************)

(* Swapping twice puts a lane back.                                        *)
LEMMA SwapTwice ==
  ASSUME NEW l \in Lanes
  PROVE  SwapLane(SwapLane(l)) = l
<1> USE GroupsAssumption, GroupBytesAssumption
<1>1. l \in Int
  BY BeatBytesPositive DEF Lanes
<1>2. PICK g \in Int, r \in 0 .. GroupBytes - 1 :
        g = l \div GroupBytes /\ r = l % GroupBytes /\ l = g * GroupBytes + r
  BY <1>1, DivisionOf
<1>3. PICK h \in Int : h = Groups - 1 - g
  BY <1>2
<1>4. PICK k \in Int : k = h * GroupBytes + r
  BY <1>2, <1>3
<1>5. SwapLane(l) = k
  BY <1>2, <1>3, <1>4 DEF SwapLane
<1>6. k \div GroupBytes = h /\ k % GroupBytes = r
  BY <1>2, <1>4, DivisionUnique
<1>7. Groups - 1 - h = g
  BY <1>2, <1>3
<1>8. SwapLane(k) = g * GroupBytes + r
  BY <1>6, <1>7, Zenon DEF SwapLane
<1> QED
  BY <1>2, <1>5, <1>8, Zenon

(* So a swapped mask has as many bytes as the mask.                        *)
LEMMA SwapCardinality ==
  ASSUME NEW mask \in SUBSET Lanes
  PROVE  Cardinality(Swap(mask)) = Cardinality(mask)
<1>1. IsFiniteSet(mask)
  <2>1. IsFiniteSet(Lanes)
    BY FS_Interval, BeatBytesPositive DEF Lanes
  <2> QED
    BY <2>1, FS_Subset
<1> DEFINE f == [l \in mask |-> SwapLane(l)]
<1>2. f \in [mask -> Swap(mask)]
  BY DEF Swap
<1>3. \A b \in Swap(mask) : \E l \in mask : f[l] = b
  BY DEF Swap
<1>4. \A a, b \in mask : f[a] = f[b] => a = b
  <2> SUFFICES ASSUME NEW a \in mask, NEW b \in mask, f[a] = f[b] PROVE a = b
    OBVIOUS
  <2>1. SwapLane(SwapLane(a)) = a /\ SwapLane(SwapLane(b)) = b
    BY SwapTwice
  <2>2. SwapLane(a) = SwapLane(b)
    OBVIOUS
  <2> QED
    BY <2>1, <2>2, Zenon
<1>5. ExistsBijection(mask, Swap(mask))
  <2> HIDE DEF f
  <2>1. f \in Injection(mask, Swap(mask))
    BY <1>2, <1>4 DEF Injection, IsInjective
  <2>2. f \in Surjection(mask, Swap(mask))
    BY <1>2, <1>3 DEF Surjection
  <2> QED
    BY <2>1, <2>2, Zenon DEF ExistsBijection, Bijection
<1> QED
  BY <1>1, <1>5, FS_Bijection

(***************************************************************************)
(* The beats of a queue, as word and number of bytes.                      *)
(***************************************************************************)

Amount(beat) == [word |-> beat.word, bytes |-> Cardinality(beat.valid)]
Amounts(queue) == [i \in DOMAIN queue |-> Amount(queue[i])]

(* A beat has a number of bytes.                                           *)
LEMMA AmountType ==
  ASSUME NEW beat \in Beat
  PROVE  Amount(beat) \in Owing
  BY MaskCardinality DEF Beat, Amount, Owing

(* The tail of a queue, place by place.                                    *)
LEMMA TailOf ==
  ASSUME NEW T, NEW s \in Seq(T), s # << >>
  PROVE  /\ Len(s) \in Nat /\ Len(s) >= 1
         /\ Head(s) = s[1]
         /\ Tail(s) \in Seq(T)
         /\ Len(Tail(s)) = Len(s) - 1
         /\ \A i \in 1 .. Len(s) - 1 : Tail(s)[i] = s[i + 1]
  OBVIOUS

(* Taking the amounts goes beat by beat.                                   *)
LEMMA AmountsOf ==
  /\ Amounts(<< >>) = << >>
  /\ \A queue \in Seq(Beat) :
       /\ Amounts(queue) \in Seq(Owing)
       /\ queue # << >> => /\ Amounts(queue) # << >>
                           /\ Head(Amounts(queue)) = Amount(Head(queue))
                           /\ Tail(Amounts(queue)) = Amounts(Tail(queue))
       /\ \A beat \in Beat :
            Amounts(Append(queue, beat)) = Append(Amounts(queue), Amount(beat))
<1>1. Amounts(<< >>) = << >>
  BY DEF Amounts
<1>2. ASSUME NEW queue \in Seq(Beat)
      PROVE  /\ Amounts(queue) \in Seq(Owing)
             /\ Len(Amounts(queue)) = Len(queue)
             /\ \A i \in 1 .. Len(queue) : Amounts(queue)[i] = Amount(queue[i])
  <2>1. /\ Len(queue) \in Nat
        /\ DOMAIN queue = 1 .. Len(queue)
        /\ \A i \in 1 .. Len(queue) : queue[i] \in Beat
    OBVIOUS
  <2>2. Amounts(queue) = [i \in 1 .. Len(queue) |-> Amount(queue[i])]
    BY <2>1 DEF Amounts
  <2>3. \A i \in 1 .. Len(queue) : Amount(queue[i]) \in Owing
    BY <2>1, AmountType
  <2>4. Amounts(queue) \in Seq(Owing)
    BY <2>1, <2>2, <2>3
  <2> QED
    BY <2>1, <2>2, <2>4
<1>3. ASSUME NEW queue \in Seq(Beat), queue # << >>
      PROVE  /\ Amounts(queue) # << >>
             /\ Head(Amounts(queue)) = Amount(Head(queue))
             /\ Tail(Amounts(queue)) = Amounts(Tail(queue))
  <2>1. Len(queue) \in Nat /\ Len(queue) >= 1 /\ Tail(queue) \in Seq(Beat)
    BY <1>3
  <2>2. Amounts(queue) # << >>
    BY <1>2, <2>1
  <2>3. Head(Amounts(queue)) = Amount(Head(queue))
    BY <1>2, <2>1, <2>2
  <2>4. Tail(Amounts(queue)) = Amounts(Tail(queue))
    <3> DEFINE a == Tail(Amounts(queue))
               b == Amounts(Tail(queue))
    <3>1. a \in Seq(Owing) /\ Len(a) = Len(queue) - 1
      <4>1. a \in Seq(Owing) /\ Len(a) = Len(Amounts(queue)) - 1
        BY <1>2, <2>2, TailOf, Zenon
      <4> QED
        BY <1>2, <4>1, Zenon
    <3>2. b \in Seq(Owing) /\ Len(b) = Len(queue) - 1
      <4>1. b \in Seq(Owing) /\ Len(b) = Len(Tail(queue))
        BY <1>2, <2>1, Zenon
      <4>2. Len(Tail(queue)) = Len(queue) - 1
        BY <1>3, TailOf
      <4> QED
        BY <4>1, <4>2, Zenon
    <3>3. ASSUME NEW i \in 1 .. Len(queue) - 1
          PROVE  a[i] = b[i]
      <4>1. a[i] = Amounts(queue)[i + 1]
        BY <1>2, <2>2, TailOf, Zenon
      <4>2. i \in 1 .. Len(Tail(queue))
        BY <1>3, TailOf
      <4>3. b[i] = Amount(Tail(queue)[i])
        BY <1>2, <2>1, <4>2, Zenon
      <4>4. Tail(queue)[i] = queue[i + 1]
        BY <1>3, TailOf
      <4>5. i + 1 \in 1 .. Len(queue)
        BY <2>1
      <4> QED
        BY <1>2, <4>1, <4>3, <4>4, <4>5, Zenon
    <3> QED
      BY <3>1, <3>2, <3>3, <2>1
  <2> QED
    BY <2>2, <2>3, <2>4
<1>4. ASSUME NEW queue \in Seq(Beat), NEW beat \in Beat
      PROVE  Amounts(Append(queue, beat)) = Append(Amounts(queue), Amount(beat))
  <2> DEFINE a == Amounts(Append(queue, beat))
             b == Append(Amounts(queue), Amount(beat))
  <2>1. Append(queue, beat) \in Seq(Beat) /\ Len(Append(queue, beat)) = Len(queue) + 1
    OBVIOUS
  <2>2. a \in Seq(Owing) /\ Len(a) = Len(queue) + 1
    BY <1>2, <2>1
  <2>3. b \in Seq(Owing) /\ Len(b) = Len(queue) + 1
    BY <1>2, AmountType
  <2>4. ASSUME NEW i \in 1 .. Len(queue) + 1
        PROVE  a[i] = b[i]
    <3>1. a[i] = Amount(Append(queue, beat)[i])
      BY <1>2, <2>1
    <3>2. CASE i \in 1 .. Len(queue)
      <4>1. Append(queue, beat)[i] = queue[i]
        BY <3>2
      <4>2. b[i] = Amounts(queue)[i]
        BY <1>2, <3>2
      <4> QED
        BY <1>2, <3>1, <3>2, <4>1, <4>2
    <3>3. CASE i = Len(queue) + 1
      <4>1. Append(queue, beat)[i] = beat
        BY <3>3
      <4>2. b[i] = Amount(beat)
        BY <1>2, <3>3
      <4> QED
        BY <3>1, <4>1, <4>2
    <3>4. Len(queue) \in Nat
      OBVIOUS
    <3> HIDE DEF a, b
    <3> QED
      BY <3>2, <3>3, <3>4
  <2> QED
    BY <2>2, <2>3, <2>4
<1> QED
  BY <1>1, <1>2, <1>3, <1>4

(***************************************************************************)
(* Sequences.                                                              *)
(***************************************************************************)

(* An element put before a sequence is its head.                           *)
LEMMA SequenceFirst ==
  ASSUME NEW T, NEW s \in Seq(T), NEW x
  PROVE  /\ <<x>> \o s # << >>
         /\ Head(<<x>> \o s) = x
         /\ Tail(<<x>> \o s) = s
<1>1. PICK V : V = T \cup {x}
  OBVIOUS
<1>2. s \in Seq(V)
  BY <1>1
<1>3. PICK h \in Seq(V) : h = <<x>> /\ Len(h) = 1 /\ h[1] = x
  <2>1. x \in V
    BY <1>1
  <2>2. <<x>> \in Seq(V)
    BY <2>1
  <2>3. Len(<<x>>) = 1 /\ <<x>>[1] = x
    OBVIOUS
  <2> QED
    BY <2>2, <2>3
<1>4. h \o s \in Seq(V)
  BY <1>2
<1>5. PICK c \in Seq(V) : c = h \o s
  BY <1>4
<1>6. /\ Len(s) \in Nat /\ Len(c) = Len(s) + 1
      /\ c[1] = x
      /\ \A i \in 1 .. Len(s) : c[i + 1] = s[i]
  BY <1>2, <1>5, <1>3
<1>7. c # << >> /\ Head(c) = x
  BY <1>6
<1>8. Tail(c) \in Seq(V) /\ Len(Tail(c)) = Len(s)
      /\ \A i \in 1 .. Len(s) : Tail(c)[i] = c[i + 1]
  BY <1>6, <1>7, TailOf
<1>9. Tail(c) = s
  BY <1>2, <1>6, <1>8
<1> QED
  BY <1>5, <1>7, <1>9, <1>3

(* Sequences that agree place by place are equal.                          *)
LEMMA SameSequence ==
  ASSUME NEW T, NEW a \in Seq(T), NEW b \in Seq(T), Len(a) = Len(b),
         \A i \in 1 .. Len(a) : a[i] = b[i]
  PROVE  a = b
<1>1. a = [i \in 1 .. Len(a) |-> a[i]] /\ b = [i \in 1 .. Len(b) |-> b[i]]
  OBVIOUS
<1> QED
  BY <1>1

(* An element put behind a sequence leaves its head where it is.           *)
LEMMA AppendFirst ==
  ASSUME NEW T, NEW s \in Seq(T), NEW x \in T, s # << >>
  PROVE  /\ Append(s, x) # << >>
         /\ Head(Append(s, x)) = Head(s)
         /\ Tail(Append(s, x)) = Append(Tail(s), x)
<1> DEFINE c == Append(s, x)
           a == Tail(c)
           t == Tail(s)
           b == Append(t, x)
<1>1. c \in Seq(T)
  OBVIOUS
<1>2. /\ Len(s) \in Nat /\ Len(s) >= 1 /\ Len(c) = Len(s) + 1
      /\ c[Len(s) + 1] = x
      /\ \A i \in 1 .. Len(s) : c[i] = s[i]
  OBVIOUS
<1>3. c # << >>
  BY <1>1, <1>2
<1>6. /\ t \in Seq(T) /\ Len(t) = Len(s) - 1
      /\ \A i \in 1 .. Len(s) - 1 : t[i] = s[i + 1]
  BY TailOf
<1>7. /\ b \in Seq(T) /\ Len(b) = Len(t) + 1
      /\ b[Len(t) + 1] = x
      /\ \A i \in 1 .. Len(t) : b[i] = t[i]
  <2> HIDE DEF t
  <2> QED
    BY <1>6
<1> HIDE DEF c
<1>4. Head(c) = Head(s)
  BY <1>1, <1>2, <1>3, TailOf
<1>5. /\ a \in Seq(T) /\ Len(a) = Len(s)
      /\ \A i \in 1 .. Len(s) : a[i] = c[i + 1]
  BY <1>1, <1>2, <1>3, TailOf
<1> HIDE DEF a, t, b
<1>8. ASSUME NEW i \in 1 .. Len(s)
      PROVE  a[i] = b[i]
  <2>1. CASE i = Len(s)
    BY <1>2, <1>5, <1>6, <1>7, <2>1
  <2>2. CASE i # Len(s)
    <3>1. i \in 1 .. Len(s) - 1 /\ i + 1 \in 1 .. Len(s)
      BY <1>2, <2>2
    <3> QED
      BY <1>2, <1>5, <1>6, <1>7, <3>1
  <2> QED
    BY <2>1, <2>2
<1>9. a = b
  <2>1. Len(b) = Len(s)
    BY <1>2, <1>6, <1>7
  <2>2. a \in Seq(T) /\ b \in Seq(T) /\ Len(a) = Len(b) /\ Len(a) = Len(s)
    BY <1>5, <1>7, <2>1
  <2>3. \A i \in 1 .. Len(a) : a[i] = b[i]
    BY <1>8, <2>2
  <2> QED
    BY <2>2, <2>3, SameSequence
<1> QED
  BY <1>3, <1>4, <1>9, Zenon DEF a, b, c, t

(* What is owed is a sequence.                                             *)
LEMMA OwedIsSequence ==
  ASSUME NEW w, NEW n \in Nat
  PROVE  \E T : Owed(w, n) \in Seq(T)
<1> DEFINE size == (n + BeatBytes - 1) \div BeatBytes
           entry(i) == [word  |-> WordAt(w, i - 1),
                        bytes |-> IF i * BeatBytes <= n THEN BeatBytes ELSE n % BeatBytes]
           T == {entry(i) : i \in 1 .. size}
<1>1. Owed(w, n) = [i \in 1 .. size |-> entry(i)]
  BY Zenon DEF Owed
<1>2. size \in Nat
  <2>1. n + BeatBytes - 1 \in Nat
    BY BeatBytesPositive
  <2> QED
    BY <2>1, BeatBytesPositive
<1>3. \A i \in 1 .. size : entry(i) \in T
  OBVIOUS
<1> HIDE DEF size, entry, T
<1>4. [i \in 1 .. size |-> entry(i)] \in [1 .. size -> T]
  BY <1>3
<1>5. Owed(w, n) \in Seq(T)
  BY <1>1, <1>2, <1>4
<1> QED
  BY <1>5

(* A word and n bytes of it, and what is owed for the rest from the word   *)
(* `next' on.                                                              *)
Run(w, n, next, rest) == <<[word |-> w, bytes |-> n]>> \o Owed(next, rest)

(* A run begins with its word.                                             *)
LEMMA RunParts ==
  ASSUME NEW w, NEW n, NEW next, NEW rest \in Nat
  PROVE  /\ Run(w, n, next, rest) # << >>
         /\ Head(Run(w, n, next, rest)) = [word |-> w, bytes |-> n]
         /\ Tail(Run(w, n, next, rest)) = Owed(next, rest)
  BY SequenceFirst, OwedIsSequence, Zenon DEF Run

(* What is owed from a word in use on is a run for every part of it.       *)
LEMMA OwedRun ==
  ASSUME NEW w \in Words, InUse(w), NEW n \in Nat
  PROVE  /\ n >= BeatBytes => Owed(w, n) = Run(w, BeatBytes, NextWord(w), n - BeatBytes)
         /\ n \in 1 .. BeatBytes - 1 => Owed(w, n) = Run(w, n, NextWord(w), 0)
         /\ (Owed(w, n) = << >>) <=> n = 0
<1>1. CASE n = 0
  <2>1. ~(n >= BeatBytes) /\ n \notin 1 .. BeatBytes - 1
    BY <1>1, BeatBytesPositive
  <2>2. Owed(w, n) = << >>
    BY <1>1, OwedNone
  <2> QED
    BY <1>1, <2>1, <2>2
<1>2. CASE n \in 1 .. BeatBytes - 1
  <2> DEFINE beat == [word |-> w, bytes |-> n]
  <2>1. Owed(w, n) = <<beat>>
    BY <1>2, OwedPart
  <2>2. Owed(NextWord(w), 0) = << >>
    BY NextWordType, OwedNone
  <2>3. <<beat>> \o << >> = <<beat>>
    <3> HIDE DEF beat
    <3> QED
      OBVIOUS
  <2>4. Owed(w, n) = Run(w, n, NextWord(w), 0)
    BY <2>1, <2>2, <2>3, Zenon DEF Run
  <2>5. n # 0 /\ ~(n >= BeatBytes)
    BY <1>2, BeatBytesPositive
  <2>6. Owed(w, n) # << >>
    BY <2>4, RunParts
  <2> QED
    BY <2>4, <2>5, <2>6
<1>3. CASE n >= BeatBytes
  <2>1. Owed(w, n) = Run(w, BeatBytes, NextWord(w), n - BeatBytes)
    BY <1>3, OwedWhole, Zenon DEF Run
  <2>2. n - BeatBytes \in Nat /\ n # 0 /\ n \notin 1 .. BeatBytes - 1
    BY <1>3, BeatBytesPositive
  <2>3. Owed(w, n) # << >>
    BY <2>1, <2>2, RunParts
  <2> QED
    BY <2>1, <2>2, <2>3
<1> QED
  BY <1>1, <1>2, <1>3, BeatBytesPositive

(* What a command owes when an engine takes it, in terms of its registers. *)
LEMMA OwedByCommand ==
  ASSUME NEW c \in [addr : Nat, total : Count], Reaches(c), InUse(StartWord(c))
  PROVE  OwedBy(c) = Run(StartWord(c), Cardinality(HeadMask(Offset(c))),
                         NextWord(StartWord(c)), Subtract(c.total, HeadBytes(c)))
<1>1. StartWord(c) \in Words /\ Offset(c) \in 0 .. BeatBytes - 1
  BY StartOfCommand
<1>2. Cardinality(HeadMask(Offset(c))) = HeadBytes(c)
  BY <1>1, MaskCardinality DEF HeadBytes
<1>3. WordAt(StartWord(c), 1) = NextWord(StartWord(c))
  BY <1>1, WordAtNext
<1>4. Subtract(c.total, HeadBytes(c)) = c.total - HeadBytes(c)
  <2>1. c.total \in 0 .. CountMod - 1 /\ CountMod \in Nat \ {0}
    BY CountAssumption, BeatBytesPositive DEF Count
  <2>2. c.total - HeadBytes(c) \in 0 .. CountMod - 1
    BY <1>1, <2>1, BeatBytesPositive DEF Reaches, HeadBytes
  <2> QED
    BY <2>1, <2>2 DEF Subtract
<1> QED
  BY <1>2, <1>3, <1>4, Zenon DEF OwedBy, Run
=============================================================================
