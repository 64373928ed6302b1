------------------------------ MODULE It6613Proofs ------------------------------
(***************************************************************************)
(* Theorems about the two buses of the IT6613 and its driver.              *)
(*                                                                         *)
(* I2cBus: the register access over two wires, for bytes of any width,     *)
(* calls of any length and any set of registers and data.  The induction   *)
(* over the ports follows the transaction from its end: what is left to do *)
(* determines what wires, chip and bytes moved must be.                    *)
(*                                                                         *)
(* Hdcp: the DDC bus and the authentication of the display, for every      *)
(* number of polls and of FIFO loads, and whatever chip and display do     *)
(* between two register accesses.                                          *)
(***************************************************************************)
EXTENDS Hdcp, I2cBus, TLAPS, FiniteSetTheorems, FunctionTheorems, SequenceTheorems,
        WellFoundedInduction

-----------------------------------------------------------------------------
(* Numbers and their bits.                                                 *)

(* Powers of two, as the sizes of the sets of subsets.                     *)
LEMMA PowerType == \A k \in Nat : 2 ^ k \in Nat /\ 2 ^ k > 0
<1> SUFFICES ASSUME NEW k \in Nat PROVE 2 ^ k \in Nat /\ 2 ^ k > 0
  OBVIOUS
<1>1. IsFiniteSet(1 .. k) /\ Cardinality(1 .. k) = k
  BY FS_Interval
<1>2. IsFiniteSet(SUBSET (1 .. k)) /\ Cardinality(SUBSET (1 .. k)) = 2 ^ k
  BY <1>1, FS_SUBSET
<1>3. {} \in SUBSET (1 .. k)
  OBVIOUS
<1> QED
  BY <1>2, <1>3, FS_CardinalityType, FS_EmptySet

LEMMA PowerStep == \A k \in Nat : 2 ^ (k + 1) = 2 * 2 ^ k
<1> SUFFICES ASSUME NEW k \in Nat PROVE 2 ^ (k + 1) = 2 * 2 ^ k
  OBVIOUS
<1> DEFINE S == 1 .. k
           T == 1 .. (k + 1)
           W == {X \in SUBSET T : k + 1 \in X}
           f == [X \in SUBSET S |-> X \cup {k + 1}]
<1>1. IsFiniteSet(S) /\ Cardinality(S) = k /\ IsFiniteSet(T) /\ Cardinality(T) = k + 1
  <2>1. k + 1 \in Nat /\ 1 \in Int
    OBVIOUS
  <2> QED
    BY <2>1, FS_Interval
<1>2. IsFiniteSet(SUBSET S) /\ Cardinality(SUBSET S) = 2 ^ k
  BY <1>1, FS_SUBSET
<1>3. IsFiniteSet(SUBSET T) /\ Cardinality(SUBSET T) = 2 ^ (k + 1)
  BY <1>1, FS_SUBSET
<1>4. SUBSET T = (SUBSET S) \cup W /\ (SUBSET S) \cap W = {}
  <2>1. T = S \cup {k + 1} /\ k + 1 \notin S
    OBVIOUS
  <2> HIDE DEF S, T
  <2> QED
    BY <2>1
<1>5. f \in Bijection(SUBSET S, W)
  <2>1. T = S \cup {k + 1} /\ k + 1 \notin S
    OBVIOUS
  <2> DEFINE m == k + 1
  <2>2. f = [X \in SUBSET S |-> X \cup {m}] /\ W = {X \in SUBSET T : m \in X}
        /\ T = S \cup {m} /\ m \notin S
    BY <2>1
  <2> HIDE DEF S, T, f, W, m
  <2>3. f \in [SUBSET S -> W]
    BY <2>2
  <2>4. ASSUME NEW X \in SUBSET S, NEW Y \in SUBSET S, f[X] = f[Y] PROVE X = Y
    <3>1. X \cup {m} = Y \cup {m}
      BY <2>2, <2>4
    <3>2. m \notin X /\ m \notin Y
      BY <2>2
    <3> QED
      BY <3>1, <3>2
  <2>5. \A Y \in W : \E X \in SUBSET S : f[X] = Y
    <3> TAKE Y \in W
    <3>1. Y \ {m} \in SUBSET S
      BY <2>2
    <3>2. f[Y \ {m}] = (Y \ {m}) \cup {m}
      BY <2>2, <3>1
    <3>3. (Y \ {m}) \cup {m} = Y
      BY <2>2
    <3> QED
      BY <3>1, <3>2, <3>3
  <2> QED
    BY <2>3, <2>4, <2>5, Fun_IsBij
<1>6. IsFiniteSet(W) /\ Cardinality(W) = 2 ^ k
  <2> HIDE DEF f, W, S
  <2> QED
    BY <1>2, <1>5, FS_Bijection DEF ExistsBijection
<1> HIDE DEF S, T, W, f
<1>7. Cardinality((SUBSET S) \cup W) = Cardinality(SUBSET S) + Cardinality(W)
                                        - Cardinality((SUBSET S) \cap W)
  BY <1>2, <1>6, FS_Union
<1> QED
  <2>1. Cardinality((SUBSET S) \cap W) = 0
    BY <1>4, FS_EmptySet
  <2>2. 2 ^ k \in Nat
    BY PowerType
  <2>3. 2 ^ (k + 1) = Cardinality((SUBSET S) \cup W)
    BY <1>3, <1>4
  <2>4. 2 ^ (k + 1) = 2 ^ k + 2 ^ k - 0
    BY <1>2, <1>6, <1>7, <2>1, <2>3
  <2> QED
    BY <2>2, <2>4

(* The byte whose first k bits are those of v, as the loops over them      *)
(* gather it.                                                              *)
Prefix(v, k) == v \div 2 ^ (Bits - k)

(* Division: quotient and remainder, which determine each other, and the   *)
(* bit a shift drops.                                                      *)
LEMMA DivRem ==
  ASSUME NEW v \in Nat, NEW p \in Nat, p > 0
  PROVE  /\ v \div p \in Nat /\ v % p \in 0 .. (p - 1)
         /\ v = p * (v \div p) + (v % p)
OBVIOUS

LEMMA DivUnique ==
  ASSUME NEW v \in Nat, NEW p \in Nat, p > 0, NEW q \in Nat, NEW r \in 0 .. (p - 1),
         v = p * q + r
  PROVE  v \div p = q
<1> DEFINE a == v \div p
           b == v % p
<1>1. a \in Nat /\ b \in 0 .. (p - 1) /\ v = p * a + b
  BY DivRem
<1> HIDE DEF a, b
<1>2. p * a + b = p * q + r
  BY <1>1
<1>3. ASSUME a < q PROVE FALSE
  <2>1. PICK d \in Nat : d > 0 /\ q = a + d
    <3>1. q - a \in Nat /\ q - a > 0 /\ q = a + (q - a)
      BY <1>1, <1>3
    <3> QED
      BY <3>1
  <2>2. p * q = p * a + p * d
    BY <1>1, <2>1
  <2>3. p * d >= p
    BY <2>1
  <2>4. p * a \in Nat /\ p * d \in Nat /\ p * q \in Nat
    BY <1>1, <2>1
  <2> QED
    BY <1>1, <1>2, <2>2, <2>3, <2>4
<1>4. ASSUME q < a PROVE FALSE
  <2>1. PICK d \in Nat : d > 0 /\ a = q + d
    <3>1. a - q \in Nat /\ a - q > 0 /\ a = q + (a - q)
      BY <1>1, <1>4
    <3> QED
      BY <3>1
  <2>2. p * a = p * q + p * d
    BY <1>1, <2>1
  <2>3. p * d >= p
    BY <2>1
  <2>4. p * a \in Nat /\ p * d \in Nat /\ p * q \in Nat
    BY <1>1, <2>1
  <2> QED
    BY <1>1, <1>2, <2>2, <2>3, <2>4
<1> QED
  BY <1>1, <1>3, <1>4 DEF a

LEMMA DivTwice ==
  ASSUME NEW v \in Nat, NEW p \in Nat, p > 0
  PROVE  v \div p = 2 * (v \div (2 * p)) + ((v \div p) % 2)
<1> DEFINE q == v \div p
           r == v % p
           h == q \div 2
           b == q % 2
<1>1. q \in Nat /\ r \in 0 .. (p - 1) /\ v = p * q + r
  BY DivRem
<1>2. h \in Nat /\ b \in 0 .. 1 /\ q = 2 * h + b
  <2> HIDE DEF q
  <2> QED
    BY <1>1
<1>3. 2 * p \in Nat /\ 2 * p > 0
  OBVIOUS
<1> HIDE DEF q, r, h, b
<1>4. v = (2 * p) * h + (p * b + r)
  <2>1. p * q = p * (2 * h) + p * b
    BY <1>2
  <2>2. p * (2 * h) = (2 * p) * h
    BY <1>2
  <2>3. p * (2 * h) \in Nat /\ p * b \in Nat
    BY <1>2
  <2> QED
    BY <1>1, <2>1, <2>2, <2>3
<1>5. p * b + r \in 0 .. (2 * p - 1)
  <2>1. p * b = 0 \/ p * b = p
    BY <1>2
  <2> QED
    BY <1>1, <2>1
<1>6. v \div (2 * p) = h
  BY <1>2, <1>3, <1>4, <1>5, DivUnique
<1> QED
  BY <1>2, <1>6 DEF q, h, b

(* Bytes are naturals, and their bits are bits.                            *)
LEMMA BytesNat == Bytes \subseteq Nat /\ 0 \in Bytes /\ Bits \in Nat /\ Bits > 0
<1>1. Bits \in Nat /\ Bits > 0
  BY I2cBusAssumption
<1>2. 2 ^ Bits \in Nat /\ 2 ^ Bits > 0
  BY <1>1, PowerType
<1> QED
  BY <1>1, <1>2 DEF Bytes

LEMMA BitType == \A v \in Nat, k \in Nat : Bit(v, k) \in {0, 1}
<1> SUFFICES ASSUME NEW v \in Nat, NEW k \in Nat PROVE Bit(v, k) \in {0, 1}
  OBVIOUS
<1> DEFINE p == 2 ^ k
           q == v \div p
<1>1. p \in Nat /\ p > 0
  BY PowerType
<1> HIDE DEF p
<1>2. q \in Nat
  BY <1>1
<1> HIDE DEF q
<1>3. q % 2 \in {0, 1}
  BY <1>2
<1> QED
  BY <1>3 DEF q, p, Bit

(* A byte as its bits go by: nothing of it, one bit more, all of it.       *)
LEMMA PrefixNone == \A v \in Bytes : Prefix(v, 0) = 0
<1> SUFFICES ASSUME NEW v \in Bytes PROVE Prefix(v, 0) = 0
  OBVIOUS
<1> DEFINE p == 2 ^ Bits
<1>1. p \in Nat /\ p > 0
  BY PowerType, BytesNat
<1>2. v \in 0 .. (p - 1) /\ v \in Nat
  BY BytesNat DEF Bytes
<1>3. Prefix(v, 0) = v \div p
  <2>1. Bits - 0 = Bits
    BY BytesNat
  <2> QED
    BY <2>1 DEF Prefix
<1> HIDE DEF p
<1>4. v = p * 0 + v
  BY <1>1, <1>2
<1>5. v \div p = 0
  BY <1>1, <1>2, <1>4, DivUnique
<1> QED
  BY <1>3, <1>5

LEMMA PrefixAll == \A v \in Bytes : Prefix(v, Bits) = v
<1> SUFFICES ASSUME NEW v \in Bytes PROVE Prefix(v, Bits) = v
  OBVIOUS
<1>1. v \in Nat /\ Bits - Bits = 0
  BY BytesNat
<1>2. 2 ^ (Bits - Bits) = 1
  <2> DEFINE z == Bits - Bits
  <2>1. z = 0
    BY <1>1
  <2> HIDE DEF z
  <2>2. 2 ^ 0 = 1
    OBVIOUS
  <2>3. 2 ^ z = 1
    BY <2>1, <2>2
  <2> QED
    BY <2>3 DEF z
<1>3. v \div 1 = v
  BY <1>1
<1> QED
  BY <1>2, <1>3 DEF Prefix

LEMMA PrefixNext ==
  \A v \in Bytes, k \in 0 .. (Bits - 1) :
    Prefix(v, k + 1) = 2 * Prefix(v, k) + Bit(v, Bits - (k + 1))
<1> SUFFICES ASSUME NEW v \in Bytes, NEW k \in 0 .. (Bits - 1)
             PROVE  Prefix(v, k + 1) = 2 * Prefix(v, k) + Bit(v, Bits - (k + 1))
  OBVIOUS
<1> DEFINE m == Bits - (k + 1)
           p == 2 ^ m
<1>1. m \in Nat /\ v \in Nat /\ Bits - k = m + 1
  BY BytesNat
<1>2. p \in Nat /\ p > 0 /\ 2 ^ (m + 1) = 2 * p
  <2> HIDE DEF m
  <2> QED
    BY <1>1, PowerType, PowerStep
<1>3. v \div p = 2 * (v \div (2 * p)) + ((v \div p) % 2)
  <2> HIDE DEF p
  <2> QED
    BY <1>1, <1>2, DivTwice
<1>4. Prefix(v, k + 1) = v \div p /\ Bit(v, Bits - (k + 1)) = (v \div p) % 2
  BY DEF Prefix, Bit
<1>5. Prefix(v, k) = v \div (2 * p)
  <2> HIDE DEF m
  <2> QED
    BY <1>1, <1>2 DEF Prefix
<1> QED
  BY <1>3, <1>4, <1>5

-----------------------------------------------------------------------------
(* Sequences made of sequences.                                            *)

(* Induction over the naturals, from their being well founded.             *)
LEMMA AllNaturals ==
  ASSUME NEW T \in SUBSET Nat, 0 \in T, \A n \in T : n + 1 \in T
  PROVE  T = Nat
<1> DEFINE R == OpToRel(<, Nat)
           U == Nat \ T
<1>1. SUFFICES ASSUME U # {} PROVE FALSE
  OBVIOUS
<1>2. IsWellFoundedOn(R, Nat)
  BY NatLessThanWellFounded
<1>3. PICK x \in U : \A y \in U : ~ (<<y, x>> \in R)
  <2> HIDE DEF R
  <2> QED
    BY <1>1, <1>2, WFMin, Zenon
<1>4. x \in Nat /\ x # 0 /\ x - 1 \in Nat /\ x - 1 \notin T
  OBVIOUS
<1>5. <<x - 1, x>> \in R
  BY <1>4 DEF OpToRel
<1> QED
  BY <1>3, <1>4, <1>5

(* FlattenSeq is what its recursive definition says: the last of a row of  *)
(* sequences, each the one before with one element more behind it.         *)
Joined(f, e, n) == f[0] = << >> /\ \A k \in 1 .. n : f[k] = f[k - 1] \o e[k]

LEMMA JoinedExists ==
  ASSUME NEW S, NEW n \in Nat, NEW e \in [1 .. n -> Seq(S)]
  PROVE  \E f \in [0 .. n -> Seq(S)] : Joined(f, e, n)
<1> DEFINE Row(f, m) == f \in [0 .. m -> Seq(S)] /\ Joined(f, e, m)
           T == {m \in Nat : m <= n => \E f : Row(f, m)}
<1>1. 0 \in T
  <2> DEFINE g == [k \in 0 .. 0 |-> << >>]
  <2>1. g \in [0 .. 0 -> Seq(S)]
    BY EmptySeq
  <2>2. g[0] = << >>
    OBVIOUS
  <2>3. ASSUME NEW k \in 1 .. 0 PROVE g[k] = g[k - 1] \o e[k]
    <3>1. k \in Int /\ 1 <= k /\ k <= 0
      BY <2>3
    <3> QED
      BY <3>1
  <2>4. Row(g, 0)
    BY <2>1, <2>2, <2>3, Zenon DEF Joined
  <2> HIDE DEF g, Row
  <2> QED
    BY <2>4
<1>2. ASSUME NEW m \in T PROVE m + 1 \in T
  <2>1. SUFFICES ASSUME m + 1 <= n PROVE \E f : Row(f, m + 1)
    <3> HIDE DEF Row
    <3> QED
      OBVIOUS
  <2>2. m \in Nat /\ m <= n
    BY <2>1
  <2>3. PICK f : Row(f, m)
    <3> HIDE DEF Row
    <3> QED
      BY <1>2, <2>2
  <2> DEFINE w == f[m] \o e[m + 1]
             g == [k \in 0 .. m + 1 |-> IF k = m + 1 THEN w ELSE f[k]]
  <2>4. w \in Seq(S)
    <3>1. f[m] \in Seq(S) /\ e[m + 1] \in Seq(S)
      BY <2>1, <2>2, <2>3
    <3> QED
      BY <3>1
  <2>5. ASSUME NEW k \in 0 .. m PROVE g[k] = f[k]
    BY <2>2
  <2>6. g[m + 1] = w
    <3>1. m + 1 \in 0 .. m + 1
      BY <2>2
    <3> HIDE DEF w
    <3> QED
      BY <3>1
  <2>7. g \in [0 .. m + 1 -> Seq(S)]
    <3> HIDE DEF w
    <3> QED
      BY <2>2, <2>3, <2>4
  <2> HIDE DEF g
  <2>8. ASSUME NEW k \in 1 .. m + 1 PROVE g[k] = g[k - 1] \o e[k]
    <3>1. CASE k = m + 1
      <4>1. g[k - 1] = f[m]
        BY <2>2, <2>5, <3>1
      <4> QED
        BY <2>6, <3>1, <4>1
    <3>2. CASE k \in 1 .. m
      <4>1. g[k] = f[k] /\ g[k - 1] = f[k - 1]
        BY <2>2, <2>5, <3>2
      <4>2. f[k] = f[k - 1] \o e[k]
        BY <2>3, <3>2 DEF Joined
      <4> QED
        BY <4>1, <4>2
    <3>3. k = m + 1 \/ k \in 1 .. m
      BY <2>2
    <3> QED
      BY <3>1, <3>2, <3>3
  <2>9. g[0] = << >>
    BY <2>2, <2>3, <2>5 DEF Joined
  <2>10. Row(g, m + 1)
    BY <2>7, <2>8, <2>9, Zenon DEF Joined
  <2> HIDE DEF Row
  <2> QED
    BY <2>10
<1>3. T = Nat
  <2> HIDE DEF T
  <2>1. T \in SUBSET Nat
    BY DEF T
  <2> QED
    BY <1>1, <1>2, <2>1, AllNaturals
<1>4. PICK f : Row(f, n)
  <2> HIDE DEF Row
  <2>1. n \in T
    BY <1>3
  <2> QED
    BY <2>1
<1> QED
  BY <1>4

(* The function the definition of FlattenSeq chooses is such a row.        *)
LEMMA FlattenDef ==
  ASSUME NEW S, NEW n \in Nat, NEW e \in [1 .. n -> Seq(S)], NEW f \in [0 .. n -> Seq(S)],
         Joined(f, e, n)
  PROVE  FlattenSeq(e) = f[n]
<1>1. e \in Seq(Seq(S)) /\ Len(e) = n
  BY IsASeq
<1>2. CASE n = 0
  <2>1. e = << >>
    BY <1>1, <1>2, EmptySeq
  <2>2. FlattenSeq(e) = e
    BY <1>1, <1>2 DEF FlattenSeq
  <2> QED
    BY <1>2, <2>1, <2>2 DEF Joined
<1>3. CASE n # 0
  <2> DEFINE D(g) == [k \in 1 .. Len(e) |-> IF k = 1 THEN e[k] ELSE g[k - 1] \o e[k]]
             c == CHOOSE g : g = D(g)
             h == [k \in 1 .. n |-> f[k]]
  <2>1. h = D(h)
    <3>1. ASSUME NEW k \in 1 .. n PROVE h[k] = D(h)[k]
      <4>1. CASE k = 1
        <5>1. f[0] = << >> /\ f[1] = f[0] \o e[1] /\ e[1] \in Seq(S)
          <6>1. 1 \in 1 .. n /\ 1 - 1 = 0
            BY <4>1
          <6> QED
            BY <6>1 DEF Joined
        <5>2. f[1] = e[1]
          BY <5>1
        <5>3. h[1] = f[1] /\ D(h)[1] = e[1]
          BY <1>1, <1>3
        <5> QED
          BY <4>1, <5>2, <5>3
      <4>2. CASE k # 1
        <5>1. k - 1 \in 1 .. n /\ f[k] = f[k - 1] \o e[k]
          <6>1. k - 1 \in 1 .. n
            BY <4>2
          <6> QED
            BY <6>1 DEF Joined
        <5>2. h[k] = f[k] /\ h[k - 1] = f[k - 1]
          BY <5>1
        <5> HIDE DEF h
        <5>3. D(h)[k] = h[k - 1] \o e[k]
          BY <1>1, <4>2
        <5> QED
          BY <5>1, <5>2, <5>3
      <4> QED
        BY <4>1, <4>2
    <3>2. D(h) = [k \in 1 .. n |-> D(h)[k]] /\ h = [k \in 1 .. n |-> h[k]]
      BY <1>1
    <3> QED
      BY <3>1, <3>2
  <2>2. c = D(c)
    <3> HIDE DEF D, h
    <3> QED
      BY <2>1, Zenon
  <2>3. FlattenSeq(e) = c[Len(e)]
    BY <1>1, <1>3 DEF FlattenSeq
  <2> HIDE DEF c, h
  <2>4. c[1] = f[1]
    <3>1. 1 \in 1 .. Len(e) /\ 1 \in 1 .. n /\ 1 - 1 = 0
      BY <1>1, <1>3
    <3>2. D(c)[1] = e[1]
      BY <3>1
    <3>3. f[1] = << >> \o e[1] /\ e[1] \in Seq(S)
      BY <3>1 DEF Joined
    <3> HIDE DEF D
    <3> QED
      BY <2>2, <3>2, <3>3
  <2> DEFINE T == {k \in Nat : k + 1 <= n => c[k + 1] = f[k + 1]}
  <2>5. 0 \in T
    BY <2>4
  <2>6. ASSUME NEW k \in T PROVE k + 1 \in T
    <3>1. SUFFICES ASSUME (k + 1) + 1 <= n PROVE c[(k + 1) + 1] = f[(k + 1) + 1]
      OBVIOUS
    <3> DEFINE m == (k + 1) + 1
    <3>2. m \in 1 .. Len(e) /\ m \in 1 .. n /\ m # 1 /\ m - 1 = k + 1
      BY <1>1, <3>1
    <3>3. c[k + 1] = f[k + 1]
      BY <3>1
    <3> HIDE DEF m
    <3>4. D(c)[m] = c[m - 1] \o e[m]
      BY <3>2
    <3>5. f[m] = f[m - 1] \o e[m]
      BY <3>2 DEF Joined
    <3>6. c[m] = f[m]
      <4> HIDE DEF D
      <4> QED
        BY <2>2, <3>2, <3>3, <3>4, <3>5
    <3> QED
      BY <3>6 DEF m
  <2>7. T = Nat
    <3> HIDE DEF T
    <3>1. T \in SUBSET Nat
      BY DEF T
    <3> QED
      BY <2>5, <2>6, <3>1, AllNaturals
  <2>8. n - 1 \in Nat /\ (n - 1) + 1 = n
    BY <1>3
  <2>9. c[n] = f[n]
    <3>1. n - 1 \in T
      BY <2>7, <2>8
    <3> QED
      BY <2>8, <3>1
  <2> QED
    BY <1>1, <2>3, <2>9
<1> QED
  BY <1>2, <1>3

(* So flattening keeps to the elements, and can be done from the end.      *)
LEMMA FlattenType ==
  ASSUME NEW S, NEW n \in Nat, NEW e \in [1 .. n -> Seq(S)]
  PROVE  FlattenSeq(e) \in Seq(S) /\ (n = 0 => FlattenSeq(e) = << >>)
<1>1. PICK f \in [0 .. n -> Seq(S)] : Joined(f, e, n)
  BY JoinedExists
<1>2. FlattenSeq(e) = f[n]
  BY <1>1, FlattenDef
<1>3. f[n] \in Seq(S)
  BY <1>1
<1> QED
  BY <1>1, <1>2, <1>3 DEF Joined

LEMMA FlattenAppend ==
  ASSUME NEW S, NEW n \in Nat, NEW e \in [1 .. (n + 1) -> Seq(S)], NEW d,
         d = [k \in 1 .. n |-> e[k]]
  PROVE  FlattenSeq(e) = FlattenSeq(d) \o e[n + 1]
<1>1. PICK f \in [0 .. (n + 1) -> Seq(S)] : Joined(f, e, n + 1)
  <2>1. n + 1 \in Nat
    OBVIOUS
  <2> QED
    BY <2>1, JoinedExists
<1>2. FlattenSeq(e) = f[n + 1]
  <2>1. n + 1 \in Nat
    OBVIOUS
  <2> QED
    BY <1>1, <2>1, FlattenDef
<1> DEFINE g == [k \in 0 .. n |-> f[k]]
<1>3. d \in [1 .. n -> Seq(S)] /\ g \in [0 .. n -> Seq(S)]
  OBVIOUS
<1>4. g[0] = << >>
  <2>1. 0 \in 0 .. n
    OBVIOUS
  <2> QED
    BY <1>1, <2>1 DEF Joined
<1>5. ASSUME NEW k \in 1 .. n PROVE g[k] = g[k - 1] \o d[k]
  <2>1. k \in 0 .. n /\ k - 1 \in 0 .. n /\ k \in 1 .. (n + 1)
    BY <1>5
  <2>2. f[k] = f[k - 1] \o e[k]
    BY <1>1, <2>1 DEF Joined
  <2>3. g[k] = f[k] /\ g[k - 1] = f[k - 1] /\ d[k] = e[k]
    BY <2>1
  <2> HIDE DEF g
  <2> QED
    BY <2>2, <2>3
<1>6. g[n] = f[n]
  OBVIOUS
<1> HIDE DEF g
<1>7. Joined(g, d, n)
  BY <1>4, <1>5 DEF Joined
<1>8. FlattenSeq(d) = g[n]
  BY <1>3, <1>7, FlattenDef
<1>9. f[n + 1] = f[n] \o e[n + 1]
  <2>1. n + 1 \in 1 .. (n + 1) /\ (n + 1) - 1 = n
    OBVIOUS
  <2> QED
    BY <1>1, <2>1 DEF Joined
<1> QED
  BY <1>2, <1>6, <1>8, <1>9

LEMMA InARow ==
  ASSUME NEW S, NEW a \in Seq(S), NEW b \in Seq(S), NEW c \in Seq(S)
  PROVE  (a \o b) \o c = a \o (b \o c)
OBVIOUS

(* The first element can be taken off just as well.                        *)
LEMMA FlattenCons ==
  ASSUME NEW S, NEW n \in Nat, NEW e \in [1 .. (n + 1) -> Seq(S)]
  PROVE  FlattenSeq(e) = e[1] \o FlattenSeq([k \in 1 .. n |-> e[k + 1]])
<1> DEFINE Splits(x, m) == FlattenSeq(x) = x[1] \o FlattenSeq([k \in 1 .. m |-> x[k + 1]])
           T == {m \in Nat : \A x \in [1 .. (m + 1) -> Seq(S)] : Splits(x, m)}
<1>1. 0 \in T
  <2> SUFFICES ASSUME NEW x \in [1 .. (0 + 1) -> Seq(S)] PROVE Splits(x, 0)
    <3> HIDE DEF Splits
    <3> QED
      OBVIOUS
  <2> DEFINE d == [k \in 1 .. 0 |-> x[k]]
             r == [k \in 1 .. 0 |-> x[k + 1]]
  <2>1. d \in [1 .. 0 -> Seq(S)] /\ r \in [1 .. 0 -> Seq(S)] /\ x[1] \in Seq(S) /\ 0 \in Nat
    OBVIOUS
  <2>2. FlattenSeq(d) = << >> /\ FlattenSeq(r) = << >>
    <3> HIDE DEF d, r
    <3> QED
      BY <2>1, FlattenType
  <2>3. FlattenSeq(x) = FlattenSeq(d) \o x[0 + 1]
    <3> DEFINE dd == d
    <3>1. dd = [k \in 1 .. 0 |-> x[k]]
      OBVIOUS
    <3> HIDE DEF dd
    <3>2. FlattenSeq(x) = FlattenSeq(dd) \o x[0 + 1]
      BY <2>1, <3>1, FlattenAppend
    <3> QED
      BY <3>2 DEF dd
  <2> HIDE DEF d
  <2>4. FlattenSeq(x) = x[1]
    BY <2>1, <2>2, <2>3
  <2>5. x[1] \o << >> = x[1]
    BY <2>1
  <2> QED
    BY <2>2, <2>4, <2>5
<1>2. ASSUME NEW m \in T PROVE m + 1 \in T
  <2>1. m \in Nat /\ m + 1 \in Nat
    OBVIOUS
  <2> SUFFICES ASSUME NEW x \in [1 .. ((m + 1) + 1) -> Seq(S)] PROVE Splits(x, m + 1)
    <3> HIDE DEF Splits
    <3> QED
      BY <2>1
  <2> DEFINE d == [k \in 1 .. (m + 1) |-> x[k]]
             r == [k \in 1 .. (m + 1) |-> x[k + 1]]
             t == [k \in 1 .. m |-> x[k + 1]]
             l == x[(m + 1) + 1]
  <2>2. /\ d \in [1 .. (m + 1) -> Seq(S)] /\ r \in [1 .. (m + 1) -> Seq(S)]
        /\ t \in [1 .. m -> Seq(S)] /\ x[1] \in Seq(S) /\ l \in Seq(S)
    BY <2>1
  <2>3. d[1] = x[1] /\ [k \in 1 .. m |-> d[k + 1]] = t /\ t = [k \in 1 .. m |-> r[k]]
        /\ r[m + 1] = l
    BY <2>1
  <2>4. FlattenSeq(x) = FlattenSeq(d) \o l
    <3> DEFINE dd == d
    <3>1. dd = [k \in 1 .. (m + 1) |-> x[k]]
      OBVIOUS
    <3> HIDE DEF dd
    <3>2. FlattenSeq(x) = FlattenSeq(dd) \o x[(m + 1) + 1]
      BY <2>1, <3>1, FlattenAppend
    <3> QED
      BY <3>2 DEF dd
  <2>5. FlattenSeq(d) = x[1] \o FlattenSeq(t)
    <3>1. Splits(d, m)
      <4>1. \A z \in [1 .. (m + 1) -> Seq(S)] : Splits(z, m)
        <5> HIDE DEF Splits
        <5> QED
          BY <1>2
      <4> HIDE DEF Splits, d
      <4> QED
        BY <2>2, <4>1
    <3> HIDE DEF d
    <3> QED
      BY <2>3, <3>1
  <2>6. FlattenSeq(r) = FlattenSeq(t) \o l
    <3> HIDE DEF r, t, l
    <3> QED
      BY <2>1, <2>2, <2>3, FlattenAppend
  <2>7. FlattenSeq(t) \in Seq(S)
    <3> HIDE DEF t
    <3> QED
      BY <2>1, <2>2, FlattenType
  <2>8. FlattenSeq(x) = x[1] \o FlattenSeq(r)
    <3>1. PICK u \in Seq(S) : u = x[1]
      BY <2>2
    <3>2. PICK w \in Seq(S) : w = FlattenSeq(t)
      BY <2>7
    <3>3. PICK z \in Seq(S) : z = l
      BY <2>2
    <3> HIDE DEF r, t, l, d, T, Splits
    <3>4. (u \o w) \o z = u \o (w \o z)
      BY InARow, SMTT(60)
    <3> QED
      BY <2>4, <2>5, <2>6, <3>1, <3>2, <3>3, <3>4
  <2> QED
    BY <2>8
<1>3. T = Nat
  <2> HIDE DEF T
  <2>1. T \in SUBSET Nat
    BY DEF T
  <2> QED
    BY <1>1, <1>2, <2>1, AllNaturals
<1>4. Splits(e, n)
  <2>1. n \in T
    BY <1>3
  <2> HIDE DEF Splits
  <2> QED
    BY <2>1
<1> QED
  BY <1>4

-----------------------------------------------------------------------------
(* Sequences of port accesses and of parts, from their first element on.   *)

Ahead(op, s) == <<op>> \o s

LEMMA AheadFacts ==
  ASSUME NEW S, NEW op \in S, NEW s \in Seq(S)
  PROVE  /\ Ahead(op, s) \in Seq(S) /\ Ahead(op, s) # << >>
         /\ Head(Ahead(op, s)) = op /\ Tail(Ahead(op, s)) = s
BY DEF Ahead

Ops == {"SCL_HIGH", "SCL_LOW", "SDA_DIR_OUT", "SDA_DIR_IN", "SDA_HIGH", "SDA_LOW", "start",
        "stop", "ack", "clear", "bit", "store"}
Parts == {"start", "restart", "device", "register", "data", "again", "more", "last", "stop"}

LEMMA OpAhead ==
  \A op \in Ops, s \in Seq(Ops) :
     /\ Ahead(op, s) \in Seq(Ops) /\ Ahead(op, s) # << >>
     /\ Head(Ahead(op, s)) = op /\ Tail(Ahead(op, s)) = s
BY AheadFacts

LEMMA PartAhead ==
  \A op \in Parts, s \in Seq(Parts) :
     /\ Ahead(op, s) \in Seq(Parts) /\ Ahead(op, s) # << >>
     /\ Head(Ahead(op, s)) = op /\ Tail(Ahead(op, s)) = s
BY AheadFacts

(* A sequence of a few elements, one after the other.                      *)
LEMMA Row2 ==
  ASSUME NEW S, NEW a \in S, NEW b \in S
  PROVE  <<a, b>> = <<a>> \o <<b>> /\ <<a>> \in Seq(S) /\ <<b>> \in Seq(S)
<1>1. <<a, b>> = Append(<<a>>, b)
  OBVIOUS
<1>2. <<a>> \o <<b>> = Append(<<a>>, b)
  OBVIOUS
<1>3. <<a>> \in Seq(S) /\ <<b>> \in Seq(S)
  OBVIOUS
<1> QED
  BY <1>1, <1>2, <1>3

LEMMA Unfold1 ==
  ASSUME NEW S, NEW a \in S, NEW s \in Seq(S)
  PROVE  <<a>> \o s = Ahead(a, s)
BY DEF Ahead

LEMMA Unfold2 ==
  ASSUME NEW S, NEW a \in S, NEW b \in S, NEW s \in Seq(S)
  PROVE  <<a, b>> \o s = Ahead(a, Ahead(b, s))
<1>1. <<a, b>> = <<a>> \o <<b>> /\ <<a>> \in Seq(S) /\ <<b>> \in Seq(S)
  BY Row2
<1>2. (<<a>> \o <<b>>) \o s = <<a>> \o (<<b>> \o s)
  BY <1>1, InARow
<1> QED
  BY <1>1, <1>2 DEF Ahead

LEMMA Unfold3 ==
  ASSUME NEW S, NEW a \in S, NEW b \in S, NEW c \in S, NEW s \in Seq(S)
  PROVE  <<a, b, c>> \o s = Ahead(a, Ahead(b, Ahead(c, s)))
<1>1. <<a, b, c>> = <<a>> \o <<b, c>> /\ <<a>> \in Seq(S) /\ <<b, c>> \in Seq(S)
  OBVIOUS
<1>2. (<<a>> \o <<b, c>>) \o s = <<a>> \o (<<b, c>> \o s)
  BY <1>1, InARow
<1>3. <<b, c>> \o s = Ahead(b, Ahead(c, s))
  BY Unfold2
<1> QED
  BY <1>1, <1>2, <1>3 DEF Ahead

LEMMA Unfold4 ==
  ASSUME NEW S, NEW a \in S, NEW b \in S, NEW c \in S, NEW d \in S, NEW s \in Seq(S)
  PROVE  <<a, b, c, d>> \o s = Ahead(a, Ahead(b, Ahead(c, Ahead(d, s))))
<1>1. <<a, b, c, d>> = <<a>> \o <<b, c, d>> /\ <<a>> \in Seq(S) /\ <<b, c, d>> \in Seq(S)
  OBVIOUS
<1>2. (<<a>> \o <<b, c, d>>) \o s = <<a>> \o (<<b, c, d>> \o s)
  BY <1>1, InARow
<1>3. <<b, c, d>> \o s = Ahead(b, Ahead(c, Ahead(d, s)))
  BY Unfold3
<1> QED
  BY <1>1, <1>2, <1>3 DEF Ahead

LEMMA Unfolded4 ==
  ASSUME NEW S, NEW a \in S, NEW b \in S, NEW c \in S, NEW d \in S
  PROVE  <<a, b, c, d>> = Ahead(a, Ahead(b, Ahead(c, Ahead(d, << >>))))
<1>1. << >> \in Seq(S) /\ <<a, b, c, d>> \in Seq(S)
  OBVIOUS
<1>2. PICK z \in Seq(S) : z = << >>
  BY <1>1
<1>3. <<a, b, c, d>> \o z = Ahead(a, Ahead(b, Ahead(c, Ahead(d, z))))
  BY Unfold4
<1>4. <<a, b, c, d>> \o << >> = <<a, b, c, d>>
  BY <1>1
<1> QED
  BY <1>2, <1>3, <1>4

(* What is left of the ports of i2c_write(v) after k bits of it.           *)
Level(v, k) == IF Bit(v, Bits - k) = 1 THEN "SDA_HIGH" ELSE "SDA_LOW"
BitOut(v, k) == <<"SCL_LOW", Level(v, k), "SCL_HIGH", "SCL_LOW">>
AckOps == <<"SDA_DIR_IN", "SCL_HIGH", "ack", "SCL_LOW">>
WriteRest(v, k) == FlattenSeq([j \in 1 .. (Bits - k) |-> BitOut(v, k + j)]) \o AckOps

(* i2c_write: its ports from each bit on.                                  *)
LEMMA WriteOps ==
  /\ \A v \in Bytes :
       i2c_write(v) = Ahead("SDA_DIR_OUT", WriteRest(v, 0))
  /\ \A v \in Bytes, k \in 0 .. Bits : WriteRest(v, k) \in Seq(Ops)
  /\ \A v \in Bytes, k \in 0 .. (Bits - 1) :
       WriteRest(v, k) = Ahead("SCL_LOW", Ahead(Level(v, k + 1), Ahead("SCL_HIGH",
                           Ahead("SCL_LOW", WriteRest(v, k + 1)))))
  /\ \A v \in Bytes :
       WriteRest(v, Bits) = Ahead("SDA_DIR_IN", Ahead("SCL_HIGH", Ahead("ack",
                              Ahead("SCL_LOW", << >>))))
<1>1. AckOps \in Seq(Ops)
  BY DEF AckOps, Ops
<1>2. \A v, k : Level(v, k) \in Ops
  BY DEF Level, Ops
<1>3. \A v, k : BitOut(v, k) \in Seq(Ops)
  <2> TAKE v, k
  <2>1. Level(v, k) \in Ops /\ "SCL_LOW" \in Ops /\ "SCL_HIGH" \in Ops
    BY <1>2 DEF Ops
  <2> HIDE DEF Ops
  <2> QED
    BY <2>1 DEF BitOut
<1>4. ASSUME NEW v \in Bytes, NEW k \in 0 .. Bits PROVE WriteRest(v, k) \in Seq(Ops)
  <2> DEFINE e == [j \in 1 .. (Bits - k) |-> BitOut(v, k + j)]
             n == Bits - k
  <2>1. n \in Nat
    BY BytesNat
  <2>2. e \in [1 .. n -> Seq(Ops)]
    BY <1>3
  <2>3. FlattenSeq(e) \in Seq(Ops)
    <3> HIDE DEF e, n
    <3> QED
      BY <2>1, <2>2, FlattenType
  <2> HIDE DEF e
  <2>4. FlattenSeq(e) \o AckOps \in Seq(Ops)
    BY <1>1, <2>3
  <2> QED
    BY <2>4 DEF e, WriteRest
<1>5. ASSUME NEW v \in Bytes, NEW k \in 0 .. (Bits - 1)
      PROVE  WriteRest(v, k) = Ahead("SCL_LOW", Ahead(Level(v, k + 1), Ahead("SCL_HIGH",
                                 Ahead("SCL_LOW", WriteRest(v, k + 1)))))
  <2> DEFINE e == [j \in 1 .. (Bits - k) |-> BitOut(v, k + j)]
             n == Bits - (k + 1)
             d == [j \in 1 .. n |-> BitOut(v, (k + 1) + j)]
  <2>1. n \in Nat /\ Bits - k = n + 1
    BY BytesNat
  <2>2. e \in [1 .. (n + 1) -> Seq(Ops)]
    BY <1>3, <2>1
  <2>3. e[1] = BitOut(v, k + 1)
    BY <2>1
  <2>4. [j \in 1 .. n |-> e[j + 1]] = d
    <3>1. ASSUME NEW j \in 1 .. n PROVE e[j + 1] = BitOut(v, (k + 1) + j)
      <4>1. j + 1 \in 1 .. (Bits - k) /\ k + (j + 1) = (k + 1) + j
        BY <2>1
      <4> QED
        BY <4>1
    <3> HIDE DEF e
    <3> QED
      BY <3>1
  <2>5. FlattenSeq(e) = BitOut(v, k + 1) \o FlattenSeq(d)
    <3>1. FlattenSeq(e) = e[1] \o FlattenSeq([j \in 1 .. n |-> e[j + 1]])
      <4> HIDE DEF e, n, d
      <4> QED
        BY <2>1, <2>2, FlattenCons
    <3> HIDE DEF e, d
    <3> QED
      BY <2>3, <2>4, <3>1
  <2>6. FlattenSeq(d) \in Seq(Ops)
    <3>1. d \in [1 .. n -> Seq(Ops)]
      BY <1>3
    <3> HIDE DEF d, n
    <3> QED
      BY <2>1, <3>1, FlattenType
  <2>7. WriteRest(v, k) = BitOut(v, k + 1) \o WriteRest(v, k + 1)
    <3>1. WriteRest(v, k) = FlattenSeq(e) \o AckOps /\ WriteRest(v, k + 1) = FlattenSeq(d) \o AckOps
      BY DEF WriteRest
    <3> HIDE DEF e, d
    <3>2. (BitOut(v, k + 1) \o FlattenSeq(d)) \o AckOps = BitOut(v, k + 1) \o (FlattenSeq(d) \o AckOps)
      BY <1>1, <1>3, <2>6, InARow, SMTT(30)
    <3> QED
      BY <2>5, <3>1, <3>2
  <2>8. WriteRest(v, k + 1) \in Seq(Ops)
    <3>1. k + 1 \in 0 .. Bits
      BY BytesNat
    <3> QED
      BY <1>4, <3>1
  <2>9. "SCL_LOW" \in Ops /\ "SCL_HIGH" \in Ops /\ Level(v, k + 1) \in Ops
    BY <1>2 DEF Ops
  <2>10. <<"SCL_LOW", Level(v, k + 1), "SCL_HIGH", "SCL_LOW">> \o WriteRest(v, k + 1)
           = Ahead("SCL_LOW", Ahead(Level(v, k + 1), Ahead("SCL_HIGH",
               Ahead("SCL_LOW", WriteRest(v, k + 1)))))
    BY <2>8, <2>9, Unfold4
  <2> QED
    BY <2>7, <2>10 DEF BitOut
<1>6. ASSUME NEW v \in Bytes
      PROVE  WriteRest(v, Bits) = Ahead("SDA_DIR_IN", Ahead("SCL_HIGH", Ahead("ack",
                                    Ahead("SCL_LOW", << >>))))
  <2> DEFINE e == [j \in 1 .. (Bits - Bits) |-> BitOut(v, Bits + j)]
  <2>1. e \in [1 .. 0 -> Seq(Ops)]
    <3>1. Bits - Bits = 0
      BY BytesNat
    <3> QED
      BY <1>3, <3>1
  <2>2. FlattenSeq(e) = << >>
    <3> HIDE DEF e
    <3>1. 0 \in Nat
      OBVIOUS
    <3> QED
      BY <2>1, <3>1, FlattenType
  <2>3. WriteRest(v, Bits) = << >> \o AckOps
    <3> HIDE DEF e
    <3>1. WriteRest(v, Bits) = FlattenSeq(e) \o AckOps
      BY DEF WriteRest, e
    <3> QED
      BY <2>2, <3>1
  <2>4. "SDA_DIR_IN" \in Ops /\ "SCL_HIGH" \in Ops /\ "ack" \in Ops /\ "SCL_LOW" \in Ops
    BY DEF Ops
  <2>5. <<"SDA_DIR_IN", "SCL_HIGH", "ack", "SCL_LOW">>
          = Ahead("SDA_DIR_IN", Ahead("SCL_HIGH", Ahead("ack", Ahead("SCL_LOW", << >>))))
    BY <2>4, Unfolded4
  <2>6. << >> \o AckOps = AckOps
    BY <1>1
  <2> QED
    BY <2>3, <2>5, <2>6 DEF AckOps
<1>7. ASSUME NEW v \in Bytes PROVE i2c_write(v) = Ahead("SDA_DIR_OUT", WriteRest(v, 0))
  <2> DEFINE e == [j \in 1 .. (Bits - 0) |-> BitOut(v, 0 + j)]
             d == [k \in 1 .. Bits |-> <<"SCL_LOW", IF Bit(v, Bits - k) = 1 THEN "SDA_HIGH"
                                          ELSE "SDA_LOW", "SCL_HIGH", "SCL_LOW">>]
  <2>1. d = e
    <3>1. Bits - 0 = Bits
      BY BytesNat
    <3>2. ASSUME NEW k \in 1 .. Bits PROVE d[k] = e[k]
      <4>1. 0 + k = k
        OBVIOUS
      <4> QED
        BY <3>1, <4>1 DEF BitOut, Level
    <3> QED
      BY <3>1, <3>2
  <2>2. i2c_write(v) = <<"SDA_DIR_OUT">> \o FlattenSeq(d) \o AckOps
    BY DEF i2c_write, AckOps
  <2>3. FlattenSeq(e) \in Seq(Ops)
    <3>1. e \in [1 .. Bits -> Seq(Ops)]
      <4>1. Bits - 0 = Bits
        BY BytesNat
      <4> QED
        BY <1>3, <4>1
    <3> HIDE DEF e
    <3> QED
      BY <3>1, FlattenType, BytesNat
  <2>4. WriteRest(v, 0) = FlattenSeq(e) \o AckOps
    BY DEF WriteRest
  <2> HIDE DEF e, d
  <2>5. <<"SDA_DIR_OUT">> \in Seq(Ops)
    BY DEF Ops
  <2>6. (<<"SDA_DIR_OUT">> \o FlattenSeq(e)) \o AckOps = <<"SDA_DIR_OUT">> \o (FlattenSeq(e) \o AckOps)
    BY <1>1, <2>3, <2>5, InARow
  <2> QED
    BY <2>1, <2>2, <2>4, <2>6 DEF Ahead
<1> QED
  BY <1>4, <1>5, <1>6, <1>7

(* A sequence n times.                                                     *)
LEMMA TimesFacts ==
  ASSUME NEW S, NEW s \in Seq(S)
  PROVE  /\ Times(0, s) = << >>
         /\ \A n \in Nat : Times(n, s) \in Seq(S) /\ Times(n + 1, s) = s \o Times(n, s)
<1>1. ASSUME NEW n \in Nat PROVE Times(n, s) \in Seq(S) /\ (n = 0 => Times(n, s) = << >>)
  <2> DEFINE e == [k \in 1 .. n |-> s]
  <2>1. e \in [1 .. n -> Seq(S)]
    OBVIOUS
  <2>2. Times(n, s) = FlattenSeq(e)
    BY DEF Times
  <2> HIDE DEF e
  <2> QED
    BY <2>1, <2>2, FlattenType
<1>2. ASSUME NEW n \in Nat PROVE Times(n + 1, s) = s \o Times(n, s)
  <2> DEFINE e == [k \in 1 .. (n + 1) |-> s]
             d == [k \in 1 .. n |-> e[k + 1]]
  <2>1. e \in [1 .. (n + 1) -> Seq(S)] /\ e[1] = s /\ d = [k \in 1 .. n |-> s]
    OBVIOUS
  <2>2. Times(n + 1, s) = FlattenSeq(e) /\ Times(n, s) = FlattenSeq(d)
    BY <2>1 DEF Times
  <2>3. FlattenSeq(e) = e[1] \o FlattenSeq(d)
    <3>1. PICK x \in [1 .. (n + 1) -> Seq(S)] : x = e
      BY <2>1
    <3> HIDE DEF e, d
    <3>2. FlattenSeq(x) = x[1] \o FlattenSeq([k \in 1 .. n |-> x[k + 1]])
      BY FlattenCons
    <3> QED
      BY <3>1, <3>2 DEF d
  <2> HIDE DEF e, d
  <2> QED
    BY <2>1, <2>2, <2>3
<1> QED
  BY <1>1, <1>2

(* What is left of the ports of i2c_read after k bits of it.               *)
BitIn == <<"SCL_HIGH", "bit", "SCL_LOW">>
ReadRest(b, k) == Times(Bits - k, BitIn) \o Answer(b)
AckLevel(b) == IF b THEN "SDA_LOW" ELSE "SDA_HIGH"
Stores == Ahead("SDA_LOW", Ahead("store", << >>))

(* The acknowledge of i2c_read.                                            *)
LEMMA AnswerOps ==
  \A b \in BOOLEAN :
    /\ Answer(b) \in Seq(Ops)
    /\ Answer(b) = Ahead("SCL_LOW", Ahead("SDA_DIR_OUT", Ahead(AckLevel(b), Ahead("SCL_HIGH",
                     Ahead("SCL_LOW", Stores)))))
<1> SUFFICES ASSUME NEW b \in BOOLEAN
             PROVE  /\ Answer(b) \in Seq(Ops)
                    /\ Answer(b) = Ahead("SCL_LOW", Ahead("SDA_DIR_OUT", Ahead(AckLevel(b),
                                     Ahead("SCL_HIGH", Ahead("SCL_LOW", Stores)))))
  OBVIOUS
<1>1. /\ "SCL_LOW" \in Ops /\ "SDA_DIR_OUT" \in Ops /\ AckLevel(b) \in Ops /\ "SCL_HIGH" \in Ops
      /\ "SDA_LOW" \in Ops /\ "store" \in Ops
  BY DEF Ops, AckLevel
<1>2. PICK l \in Ops : l = AckLevel(b)
  BY <1>1
<1>3. Answer(b) = <<"SCL_LOW", "SDA_DIR_OUT", l, "SCL_HIGH", "SCL_LOW", "SDA_LOW", "store">>
  BY <1>2 DEF Answer, AckLevel
<1> HIDE DEF Ops
<1>4. PICK x \in Seq(Ops) : x = <<"SCL_HIGH", "SCL_LOW", "SDA_LOW", "store">>
  <2>1. <<"SCL_HIGH", "SCL_LOW", "SDA_LOW", "store">> \in Seq(Ops)
    BY <1>1
  <2> QED
    BY <2>1
<1>5. x = Ahead("SCL_HIGH", Ahead("SCL_LOW", Ahead("SDA_LOW", Ahead("store", << >>))))
  BY <1>1, <1>4, Unfolded4
<1>6. Answer(b) = <<"SCL_LOW", "SDA_DIR_OUT", l>> \o x
  BY <1>3, <1>4
<1>7. <<"SCL_LOW", "SDA_DIR_OUT", l>> \o x = Ahead("SCL_LOW", Ahead("SDA_DIR_OUT", Ahead(l, x)))
  BY <1>1, Unfold3
<1>8. Answer(b) \in Seq(Ops)
  <2>1. <<"SCL_LOW", "SDA_DIR_OUT", l>> \in Seq(Ops)
    BY <1>1
  <2> QED
    BY <1>6, <2>1
<1> QED
  BY <1>2, <1>5, <1>6, <1>7, <1>8 DEF Stores

(* i2c_read: its ports from each bit on.                                   *)
LEMMA ReadOps ==
  /\ \A b \in BOOLEAN :
       i2c_read(b) = Ahead("clear", Ahead("SDA_DIR_IN", Ahead("SCL_LOW", ReadRest(b, 0))))
  /\ \A b \in BOOLEAN, k \in 0 .. Bits : ReadRest(b, k) \in Seq(Ops)
  /\ \A b \in BOOLEAN, k \in 0 .. (Bits - 1) :
       ReadRest(b, k) = Ahead("SCL_HIGH", Ahead("bit", Ahead("SCL_LOW", ReadRest(b, k + 1))))
  /\ \A b \in BOOLEAN : ReadRest(b, Bits) = Answer(b)
<1>1. /\ "SCL_LOW" \in Ops /\ "SCL_HIGH" \in Ops /\ "bit" \in Ops /\ "clear" \in Ops
      /\ "SDA_DIR_IN" \in Ops
  BY DEF Ops
<1>2. BitIn \in Seq(Ops)
  <2> HIDE DEF Ops
  <2> QED
    BY <1>1 DEF BitIn
<1>3. ASSUME NEW b \in BOOLEAN, NEW k \in 0 .. Bits PROVE ReadRest(b, k) \in Seq(Ops)
  <2>1. Bits - k \in Nat
    BY BytesNat
  <2>2. Times(Bits - k, BitIn) \in Seq(Ops) /\ Answer(b) \in Seq(Ops)
    BY <1>2, <2>1, TimesFacts, AnswerOps
  <2> QED
    BY <2>2 DEF ReadRest
<1>4. ASSUME NEW b \in BOOLEAN, NEW k \in 0 .. (Bits - 1)
      PROVE  ReadRest(b, k) = Ahead("SCL_HIGH", Ahead("bit", Ahead("SCL_LOW", ReadRest(b, k + 1))))
  <2>1. PICK n \in Nat : n = Bits - (k + 1) /\ Bits - k = n + 1
    <3>1. Bits - (k + 1) \in Nat /\ Bits - k = (Bits - (k + 1)) + 1
      BY BytesNat
    <3> QED
      BY <3>1
  <2>2. Times(n + 1, BitIn) = BitIn \o Times(n, BitIn) /\ Times(n, BitIn) \in Seq(Ops)
    BY <1>2, TimesFacts
  <2>3. Answer(b) \in Seq(Ops)
    BY AnswerOps
  <2>4. (BitIn \o Times(n, BitIn)) \o Answer(b) = BitIn \o (Times(n, BitIn) \o Answer(b))
    <3>1. PICK x \in Seq(Ops) : x = BitIn
      BY <1>2
    <3>2. PICK y \in Seq(Ops) : y = Times(n, BitIn)
      BY <2>2
    <3>3. PICK z \in Seq(Ops) : z = Answer(b)
      BY <2>3
    <3>4. (x \o y) \o z = x \o (y \o z)
      BY InARow
    <3> QED
      BY <3>1, <3>2, <3>3, <3>4
  <2>5. ReadRest(b, k) = BitIn \o ReadRest(b, k + 1)
    BY <2>1, <2>2, <2>4 DEF ReadRest
  <2>6. ReadRest(b, k + 1) \in Seq(Ops)
    <3>1. k + 1 \in 0 .. Bits
      BY BytesNat
    <3> QED
      BY <1>3, <3>1
  <2>7. <<"SCL_HIGH", "bit", "SCL_LOW">> \o ReadRest(b, k + 1)
          = Ahead("SCL_HIGH", Ahead("bit", Ahead("SCL_LOW", ReadRest(b, k + 1))))
    BY <1>1, <2>6, Unfold3
  <2> QED
    BY <2>5, <2>7 DEF BitIn
<1>5. ASSUME NEW b \in BOOLEAN PROVE ReadRest(b, Bits) = Answer(b)
  <2>1. Bits - Bits = 0
    BY BytesNat
  <2>2. Times(0, BitIn) = << >>
    BY <1>2, TimesFacts
  <2>3. << >> \o Answer(b) = Answer(b)
    BY AnswerOps
  <2> QED
    BY <2>1, <2>2, <2>3 DEF ReadRest
<1>6. ASSUME NEW b \in BOOLEAN
      PROVE  i2c_read(b) = Ahead("clear", Ahead("SDA_DIR_IN", Ahead("SCL_LOW", ReadRest(b, 0))))
  <2>1. Bits - 0 = Bits /\ Bits \in Nat /\ 0 \in 0 .. Bits
    BY BytesNat
  <2>2. i2c_read(b) = (<<"clear", "SDA_DIR_IN", "SCL_LOW">> \o Times(Bits, BitIn)) \o Answer(b)
    BY DEF i2c_read, BitIn
  <2>3. PICK a \in Seq(Ops) : a = <<"clear", "SDA_DIR_IN", "SCL_LOW">>
    <3> HIDE DEF Ops
    <3>1. <<"clear", "SDA_DIR_IN", "SCL_LOW">> \in Seq(Ops)
      BY <1>1
    <3> QED
      BY <3>1
  <2>4. Times(Bits, BitIn) \in Seq(Ops) /\ Answer(b) \in Seq(Ops)
    BY <1>2, <2>1, TimesFacts, AnswerOps
  <2>5. (a \o Times(Bits, BitIn)) \o Answer(b) = a \o (Times(Bits, BitIn) \o Answer(b))
    BY <2>4, InARow
  <2>6. i2c_read(b) = <<"clear", "SDA_DIR_IN", "SCL_LOW">> \o ReadRest(b, 0)
    BY <2>1, <2>2, <2>3, <2>5 DEF ReadRest
  <2>7. ReadRest(b, 0) \in Seq(Ops)
    BY <1>3, <2>1
  <2>8. <<"clear", "SDA_DIR_IN", "SCL_LOW">> \o ReadRest(b, 0)
          = Ahead("clear", Ahead("SDA_DIR_IN", Ahead("SCL_LOW", ReadRest(b, 0))))
    BY <1>1, <2>7, Unfold3
  <2> QED
    BY <2>6, <2>8
<1> QED
  BY <1>3, <1>4, <1>5, <1>6

(* Starts and stops.                                                       *)
LEMMA EdgeOps ==
  /\ i2c_start = Ahead("SDA_DIR_OUT", Ahead("SDA_HIGH", Ahead("SCL_HIGH", Ahead("start",
                   Ahead("SCL_LOW", << >>)))))
  /\ i2c_stop = Ahead("SDA_DIR_OUT", Ahead("SDA_LOW", Ahead("SCL_HIGH", Ahead("stop", << >>))))
<1>1. /\ "SCL_LOW" \in Ops /\ "SDA_DIR_OUT" \in Ops /\ "SCL_HIGH" \in Ops
      /\ "SDA_LOW" \in Ops /\ "SDA_HIGH" \in Ops /\ "start" \in Ops /\ "stop" \in Ops
  BY DEF Ops
<1> HIDE DEF Ops
<1>2. <<"SDA_DIR_OUT", "SDA_LOW", "SCL_HIGH", "stop">>
        = Ahead("SDA_DIR_OUT", Ahead("SDA_LOW", Ahead("SCL_HIGH", Ahead("stop", << >>))))
  BY <1>1, Unfolded4
<1>3. PICK w \in Seq(Ops) : w = <<"SDA_HIGH", "SCL_HIGH", "start", "SCL_LOW">>
  <2>1. <<"SDA_HIGH", "SCL_HIGH", "start", "SCL_LOW">> \in Seq(Ops)
    BY <1>1
  <2> QED
    BY <2>1
<1>4. w = Ahead("SDA_HIGH", Ahead("SCL_HIGH", Ahead("start", Ahead("SCL_LOW", << >>))))
  BY <1>1, <1>3, Unfolded4
<1>5. i2c_start = <<"SDA_DIR_OUT">> \o w
  BY <1>3 DEF i2c_start
<1>6. i2c_start = Ahead("SDA_DIR_OUT", w)
  BY <1>5 DEF Ahead
<1> QED
  BY <1>2, <1>4, <1>6 DEF i2c_stop

(* What a call asks for.                                                   *)
LEMMA RequestFacts ==
  ASSUME NEW c \in Requests
  PROVE  /\ c.kind \in {"write", "read", "burst"} /\ c.reg \in Bytes /\ c.reg \in Nat
         /\ c.len \in 1 .. MaxLen /\ c.len \in Nat /\ c # NoCall
         /\ c.kind = "write" => \A k \in 1 .. c.len : c.data[k] \in Bytes
<1>1. PICK n \in 1 .. MaxLen :
        c \in [kind : {"write"}, reg : Starts, len : {n}, data : [1 .. n -> Data]]
                \cup [kind : {"read", "burst"}, reg : Starts, len : {n}]
  BY DEF Requests
<1>2. n \in Nat /\ Starts \subseteq Bytes /\ Data \subseteq Bytes
  BY I2cBusAssumption
<1>3. CASE c \in [kind : {"write"}, reg : Starts, len : {n}, data : [1 .. n -> Data]]
  <2>1. c.kind = "write" /\ c.reg \in Starts /\ c.len = n /\ c.data \in [1 .. n -> Data]
    BY <1>3
  <2>2. c # NoCall
    <3>1. NoCall.kind = "none"
      BY DEF NoCall
    <3> QED
      BY <2>1, <3>1
  <2> QED
    BY <1>2, <2>1, <2>2, BytesNat
<1>4. CASE c \in [kind : {"read", "burst"}, reg : Starts, len : {n}]
  <2>1. c.kind \in {"read", "burst"} /\ c.reg \in Starts /\ c.len = n
    BY <1>4
  <2>2. c # NoCall
    <3>1. NoCall.kind = "none"
      BY DEF NoCall
    <3> QED
      BY <2>1, <3>1
  <2> QED
    BY <1>2, <2>1, <2>2, BytesNat
<1> QED
  BY <1>1, <1>3, <1>4

(* What is left of a transaction, from each of its parts on.               *)
Size(c) == IF c.kind = "burst" THEN c.len ELSE 1
StopPlan == Ahead("stop", << >>)
DataPlan == Ahead("data", StopPlan)
BytesPlan(r) == IF r = 0 THEN StopPlan
                ELSE Times(r - 1, <<"more">>) \o <<"last", "stop">>
AgainPlan(c) == Ahead("again", BytesPlan(Size(c)))
RestartPlan(c) == Ahead(IF c.kind = "burst" THEN "restart" ELSE "start", AgainPlan(c))
AddressedPlan(c) == IF c.kind = "write" THEN DataPlan ELSE RestartPlan(c)
RegisterPlan(c) == Ahead("register", AddressedPlan(c))
DevicePlan(c) == Ahead("device", RegisterPlan(c))
StartPlan(c) == Ahead("start", DevicePlan(c))

LEMMA PartNames ==
  /\ "start" \in Parts /\ "restart" \in Parts /\ "device" \in Parts /\ "register" \in Parts
  /\ "data" \in Parts /\ "again" \in Parts /\ "more" \in Parts /\ "last" \in Parts
  /\ "stop" \in Parts
BY DEF Parts

(* The bytes of I2C_MultipleRead, one by one, the last without an          *)
(* acknowledge.                                                            *)
LEMMA BytesPlans ==
  \A r \in Nat :
    /\ BytesPlan(r) \in Seq(Parts)
    /\ r = 0 => BytesPlan(r) = StopPlan
    /\ r # 0 => BytesPlan(r) = Ahead(IF r = 1 THEN "last" ELSE "more", BytesPlan(r - 1))
<1> SUFFICES ASSUME NEW r \in Nat
             PROVE  /\ BytesPlan(r) \in Seq(Parts)
                    /\ r = 0 => BytesPlan(r) = StopPlan
                    /\ r # 0 => BytesPlan(r) = Ahead(IF r = 1 THEN "last" ELSE "more",
                                                    BytesPlan(r - 1))
  OBVIOUS
<1>1. <<"more">> \in Seq(Parts) /\ << >> \in Seq(Parts) /\ <<"stop">> \in Seq(Parts)
      /\ <<"last", "stop">> \in Seq(Parts)
  BY PartNames
<1>2. StopPlan \in Seq(Parts) /\ StopPlan = <<"stop">>
  BY <1>1 DEF StopPlan, Ahead
<1>3. PICK t \in Seq(Parts) : t = <<"last", "stop">>
  BY <1>1
<1>4. t = Ahead("last", StopPlan)
  <2>1. <<"last", "stop">> = <<"last">> \o <<"stop">>
    <3>1. <<"last", "stop">> = Append(<<"last">>, "stop")
      OBVIOUS
    <3>2. <<"last">> \o <<"stop">> = Append(<<"last">>, "stop")
      OBVIOUS
    <3> QED
      BY <3>1, <3>2
  <2> QED
    BY <1>2, <1>3, <2>1 DEF Ahead
<1>5. ASSUME NEW n \in Nat
      PROVE  /\ Times(n, <<"more">>) \in Seq(Parts)
             /\ Times(n + 1, <<"more">>) = <<"more">> \o Times(n, <<"more">>)
             /\ Times(0, <<"more">>) = << >>
  <2>1. PICK s \in Seq(Parts) : s = <<"more">>
    BY <1>1
  <2>2. Times(n, s) \in Seq(Parts) /\ Times(n + 1, s) = s \o Times(n, s) /\ Times(0, s) = << >>
    BY TimesFacts
  <2> QED
    BY <2>1, <2>2
<1>6. CASE r = 0
  BY <1>2, <1>6 DEF BytesPlan
<1>7. CASE r = 1
  <2>1. BytesPlan(r) = Times(0, <<"more">>) \o t
    BY <1>3, <1>7 DEF BytesPlan
  <2>2. BytesPlan(r) = t
    <3>1. 0 \in Nat
      OBVIOUS
    <3>2. Times(0, <<"more">>) = << >>
      BY <1>5, <3>1
    <3>3. << >> \o t = t
      OBVIOUS
    <3> QED
      BY <2>1, <3>2, <3>3
  <2>3. BytesPlan(r - 1) = StopPlan
    BY <1>7 DEF BytesPlan
  <2> QED
    BY <1>4, <1>7, <2>2, <2>3
<1>8. CASE r > 1
  <2>1. PICK n \in Nat : r = n + 2
    <3>1. r - 2 \in Nat /\ r = (r - 2) + 2
      BY <1>8
    <3> QED
      BY <3>1
  <2>2. PICK u \in Seq(Parts) : u = Times(n, <<"more">>)
    BY <1>5
  <2>3. PICK s \in Seq(Parts) : s = <<"more">>
    BY <1>1
  <2>4. BytesPlan(r) = (s \o u) \o t /\ BytesPlan(r - 1) = u \o t
    <3>1. r - 1 = n + 1 /\ (r - 1) - 1 = n /\ r # 0 /\ r - 1 # 0
      BY <2>1
    <3>2. Times(n + 1, <<"more">>) = s \o u
      BY <1>5, <2>2, <2>3
    <3> QED
      BY <1>3, <2>2, <3>1, <3>2 DEF BytesPlan
  <2>5. (s \o u) \o t = s \o (u \o t)
    BY InARow
  <2>6. BytesPlan(r) \in Seq(Parts)
    <3>1. s \o u \in Seq(Parts)
      OBVIOUS
    <3> QED
      BY <2>4, <3>1
  <2>7. BytesPlan(r) = Ahead("more", BytesPlan(r - 1))
    BY <2>3, <2>4, <2>5 DEF Ahead
  <2> QED
    BY <1>8, <2>6, <2>7
<1> QED
  BY <1>6, <1>7, <1>8

LEMMA PlanTypes ==
  ASSUME NEW c \in Requests
  PROVE  /\ << >> \in Seq(Parts) /\ Size(c) \in 1 .. MaxLen /\ Size(c) \in Nat /\ Size(c) <= c.len
         /\ StopPlan \in Seq(Parts) /\ DataPlan \in Seq(Parts) /\ AgainPlan(c) \in Seq(Parts)
         /\ RestartPlan(c) \in Seq(Parts) /\ AddressedPlan(c) \in Seq(Parts)
         /\ RegisterPlan(c) \in Seq(Parts) /\ DevicePlan(c) \in Seq(Parts)
         /\ StartPlan(c) \in Seq(Parts)
<1>1. Size(c) \in 1 .. MaxLen /\ Size(c) \in Nat /\ Size(c) <= c.len
  <2>1. c.len \in 1 .. MaxLen /\ MaxLen \in Nat /\ c.len \in Nat
    BY RequestFacts, I2cBusAssumption
  <2> QED
    BY <2>1 DEF Size
<1>2. << >> \in Seq(Parts)
  OBVIOUS
<1>3. StopPlan \in Seq(Parts)
  BY <1>2, PartNames, PartAhead DEF StopPlan
<1>4. DataPlan \in Seq(Parts)
  BY <1>3, PartNames, PartAhead DEF DataPlan
<1>5. AgainPlan(c) \in Seq(Parts)
  BY <1>1, PartNames, PartAhead, BytesPlans DEF AgainPlan
<1>6. RestartPlan(c) \in Seq(Parts)
  BY <1>5, PartNames, PartAhead DEF RestartPlan
<1>7. AddressedPlan(c) \in Seq(Parts)
  BY <1>4, <1>6 DEF AddressedPlan
<1>8. RegisterPlan(c) \in Seq(Parts)
  BY <1>7, PartNames, PartAhead DEF RegisterPlan
<1>9. DevicePlan(c) \in Seq(Parts)
  BY <1>8, PartNames, PartAhead DEF DevicePlan
<1>10. StartPlan(c) \in Seq(Parts)
  BY <1>9, PartNames, PartAhead DEF StartPlan
<1> QED
  BY <1>1, <1>2, <1>3, <1>4, <1>5, <1>6, <1>7, <1>8, <1>9, <1>10

(* The transaction of each call is one of these.                           *)
Cat(a, b) == a \o b

LEMMA CatFacts ==
  ASSUME NEW S
  PROVE  \A a, b, c \in Seq(S) :
           Cat(a, b) \in Seq(S) /\ Cat(Cat(a, b), c) = Cat(a, Cat(b, c))
BY InARow DEF Cat

LEMMA Unfold3Cat ==
  ASSUME NEW S, NEW a \in S, NEW b \in S, NEW c \in S, NEW s \in Seq(S)
  PROVE  Cat(<<a, b, c>>, s) = Ahead(a, Ahead(b, Ahead(c, s)))
<1>1. <<a, b, c>> = <<a>> \o <<b, c>> /\ <<a>> \in Seq(S) /\ <<b, c>> \in Seq(S)
  OBVIOUS
<1>2. (<<a>> \o <<b, c>>) \o s = <<a>> \o (<<b, c>> \o s)
  BY <1>1, InARow
<1>3. <<b, c>> \o s = Ahead(b, Ahead(c, s))
  BY Unfold2
<1> QED
  BY <1>1, <1>2, <1>3 DEF Ahead, Cat

LEMMA Unfolded5 ==
  ASSUME NEW S, NEW a \in S, NEW b \in S, NEW c \in S, NEW d \in S, NEW e \in S,
         NEW m \in Seq(S), NEW t \in Seq(S)
  PROVE  Cat(Cat(<<a, b, c, d, e>>, m), t)
           = Ahead(a, Ahead(b, Ahead(c, Ahead(d, Ahead(e, Cat(m, t))))))
<1>0. \A w \in Seq(S) : <<d, e>> \o w = Ahead(d, Ahead(e, w))
  BY Unfold2
<1>1. <<a, b, c, d, e>> = <<a, b, c>> \o <<d, e>>
  OBVIOUS
<1>2. <<a, b, c>> \in Seq(S) /\ <<d, e>> \in Seq(S)
  OBVIOUS
<1>3. PICK x \in Seq(S), y \in Seq(S), h \in Seq(S) :
        x = <<a, b, c>> /\ y = <<d, e>> /\ h = <<a, b, c, d, e>>
  <2>1. <<a, b, c, d, e>> \in Seq(S)
    OBVIOUS
  <2> QED
    BY <1>2, <2>1
<1>4. h = Cat(x, y)
  BY <1>1, <1>3 DEF Cat
<1>5. PICK u \in Seq(S) : u = Cat(m, t)
  BY CatFacts
<1>6. Cat(Cat(h, m), t) = Cat(x, Cat(y, u))
  BY <1>4, <1>5, CatFacts
<1>7. Cat(y, u) = Ahead(d, Ahead(e, u))
  BY <1>0, <1>3 DEF Cat
<1>8. PICK v \in Seq(S) : v = Ahead(d, Ahead(e, u))
  BY AheadFacts
<1>9. Cat(x, v) = Ahead(a, Ahead(b, Ahead(c, v)))
  <2>1. Cat(<<a, b, c>>, v) = Ahead(a, Ahead(b, Ahead(c, v)))
    BY Unfold3Cat
  <2> QED
    BY <1>3, <2>1
<1> QED
  BY <1>3, <1>5, <1>6, <1>7, <1>8, <1>9

LEMMA Transactions ==
  ASSUME NEW c \in Requests
  PROVE  Transaction(c) = StartPlan(c)
<1>1. /\ StopPlan \in Seq(Parts) /\ DataPlan \in Seq(Parts) /\ AgainPlan(c) \in Seq(Parts)
      /\ BytesPlan(1) \in Seq(Parts)
  <2>1. 1 \in Nat
    OBVIOUS
  <2> QED
    BY <2>1, PlanTypes, BytesPlans
<1>2. CASE c.kind = "write"
  <2>1. PICK s \in Seq(Parts) : s = <<"data", "stop">>
    <3>1. <<"data", "stop">> \in Seq(Parts)
      BY PartNames
    <3> QED
      BY <3>1
  <2>2. s = DataPlan
    <3>1. <<"data", "stop">> = Append(<<"data">>, "stop")
      OBVIOUS
    <3>2. <<"data">> \o <<"stop">> = Append(<<"data">>, "stop")
      OBVIOUS
    <3>3. StopPlan = <<"stop">>
      BY DEF StopPlan, Ahead
    <3> QED
      BY <2>1, <3>1, <3>2, <3>3 DEF DataPlan, Ahead
  <2>3. I2C_Write = <<"start", "device", "register">> \o s
    BY <2>1 DEF I2C_Write
  <2>4. <<"start", "device", "register">> \o s = Ahead("start", Ahead("device", Ahead("register", s)))
    BY PartNames, Unfold3
  <2> QED
    BY <1>2, <2>2, <2>3, <2>4 DEF Transaction, StartPlan, DevicePlan, RegisterPlan,
                                  AddressedPlan
<1>3. CASE c.kind = "read"
  <2>1. PICK s \in Seq(Parts) : s = <<"start", "again", "last", "stop">>
    <3>1. <<"start", "again", "last", "stop">> \in Seq(Parts)
      BY PartNames
    <3> QED
      BY <3>1
  <2>2. s = Ahead("start", Ahead("again", Ahead("last", StopPlan)))
    BY <2>1, PartNames, Unfolded4 DEF StopPlan
  <2>3. BytesPlan(1) = Ahead("last", StopPlan)
    <3>1. 1 \in Nat /\ 0 \in Nat /\ 1 - 1 = 0 /\ 1 # 0
      OBVIOUS
    <3> QED
      BY <3>1, BytesPlans
  <2>4. s = RestartPlan(c)
    BY <1>3, <2>2, <2>3 DEF RestartPlan, AgainPlan, Size
  <2>5. I2C_Read = <<"start", "device", "register">> \o s
    BY <2>1 DEF I2C_Read
  <2>6. <<"start", "device", "register">> \o s = Ahead("start", Ahead("device", Ahead("register", s)))
    BY PartNames, Unfold3
  <2> QED
    BY <1>3, <2>4, <2>5, <2>6
       DEF Transaction, StartPlan, DevicePlan, RegisterPlan, AddressedPlan
<1>4. CASE c.kind = "burst"
  <2>1. c.len \in Nat /\ c.len # 0
    BY RequestFacts
  <2>2. PICK b \in Seq(Parts) : b = BytesPlan(c.len)
    BY <2>1, BytesPlans
  <2>3. PICK m \in Seq(Parts) : m = Times(c.len - 1, <<"more">>)
    <3>1. c.len - 1 \in Nat
      BY <2>1
    <3>2. <<"more">> \in Seq(Parts)
      BY PartNames
    <3>3. Times(c.len - 1, <<"more">>) \in Seq(Parts)
      BY <3>1, <3>2, TimesFacts
    <3> QED
      BY <3>3
  <2>4. PICK t \in Seq(Parts) : t = <<"last", "stop">>
    <3>1. <<"last", "stop">> \in Seq(Parts)
      BY PartNames
    <3> QED
      BY <3>1
  <2>5. b = Cat(m, t)
    BY <2>1, <2>2, <2>3, <2>4 DEF BytesPlan, Cat
  <2>6. Transaction(c) = Cat(Cat(<<"start", "device", "register", "restart", "again">>, m), t)
    BY <1>4, <2>3, <2>4 DEF Transaction, I2C_MultipleRead, Cat
  <2>7. Cat(Cat(<<"start", "device", "register", "restart", "again">>, m), t)
          = Ahead("start", Ahead("device", Ahead("register", Ahead("restart", Ahead("again", Cat(m, t))))))
    BY PartNames, Unfolded5, SMTT(30)
  <2> QED
    BY <1>4, <2>2, <2>5, <2>6, <2>7
       DEF StartPlan, DevicePlan, RegisterPlan, AddressedPlan, RestartPlan, AgainPlan, Size
<1> QED
  BY <1>2, <1>3, <1>4, RequestFacts

-----------------------------------------------------------------------------
(* The inductive invariant.                                                *)

Reg(c, k) == (c.reg + k) % 2 ^ Bits

Chips == [phase : {"idle", "listen", "acking", "send", "sent", "more"}, n : Nat, in : Nat,
          ptr : Bytes, drive : BOOLEAN, got : {"none", "address", "register", "reading"}]

BusTypes ==
  /\ scl \in {0, 1} /\ dir \in {"in", "out"} /\ out \in {0, 1}
  /\ chip \in Chips /\ regs \in [Bytes -> Bytes]
  /\ bSuccess \in BOOLEAN /\ byte \in Nat /\ moved \in Nat

Calling ==
  /\ call \in Requests /\ i \in Nat /\ i < call.len /\ (call.kind = "burst" => i = 0)

(* What a start needs of the wires, what a stop needs, and leaves.         *)
Free == ~chip.drive /\ (scl = 1 => dir = "out" /\ out = 1)
Down == scl = 0 /\ ~chip.drive
Left == scl = 1 /\ dir = "out" /\ out = 1 /\ ~chip.drive /\ chip.phase = "idle"

(* The chip takes the k-th bit of v, has it all, waits for the first of    *)
(* one; it puts the k-th bit of a register on the wire.                    *)
Hears(g, k, v) ==
  chip.phase = "listen" /\ chip.n = k /\ chip.in = v /\ ~chip.drive /\ chip.got = g
Listening(g) == scl = 0 /\ Hears(g, 0, 0)
Sends(k) ==
  chip.phase = "send" /\ chip.n = k /\ chip.drive = Pulls(chip.ptr, Bits - 1 - k)
At(k) == chip.ptr = Reg(call, k)

(* Between two parts: what the next one finds, unless one before it failed.*)
Moved == moved = IF bSuccess THEN i + Size(call) ELSE i
GoesOn(A) == moved = i /\ IF bSuccess THEN A ELSE Down

AtStart    == plan = StartPlan(call) /\ Free /\ bSuccess /\ moved = i
AtDevice   == plan = DevicePlan(call) /\ Listening("none") /\ bSuccess /\ moved = i
AtRegister == plan = RegisterPlan(call) /\ GoesOn(Listening("address"))
AtContent  == plan = AddressedPlan(call) /\ GoesOn(Listening("register") /\ At(i))
AtAgain    == plan = AgainPlan(call) /\ call.kind # "write" /\ GoesOn(Listening("none") /\ At(i))
AtByte(r)  == /\ plan = BytesPlan(r) /\ call.kind # "write" /\ r <= Size(call)
              /\ IF bSuccess
                 THEN scl = 0 /\ Sends(0) /\ At(moved) /\ moved = i + Size(call) - r
                 ELSE Down /\ moved = i
AtStop     == plan = StopPlan /\ Down /\ Moved
AtEnd      == plan = << >> /\ Left /\ Moved

Between ==
  /\ todo = << >>
  /\ \/ AtStart \/ AtDevice \/ AtRegister \/ AtContent \/ AtAgain
     \/ \E r \in 1 .. MaxLen : AtByte(r)
     \/ AtStop \/ AtEnd

(* In a start, in a stop.                                                  *)
ClockLow == Ahead("SCL_LOW", << >>)
Start1 == Ahead("start", ClockLow)
Start2 == Ahead("SCL_HIGH", Start1)
Start3 == Ahead("SDA_HIGH", Start2)
Start4 == Ahead("SDA_DIR_OUT", Start3)

StartOf ==
  \/ plan = DevicePlan(call) /\ bSuccess
  \/ plan = AgainPlan(call) /\ call.kind # "write" /\ (bSuccess => At(i))

Starting ==
  /\ StartOf /\ moved = i /\ ~chip.drive
  /\ \/ todo = Start4 /\ Free
     \/ todo = Start3 /\ Free /\ dir = "out"
     \/ todo = Start2 /\ dir = "out" /\ out = 1
     \/ todo = Start1 /\ dir = "out" /\ out = 1 /\ scl = 1
     \/ todo = ClockLow /\ dir = "out" /\ out = 0 /\ scl = 1 /\ Hears("none", 0, 0)

Stop1 == Ahead("stop", << >>)
Stop2 == Ahead("SCL_HIGH", Stop1)
Stop3 == Ahead("SDA_LOW", Stop2)
Stop4 == Ahead("SDA_DIR_OUT", Stop3)

Stopping ==
  /\ plan = << >> /\ Moved /\ ~chip.drive
  /\ \/ todo = Stop4 /\ scl = 0
     \/ todo = Stop3 /\ scl = 0 /\ dir = "out"
     \/ todo = Stop2 /\ scl = 0 /\ dir = "out" /\ out = 0
     \/ todo = Stop1 /\ scl = 1 /\ dir = "out" /\ out = 0

(* In a byte to the chip: which one, after which, and before which part.   *)
WriteOf(v, g) ==
  \/ plan = RegisterPlan(call) /\ v = SLAVE_ADDR /\ g = "none"
  \/ plan = AddressedPlan(call) /\ v = Reg(call, i) /\ g = "address"
  \/ plan = StopPlan /\ call.kind = "write" /\ v = call.data[i + 1] /\ g = "register" /\ At(i)
  \/ plan = BytesPlan(Size(call)) /\ call.kind # "write" /\ v = SLAVE_ADDR + 1 /\ g = "none"
       /\ At(i)

Bit1(v, k) == Ahead("SCL_LOW", WriteRest(v, k + 1))
Bit2(v, k) == Ahead("SCL_HIGH", Bit1(v, k))
Bit3(v, k) == Ahead(Level(v, k + 1), Bit2(v, k))
Bit4(v, k) == Ahead("SCL_LOW", Bit3(v, k))

EndsBit(v, g, k) ==
  /\ todo = Bit1(v, k) /\ scl = 1 /\ Hears(g, k + 1, Prefix(v, k + 1))
  /\ out = Bit(v, Bits - (k + 1))

WritesBit(v, g, k) ==
  /\ dir = "out"
  /\ \/ todo = Bit4(v, k) /\ scl = 0 /\ Hears(g, k, Prefix(v, k))
     \/ todo = Bit3(v, k) /\ scl = 0 /\ Hears(g, k, Prefix(v, k))
     \/ todo = Bit2(v, k) /\ scl = 0 /\ Hears(g, k, Prefix(v, k)) /\ out = Bit(v, Bits - (k + 1))
     \/ EndsBit(v, g, k)

Writing ==
  \E v \in Bytes, g \in {"none", "address", "register"} :
    /\ WriteOf(v, g) /\ bSuccess /\ moved = i
    /\ \/ todo = Ahead("SDA_DIR_OUT", WriteRest(v, 0)) /\ Listening(g)
       \/ \E k \in 0 .. (Bits - 1) : WritesBit(v, g, k)

(* In its acknowledge.                                                     *)
Taken ==
  /\ chip.phase = "acking" /\ chip.drive
  /\ \/ plan = RegisterPlan(call) /\ chip.got = "address" /\ moved = i
     \/ plan = AddressedPlan(call) /\ chip.got = "register" /\ At(i) /\ moved = i
     \/ plan = StopPlan /\ call.kind = "write" /\ chip.got = "register" /\ moved = i + 1
     \/ plan = BytesPlan(Size(call)) /\ call.kind # "write" /\ chip.got = "reading" /\ At(i)
          /\ moved = i
Refused ==
  /\ chip.phase = "idle" /\ ~chip.drive /\ moved = i
  /\ \/ plan = RegisterPlan(call)
     \/ plan = AddressedPlan(call)
     \/ plan = StopPlan /\ call.kind = "write"
     \/ plan = BytesPlan(Size(call)) /\ call.kind # "write"

Ack2 == Ahead("ack", ClockLow)
Ack3 == Ahead("SCL_HIGH", Ack2)
Ack4 == Ahead("SDA_DIR_IN", Ack3)

Answered ==
  /\ Taken \/ Refused
  /\ \/ todo = Ack4 /\ scl = 0 /\ bSuccess
     \/ todo = Ack3 /\ scl = 0 /\ dir = "in" /\ bSuccess
     \/ todo = Ack2 /\ scl = 1 /\ dir = "in" /\ bSuccess
     \/ todo = ClockLow /\ scl = 1 /\ dir = "in" /\ bSuccess = chip.drive

(* In a byte of the chip, and in the answer to it.                         *)
Read1(r) == Ahead("SCL_LOW", ReadRest(r > 1, 0))
Read2(r) == Ahead("SDA_DIR_IN", Read1(r))
Read3(r) == Ahead("clear", Read2(r))

In1(r, k) == Ahead("SCL_LOW", ReadRest(r > 1, k + 1))
In2(r, k) == Ahead("bit", In1(r, k))
In3(r, k) == Ahead("SCL_HIGH", In2(r, k))

ReadsBit(r, k) ==
  /\ dir = "in" /\ Sends(k)
  /\ \/ todo = In3(r, k) /\ scl = 0 /\ byte = Prefix(regs[chip.ptr], k)
     \/ todo = In2(r, k) /\ scl = 1 /\ byte = Prefix(regs[chip.ptr], k)
     \/ todo = In1(r, k) /\ scl = 1 /\ byte = Prefix(regs[chip.ptr], k + 1)

Store1 == Ahead("store", << >>)
Ans3 == Ahead("SCL_LOW", Stores)
Ans4 == Ahead("SCL_HIGH", Ans3)
Ans5(r) == Ahead(AckLevel(r > 1), Ans4)
Ans6(r) == Ahead("SDA_DIR_OUT", Ans5(r))
Ans7(r) == Ahead("SCL_LOW", Ans6(r))

NextUp(r) ==
  scl = 0 /\ IF r = 1 THEN ~chip.drive ELSE Sends(0) /\ At(moved + 1)

ReadsByte(r) ==
  /\ plan = BytesPlan(r - 1) /\ call.kind # "write" /\ bSuccess /\ r <= Size(call)
  /\ moved = i + Size(call) - r
  /\ \/ todo = Read3(r) /\ scl = 0 /\ Sends(0) /\ At(moved)
     \/ todo = Read2(r) /\ scl = 0 /\ Sends(0) /\ At(moved) /\ byte = 0
     \/ todo = Read1(r) /\ scl = 0 /\ Sends(0) /\ At(moved) /\ byte = 0 /\ dir = "in"
     \/ \E k \in 0 .. (Bits - 1) : ReadsBit(r, k) /\ At(moved)
     \/ /\ byte = regs[Reg(call, moved)]
        /\ \/ /\ chip.phase = "sent" /\ ~chip.drive /\ scl = 0 /\ At(moved)
              /\ \/ todo = Ans7(r)
                 \/ todo = Ans6(r)
                 \/ todo = Ans5(r) /\ dir = "out"
                 \/ todo = Ans4 /\ dir = "out" /\ out = IF r > 1 THEN 0 ELSE 1
           \/ /\ todo = Ans3 /\ scl = 1 /\ dir = "out" /\ ~chip.drive /\ At(moved)
              /\ chip.phase = IF r > 1 THEN "more" ELSE "sent"
           \/ todo = Stores /\ NextUp(r)
           \/ todo = Store1 /\ NextUp(r)

Reading == \E r \in 1 .. MaxLen : ReadsByte(r)

Quiet ==
  /\ call = NoCall /\ todo = << >> /\ plan = << >>
  /\ IF result = "none" THEN scl = 0 /\ ~chip.drive ELSE Left

BusInv ==
  /\ BusTypes
  /\ \/ Quiet
     \/ Calling /\ (Between \/ Starting \/ Stopping \/ Writing \/ Answered \/ Reading)

(* What an access to a port does.                                          *)
LEMMA OpNames ==
  /\ "SCL_HIGH" \in Ops /\ "SCL_LOW" \in Ops /\ "SDA_DIR_OUT" \in Ops /\ "SDA_DIR_IN" \in Ops
  /\ "SDA_HIGH" \in Ops /\ "SDA_LOW" \in Ops /\ "start" \in Ops /\ "stop" \in Ops
  /\ "ack" \in Ops /\ "clear" \in Ops /\ "bit" \in Ops /\ "store" \in Ops
BY DEF Ops

LEMMA PortCases ==
  /\ Port("SCL_HIGH") => Clock(1)
  /\ Port("SCL_LOW") => Clock(0)
  /\ Port("SDA_DIR_OUT") => Line("out", out)
  /\ Port("SDA_DIR_IN") => Line("in", out)
  /\ Port("SDA_HIGH") => Line(dir, 1)
  /\ Port("stop") => Line(dir, 1)
  /\ Port("SDA_LOW") => Line(dir, 0)
  /\ Port("start") => Line(dir, 0)
BY DEF Port

LEMMA LocalCases ==
  /\ Port("ack") => /\ bSuccess' = (Sda = 0)
                    /\ UNCHANGED <<scl, dir, out, chip, regs, byte, array, moved>>
  /\ Port("clear") => /\ byte' = 0
                      /\ UNCHANGED <<scl, dir, out, chip, regs, bSuccess, array, moved>>
  /\ Port("bit") => /\ byte' = 2 * byte + Sda
                    /\ UNCHANGED <<scl, dir, out, chip, regs, bSuccess, array, moved>>
  /\ Port("store") => /\ array' = [array EXCEPT ![moved + 1] = byte]
                      /\ moved' = moved + 1
                      /\ UNCHANGED <<scl, dir, out, chip, regs, bSuccess, byte>>
BY DEF Port, Local, wires

(* The clock goes up, down, or stays where it is.                          *)
LEMMA ClockUp ==
  ASSUME Clock(1), scl \in {0, 1}
  PROVE  /\ scl' = 1
         /\ chip' = IF scl = 1 THEN chip ELSE OnRise(chip)
         /\ UNCHANGED <<regs, moved, dir, out, bSuccess, byte, array>>
BY DEF Clock

LEMMA ClockDown ==
  ASSUME Clock(0), scl \in {0, 1}
  PROVE  /\ scl' = 0
         /\ scl = 0 => chip' = chip /\ UNCHANGED <<regs, moved>>
         /\ scl = 1 => /\ chip' \in OnFall(chip)
                       /\ ~Stored(chip) => UNCHANGED <<regs, moved>>
                       /\ Stored(chip) => /\ regs' = [regs EXCEPT ![chip.ptr] = chip.in]
                                          /\ moved' = moved + 1
         /\ UNCHANGED <<dir, out, bSuccess, byte, array>>
BY DEF Clock

(* What the chip makes of an edge of the clock.                            *)
LEMMA Rises ==
  ASSUME chip \in Chips, out \in {0, 1}
  PROVE  /\ OnRise(chip) \in Chips
         /\ OnRise(chip).drive = chip.drive /\ OnRise(chip).ptr = chip.ptr
         /\ OnRise(chip).got = chip.got
         /\ chip.phase \notin {"listen", "sent"} => OnRise(chip) = chip
         /\ chip.phase = "listen" => /\ OnRise(chip).phase = "listen"
                                     /\ OnRise(chip).n = chip.n + 1
                                     /\ OnRise(chip).in = 2 * chip.in + Sda
         /\ chip.phase = "sent" => /\ OnRise(chip).phase = IF Sda = 0 THEN "more" ELSE "sent"
                                   /\ OnRise(chip).n = chip.n
<1>1. Sda \in {0, 1}
  BY DEF Sda
<1>2. CASE chip.phase = "listen"
  <2>1. OnRise(chip) = [chip EXCEPT !.n = chip.n + 1, !.in = 2 * chip.in + Sda]
    BY <1>2 DEF OnRise
  <2>2. chip.n + 1 \in Nat /\ 2 * chip.in + Sda \in Nat
    BY <1>1 DEF Chips
  <2> QED
    BY <1>2, <2>1, <2>2 DEF Chips
<1>3. CASE chip.phase = "sent" /\ Sda = 0
  <2>1. OnRise(chip) = [chip EXCEPT !.phase = "more"]
    BY <1>3 DEF OnRise
  <2> QED
    BY <1>3, <2>1 DEF Chips
<1>4. CASE chip.phase # "listen" /\ ~(chip.phase = "sent" /\ Sda = 0)
  <2>1. OnRise(chip) = chip
    BY <1>4 DEF OnRise
  <2> QED
    BY <1>4, <2>1
<1> QED
  BY <1>2, <1>3, <1>4

LEMMA FallsIdle ==
  ASSUME NEW c \in Chips, NEW d \in OnFall(c),
         c.phase = "idle" \/ (c.phase = "listen" /\ c.n # Bits)
  PROVE  d = c
BY DEF OnFall, ByteIsIn

LEMMA FallsAck ==
  ASSUME NEW c \in Chips, NEW d \in OnFall(c), c.phase = "acking", c.got # "reading"
  PROVE  d \in Chips /\ d.phase = "listen" /\ d.n = 0 /\ d.in = 0 /\ ~d.drive /\ d.got = c.got
         /\ d.ptr = c.ptr
<1>1. d = [c EXCEPT !.phase = "listen", !.n = 0, !.in = 0, !.drive = FALSE]
  BY DEF OnFall, ByteIsIn
<1> QED
  BY <1>1 DEF Chips

LEMMA SendFacts ==
  ASSUME NEW c \in Chips, NEW p \in Bytes
  PROVE  LET d == Send(c, p)
         IN  d \in Chips /\ d.phase = "send" /\ d.n = 0 /\ d.ptr = p
             /\ d.drive = Pulls(p, Bits - 1)
<1>1. Pulls(p, Bits - 1) \in BOOLEAN
  BY DEF Pulls
<1> QED
  BY <1>1 DEF Send, Chips

LEMMA FallsReading ==
  ASSUME NEW c \in Chips, NEW d \in OnFall(c), c.phase = "acking", c.got = "reading"
  PROVE  d \in Chips /\ d.phase = "send" /\ d.n = 0 /\ d.ptr = c.ptr
         /\ d.drive = Pulls(c.ptr, Bits - 1)
<1>1. d = Send(c, c.ptr)
  BY DEF OnFall, ByteIsIn
<1> QED
  BY <1>1, SendFacts DEF Chips

LEMMA FallsMore ==
  ASSUME NEW c \in Chips, NEW d \in OnFall(c), c.phase = "more"
  PROVE  LET p == (c.ptr + 1) % 2 ^ Bits
         IN  d \in Chips /\ d.phase = "send" /\ d.n = 0 /\ d.ptr = p
             /\ d.drive = Pulls(p, Bits - 1)
<1>1. d = Send(c, (c.ptr + 1) % 2 ^ Bits)
  BY DEF OnFall, ByteIsIn
<1>2. (c.ptr + 1) % 2 ^ Bits \in Bytes
  <2>1. PICK p \in Nat : p = 2 ^ Bits /\ p > 0
    BY PowerType, BytesNat
  <2>2. c.ptr + 1 \in Nat
    <3>1. c.ptr \in Bytes
      BY DEF Chips
    <3>2. c.ptr \in Nat
      BY <3>1, BytesNat
    <3> QED
      BY <3>2
  <2>3. (c.ptr + 1) % p \in 0 .. (p - 1)
    BY <2>1, <2>2
  <2> QED
    BY <2>1, <2>3 DEF Bytes
<1> QED
  BY <1>1, <1>2, SendFacts

LEMMA FallsSent ==
  ASSUME NEW c \in Chips, NEW d \in OnFall(c), c.phase = "sent"
  PROVE  d \in Chips /\ d.phase = "idle" /\ ~d.drive /\ d.ptr = c.ptr
<1>1. d = [Idle EXCEPT !.ptr = c.ptr]
  BY DEF OnFall, ByteIsIn, Refuse
<1> QED
  BY <1>1 DEF Chips, Idle

LEMMA FallsSend ==
  ASSUME NEW c \in Chips, NEW d \in OnFall(c), c.phase = "send", c.n < Bits
  PROVE  /\ d \in Chips /\ d.ptr = c.ptr
         /\ c.n + 1 < Bits => /\ d.phase = "send" /\ d.n = c.n + 1
                              /\ d.drive = Pulls(c.ptr, Bits - 2 - c.n)
         /\ c.n + 1 = Bits => d.phase = "sent" /\ ~d.drive
<1>1. c.n \in Nat /\ Bits \in Nat
  BY BytesNat DEF Chips
<1>2. CASE c.n + 1 < Bits
  <2> DEFINE m == c.n + 1
             b == Pulls(c.ptr, Bits - 2 - c.n)
  <2>1. OnFall(c) = {[c EXCEPT !.n = m, !.drive = b]}
    <3>1. c.n + 1 # Bits
      BY <1>1, <1>2
    <3> QED
      BY <1>2, <3>1 DEF OnFall, ByteIsIn
  <2>2. b \in BOOLEAN /\ m \in Nat
    BY <1>1 DEF Pulls
  <2> HIDE DEF m, b
  <2>3. d \in Chips /\ d.ptr = c.ptr /\ d.phase = "send" /\ d.n = m /\ d.drive = b
    BY <2>1, <2>2 DEF Chips
  <2> QED
    BY <1>1, <1>2, <2>3 DEF m, b
<1>3. CASE c.n + 1 = Bits
  <2>1. d = [c EXCEPT !.phase = "sent", !.drive = FALSE]
    BY <1>3, BytesNat DEF OnFall, ByteIsIn
  <2>2. d \in Chips /\ d.ptr = c.ptr /\ d.phase = "sent" /\ ~d.drive
    BY <2>1 DEF Chips
  <2> QED
    BY <1>1, <1>3, <2>2
<1> QED
  BY <1>1, <1>2, <1>3

LEMMA FallsByte ==
  ASSUME NEW c \in Chips, NEW d \in OnFall(c), c.phase = "listen", c.n = Bits
  PROVE  d = Accept(c) \/ d = [Idle EXCEPT !.ptr = c.ptr]
BY DEF OnFall, ByteIsIn, Refuse

(* A start, or a stop.                                                     *)
LEMMA Edges ==
  ASSUME NEW c \in Chips, NEW v \in {0, 1}
  PROVE  LET d == OnEdge(c, v)
         IN  /\ d \in Chips /\ d.phase = (IF v = 0 THEN "listen" ELSE "idle")
             /\ d.n = 0 /\ d.in = 0 /\ d.ptr = c.ptr /\ ~d.drive /\ d.got = "none"
BY DEF OnEdge, Idle, Chips

(* The data line moves under a high clock exactly where it is meant to.    *)
Meant ==
  (scl = 1 /\ scl' = 1 /\ Sda # Sda')
    <=> (todo # << >> /\ Head(todo) \in {"start", "stop"} /\ todo' # todo)

(* No byte of the call is moved.                                           *)
Kept == UNCHANGED <<regs, moved, array>>

LEMMA AheadLonger ==
  ASSUME NEW S, NEW op \in S, NEW s \in Seq(S)
  PROVE  Ahead(op, s) # s
<1>1. Len(Ahead(op, s)) = Len(s) + 1
  BY DEF Ahead
<1>2. Len(s) \in Nat
  OBVIOUS
<1> QED
  BY <1>1, <1>2

LEMMA AccessStep ==
  ASSUME NextPort, NEW op \in Ops, NEW s \in Seq(Ops), todo = Ahead(op, s)
  PROVE  /\ todo' = s /\ call' = call /\ i' = i /\ plan' = plan /\ result' = result
         /\ Port(op)
         /\ todo # << >> /\ Head(todo) = op /\ todo' # todo
<1>1. todo' = s /\ call' = call /\ i' = i /\ plan' = plan /\ result' = result /\ Port(op)
  BY OpAhead DEF NextPort
<1>2. todo # << >> /\ Head(todo) = op
  BY OpAhead
<1>3. todo' # todo
  BY <1>1, AheadLonger
<1> QED
  BY <1>1, <1>2, <1>3

(* A write to the data line that the chip does not notice, and one that    *)
(* it takes for a start or a stop.                                         *)
LEMMA LineQuiet ==
  ASSUME BusTypes, NEW d \in {"in", "out"}, NEW v \in {0, 1}, Line(d, v),
         scl = 0 \/ (~chip.drive /\ dir = "out" /\ d = "out" /\ out = v)
  PROVE  /\ BusTypes' /\ chip' = chip /\ scl' = scl /\ dir' = d /\ out' = v
         /\ bSuccess' = bSuccess /\ byte' = byte /\ Kept
         /\ scl = 0 \/ Sda' = Sda
<1>1. chip' = chip
  <2>1. CASE scl = 0
    BY <2>1 DEF Line
  <2>2. CASE scl # 0
    BY <2>2 DEF Line, Sda
  <2> QED
    BY <2>1, <2>2
<1>2. /\ scl' = scl /\ dir' = d /\ out' = v
      /\ regs' = regs /\ moved' = moved /\ bSuccess' = bSuccess /\ byte' = byte /\ array' = array
  BY DEF Line
<1>3. BusTypes'
  BY <1>1, <1>2 DEF BusTypes
<1>4. scl = 0 \/ Sda' = Sda
  BY <1>1, <1>2 DEF Sda
<1> QED
  BY <1>1, <1>2, <1>3, <1>4 DEF Kept

LEMMA LineEdge ==
  ASSUME BusTypes, NEW v \in {0, 1}, Line(dir, v), scl = 1, ~chip.drive, dir = "out",
         out = 1 - v
  PROVE  /\ BusTypes' /\ scl' = 1 /\ dir' = "out" /\ out' = v
         /\ bSuccess' = bSuccess /\ byte' = byte /\ Kept
         /\ Sda' # Sda
         /\ chip'.phase = (IF v = 0 THEN "listen" ELSE "idle")
         /\ chip'.n = 0 /\ chip'.in = 0 /\ chip'.ptr = chip.ptr /\ ~chip'.drive
         /\ chip'.got = "none"
<1>1. chip' = OnEdge(chip, v)
  BY DEF Line, Sda
<1>2. /\ scl' = scl /\ dir' = dir /\ out' = v
      /\ regs' = regs /\ moved' = moved /\ bSuccess' = bSuccess /\ byte' = byte /\ array' = array
  BY DEF Line
<1>3. /\ chip' \in Chips /\ chip'.phase = (IF v = 0 THEN "listen" ELSE "idle")
      /\ chip'.n = 0 /\ chip'.in = 0 /\ chip'.ptr = chip.ptr /\ ~chip'.drive
      /\ chip'.got = "none"
  <2>1. chip \in Chips
    BY DEF BusTypes
  <2> QED
    BY <1>1, <2>1, Edges
<1>4. BusTypes'
  BY <1>2, <1>3 DEF BusTypes
<1>5. Sda' # Sda
  BY <1>2, <1>3 DEF Sda
<1> QED
  BY <1>2, <1>3, <1>4, <1>5 DEF Kept

(* A write to the clock, seen from the driver.                             *)
LEMMA ClockRises ==
  ASSUME BusTypes, Clock(1)
  PROVE  /\ BusTypes' /\ scl' = 1 /\ dir' = dir /\ out' = out
         /\ bSuccess' = bSuccess /\ byte' = byte /\ Kept
         /\ chip'.drive = chip.drive /\ chip'.ptr = chip.ptr /\ chip'.got = chip.got
         /\ scl = 1 => chip' = chip
         /\ scl = 0 => chip' = OnRise(chip)
         /\ scl = 0 \/ Sda' = Sda
<1>1. chip \in Chips /\ out \in {0, 1} /\ scl \in {0, 1}
  BY DEF BusTypes
<1>2. /\ scl' = 1 /\ chip' = (IF scl = 1 THEN chip ELSE OnRise(chip))
      /\ UNCHANGED <<regs, moved, dir, out, bSuccess, byte, array>>
  BY <1>1, ClockUp
<1>3. /\ OnRise(chip) \in Chips /\ OnRise(chip).drive = chip.drive
      /\ OnRise(chip).ptr = chip.ptr /\ OnRise(chip).got = chip.got
  BY <1>1, Rises
<1>4. BusTypes'
  BY <1>1, <1>2, <1>3 DEF BusTypes
<1>5. scl = 0 \/ Sda' = Sda
  BY <1>1, <1>2 DEF Sda
<1> QED
  BY <1>1, <1>2, <1>3, <1>4, <1>5 DEF Kept

LEMMA ClockFalls ==
  ASSUME BusTypes, Clock(0), scl = 1, ~ByteIsIn(chip)
  PROVE  /\ scl' = 0 /\ dir' = dir /\ out' = out
         /\ bSuccess' = bSuccess /\ byte' = byte /\ Kept
         /\ chip' \in OnFall(chip)
         /\ chip' \in Chips => BusTypes'
<1>1. ~Stored(chip)
  BY DEF Stored
<1>2. /\ scl' = 0 /\ chip' \in OnFall(chip)
      /\ UNCHANGED <<regs, moved, dir, out, bSuccess, byte, array>>
  BY <1>1, ClockDown
<1>3. chip' \in Chips => BusTypes'
  BY <1>2 DEF BusTypes
<1> QED
  BY <1>2, <1>3 DEF Kept

LEMMA ClockStays ==
  ASSUME BusTypes, Clock(0), scl = 0
  PROVE  /\ BusTypes' /\ scl' = 0 /\ dir' = dir /\ out' = out /\ chip' = chip
         /\ bSuccess' = bSuccess /\ byte' = byte /\ Kept
<1>1. /\ scl' = 0 /\ chip' = chip
      /\ UNCHANGED <<regs, moved, dir, out, bSuccess, byte, array>>
  BY ClockDown
<1> QED
  BY <1>1 DEF BusTypes, Kept

LEMMA StartRows ==
  /\ << >> \in Seq(Ops) /\ ClockLow \in Seq(Ops)
  /\ Start1 \in Seq(Ops) /\ Start2 \in Seq(Ops) /\ Start3 \in Seq(Ops) /\ Start4 \in Seq(Ops)
  /\ Stop1 \in Seq(Ops) /\ Stop2 \in Seq(Ops) /\ Stop3 \in Seq(Ops) /\ Stop4 \in Seq(Ops)
<1>1. << >> \in Seq(Ops)
  OBVIOUS
<1>2. ClockLow \in Seq(Ops)
  BY <1>1, OpNames, OpAhead DEF ClockLow
<1>3. Start1 \in Seq(Ops)
  BY <1>2, OpNames, OpAhead DEF Start1
<1>4. Start2 \in Seq(Ops)
  BY <1>3, OpNames, OpAhead DEF Start2
<1>5. Start3 \in Seq(Ops)
  BY <1>4, OpNames, OpAhead DEF Start3
<1>6. Start4 \in Seq(Ops)
  BY <1>5, OpNames, OpAhead DEF Start4
<1>7. Stop1 \in Seq(Ops)
  BY <1>1, OpNames, OpAhead DEF Stop1
<1>8. Stop2 \in Seq(Ops)
  BY <1>7, OpNames, OpAhead DEF Stop2
<1>9. Stop3 \in Seq(Ops)
  BY <1>8, OpNames, OpAhead DEF Stop3
<1>10. Stop4 \in Seq(Ops)
  BY <1>9, OpNames, OpAhead DEF Stop4
<1> QED
  BY <1>1, <1>2, <1>3, <1>4, <1>5, <1>6, <1>7, <1>8, <1>9, <1>10

(* A start, port by port: the chip listens.                                *)
LEMMA StartStep ==
  ASSUME BusTypes, Starting, NextPort
  PROVE  BusTypes' /\ (Starting \/ Between)' /\ Meant /\ Kept
<1>1. CASE todo = Start4 /\ Free
  <2>1. /\ todo' = Start3 /\ UNCHANGED <<call, i, plan>> /\ Port("SDA_DIR_OUT")
        /\ Head(todo) = "SDA_DIR_OUT"
    BY <1>1, AccessStep, StartRows, OpNames DEF Start4
  <2>2. Line("out", out) /\ out \in {0, 1}
    BY <2>1, PortCases DEF BusTypes
  <2>3. /\ BusTypes' /\ chip' = chip /\ scl' = scl /\ dir' = "out" /\ out' = out
        /\ bSuccess' = bSuccess /\ Kept /\ (scl = 0 \/ Sda' = Sda)
    BY <1>1, <2>2, LineQuiet DEF Free, BusTypes
  <2>4. Starting'
    BY <1>1, <2>1, <2>3 DEF Starting, StartOf, Free, At, Kept
  <2> QED
    BY <2>1, <2>3, <2>4 DEF Meant
<1>2. CASE todo = Start3 /\ Free /\ dir = "out"
  <2>1. /\ todo' = Start2 /\ UNCHANGED <<call, i, plan>> /\ Port("SDA_HIGH")
        /\ Head(todo) = "SDA_HIGH"
    BY <1>2, AccessStep, StartRows, OpNames DEF Start3
  <2>2. Line(dir, 1)
    BY <2>1, PortCases
  <2>3. /\ BusTypes' /\ chip' = chip /\ scl' = scl /\ dir' = "out" /\ out' = 1
        /\ bSuccess' = bSuccess /\ Kept /\ (scl = 0 \/ Sda' = Sda)
    BY <1>2, <2>2, LineQuiet DEF Free, BusTypes
  <2>4. Starting'
    BY <1>2, <2>1, <2>3 DEF Starting, StartOf, Free, At, Kept
  <2> QED
    BY <2>1, <2>3, <2>4 DEF Meant
<1>3. CASE todo = Start2 /\ dir = "out" /\ out = 1
  <2>1. /\ todo' = Start1 /\ UNCHANGED <<call, i, plan>> /\ Port("SCL_HIGH")
        /\ Head(todo) = "SCL_HIGH"
    BY <1>3, AccessStep, StartRows, OpNames DEF Start2
  <2>2. Clock(1)
    BY <2>1, PortCases
  <2>3. /\ BusTypes' /\ scl' = 1 /\ dir' = dir /\ out' = out
        /\ chip'.drive = chip.drive /\ chip'.ptr = chip.ptr
        /\ bSuccess' = bSuccess /\ Kept /\ (scl = 0 \/ Sda' = Sda)
    BY <2>2, ClockRises
  <2>4. Starting'
    BY <1>3, <2>1, <2>3 DEF Starting, StartOf, At, Kept
  <2> QED
    BY <2>1, <2>3, <2>4 DEF Meant
<1>4. CASE todo = Start1 /\ dir = "out" /\ out = 1 /\ scl = 1
  <2>1. /\ todo' = ClockLow /\ UNCHANGED <<call, i, plan>> /\ Port("start")
        /\ Head(todo) = "start" /\ todo # << >> /\ todo' # todo
    BY <1>4, AccessStep, StartRows, OpNames DEF Start1
  <2>2. Line(dir, 0) /\ ~chip.drive /\ out = 1 - 0
    BY <1>4, <2>1, PortCases DEF Starting
  <2>3. /\ BusTypes' /\ scl' = 1 /\ dir' = "out" /\ out' = 0
        /\ chip'.phase = "listen" /\ chip'.n = 0 /\ chip'.in = 0 /\ chip'.ptr = chip.ptr
        /\ ~chip'.drive /\ chip'.got = "none"
        /\ bSuccess' = bSuccess /\ Kept /\ Sda' # Sda
    BY <1>4, <2>2, LineEdge
  <2>4. Starting'
    BY <1>4, <2>1, <2>3 DEF Starting, StartOf, At, Kept, Hears
  <2> QED
    BY <1>4, <2>1, <2>3, <2>4 DEF Meant
<1>5. CASE todo = ClockLow /\ dir = "out" /\ out = 0 /\ scl = 1 /\ Hears("none", 0, 0)
  <2>1. /\ todo' = << >> /\ UNCHANGED <<call, i, plan>> /\ Port("SCL_LOW")
        /\ Head(todo) = "SCL_LOW"
    BY <1>5, AccessStep, StartRows, OpNames DEF ClockLow
  <2>2. Clock(0) /\ ~ByteIsIn(chip)
    BY <1>5, <2>1, PortCases, BytesNat DEF Hears, ByteIsIn
  <2>3. chip' = chip
    <3>1. chip' \in OnFall(chip) /\ chip \in Chips
      BY <1>5, <2>2, ClockFalls DEF BusTypes
    <3> QED
      BY <1>5, <3>1, FallsIdle, BytesNat DEF Hears
  <2>4. /\ BusTypes' /\ scl' = 0 /\ bSuccess' = bSuccess /\ Kept
    BY <1>5, <2>2, <2>3, ClockFalls DEF BusTypes
  <2>5. (AtDevice \/ AtAgain)'
    BY <1>5, <2>1, <2>3, <2>4
       DEF Starting, StartOf, AtDevice, AtAgain, GoesOn, Listening, Hears, Down, At, Kept
  <2> QED
    BY <1>5, <2>1, <2>4, <2>5 DEF Meant, Between
<1> QED
  BY <1>1, <1>2, <1>3, <1>4, <1>5 DEF Starting

(* A stop, port by port: the wires are left high and the chip idle.        *)
LEMMA StopStep ==
  ASSUME BusTypes, Stopping, NextPort
  PROVE  BusTypes' /\ (Stopping \/ Between)' /\ Meant /\ Kept
<1>1. CASE todo = Stop4 /\ scl = 0
  <2>1. /\ todo' = Stop3 /\ UNCHANGED <<call, i, plan>> /\ Port("SDA_DIR_OUT")
        /\ Head(todo) = "SDA_DIR_OUT"
    BY <1>1, AccessStep, StartRows, OpNames DEF Stop4
  <2>2. Line("out", out) /\ out \in {0, 1}
    BY <2>1, PortCases DEF BusTypes
  <2>3. /\ BusTypes' /\ chip' = chip /\ scl' = scl /\ dir' = "out" /\ out' = out
        /\ bSuccess' = bSuccess /\ Kept
    BY <1>1, <2>2, LineQuiet
  <2>4. Stopping'
    BY <1>1, <2>1, <2>3 DEF Stopping, Moved, Kept
  <2> QED
    BY <1>1, <2>1, <2>3, <2>4 DEF Meant
<1>2. CASE todo = Stop3 /\ scl = 0 /\ dir = "out"
  <2>1. /\ todo' = Stop2 /\ UNCHANGED <<call, i, plan>> /\ Port("SDA_LOW")
        /\ Head(todo) = "SDA_LOW"
    BY <1>2, AccessStep, StartRows, OpNames DEF Stop3
  <2>2. Line(dir, 0)
    BY <2>1, PortCases
  <2>3. /\ BusTypes' /\ chip' = chip /\ scl' = scl /\ dir' = "out" /\ out' = 0
        /\ bSuccess' = bSuccess /\ Kept
    BY <1>2, <2>2, LineQuiet
  <2>4. Stopping'
    BY <1>2, <2>1, <2>3 DEF Stopping, Moved, Kept
  <2> QED
    BY <1>2, <2>1, <2>3, <2>4 DEF Meant
<1>3. CASE todo = Stop2 /\ scl = 0 /\ dir = "out" /\ out = 0
  <2>1. /\ todo' = Stop1 /\ UNCHANGED <<call, i, plan>> /\ Port("SCL_HIGH")
        /\ Head(todo) = "SCL_HIGH"
    BY <1>3, AccessStep, StartRows, OpNames DEF Stop2
  <2>2. Clock(1)
    BY <2>1, PortCases
  <2>3. /\ BusTypes' /\ scl' = 1 /\ dir' = dir /\ out' = out
        /\ chip'.drive = chip.drive /\ chip'.ptr = chip.ptr
        /\ bSuccess' = bSuccess /\ Kept
    BY <2>2, ClockRises
  <2>4. Stopping'
    BY <1>3, <2>1, <2>3 DEF Stopping, Moved, Kept
  <2> QED
    BY <1>3, <2>1, <2>3, <2>4 DEF Meant
<1>4. CASE todo = Stop1 /\ scl = 1 /\ dir = "out" /\ out = 0
  <2>1. /\ todo' = << >> /\ UNCHANGED <<call, i, plan>> /\ Port("stop")
        /\ Head(todo) = "stop" /\ todo # << >> /\ todo' # todo
    BY <1>4, AccessStep, StartRows, OpNames DEF Stop1
  <2>2. Line(dir, 1) /\ ~chip.drive /\ out = 1 - 1
    BY <1>4, <2>1, PortCases DEF Stopping
  <2>3. /\ BusTypes' /\ scl' = 1 /\ dir' = "out" /\ out' = 1
        /\ chip'.phase = "idle" /\ ~chip'.drive
        /\ bSuccess' = bSuccess /\ Kept /\ Sda' # Sda
    BY <1>4, <2>2, LineEdge
  <2>4. AtEnd'
    BY <1>4, <2>1, <2>3 DEF Stopping, AtEnd, Moved, Left, Kept
  <2> QED
    BY <1>4, <2>1, <2>3, <2>4 DEF Meant, Between
<1> QED
  BY <1>1, <1>2, <1>3, <1>4 DEF Stopping

-----------------------------------------------------------------------------
(* The acknowledge of a byte that was written.                             *)

LEMMA AckRows ==
  Ack2 \in Seq(Ops) /\ Ack3 \in Seq(Ops) /\ Ack4 \in Seq(Ops)
<1>1. Ack2 \in Seq(Ops)
  BY StartRows, OpNames, OpAhead DEF Ack2
<1>2. Ack3 \in Seq(Ops)
  BY <1>1, OpNames, OpAhead DEF Ack3
<1>3. Ack4 \in Seq(Ops)
  BY <1>2, OpNames, OpAhead DEF Ack4
<1> QED
  BY <1>1, <1>2, <1>3

LEMMA AnswerKept ==
  ASSUME Taken \/ Refused, chip' = chip, UNCHANGED <<call, i, plan, moved>>
  PROVE  (Taken \/ Refused)'
BY DEF Taken, Refused, At

(* The driver sees the acknowledge that the chip gave.                     *)
LEMMA AnswerStep ==
  ASSUME BusTypes, Calling, Answered, NextPort
  PROVE  BusTypes' /\ (Answered \/ Between)' /\ Meant /\ Kept
<1>1. CASE todo = Ack4 /\ scl = 0 /\ bSuccess
  <2>1. /\ todo' = Ack3 /\ UNCHANGED <<call, i, plan>> /\ Port("SDA_DIR_IN")
        /\ Head(todo) = "SDA_DIR_IN"
    BY <1>1, AccessStep, AckRows, OpNames DEF Ack4
  <2>2. Line("in", out) /\ out \in {0, 1}
    BY <2>1, PortCases DEF BusTypes
  <2>3. /\ BusTypes' /\ chip' = chip /\ scl' = scl /\ dir' = "in" /\ out' = out
        /\ bSuccess' = bSuccess /\ Kept
    BY <1>1, <2>2, LineQuiet
  <2>4. (Taken \/ Refused)'
    BY <2>1, <2>3, AnswerKept DEF Answered, Kept
  <2>5. Answered'
    BY <1>1, <2>1, <2>3, <2>4 DEF Answered
  <2> QED
    BY <1>1, <2>1, <2>3, <2>5 DEF Meant
<1>2. CASE todo = Ack3 /\ scl = 0 /\ dir = "in" /\ bSuccess
  <2>1. /\ todo' = Ack2 /\ UNCHANGED <<call, i, plan>> /\ Port("SCL_HIGH")
        /\ Head(todo) = "SCL_HIGH"
    BY <1>2, AccessStep, AckRows, OpNames DEF Ack3
  <2>2. Clock(1)
    BY <2>1, PortCases
  <2>3. /\ BusTypes' /\ scl' = 1 /\ dir' = dir /\ out' = out /\ chip' = OnRise(chip)
        /\ bSuccess' = bSuccess /\ Kept
    BY <1>2, <2>2, ClockRises
  <2>4. chip' = chip
    <3>1. chip.phase \notin {"listen", "sent"} /\ chip \in Chips /\ out \in {0, 1}
      BY DEF Answered, Taken, Refused, BusTypes
    <3> QED
      BY <2>3, <3>1, Rises
  <2>5. (Taken \/ Refused)'
    BY <2>1, <2>3, <2>4, AnswerKept DEF Answered, Kept
  <2>6. Answered'
    BY <1>2, <2>1, <2>3, <2>5 DEF Answered
  <2> QED
    BY <1>2, <2>1, <2>3, <2>6 DEF Meant
<1>3. CASE todo = Ack2 /\ scl = 1 /\ dir = "in" /\ bSuccess
  <2>1. /\ todo' = ClockLow /\ UNCHANGED <<call, i, plan>> /\ Port("ack")
        /\ Head(todo) = "ack"
    BY <1>3, AccessStep, AckRows, StartRows, OpNames DEF Ack2
  <2>2. /\ bSuccess' = (Sda = 0)
        /\ UNCHANGED <<scl, dir, out, chip, regs, byte, array, moved>>
    BY <2>1, LocalCases
  <2>3. BusTypes' /\ Kept /\ Sda' = Sda
    BY <2>2 DEF BusTypes, Kept, Sda
  <2>4. (Taken \/ Refused)'
    BY <2>1, <2>2, AnswerKept DEF Answered
  <2>5. bSuccess' = chip'.drive
    <3>1. CASE chip.drive
      BY <2>2, <3>1 DEF Sda, BusTypes, Chips
    <3>2. CASE ~chip.drive
      BY <1>3, <2>2, <3>2 DEF Sda, BusTypes, Chips
    <3> QED
      BY <3>1, <3>2
  <2>6. Answered'
    BY <1>3, <2>1, <2>2, <2>4, <2>5 DEF Answered
  <2> QED
    BY <2>1, <2>3, <2>6 DEF Meant
<1>4. CASE todo = ClockLow /\ scl = 1 /\ dir = "in" /\ bSuccess = chip.drive
  <2>1. /\ todo' = << >> /\ UNCHANGED <<call, i, plan>> /\ Port("SCL_LOW")
        /\ Head(todo) = "SCL_LOW"
    BY <1>4, AccessStep, StartRows, OpNames DEF ClockLow
  <2>2. Clock(0) /\ ~ByteIsIn(chip) /\ chip \in Chips
    BY <1>4, <2>1, PortCases DEF Answered, Taken, Refused, ByteIsIn, BusTypes
  <2>3. /\ scl' = 0 /\ dir' = dir /\ out' = out /\ bSuccess' = bSuccess /\ Kept
        /\ chip' \in OnFall(chip) /\ (chip' \in Chips => BusTypes')
    BY <1>4, <2>2, ClockFalls
  <2>4. CASE Taken /\ chip.got # "reading"
    <3>1. /\ chip' \in Chips /\ chip'.phase = "listen" /\ chip'.n = 0 /\ chip'.in = 0
          /\ ~chip'.drive /\ chip'.got = chip.got /\ chip'.ptr = chip.ptr
      BY <2>2, <2>3, <2>4, FallsAck DEF Taken
    <3>2. bSuccess /\ call.kind = "write" => Size(call) = 1
      BY DEF Size
    <3>3. (AtRegister \/ AtContent \/ AtStop)'
      BY <1>4, <2>1, <2>3, <2>4, <3>1, <3>2
         DEF Taken, AtRegister, AtContent, AtStop, GoesOn, Listening, Hears, Down, Moved, At, Kept
    <3> QED
      BY <2>1, <2>3, <3>1, <3>3 DEF Meant, Between
  <2>5. CASE Taken /\ chip.got = "reading"
    <3>1. /\ chip' \in Chips /\ chip'.phase = "send" /\ chip'.n = 0
          /\ chip'.drive = Pulls(chip.ptr, Bits - 1) /\ chip'.ptr = chip.ptr
      BY <2>2, <2>3, <2>5, FallsReading DEF Taken
    <3>2. Size(call) \in 1 .. MaxLen /\ i \in Nat
      BY PlanTypes DEF Calling
    <3>3. PICK r \in 1 .. MaxLen : r = Size(call)
      BY <3>2
    <3>4. /\ plan' = BytesPlan(r) /\ call'.kind # "write" /\ r = Size(call)'
          /\ bSuccess' /\ At(moved)' /\ moved' = i'
      BY <1>4, <2>1, <2>3, <2>5, <3>1, <3>3 DEF Taken, At, Kept, Size
    <3>5. Sends(0)'
      <4>1. Bits - 1 - 0 = Bits - 1
        BY BytesNat
      <4>2. Pulls(chip.ptr, Bits - 1)' = Pulls(chip.ptr, Bits - 1)
        BY <2>3, <3>1 DEF Pulls, Kept
      <4> QED
        BY <3>1, <4>1, <4>2 DEF Sends
    <3>6. AtByte(r)'
      BY <2>1, <2>3, <3>2, <3>4, <3>5 DEF AtByte
    <3> QED
      BY <2>1, <2>3, <3>1, <3>6 DEF Meant, Between
  <2>6. CASE Refused
    <3>1. chip' = chip
      BY <2>2, <2>3, <2>6, FallsIdle DEF Refused
    <3>2. Size(call) \in 1 .. MaxLen /\ i \in Nat
      BY PlanTypes DEF Calling
    <3>3. (AtRegister \/ AtContent \/ AtStop \/ AtByte(Size(call)))'
      BY <1>4, <2>1, <2>3, <2>6, <3>1, <3>2
         DEF Refused, AtRegister, AtContent, AtStop, AtByte, GoesOn, Down, Moved, Kept
    <3> QED
      BY <2>1, <2>2, <2>3, <3>1, <3>2, <3>3 DEF Meant, Between
  <2> QED
    BY <2>4, <2>5, <2>6 DEF Answered
<1> QED
  BY <1>1, <1>2, <1>3, <1>4 DEF Answered

-----------------------------------------------------------------------------
(* Bytes to the chip.                                                      *)

(* A byte of the call reaches its register, or the caller's array.         *)
Put ==
  /\ call.kind = "write" /\ moved = i /\ moved' = moved + 1
  /\ regs' = [regs EXCEPT ![Reg(call, i)] = call.data[i + 1]] /\ array' = array

Got ==
  /\ call.kind # "write" /\ moved < call.len /\ moved' = moved + 1
  /\ array' = [array EXCEPT ![moved + 1] = regs[Reg(call, moved)]] /\ regs' = regs

(* The register of the next byte, as the chip and as the driver count it.  *)
LEMMA RegFacts ==
  ASSUME NEW c \in Requests, NEW k \in Nat
  PROVE  Reg(c, k) \in Bytes /\ (Reg(c, k) + 1) % 2 ^ Bits = Reg(c, k + 1)
<1>1. PICK p \in Nat : p = 2 ^ Bits /\ p > 0
  BY PowerType, BytesNat
<1>2. PICK a \in Nat : a = c.reg + k
  <2>1. c.reg \in Nat
    BY RequestFacts
  <2>2. c.reg + k \in Nat
    BY <2>1
  <2> QED
    BY <2>2
<1>3. c.reg + (k + 1) = a + 1
  <2>1. c.reg \in Nat
    BY RequestFacts
  <2> QED
    BY <1>2, <2>1
<1>4. a % p \in 0 .. (p - 1)
  BY <1>1
<1>5. ((a % p) + 1) % p = (a + 1) % p
  <2>1. PICK q \in Nat, r \in 0 .. (p - 1) : a = p * q + r /\ r = a % p
    BY <1>1, DivRem
  <2>2. CASE r + 1 < p
    <3>1. (r + 1) % p = r + 1
      BY <1>1, <2>2
    <3>2. a + 1 = p * q + (r + 1)
      BY <2>1
    <3>3. (a + 1) \div p = q
      <4>1. r + 1 \in 0 .. (p - 1) /\ a + 1 \in Nat
        BY <2>1, <2>2
      <4> QED
        BY <1>1, <3>2, <4>1, DivUnique
    <3>4. a + 1 = p * ((a + 1) \div p) + ((a + 1) % p)
      <4>1. a + 1 \in Nat
        OBVIOUS
      <4> QED
        BY <1>1, <4>1, DivRem
    <3>5. a + 1 = p * q + ((a + 1) % p) /\ (a + 1) % p \in Int
      <4>1. a + 1 \in Nat
        OBVIOUS
      <4>2. (a + 1) % p \in 0 .. (p - 1)
        BY <1>1, <4>1, DivRem
      <4> QED
        BY <3>3, <3>4, <4>2
    <3> QED
      BY <1>1, <2>1, <3>1, <3>2, <3>5
  <2>3. CASE r + 1 = p
    <3>1. (r + 1) % p = 0
      BY <1>1, <2>3
    <3>2. a + 1 = p * (q + 1) + 0
      <4>1. p * (q + 1) = p * q + p
        BY <1>1
      <4>2. p * q \in Nat
        BY <1>1
      <4> QED
        BY <1>1, <2>1, <2>3, <4>1, <4>2
    <3>3. (a + 1) \div p = q + 1
      <4>1. 0 \in 0 .. (p - 1) /\ a + 1 \in Nat /\ q + 1 \in Nat
        BY <1>1
      <4> QED
        BY <1>1, <3>2, <4>1, DivUnique
    <3>4. a + 1 = p * ((a + 1) \div p) + ((a + 1) % p) /\ (a + 1) % p \in Int
      <4>1. a + 1 \in Nat
        OBVIOUS
      <4>2. (a + 1) % p \in 0 .. (p - 1)
        BY <1>1, <4>1, DivRem
      <4> QED
        BY <1>1, <4>1, <4>2, DivRem
    <3>5. PICK m \in Nat : m = p * (q + 1)
      <4>1. p * (q + 1) \in Nat
        BY <1>1
      <4> QED
        BY <4>1
    <3>6. (a + 1) % p = 0
      <4>1. a + 1 = m + ((a + 1) % p) /\ a + 1 = m + 0
        BY <3>2, <3>3, <3>4, <3>5
      <4> QED
        BY <3>4, <3>5, <4>1
    <3> QED
      BY <2>1, <3>1, <3>6
  <2> QED
    BY <1>1, <2>1, <2>2, <2>3
<1> QED
  BY <1>1, <1>2, <1>3, <1>4, <1>5 DEF Reg, Bytes

LEMMA WriteRows ==
  ASSUME NEW v \in Bytes, NEW k \in 0 .. (Bits - 1)
  PROVE  /\ Bit1(v, k) \in Seq(Ops) /\ Bit2(v, k) \in Seq(Ops) /\ Bit3(v, k) \in Seq(Ops)
         /\ Bit4(v, k) \in Seq(Ops) /\ WriteRest(v, k + 1) \in Seq(Ops)
         /\ WriteRest(v, k) = Bit4(v, k) /\ Level(v, k + 1) \in Ops
<1>1. WriteRest(v, k + 1) \in Seq(Ops)
  <2>1. k + 1 \in 0 .. Bits
    BY BytesNat
  <2> QED
    BY <2>1, WriteOps
<1>2. Bit1(v, k) \in Seq(Ops)
  BY <1>1, OpNames, OpAhead DEF Bit1
<1>3. Bit2(v, k) \in Seq(Ops)
  BY <1>2, OpNames, OpAhead DEF Bit2
<1>4. Level(v, k + 1) \in Ops
  BY OpNames DEF Level
<1>5. Bit3(v, k) \in Seq(Ops)
  BY <1>3, <1>4, OpAhead DEF Bit3
<1>6. Bit4(v, k) \in Seq(Ops)
  BY <1>5, OpNames, OpAhead DEF Bit4
<1>7. WriteRest(v, k) = Bit4(v, k)
  BY WriteOps DEF Bit4, Bit3, Bit2, Bit1
<1> QED
  BY <1>1, <1>2, <1>3, <1>4, <1>5, <1>6, <1>7

LEMMA WriteOfKept ==
  ASSUME NEW v, NEW g, WriteOf(v, g), chip'.ptr = chip.ptr, UNCHANGED <<call, i, plan>>
  PROVE  WriteOf(v, g)'
BY DEF WriteOf, At

(* Up to the last bit, and the clock that ends each of the others.         *)
LEMMA WriteBitStep ==
  ASSUME BusTypes, NEW v \in Bytes, NEW g \in {"none", "address", "register"},
         NEW k \in 0 .. (Bits - 1), WritesBit(v, g, k), NextPort,
         EndsBit(v, g, k) => k + 1 < Bits
  PROVE  /\ BusTypes' /\ Meant /\ Kept /\ bSuccess' = bSuccess
         /\ chip'.ptr = chip.ptr /\ UNCHANGED <<call, i, plan>>
         /\ \E j \in 0 .. (Bits - 1) : WritesBit(v, g, j)'
<1>1. CASE todo = Bit4(v, k) /\ scl = 0 /\ Hears(g, k, Prefix(v, k))
  <2>1. /\ todo' = Bit3(v, k) /\ UNCHANGED <<call, i, plan>> /\ Port("SCL_LOW")
        /\ Head(todo) = "SCL_LOW"
    BY <1>1, AccessStep, WriteRows, OpNames DEF Bit4
  <2>2. Clock(0)
    BY <2>1, PortCases
  <2>3. /\ BusTypes' /\ scl' = 0 /\ dir' = dir /\ out' = out /\ chip' = chip
        /\ bSuccess' = bSuccess /\ Kept
    BY <1>1, <2>2, ClockStays
  <2>4. WritesBit(v, g, k)'
    BY <1>1, <2>1, <2>3 DEF WritesBit, Hears
  <2> QED
    BY <1>1, <2>1, <2>3, <2>4 DEF Meant
<1>2. CASE todo = Bit3(v, k) /\ scl = 0 /\ Hears(g, k, Prefix(v, k))
  <2>1. /\ todo' = Bit2(v, k) /\ UNCHANGED <<call, i, plan>> /\ Port(Level(v, k + 1))
        /\ Head(todo) = Level(v, k + 1)
    BY <1>2, AccessStep, WriteRows DEF Bit3
  <2>2. PICK b \in {0, 1} : b = Bit(v, Bits - (k + 1))
    <3>1. v \in Nat /\ Bits - (k + 1) \in Nat
      BY BytesNat
    <3> QED
      BY <3>1, BitType
  <2>3. Line(dir, b) /\ dir = "out"
    BY <2>1, <2>2, PortCases DEF Level, WritesBit
  <2>4. /\ BusTypes' /\ chip' = chip /\ scl' = scl /\ dir' = "out" /\ out' = b
        /\ bSuccess' = bSuccess /\ Kept
    BY <1>2, <2>2, <2>3, LineQuiet
  <2>5. WritesBit(v, g, k)'
    BY <1>2, <2>1, <2>2, <2>4 DEF WritesBit, Hears
  <2>6. Head(todo) \notin {"start", "stop"}
    BY <2>1 DEF Level
  <2> QED
    BY <1>2, <2>1, <2>4, <2>5, <2>6 DEF Meant
<1>3. CASE todo = Bit2(v, k) /\ scl = 0 /\ Hears(g, k, Prefix(v, k))
             /\ out = Bit(v, Bits - (k + 1))
  <2>1. /\ todo' = Bit1(v, k) /\ UNCHANGED <<call, i, plan>> /\ Port("SCL_HIGH")
        /\ Head(todo) = "SCL_HIGH"
    BY <1>3, AccessStep, WriteRows, OpNames DEF Bit2
  <2>2. Clock(1)
    BY <2>1, PortCases
  <2>3. /\ BusTypes' /\ scl' = 1 /\ dir' = dir /\ out' = out /\ chip' = OnRise(chip)
        /\ chip'.drive = chip.drive /\ chip'.ptr = chip.ptr /\ chip'.got = chip.got
        /\ bSuccess' = bSuccess /\ Kept
    BY <1>3, <2>2, ClockRises
  <2>4. Sda = out
    BY <1>3 DEF Sda, WritesBit, Hears
  <2>5. /\ chip'.phase = "listen" /\ chip'.n = chip.n + 1 /\ chip'.in = 2 * chip.in + Sda
    <3>1. chip.phase = "listen" /\ chip \in Chips /\ out \in {0, 1}
      BY <1>3 DEF Hears, BusTypes
    <3> QED
      BY <2>3, <3>1, Rises
  <2>6. chip'.n = k + 1 /\ chip'.in = Prefix(v, k + 1)
    BY <1>3, <2>4, <2>5, PrefixNext DEF Hears
  <2>7. WritesBit(v, g, k)'
    BY <1>3, <2>1, <2>3, <2>5, <2>6 DEF WritesBit, EndsBit, Hears
  <2> QED
    BY <1>3, <2>1, <2>3, <2>7 DEF Meant
<1>4. CASE EndsBit(v, g, k)
  <2>1. /\ todo' = WriteRest(v, k + 1) /\ UNCHANGED <<call, i, plan>> /\ Port("SCL_LOW")
        /\ Head(todo) = "SCL_LOW"
    BY <1>4, AccessStep, WriteRows, OpNames DEF Bit1, EndsBit
  <2>2. k + 1 < Bits /\ k + 1 \in 0 .. (Bits - 1) /\ k + 1 # Bits
    BY <1>4, BytesNat
  <2>3. Clock(0) /\ chip.phase = "listen" /\ chip.n # Bits /\ ~ByteIsIn(chip) /\ chip \in Chips
    BY <1>4, <2>1, <2>2, PortCases DEF Hears, EndsBit, ByteIsIn, BusTypes
  <2>4. /\ scl' = 0 /\ dir' = dir /\ out' = out /\ bSuccess' = bSuccess /\ Kept
        /\ chip' \in OnFall(chip) /\ (chip' \in Chips => BusTypes')
    BY <1>4, <2>3, ClockFalls DEF EndsBit
  <2>5. chip' = chip /\ BusTypes'
    BY <2>3, <2>4, FallsIdle
  <2>6. todo' = Bit4(v, k + 1)
    BY <2>1, <2>2, WriteRows
  <2>7. WritesBit(v, g, k + 1)'
    BY <1>4, <2>4, <2>5, <2>6 DEF WritesBit, EndsBit, Hears
  <2> QED
    BY <2>1, <2>2, <2>4, <2>5, <2>7 DEF Meant
<1> QED
  BY <1>1, <1>2, <1>3, <1>4 DEF WritesBit

(* What a byte that is accepted makes of the chip.                         *)
LEMMA AcceptFacts ==
  ASSUME NEW c \in Chips, c.in \in Bytes
  PROVE  LET d == Accept(c)
         IN  /\ c.got = "none" /\ c.in = SLAVE_ADDR
                  => d \in Chips /\ d.phase = "acking" /\ d.drive /\ d.got = "address" /\ d.ptr = c.ptr
             /\ c.got = "none" /\ c.in = SLAVE_ADDR + 1
                  => d \in Chips /\ d.phase = "acking" /\ d.drive /\ d.got = "reading" /\ d.ptr = c.ptr
             /\ c.got = "address"
                  => d \in Chips /\ d.phase = "acking" /\ d.drive /\ d.got = "register" /\ d.ptr = c.in
             /\ c.got = "register"
                  => d \in Chips /\ d.phase = "acking" /\ d.drive /\ d.got = "register"
<1>1. SLAVE_ADDR # SLAVE_ADDR + 1
  <2>1. SLAVE_ADDR \in Nat
    BY BytesNat, I2cBusAssumption
  <2> QED
    BY <2>1
<1>2. CASE c.got = "none" /\ c.in = SLAVE_ADDR
  <2>1. Accept(c) = [c EXCEPT !.phase = "acking", !.drive = TRUE, !.got = "address"]
    BY <1>1, <1>2 DEF Accept
  <2> QED
    BY <1>1, <1>2, <2>1 DEF Chips
<1>3. CASE c.got = "none" /\ c.in = SLAVE_ADDR + 1
  <2>1. Accept(c) = [c EXCEPT !.phase = "acking", !.drive = TRUE, !.got = "reading"]
    BY <1>1, <1>3 DEF Accept
  <2> QED
    BY <1>1, <1>3, <2>1 DEF Chips
<1>4. CASE c.got = "address"
  <2>1. Accept(c) = [[c EXCEPT !.phase = "acking", !.drive = TRUE, !.got = "register"]
                       EXCEPT !.ptr = c.in]
    BY <1>4 DEF Accept
  <2> QED
    BY <1>4, <2>1 DEF Chips
<1>5. CASE c.got = "register"
  <2>1. PICK q : q = (c.ptr + 1) % 2 ^ Bits
    OBVIOUS
  <2>2. q \in Bytes
    <3>1. PICK p \in Nat : p = 2 ^ Bits /\ p > 0
      BY PowerType, BytesNat
    <3>2. c.ptr \in Bytes
      BY DEF Chips
    <3>3. c.ptr \in Nat
      BY <3>2, BytesNat
    <3>4. (c.ptr + 1) % p \in 0 .. (p - 1)
      BY <3>1, <3>3
    <3> QED
      BY <2>1, <3>1, <3>4 DEF Bytes
  <2>3. Accept(c) = [[c EXCEPT !.phase = "acking", !.drive = TRUE, !.got = "register"]
                       EXCEPT !.ptr = q]
    BY <1>5, <2>1 DEF Accept
  <2> QED
    BY <1>5, <2>2, <2>3 DEF Chips
<1> QED
  BY <1>2, <1>3, <1>4, <1>5

(* The clock that ends the last bit: the byte is accepted or refused.      *)
LEMMA WriteByteStep ==
  ASSUME BusTypes, Calling, NEW v \in Bytes, NEW g \in {"none", "address", "register"},
         NEW k \in 0 .. (Bits - 1), k + 1 = Bits,
         WriteOf(v, g), bSuccess, moved = i, EndsBit(v, g, k), NextPort
  PROVE  BusTypes' /\ Answered' /\ Meant /\ (Kept \/ Put)
<1>1. /\ todo' = WriteRest(v, k + 1) /\ UNCHANGED <<call, i, plan>> /\ Port("SCL_LOW")
      /\ Head(todo) = "SCL_LOW"
  BY AccessStep, WriteRows, OpNames DEF Bit1, EndsBit
<1>2. todo' = Ack4
  BY <1>1, WriteOps DEF Ack4, Ack3, Ack2, ClockLow
<1>3. /\ chip \in Chips /\ chip.phase = "listen" /\ chip.n = Bits /\ chip.in = v /\ chip.got = g
      /\ chip.in \in Bytes
  BY PrefixAll DEF Hears, EndsBit, BusTypes
<1>4. Clock(0) /\ scl \in {0, 1}
  BY <1>1, PortCases DEF BusTypes
<1>5. /\ scl' = 0 /\ chip' \in OnFall(chip)
      /\ ~Stored(chip) => UNCHANGED <<regs, moved>>
      /\ Stored(chip) => regs' = [regs EXCEPT ![chip.ptr] = chip.in] /\ moved' = moved + 1
      /\ UNCHANGED <<dir, out, bSuccess, byte, array>>
  BY <1>4, ClockDown DEF EndsBit
<1>6. chip' = Accept(chip) \/ chip' = [Idle EXCEPT !.ptr = chip.ptr]
  BY <1>3, <1>5, FallsByte
<1>7. chip' \in Chips => BusTypes'
  <2>1. regs' \in [Bytes -> Bytes] /\ moved' \in Nat
    BY <1>3, <1>5 DEF BusTypes
  <2> QED
    BY <1>5, <2>1 DEF BusTypes
<1>8. Meant
  BY <1>1, <1>5 DEF Meant
<1>9. CASE chip' # Accept(chip)
  <2>1. chip' = [Idle EXCEPT !.ptr = chip.ptr]
    BY <1>6, <1>9
  <2>2. chip' \in Chips /\ chip'.phase = "idle" /\ ~chip'.drive
    BY <1>3, <2>1 DEF Idle, Chips
  <2>3. Kept
    BY <1>5, <1>9 DEF Stored, Kept
  <2>4. Refused'
    BY <1>1, <2>2, <2>3 DEF Refused, WriteOf, Kept
  <2> QED
    BY <1>2, <1>5, <1>7, <1>8, <2>2, <2>3, <2>4 DEF Answered
<1>10. CASE chip' = Accept(chip)
  <2>1. CASE g = "none" /\ v = SLAVE_ADDR
    <3>1. /\ chip' \in Chips /\ chip'.phase = "acking" /\ chip'.drive /\ chip'.got = "address"
          /\ chip'.ptr = chip.ptr
      BY <1>3, <1>10, <2>1, AcceptFacts
    <3>2. Kept
      BY <1>3, <1>5, <2>1 DEF Stored, Kept
    <3>3. plan = RegisterPlan(call)
      <4>1. SLAVE_ADDR # SLAVE_ADDR + 1
        BY BytesNat, I2cBusAssumption
      <4> QED
        BY <2>1, <4>1 DEF WriteOf
    <3>4. Taken'
      BY <1>1, <3>1, <3>2, <3>3 DEF Taken, Kept
    <3> QED
      BY <1>2, <1>5, <1>7, <1>8, <3>1, <3>2, <3>4 DEF Answered
  <2>2. CASE g = "none" /\ v = SLAVE_ADDR + 1
    <3>1. /\ chip' \in Chips /\ chip'.phase = "acking" /\ chip'.drive /\ chip'.got = "reading"
          /\ chip'.ptr = chip.ptr
      BY <1>3, <1>10, <2>2, AcceptFacts
    <3>2. Kept
      BY <1>3, <1>5, <2>2 DEF Stored, Kept
    <3>3. plan = BytesPlan(Size(call)) /\ call.kind # "write" /\ At(i)
      <4>1. SLAVE_ADDR # SLAVE_ADDR + 1
        BY BytesNat, I2cBusAssumption
      <4> QED
        BY <2>2, <4>1 DEF WriteOf
    <3>4. Taken'
      BY <1>1, <3>1, <3>2, <3>3 DEF Taken, Kept, At
    <3> QED
      BY <1>2, <1>5, <1>7, <1>8, <3>1, <3>2, <3>4 DEF Answered
  <2>3. CASE g = "address"
    <3>1. /\ chip' \in Chips /\ chip'.phase = "acking" /\ chip'.drive /\ chip'.got = "register"
          /\ chip'.ptr = v
      BY <1>3, <1>10, <2>3, AcceptFacts
    <3>2. Kept
      BY <1>3, <1>5, <2>3 DEF Stored, Kept
    <3>3. plan = AddressedPlan(call) /\ v = Reg(call, i)
      BY <2>3 DEF WriteOf
    <3>4. Taken'
      BY <1>1, <3>1, <3>2, <3>3 DEF Taken, Kept, At
    <3> QED
      BY <1>2, <1>5, <1>7, <1>8, <3>1, <3>2, <3>4 DEF Answered
  <2>4. CASE g = "register"
    <3>1. /\ chip' \in Chips /\ chip'.phase = "acking" /\ chip'.drive /\ chip'.got = "register"
      BY <1>3, <1>10, <2>4, AcceptFacts
    <3>2. /\ plan = StopPlan /\ call.kind = "write" /\ v = call.data[i + 1]
          /\ chip.ptr = Reg(call, i)
      BY <2>4 DEF WriteOf, At
    <3>3. regs' = [regs EXCEPT ![chip.ptr] = chip.in] /\ moved' = moved + 1
      BY <1>3, <1>5, <1>10, <2>4 DEF Stored, ByteIsIn
    <3>4. Put
      BY <1>3, <1>5, <3>2, <3>3 DEF Put
    <3>5. Taken'
      BY <1>1, <3>1, <3>2, <3>3 DEF Taken
    <3> QED
      BY <1>2, <1>5, <1>7, <1>8, <3>1, <3>4, <3>5 DEF Answered
  <2> QED
    BY <2>1, <2>2, <2>3, <2>4 DEF WriteOf
<1> QED
  BY <1>9, <1>10

(* A byte that is written, port by port.                                   *)
LEMMA WriteStep ==
  ASSUME BusTypes, Calling, Writing, NextPort
  PROVE  BusTypes' /\ (Writing \/ Answered)' /\ Meant /\ (Kept \/ Put)
<1>1. PICK v \in Bytes, g \in {"none", "address", "register"} :
        /\ WriteOf(v, g) /\ bSuccess /\ moved = i
        /\ \/ todo = Ahead("SDA_DIR_OUT", WriteRest(v, 0)) /\ Listening(g)
           \/ \E k \in 0 .. (Bits - 1) : WritesBit(v, g, k)
  BY DEF Writing
<1>2. 0 \in 0 .. (Bits - 1) /\ 0 \in 0 .. Bits
  BY BytesNat
<1>3. CASE todo = Ahead("SDA_DIR_OUT", WriteRest(v, 0)) /\ Listening(g)
  <2>1. WriteRest(v, 0) \in Seq(Ops) /\ WriteRest(v, 0) = Bit4(v, 0)
    BY <1>2, WriteOps, WriteRows
  <2>2. /\ todo' = Bit4(v, 0) /\ UNCHANGED <<call, i, plan>> /\ Port("SDA_DIR_OUT")
        /\ Head(todo) = "SDA_DIR_OUT"
    BY <1>3, <2>1, AccessStep, OpNames
  <2>3. Line("out", out) /\ out \in {0, 1} /\ scl = 0
    BY <1>3, <2>2, PortCases DEF BusTypes, Listening
  <2>4. /\ BusTypes' /\ chip' = chip /\ scl' = scl /\ dir' = "out" /\ out' = out
        /\ bSuccess' = bSuccess /\ Kept
    BY <2>3, LineQuiet
  <2>5. WritesBit(v, g, 0)'
    BY <1>3, <2>2, <2>3, <2>4, PrefixNone DEF WritesBit, Hears, Listening
  <2>6. WriteOf(v, g)'
    BY <1>1, <2>2, <2>4, WriteOfKept
  <2>7. Writing'
    BY <1>1, <1>2, <2>2, <2>4, <2>5, <2>6 DEF Writing, Kept
  <2> QED
    BY <2>2, <2>3, <2>4, <2>7 DEF Meant
<1>4. ASSUME NEW k \in 0 .. (Bits - 1), WritesBit(v, g, k)
      PROVE  BusTypes' /\ (Writing \/ Answered)' /\ Meant /\ (Kept \/ Put)
  <2>1. CASE EndsBit(v, g, k) => k + 1 < Bits
    <3>1. /\ BusTypes' /\ Meant /\ Kept /\ bSuccess' = bSuccess
          /\ chip'.ptr = chip.ptr /\ UNCHANGED <<call, i, plan>>
      BY <1>4, <2>1, WriteBitStep
    <3>2. PICK j \in 0 .. (Bits - 1) : WritesBit(v, g, j)'
      BY <1>4, <2>1, WriteBitStep
    <3>3. WriteOf(v, g)'
      BY <1>1, <3>1, WriteOfKept
    <3>4. Writing'
      BY <1>1, <3>1, <3>2, <3>3 DEF Writing, Kept
    <3> QED
      BY <3>1, <3>4
  <2>2. CASE EndsBit(v, g, k) /\ ~(k + 1 < Bits)
    <3>1. k + 1 = Bits
      BY <2>2, BytesNat
    <3> QED
      BY <1>1, <2>2, <3>1, WriteByteStep
  <2> QED
    BY <2>1, <2>2
<1> QED
  BY <1>1, <1>3, <1>4

-----------------------------------------------------------------------------
(* Bytes from the chip.                                                    *)

LEMMA MoreType == ASSUME NEW r \in Nat PROVE \E b \in BOOLEAN : b = (r > 1)
<1>1. CASE r > 1
  <2>1. TRUE = (r > 1)
    BY <1>1
  <2> QED
    BY <2>1
<1>2. CASE ~(r > 1)
  <2>1. FALSE = (r > 1)
    BY <1>2
  <2> QED
    BY <2>1
<1> QED
  BY <1>1, <1>2

LEMMA ReadRows ==
  ASSUME NEW r \in Nat, NEW k \in 0 .. (Bits - 1)
  PROVE  /\ In1(r, k) \in Seq(Ops) /\ In2(r, k) \in Seq(Ops) /\ In3(r, k) \in Seq(Ops)
         /\ ReadRest(r > 1, k + 1) \in Seq(Ops)
         /\ ReadRest(r > 1, k) = In3(r, k)
<1>1. PICK b \in BOOLEAN : b = (r > 1)
  BY MoreType
<1>2. ReadRest(b, k + 1) \in Seq(Ops)
  <2>1. k + 1 \in 0 .. Bits
    BY BytesNat
  <2> QED
    BY <2>1, ReadOps
<1>3. ReadRest(b, k) = Ahead("SCL_HIGH", Ahead("bit", Ahead("SCL_LOW", ReadRest(b, k + 1))))
  BY ReadOps
<1>4. In1(r, k) \in Seq(Ops)
  BY <1>1, <1>2, OpNames, OpAhead DEF In1
<1>5. In2(r, k) \in Seq(Ops)
  BY <1>4, OpNames, OpAhead DEF In2
<1>6. In3(r, k) \in Seq(Ops)
  BY <1>5, OpNames, OpAhead DEF In3
<1> QED
  BY <1>1, <1>2, <1>3, <1>4, <1>5, <1>6 DEF In3, In2, In1

LEMMA AnswerRows ==
  ASSUME NEW r \in Nat
  PROVE  /\ Store1 \in Seq(Ops) /\ Stores \in Seq(Ops) /\ Ans3 \in Seq(Ops) /\ Ans4 \in Seq(Ops)
         /\ Ans5(r) \in Seq(Ops) /\ Ans6(r) \in Seq(Ops) /\ Ans7(r) \in Seq(Ops)
         /\ Read1(r) \in Seq(Ops) /\ Read2(r) \in Seq(Ops) /\ Read3(r) \in Seq(Ops)
         /\ AckLevel(r > 1) \in Ops
         /\ ReadRest(r > 1, 0) \in Seq(Ops)
         /\ ReadRest(r > 1, Bits) = Ans7(r)
         /\ i2c_read(r > 1) = Read3(r)
<1>1. PICK b \in BOOLEAN : b = (r > 1)
  BY MoreType
<1>2. Store1 \in Seq(Ops)
  BY StartRows, OpNames, OpAhead DEF Store1
<1>3. Stores \in Seq(Ops) /\ Stores = Ahead("SDA_LOW", Store1)
  BY <1>2, OpNames, OpAhead DEF Stores, Store1
<1>4. Ans3 \in Seq(Ops)
  BY <1>3, OpNames, OpAhead DEF Ans3
<1>5. Ans4 \in Seq(Ops)
  BY <1>4, OpNames, OpAhead DEF Ans4
<1>6. AckLevel(b) \in Ops
  BY OpNames DEF AckLevel
<1>7. Ans5(r) \in Seq(Ops)
  BY <1>1, <1>5, <1>6, OpAhead DEF Ans5
<1>8. Ans6(r) \in Seq(Ops)
  BY <1>7, OpNames, OpAhead DEF Ans6
<1>9. Ans7(r) \in Seq(Ops)
  BY <1>8, OpNames, OpAhead DEF Ans7
<1>10. ReadRest(b, 0) \in Seq(Ops)
  <2>1. 0 \in 0 .. Bits
    BY BytesNat
  <2> QED
    BY <2>1, ReadOps
<1>11. Read1(r) \in Seq(Ops)
  BY <1>1, <1>10, OpNames, OpAhead DEF Read1
<1>12. Read2(r) \in Seq(Ops)
  BY <1>11, OpNames, OpAhead DEF Read2
<1>13. Read3(r) \in Seq(Ops)
  BY <1>12, OpNames, OpAhead DEF Read3
<1>14. ReadRest(b, Bits) = Ans7(r)
  <2>1. ReadRest(b, Bits) = Answer(b)
    BY ReadOps
  <2>2. Answer(b) = Ahead("SCL_LOW", Ahead("SDA_DIR_OUT", Ahead(AckLevel(b), Ahead("SCL_HIGH",
                      Ahead("SCL_LOW", Stores)))))
    BY AnswerOps
  <2> QED
    BY <1>1, <2>1, <2>2 DEF Ans7, Ans6, Ans5, Ans4, Ans3
<1>15. i2c_read(b) = Read3(r)
  <2>1. i2c_read(b) = Ahead("clear", Ahead("SDA_DIR_IN", Ahead("SCL_LOW", ReadRest(b, 0))))
    BY ReadOps
  <2> QED
    BY <1>1, <2>1 DEF Read3, Read2, Read1
<1> QED
  BY <1>1, <1>2, <1>3, <1>4, <1>5, <1>6, <1>7, <1>8, <1>9, <1>10, <1>11, <1>12, <1>13, <1>14, <1>15

(* The bits of a byte that is read.                                        *)
BitsIn(r) == \E k \in 0 .. (Bits - 1) : ReadsBit(r, k)

(* A bit of it, port by port; after the last, the chip lets go of the line. *)
LEMMA ReadBitStep ==
  ASSUME BusTypes, NEW r \in Nat, NEW k \in 0 .. (Bits - 1), ReadsBit(r, k), NextPort
  PROVE  /\ BusTypes' /\ Meant /\ Kept /\ bSuccess' = bSuccess
         /\ chip'.ptr = chip.ptr /\ UNCHANGED <<call, i, plan>>
         /\ \/ BitsIn(r)'
            \/ /\ todo' = Ans7(r) /\ chip'.phase = "sent" /\ ~chip'.drive /\ scl' = 0
               /\ byte' = regs[chip.ptr]
<1>1. CASE todo = In3(r, k) /\ scl = 0 /\ byte = Prefix(regs[chip.ptr], k)
  <2>1. /\ todo' = In2(r, k) /\ UNCHANGED <<call, i, plan>> /\ Port("SCL_HIGH")
        /\ Head(todo) = "SCL_HIGH"
    BY <1>1, AccessStep, ReadRows, OpNames DEF In3
  <2>2. Clock(1)
    BY <2>1, PortCases
  <2>3. /\ BusTypes' /\ scl' = 1 /\ dir' = dir /\ out' = out /\ chip' = OnRise(chip)
        /\ bSuccess' = bSuccess /\ byte' = byte /\ Kept
    BY <1>1, <2>2, ClockRises
  <2>4. chip' = chip
    <3>1. chip.phase \notin {"listen", "sent"} /\ chip \in Chips /\ out \in {0, 1}
      BY DEF ReadsBit, Sends, BusTypes
    <3> QED
      BY <2>3, <3>1, Rises
  <2>5. ReadsBit(r, k)'
    BY <1>1, <2>1, <2>3, <2>4 DEF ReadsBit, Sends, Pulls, Kept
  <2> QED
    BY <1>1, <2>1, <2>3, <2>4, <2>5 DEF Meant, BitsIn
<1>2. CASE todo = In2(r, k) /\ scl = 1 /\ byte = Prefix(regs[chip.ptr], k)
  <2>1. /\ todo' = In1(r, k) /\ UNCHANGED <<call, i, plan>> /\ Port("bit")
        /\ Head(todo) = "bit"
    BY <1>2, AccessStep, ReadRows, OpNames DEF In2
  <2>2. /\ byte' = 2 * byte + Sda
        /\ UNCHANGED <<scl, dir, out, chip, regs, bSuccess, array, moved>>
    BY <2>1, LocalCases
  <2>3. PICK v \in Bytes : v = regs[chip.ptr]
    <3>1. chip.ptr \in Bytes /\ regs \in [Bytes -> Bytes]
      BY DEF BusTypes, Chips
    <3> QED
      BY <3>1
  <2>4. PICK b \in {0, 1} : b = Bit(v, Bits - (k + 1))
    <3>1. v \in Nat /\ Bits - (k + 1) \in Nat
      BY BytesNat
    <3> QED
      BY <3>1, BitType
  <2>5. Sda = b
    <3>1. chip.drive = (b = 0)
      <4>1. Bits - 1 - k = Bits - (k + 1)
        BY BytesNat
      <4> QED
        BY <2>3, <2>4, <4>1 DEF ReadsBit, Sends, Pulls
    <3> QED
      BY <3>1 DEF Sda, ReadsBit
  <2>6. byte' = Prefix(v, k + 1) /\ byte' \in Nat
    <3>1. byte' = Prefix(v, k + 1)
      BY <1>2, <2>2, <2>3, <2>4, <2>5, PrefixNext
    <3>2. byte' \in Nat
      BY <2>2, <2>5 DEF BusTypes
    <3> QED
      BY <3>1, <3>2
  <2>7. BusTypes' /\ Kept /\ Sda' = Sda
    BY <2>2, <2>6 DEF BusTypes, Kept, Sda
  <2>8. ReadsBit(r, k)'
    BY <1>2, <2>1, <2>2, <2>3, <2>6 DEF ReadsBit, Sends, Pulls
  <2> QED
    BY <2>1, <2>2, <2>7, <2>8 DEF Meant, BitsIn
<1>3. CASE todo = In1(r, k) /\ scl = 1 /\ byte = Prefix(regs[chip.ptr], k + 1)
  <2>1. /\ todo' = ReadRest(r > 1, k + 1) /\ UNCHANGED <<call, i, plan>> /\ Port("SCL_LOW")
        /\ Head(todo) = "SCL_LOW"
    BY <1>3, AccessStep, ReadRows, OpNames DEF In1
  <2>2. Clock(0) /\ ~ByteIsIn(chip) /\ chip \in Chips /\ chip.phase = "send" /\ chip.n = k
    BY <2>1, PortCases DEF ReadsBit, Sends, ByteIsIn, BusTypes
  <2>3. /\ scl' = 0 /\ dir' = dir /\ out' = out /\ bSuccess' = bSuccess /\ byte' = byte /\ Kept
        /\ chip' \in OnFall(chip) /\ (chip' \in Chips => BusTypes')
    BY <1>3, <2>2, ClockFalls
  <2>4. chip.n < Bits
    BY <2>2, BytesNat
  <2>5. /\ chip' \in Chips /\ chip'.ptr = chip.ptr
        /\ k + 1 < Bits => /\ chip'.phase = "send" /\ chip'.n = k + 1
                           /\ chip'.drive = Pulls(chip.ptr, Bits - 2 - k)
        /\ k + 1 = Bits => chip'.phase = "sent" /\ ~chip'.drive
    BY <2>2, <2>3, <2>4, FallsSend
  <2>6. BusTypes' /\ Meant
    BY <2>1, <2>3, <2>5 DEF Meant
  <2>7. CASE k + 1 < Bits
    <3>1. k + 1 \in 0 .. (Bits - 1) /\ Bits - 2 - k = Bits - 1 - (k + 1)
      BY <2>7, BytesNat
    <3>2. todo' = In3(r, k + 1)
      BY <2>1, <3>1, ReadRows
    <3>3. PICK m : m = Bits - 2 - k
      OBVIOUS
    <3>4. Pulls(chip.ptr, m)' = Pulls(chip.ptr, m)
      BY <2>3, <2>5 DEF Pulls, Kept
    <3>5. Sends(k + 1)'
      BY <2>5, <2>7, <3>1, <3>3, <3>4 DEF Sends
    <3>6. ReadsBit(r, k + 1)'
      BY <1>3, <2>3, <2>5, <3>2, <3>5 DEF ReadsBit, Kept
    <3> QED
      BY <2>1, <2>3, <2>5, <2>6, <3>1, <3>6 DEF BitsIn
  <2>8. CASE k + 1 = Bits
    <3>1. todo' = Ans7(r)
      BY <2>1, <2>8, AnswerRows
    <3>2. regs[chip.ptr] \in Bytes
      BY DEF BusTypes, Chips
    <3>3. byte' = regs[chip.ptr]
      BY <1>3, <2>3, <2>8, <3>2, PrefixAll
    <3> QED
      BY <2>1, <2>3, <2>5, <2>6, <2>8, <3>1, <3>3
  <2> QED
    BY <2>7, <2>8, BytesNat
<1> QED
  BY <1>1, <1>2, <1>3 DEF ReadsBit

(* Before the first bit of a byte.                                         *)
LEMMA ReadFirstStep ==
  ASSUME BusTypes, Calling, NEW r \in 1 .. MaxLen, ReadsByte(r), NextPort,
         scl = 0 /\ Sends(0) /\ At(moved),
         \/ todo = Read3(r)
         \/ todo = Read2(r) /\ byte = 0
         \/ todo = Read1(r) /\ byte = 0 /\ dir = "in"
  PROVE  BusTypes' /\ ReadsByte(r)' /\ Meant /\ Kept
<1>1. r \in Nat /\ MaxLen \in Nat
  BY I2cBusAssumption
<1>2. /\ plan = BytesPlan(r - 1) /\ call.kind # "write" /\ bSuccess /\ r <= Size(call)
      /\ moved = i + Size(call) - r
  BY DEF ReadsByte
<1>3. CASE todo = Read3(r)
  <2>1. /\ todo' = Read2(r) /\ UNCHANGED <<call, i, plan>> /\ Port("clear")
        /\ Head(todo) = "clear"
    BY <1>1, <1>3, AccessStep, AnswerRows, OpNames DEF Read3
  <2>2. byte' = 0 /\ UNCHANGED <<scl, dir, out, chip, regs, bSuccess, array, moved>>
    BY <2>1, LocalCases
  <2>3. BusTypes' /\ Kept /\ Sda' = Sda
    BY <2>2 DEF BusTypes, Kept, Sda
  <2>4. ReadsByte(r)'
    BY <1>2, <2>1, <2>2 DEF ReadsByte, Sends, Pulls, At
  <2> QED
    BY <2>1, <2>3, <2>4 DEF Meant
<1>4. CASE todo = Read2(r) /\ byte = 0
  <2>1. /\ todo' = Read1(r) /\ UNCHANGED <<call, i, plan>> /\ Port("SDA_DIR_IN")
        /\ Head(todo) = "SDA_DIR_IN"
    BY <1>1, <1>4, AccessStep, AnswerRows, OpNames DEF Read2
  <2>2. Line("in", out) /\ out \in {0, 1}
    BY <2>1, PortCases DEF BusTypes
  <2>3. /\ BusTypes' /\ chip' = chip /\ scl' = scl /\ dir' = "in" /\ out' = out
        /\ bSuccess' = bSuccess /\ byte' = byte /\ Kept
    BY <2>2, LineQuiet
  <2>4. ReadsByte(r)'
    BY <1>2, <1>4, <2>1, <2>3 DEF ReadsByte, Sends, Pulls, At, Kept
  <2> QED
    BY <2>1, <2>3, <2>4 DEF Meant
<1>5. CASE todo = Read1(r) /\ byte = 0 /\ dir = "in"
  <2>1. 0 \in 0 .. (Bits - 1)
    BY BytesNat
  <2>2. /\ todo' = In3(r, 0) /\ UNCHANGED <<call, i, plan>> /\ Port("SCL_LOW")
        /\ Head(todo) = "SCL_LOW"
    <3>1. ReadRest(r > 1, 0) = In3(r, 0)
      BY <1>1, <2>1, ReadRows
    <3>2. In3(r, 0) \in Seq(Ops)
      BY <1>1, <2>1, ReadRows
    <3> QED
      BY <1>1, <1>5, <3>1, <3>2, AccessStep, OpNames DEF Read1
  <2>3. Clock(0)
    BY <2>2, PortCases
  <2>4. /\ BusTypes' /\ scl' = 0 /\ dir' = dir /\ out' = out /\ chip' = chip
        /\ bSuccess' = bSuccess /\ byte' = byte /\ Kept
    BY <2>3, ClockStays
  <2>5. byte' = Prefix(regs[chip.ptr], 0)
    <3>1. regs[chip.ptr] \in Bytes
      BY DEF BusTypes, Chips
    <3> QED
      BY <1>5, <2>4, <3>1, PrefixNone
  <2>6. ReadsBit(r, 0)' /\ At(moved)'
    BY <1>5, <2>2, <2>4, <2>5 DEF ReadsBit, Sends, Pulls, At, Kept
  <2>7. ReadsByte(r)'
    BY <1>2, <2>1, <2>2, <2>4, <2>6 DEF ReadsByte, Kept
  <2> QED
    BY <2>2, <2>4, <2>7 DEF Meant
<1> QED
  BY <1>3, <1>4, <1>5

(* What holds as long as the bits are in and not stored.                   *)
Read(r) ==
  /\ plan = BytesPlan(r - 1) /\ call.kind # "write" /\ bSuccess /\ r <= Size(call)
  /\ moved = i + Size(call) - r /\ byte = regs[Reg(call, moved)]

LEMMA ReadKept ==
  ASSUME NEW r, Read(r), UNCHANGED <<call, i, plan, bSuccess, byte>>, Kept
  PROVE  Read(r)'
BY DEF Read, Kept

LEMMA ReadBitsStep ==
  ASSUME BusTypes, Calling, NEW r \in 1 .. MaxLen, ReadsByte(r), NextPort,
         NEW k \in 0 .. (Bits - 1), ReadsBit(r, k), At(moved)
  PROVE  BusTypes' /\ ReadsByte(r)' /\ Meant /\ Kept
<1>1. r \in Nat /\ MaxLen \in Nat
  BY I2cBusAssumption
<1>2. /\ plan = BytesPlan(r - 1) /\ call.kind # "write" /\ bSuccess /\ r <= Size(call)
      /\ moved = i + Size(call) - r
  BY DEF ReadsByte
<1>3. /\ BusTypes' /\ Meant /\ Kept /\ bSuccess' = bSuccess
      /\ chip'.ptr = chip.ptr /\ UNCHANGED <<call, i, plan>>
      /\ \/ BitsIn(r)'
         \/ /\ todo' = Ans7(r) /\ chip'.phase = "sent" /\ ~chip'.drive /\ scl' = 0
            /\ byte' = regs[chip.ptr]
  BY <1>1, ReadBitStep
<1>4. At(moved)'
  BY <1>3 DEF At, Kept
<1>5. CASE BitsIn(r)'
  BY <1>2, <1>3, <1>4, <1>5 DEF BitsIn, ReadsByte, Kept
<1>6. CASE /\ todo' = Ans7(r) /\ chip'.phase = "sent" /\ ~chip'.drive /\ scl' = 0
           /\ byte' = regs[chip.ptr]
  <2>1. byte' = regs'[Reg(call', moved')]
    BY <1>3, <1>6 DEF At, Kept
  <2> QED
    BY <1>2, <1>3, <1>4, <1>6, <2>1 DEF ReadsByte, Kept
<1> QED
  BY <1>3, <1>5, <1>6

(* The acknowledge of a byte that was read.                                *)
LEMMA ReadAckStep ==
  ASSUME BusTypes, Calling, NEW r \in 1 .. MaxLen, Read(r), NextPort,
         chip.phase = "sent", ~chip.drive, scl = 0, At(moved),
         \/ todo = Ans7(r)
         \/ todo = Ans6(r)
         \/ todo = Ans5(r) /\ dir = "out"
         \/ todo = Ans4 /\ dir = "out" /\ out = IF r > 1 THEN 0 ELSE 1
  PROVE  BusTypes' /\ ReadsByte(r)' /\ Meant /\ Kept
<1>1. r \in Nat /\ MaxLen \in Nat
  BY I2cBusAssumption
<1>3. CASE todo = Ans7(r)
  <2>1. /\ todo' = Ans6(r) /\ UNCHANGED <<call, i, plan>> /\ Port("SCL_LOW")
        /\ Head(todo) = "SCL_LOW"
    BY <1>1, <1>3, AccessStep, AnswerRows, OpNames DEF Ans7
  <2>2. Clock(0)
    BY <2>1, PortCases
  <2>3. /\ BusTypes' /\ scl' = 0 /\ dir' = dir /\ out' = out /\ chip' = chip
        /\ bSuccess' = bSuccess /\ byte' = byte /\ Kept
    BY <2>2, ClockStays
  <2>4. Read(r)' /\ At(moved)'
    BY <2>1, <2>3, ReadKept DEF At, Kept
  <2>5. ReadsByte(r)'
    BY <2>1, <2>3, <2>4 DEF ReadsByte, Read
  <2> QED
    BY <2>1, <2>3, <2>5 DEF Meant
<1>4. CASE todo = Ans6(r)
  <2>1. /\ todo' = Ans5(r) /\ UNCHANGED <<call, i, plan>> /\ Port("SDA_DIR_OUT")
        /\ Head(todo) = "SDA_DIR_OUT"
    BY <1>1, <1>4, AccessStep, AnswerRows, OpNames DEF Ans6
  <2>2. Line("out", out) /\ out \in {0, 1}
    BY <2>1, PortCases DEF BusTypes
  <2>3. /\ BusTypes' /\ chip' = chip /\ scl' = scl /\ dir' = "out" /\ out' = out
        /\ bSuccess' = bSuccess /\ byte' = byte /\ Kept
    BY <2>2, LineQuiet
  <2>4. Read(r)' /\ At(moved)'
    BY <2>1, <2>3, ReadKept DEF At, Kept
  <2>5. ReadsByte(r)'
    BY <2>1, <2>3, <2>4 DEF ReadsByte, Read
  <2> QED
    BY <2>1, <2>3, <2>5 DEF Meant
<1>5. CASE todo = Ans5(r) /\ dir = "out"
  <2>1. /\ todo' = Ans4 /\ UNCHANGED <<call, i, plan>> /\ Port(AckLevel(r > 1))
        /\ Head(todo) = AckLevel(r > 1)
    BY <1>1, <1>5, AccessStep, AnswerRows DEF Ans5
  <2>2. PICK v \in {0, 1} : v = IF r > 1 THEN 0 ELSE 1
    OBVIOUS
  <2>3. Line(dir, v)
    BY <2>1, <2>2, PortCases DEF AckLevel
  <2>4. /\ BusTypes' /\ chip' = chip /\ scl' = scl /\ dir' = "out" /\ out' = v
        /\ bSuccess' = bSuccess /\ byte' = byte /\ Kept
    BY <1>5, <2>3, LineQuiet
  <2>5. Read(r)' /\ At(moved)'
    BY <2>1, <2>4, ReadKept DEF At, Kept
  <2>6. ReadsByte(r)'
    BY <2>1, <2>2, <2>4, <2>5 DEF ReadsByte, Read
  <2>7. Head(todo) \notin {"start", "stop"}
    BY <2>1 DEF AckLevel
  <2> QED
    BY <2>1, <2>4, <2>6, <2>7 DEF Meant
<1>6. CASE todo = Ans4 /\ dir = "out" /\ out = IF r > 1 THEN 0 ELSE 1
  <2>1. /\ todo' = Ans3 /\ UNCHANGED <<call, i, plan>> /\ Port("SCL_HIGH")
        /\ Head(todo) = "SCL_HIGH"
    BY <1>1, <1>6, AccessStep, AnswerRows, OpNames DEF Ans4
  <2>2. Clock(1)
    BY <2>1, PortCases
  <2>3. /\ BusTypes' /\ scl' = 1 /\ dir' = dir /\ out' = out /\ chip' = OnRise(chip)
        /\ chip'.drive = chip.drive /\ chip'.ptr = chip.ptr
        /\ bSuccess' = bSuccess /\ byte' = byte /\ Kept
    BY <2>2, ClockRises
  <2>4. Sda = out
    BY <1>6 DEF Sda
  <2>5. chip'.phase = IF r > 1 THEN "more" ELSE "sent"
    <3>1. chip \in Chips /\ out \in {0, 1}
      BY DEF BusTypes
    <3>2. OnRise(chip).phase = IF Sda = 0 THEN "more" ELSE "sent"
      BY <3>1, Rises
    <3> QED
      BY <1>6, <2>3, <2>4, <3>2
  <2>6. Read(r)' /\ At(moved)'
    BY <2>1, <2>3, ReadKept DEF At, Kept
  <2>7. ReadsByte(r)'
    BY <1>6, <2>1, <2>3, <2>5, <2>6 DEF ReadsByte, Read
  <2> QED
    BY <2>1, <2>3, <2>7 DEF Meant
<1> QED
  BY <1>3, <1>4, <1>5, <1>6

(* The clock after it: the chip goes on with the next register or ends.    *)
LEMMA ReadNextStep ==
  ASSUME BusTypes, Calling, NEW r \in 1 .. MaxLen, Read(r), NextPort,
         todo = Ans3, scl = 1, dir = "out", ~chip.drive, At(moved),
         chip.phase = IF r > 1 THEN "more" ELSE "sent"
  PROVE  BusTypes' /\ ReadsByte(r)' /\ Meant /\ Kept
<1>1. r \in Nat /\ MaxLen \in Nat
  BY I2cBusAssumption
<1>2. /\ todo' = Stores /\ UNCHANGED <<call, i, plan>> /\ Port("SCL_LOW")
      /\ Head(todo) = "SCL_LOW"
  BY <1>1, AccessStep, AnswerRows, OpNames DEF Ans3
<1>3. Clock(0) /\ ~ByteIsIn(chip) /\ chip \in Chips
  BY <1>2, PortCases DEF ByteIsIn, BusTypes
<1>4. /\ scl' = 0 /\ dir' = dir /\ out' = out /\ bSuccess' = bSuccess /\ byte' = byte /\ Kept
      /\ chip' \in OnFall(chip) /\ (chip' \in Chips => BusTypes')
  BY <1>3, ClockFalls
<1>5. Read(r)'
  BY <1>2, <1>4, ReadKept
<1>6. CASE r > 1
  <2>1. PICK p \in Bytes : p = (chip.ptr + 1) % 2 ^ Bits /\ p = Reg(call, moved + 1)
    <3>1. call \in Requests /\ moved \in Nat
      BY DEF Calling, BusTypes
    <3> QED
      BY <3>1, RegFacts DEF At
  <2>2. /\ chip' \in Chips /\ chip'.phase = "send" /\ chip'.n = 0 /\ chip'.ptr = p
        /\ chip'.drive = Pulls(p, Bits - 1)
    BY <1>3, <1>4, <1>6, <2>1, FallsMore
  <2>3. Sends(0)'
    <3>1. Bits - 1 - 0 = Bits - 1
      BY BytesNat
    <3>2. Pulls(p, Bits - 1)' = Pulls(p, Bits - 1)
      BY <1>4 DEF Pulls, Kept
    <3> QED
      BY <2>2, <3>1, <3>2 DEF Sends
  <2>4. NextUp(r)'
    BY <1>2, <1>4, <1>6, <2>1, <2>2, <2>3 DEF NextUp, At, Kept
  <2> QED
    BY <1>2, <1>4, <1>5, <2>2, <2>4 DEF ReadsByte, Read, Meant
<1>7. CASE ~(r > 1)
  <2>1. r = 1
    BY <1>1, <1>7
  <2>2. chip' \in Chips /\ ~chip'.drive
    BY <1>3, <1>4, <1>7, FallsSent
  <2>3. NextUp(r)'
    BY <1>4, <2>1, <2>2 DEF NextUp
  <2> QED
    BY <1>2, <1>4, <1>5, <2>2, <2>3 DEF ReadsByte, Read, Meant
<1> QED
  BY <1>6, <1>7

(* The byte is stored for the caller.                                      *)
LEMMA StoreStep ==
  ASSUME BusTypes, Calling, NEW r \in 1 .. MaxLen, Read(r), NextPort, NextUp(r),
         todo = Stores \/ todo = Store1
  PROVE  BusTypes' /\ (ReadsByte(r) \/ Between)' /\ Meant /\ (Kept \/ Got)
<1>1. r \in Nat /\ MaxLen \in Nat /\ r >= 1
  BY I2cBusAssumption
<1>2. CASE todo = Stores
  <2>1. /\ todo' = Store1 /\ UNCHANGED <<call, i, plan>> /\ Port("SDA_LOW")
        /\ Head(todo) = "SDA_LOW"
    BY <1>1, <1>2, AccessStep, AnswerRows, OpNames DEF Stores, Store1
  <2>2. Line(dir, 0) /\ dir \in {"in", "out"} /\ scl = 0
    BY <2>1, PortCases DEF BusTypes, NextUp
  <2>3. /\ BusTypes' /\ chip' = chip /\ scl' = scl /\ dir' = dir /\ out' = 0
        /\ bSuccess' = bSuccess /\ byte' = byte /\ Kept
    BY <2>2, LineQuiet
  <2>4. NextUp(r)'
    BY <2>1, <2>3 DEF NextUp, Sends, Pulls, At, Kept
  <2>5. Read(r)'
    BY <2>1, <2>3, ReadKept
  <2> QED
    BY <2>1, <2>2, <2>3, <2>4, <2>5 DEF ReadsByte, Read, Meant
<1>3. CASE todo = Store1
  <2>1. /\ todo' = << >> /\ UNCHANGED <<call, i, plan>> /\ Port("store")
        /\ Head(todo) = "store"
    BY <1>1, <1>3, AccessStep, StartRows, OpNames DEF Store1
  <2>2. /\ array' = [array EXCEPT ![moved + 1] = byte] /\ moved' = moved + 1
        /\ UNCHANGED <<scl, dir, out, chip, regs, bSuccess, byte>>
    BY <2>1, LocalCases
  <2>3. BusTypes' /\ Sda' = Sda
    BY <2>2 DEF BusTypes, Sda
  <2>4. PICK n \in 1 .. MaxLen : n = Size(call) /\ n <= call.len /\ (call.kind # "burst" => n = 1)
    <3>1. Size(call) \in 1 .. MaxLen /\ Size(call) <= call.len
      BY PlanTypes DEF Calling
    <3>2. call.kind # "burst" => Size(call) = 1
      BY DEF Size
    <3> QED
      BY <3>1, <3>2
  <2>5. /\ i \in Nat /\ i < call.len /\ call.len \in Nat /\ n \in Nat /\ r <= n
        /\ (call.kind = "burst" => i = 0) /\ moved = i + n - r /\ moved \in Nat
    BY <2>4, RequestFacts, <1>1 DEF Calling, Read, BusTypes
  <2>6. moved < call.len
    BY <1>1, <2>4, <2>5
  <2>7. Got
    BY <2>2, <2>6 DEF Got, Read
  <2>8. Size(call)' = n
    BY <2>1, <2>4 DEF Size
  <2>9. moved' = i' + n - (r - 1)
    BY <1>1, <2>1, <2>2, <2>5
  <2>10. CASE r = 1
    <3>1. plan' = StopPlan
      BY <2>1, <2>10 DEF Read, BytesPlan
    <3>2. moved' = i' + n
      BY <2>9, <2>10, <2>5, <2>1
    <3>3. AtStop'
      BY <2>2, <2>8, <2>10, <3>1, <3>2 DEF AtStop, Down, NextUp, Moved, Read
    <3> QED
      BY <2>1, <2>3, <2>7, <3>3 DEF Between, Meant
  <2>11. CASE r # 1
    <3>1. PICK q \in 1 .. MaxLen : q = r - 1
      <4>1. r - 1 \in 1 .. MaxLen
        BY <1>1, <2>11
      <4> QED
        BY <4>1
    <3>2. scl' = 0 /\ Sends(0)' /\ At(moved)'
      BY <2>1, <2>2, <2>11 DEF NextUp, Sends, Pulls, At
    <3>3. plan' = BytesPlan(q) /\ q <= n /\ moved' = i' + n - q
      BY <1>1, <2>1, <2>5, <2>9, <3>1 DEF Read
    <3>4. AtByte(q)'
      BY <2>1, <2>2, <2>8, <3>2, <3>3 DEF AtByte, Read
    <3> QED
      BY <2>1, <2>3, <2>7, <3>4 DEF Between, Meant
  <2> QED
    BY <2>10, <2>11
<1> QED
  BY <1>2, <1>3

(* A byte that is read, port by port.                                      *)
LEMMA ReadStep ==
  ASSUME BusTypes, Calling, Reading, NextPort
  PROVE  BusTypes' /\ (Reading \/ Between)' /\ Meant /\ (Kept \/ Got)
<1>1. PICK r \in 1 .. MaxLen : ReadsByte(r)
  BY DEF Reading
<1>2. BusTypes' /\ (ReadsByte(r) \/ Between)' /\ Meant /\ (Kept \/ Got)
  <2>1. CASE /\ scl = 0 /\ Sends(0) /\ At(moved)
             /\ \/ todo = Read3(r)
                \/ todo = Read2(r) /\ byte = 0
                \/ todo = Read1(r) /\ byte = 0 /\ dir = "in"
    BY <1>1, <2>1, ReadFirstStep
  <2>2. CASE \E k \in 0 .. (Bits - 1) : ReadsBit(r, k) /\ At(moved)
    BY <1>1, <2>2, ReadBitsStep
  <2>3. CASE /\ byte = regs[Reg(call, moved)]
             /\ chip.phase = "sent" /\ ~chip.drive /\ scl = 0 /\ At(moved)
             /\ \/ todo = Ans7(r)
                \/ todo = Ans6(r)
                \/ todo = Ans5(r) /\ dir = "out"
                \/ todo = Ans4 /\ dir = "out" /\ out = IF r > 1 THEN 0 ELSE 1
    <3>1. Read(r)
      BY <1>1, <2>3 DEF ReadsByte, Read
    <3> QED
      BY <2>3, <3>1, ReadAckStep
  <2>4. CASE /\ byte = regs[Reg(call, moved)]
             /\ todo = Ans3 /\ scl = 1 /\ dir = "out" /\ ~chip.drive /\ At(moved)
             /\ chip.phase = IF r > 1 THEN "more" ELSE "sent"
    <3>1. Read(r)
      BY <1>1, <2>4 DEF ReadsByte, Read
    <3> QED
      BY <2>4, <3>1, ReadNextStep
  <2>5. CASE /\ byte = regs[Reg(call, moved)]
             /\ NextUp(r) /\ (todo = Stores \/ todo = Store1)
    <3>1. Read(r)
      BY <1>1, <2>5 DEF ReadsByte, Read
    <3> QED
      BY <2>5, <3>1, StoreStep
  <2> QED
    BY <1>1, <2>1, <2>2, <2>3, <2>4, <2>5 DEF ReadsByte
<1> QED
  BY <1>2 DEF Reading

-----------------------------------------------------------------------------
(* Parts and calls.                                                        *)

(* The address a read starts with is a byte too.                           *)
LEMMA Addresses == SLAVE_ADDR \in Bytes /\ SLAVE_ADDR + 1 \in Bytes
<1>1. SLAVE_ADDR \in Bytes /\ SLAVE_ADDR % 2 = 0 /\ SLAVE_ADDR \in Nat
  BY I2cBusAssumption, BytesNat
<1>2. PICK h \in Nat : 2 ^ Bits = 2 * h
  <2>1. PICK m \in Nat : Bits = m + 1
    <3>1. Bits - 1 \in Nat /\ Bits = (Bits - 1) + 1
      BY BytesNat
    <3> QED
      BY <3>1
  <2>2. 2 ^ (m + 1) = 2 * 2 ^ m /\ 2 ^ m \in Nat
    BY PowerStep, PowerType
  <2> QED
    BY <2>1, <2>2
<1>3. SLAVE_ADDR \in 0 .. (2 * h - 1)
  BY <1>1, <1>2 DEF Bytes
<1>4. SLAVE_ADDR + 1 \in 0 .. (2 * h - 1)
  BY <1>1, <1>3
<1> QED
  BY <1>1, <1>2, <1>4 DEF Bytes

(* Inside a part, ports are left to write.                                 *)
LEMMA Busy ==
  ASSUME Calling, Starting \/ Stopping \/ Writing \/ Answered \/ Reading
  PROVE  todo # << >>
<1>1. CASE Starting
  BY <1>1, StartRows, OpNames, OpAhead, SMTT(30) DEF Starting, Start4, Start3, Start2,
      Start1, ClockLow
<1>2. CASE Stopping
  BY <1>2, StartRows, OpNames, OpAhead, SMTT(30) DEF Stopping, Stop4, Stop3, Stop2, Stop1
<1>3. CASE Writing
  <2>1. PICK v \in Bytes, g \in {"none", "address", "register"} :
          \/ todo = Ahead("SDA_DIR_OUT", WriteRest(v, 0))
          \/ \E k \in 0 .. (Bits - 1) : WritesBit(v, g, k)
    BY <1>3 DEF Writing
  <2>2. CASE todo = Ahead("SDA_DIR_OUT", WriteRest(v, 0))
    <3>1. 0 \in 0 .. Bits
      BY BytesNat
    <3> QED
      BY <2>2, <3>1, WriteOps, OpNames, OpAhead
  <2>3. ASSUME NEW k \in 0 .. (Bits - 1), WritesBit(v, g, k) PROVE todo # << >>
    <3>1. todo \in {Bit1(v, k), Bit2(v, k), Bit3(v, k), Bit4(v, k)}
      BY <2>3 DEF WritesBit, EndsBit
    <3> QED
      BY <3>1, WriteRows, OpNames, OpAhead DEF Bit4, Bit3, Bit2, Bit1
  <2> QED
    BY <2>1, <2>2, <2>3
<1>4. CASE Answered
  <2>1. Ack4 # << >> /\ Ack3 # << >> /\ Ack2 # << >> /\ ClockLow # << >>
    BY StartRows, AckRows, OpNames, OpAhead DEF Ack4, Ack3, Ack2, ClockLow
  <2> QED
    BY <1>4, <2>1 DEF Answered
<1>5. CASE Reading
  <2>1. PICK r \in 1 .. MaxLen : ReadsByte(r)
    BY <1>5 DEF Reading
  <2>2. r \in Nat
    BY I2cBusAssumption
  <2>3. CASE \E k \in 0 .. (Bits - 1) : ReadsBit(r, k)
    <3>1. PICK k \in 0 .. (Bits - 1) : ReadsBit(r, k)
      BY <2>3
    <3>2. todo \in {In1(r, k), In2(r, k), In3(r, k)}
      BY <3>1 DEF ReadsBit
    <3>3. /\ In1(r, k) \in Seq(Ops) /\ In2(r, k) \in Seq(Ops)
          /\ ReadRest(r > 1, k + 1) \in Seq(Ops)
      BY <2>2, ReadRows
    <3>4. In1(r, k) # << >>
      BY <3>3, OpNames, OpAhead DEF In1
    <3>5. In2(r, k) # << >>
      BY <3>3, OpNames, OpAhead DEF In2
    <3>6. In3(r, k) # << >>
      BY <3>3, OpNames, OpAhead DEF In3
    <3> QED
      BY <3>2, <3>4, <3>5, <3>6
  <2>4. CASE ~\E k \in 0 .. (Bits - 1) : ReadsBit(r, k)
    <3>1. todo \in {Read1(r), Read2(r), Read3(r), Ans7(r), Ans6(r), Ans5(r), Ans4, Ans3, Stores,
                    Store1}
      BY <2>1, <2>4 DEF ReadsByte
    <3>2. /\ Store1 \in Seq(Ops) /\ Stores \in Seq(Ops) /\ Ans3 \in Seq(Ops) /\ Ans4 \in Seq(Ops)
          /\ Ans5(r) \in Seq(Ops) /\ Ans6(r) \in Seq(Ops)
          /\ Read1(r) \in Seq(Ops) /\ Read2(r) \in Seq(Ops)
          /\ AckLevel(r > 1) \in Ops /\ ReadRest(r > 1, 0) \in Seq(Ops)
      BY <2>2, AnswerRows
    <3>3. Read3(r) # << >> /\ Read2(r) # << >>
      BY <3>2, OpNames, OpAhead DEF Read3, Read2
    <3>4. Read1(r) # << >>
      BY <3>2, OpNames, OpAhead DEF Read1
    <3>5. Ans7(r) # << >> /\ Ans6(r) # << >>
      BY <3>2, OpNames, OpAhead DEF Ans7, Ans6
    <3>6. Ans5(r) # << >>
      BY <3>2, OpAhead DEF Ans5
    <3>7. Ans4 # << >> /\ Ans3 # << >>
      BY <3>2, OpNames, OpAhead DEF Ans4, Ans3
    <3>8. Stores # << >> /\ Store1 # << >>
      BY <3>2, StartRows, OpNames, OpAhead DEF Stores, Store1
    <3> QED
      BY <3>1, <3>3, <3>4, <3>5, <3>6, <3>7, <3>8
  <2> QED
    BY <2>3, <2>4
<1> QED
  BY <1>1, <1>2, <1>3, <1>4, <1>5

(* What a part does to the state, its ports not yet written.               *)
LEMMA PartFrame ==
  ASSUME BusTypes, Calling, NextPart
  PROVE  /\ BusTypes' /\ Calling' /\ Meant /\ Kept
         /\ UNCHANGED <<scl, dir, out, chip, call, i, bSuccess, result>>
         /\ todo = << >> /\ plan # << >>
<1>1. /\ UNCHANGED <<scl, dir, out, chip, regs, call, i, bSuccess, byte, array, result, moved>>
      /\ todo = << >> /\ plan # << >>
  BY DEF NextPart, wires
<1>2. BusTypes' /\ Calling' /\ Kept
  BY <1>1 DEF BusTypes, Calling, Kept
<1>3. Meant
  BY <1>1 DEF Meant, Sda
<1> QED
  BY <1>1, <1>2, <1>3

LEMMA PartStep ==
  ASSUME NextPart, NEW p \in Parts, NEW s \in Seq(Parts), plan = Ahead(p, s)
  PROVE  /\ plan' = s
         /\ bSuccess \/ p \in {"start", "stop"} => todo' = Part(p, i)
         /\ ~(bSuccess \/ p \in {"start", "stop"}) => todo' = << >>
<1>1. Head(plan) = p /\ Tail(plan) = s
  BY PartAhead
<1> QED
  BY <1>1 DEF NextPart

(* The ports of each part.                                                 *)
LEMMA PartOps ==
  /\ \A k : Part("start", k) = Start4 /\ Part("restart", k) = Start4 /\ Part("stop", k) = Stop4
  /\ \A k : Part("device", k) = Ahead("SDA_DIR_OUT", WriteRest(SLAVE_ADDR, 0))
  /\ \A k : Part("again", k) = Ahead("SDA_DIR_OUT", WriteRest(SLAVE_ADDR + 1, 0))
  /\ \A k : Reg(call, k) \in Bytes
              => Part("register", k) = Ahead("SDA_DIR_OUT", WriteRest(Reg(call, k), 0))
  /\ \A k : call.data[k + 1] \in Bytes
              => Part("data", k) = Ahead("SDA_DIR_OUT", WriteRest(call.data[k + 1], 0))
  /\ \A k : Part("more", k) = i2c_read(TRUE) /\ Part("last", k) = i2c_read(FALSE)
<1>1. i2c_start = Start4 /\ i2c_stop = Stop4
  BY EdgeOps DEF Start4, Start3, Start2, Start1, ClockLow, Stop4, Stop3, Stop2, Stop1
<1>2. \A k : Part("start", k) = Start4 /\ Part("restart", k) = Start4 /\ Part("stop", k) = Stop4
  BY <1>1 DEF Part
<1>3. /\ i2c_write(SLAVE_ADDR) = Ahead("SDA_DIR_OUT", WriteRest(SLAVE_ADDR, 0))
      /\ i2c_write(SLAVE_ADDR + 1) = Ahead("SDA_DIR_OUT", WriteRest(SLAVE_ADDR + 1, 0))
  BY Addresses, WriteOps
<1>4. \A k : Part("device", k) = i2c_write(SLAVE_ADDR) /\ Part("again", k) = i2c_write(SLAVE_ADDR + 1)
  BY DEF Part
<1>5. \A k : Part("register", k) = i2c_write(Reg(call, k))
  BY DEF Part, Register, Reg
<1>6. \A k : Part("data", k) = i2c_write(call.data[k + 1])
  BY DEF Part
<1>7. \A k : Part("more", k) = i2c_read(TRUE) /\ Part("last", k) = i2c_read(FALSE)
  BY DEF Part
<1> QED
  BY <1>2, <1>3, <1>4, <1>5, <1>6, <1>7, WriteOps

(* Each part finds the wires and the chip as it needs them.                *)
LEMMA NextPartStep ==
  ASSUME BusTypes, Calling, Between, NextPart
  PROVE  (Between \/ Starting \/ Stopping \/ Writing \/ Reading)'
<1> USE PartFrame
<1>1. /\ UNCHANGED <<scl, dir, out, chip, call, i, bSuccess, regs, moved>> /\ plan # << >>
      /\ call \in Requests
  BY DEF Kept, Calling
<1>2. CASE AtStart
  <2>1. plan' = DevicePlan(call) /\ todo' = Start4
    BY <1>1, <1>2, PartStep, PlanTypes, PartNames, PartOps DEF AtStart, StartPlan
  <2> QED
    BY <1>1, <1>2, <2>1 DEF AtStart, Starting, StartOf, Free
<1>3. CASE AtDevice
  <2>1. plan' = RegisterPlan(call) /\ todo' = Ahead("SDA_DIR_OUT", WriteRest(SLAVE_ADDR, 0))
    BY <1>1, <1>3, PartStep, PlanTypes, PartNames, PartOps DEF AtDevice, DevicePlan
  <2>2. WriteOf(SLAVE_ADDR, "none")'
    BY <1>1, <2>1 DEF WriteOf
  <2>3. Listening("none")' /\ bSuccess' /\ moved' = i'
    BY <1>1, <1>3 DEF AtDevice, Listening, Hears
  <2> QED
    BY <2>1, <2>2, <2>3, Addresses DEF Writing
<1>4. CASE AtRegister
  <2>1. /\ plan' = AddressedPlan(call)
        /\ bSuccess => todo' = Ahead("SDA_DIR_OUT", WriteRest(Reg(call, i), 0))
        /\ ~bSuccess => todo' = << >>
        /\ Reg(call, i) \in Bytes
    <3>1. Reg(call, i) \in Bytes
      BY <1>1, RegFacts DEF Calling
    <3> QED
      BY <1>1, <1>4, <3>1, PartStep, PlanTypes, PartNames, PartOps DEF AtRegister,
          RegisterPlan
  <2>2. CASE bSuccess
    <3>1. WriteOf(Reg(call, i), "address")'
      BY <1>1, <2>1 DEF WriteOf
    <3>2. PICK v \in Bytes : v = Reg(call, i) /\ v = Reg(call, i)'
      BY <1>1, <2>1
    <3>3. WriteOf(v, "address")'
      BY <1>1, <2>1, <3>2 DEF WriteOf
    <3>4. Listening("address")' /\ bSuccess' /\ moved' = i'
      BY <1>1, <1>4, <2>2 DEF AtRegister, GoesOn, Listening, Hears
    <3> QED
      BY <2>1, <2>2, <3>2, <3>3, <3>4 DEF Writing
  <2>3. CASE ~bSuccess
    BY <1>1, <1>4, <2>1, <2>3 DEF AtRegister, AtContent, GoesOn, Down, Between
  <2> QED
    BY <2>2, <2>3
<1>5. CASE AtContent /\ call.kind = "write"
  <2>1. call.data[i + 1] \in Bytes
    <3>1. call.len \in Nat /\ \A k \in 1 .. call.len : call.data[k] \in Bytes
      BY <1>1, <1>5, RequestFacts
    <3>2. i + 1 \in 1 .. call.len
      BY <3>1 DEF Calling
    <3> QED
      BY <3>1, <3>2
  <2>2. plan = Ahead("data", StopPlan)
    BY <1>5 DEF AtContent, AddressedPlan, DataPlan
  <2>3. /\ plan' = StopPlan
        /\ bSuccess => todo' = Ahead("SDA_DIR_OUT", WriteRest(call.data[i + 1], 0))
        /\ ~bSuccess => todo' = << >>
    BY <1>1, <2>1, <2>2, PartStep, PlanTypes, PartNames, PartOps
  <2>4. CASE bSuccess
    <3>1. PICK v \in Bytes : v = call.data[i + 1]
      BY <2>1
    <3>2. WriteOf(v, "register")'
      BY <1>1, <1>5, <2>3, <2>4, <3>1 DEF AtContent, GoesOn, WriteOf, At
    <3>3. Listening("register")' /\ bSuccess' /\ moved' = i'
      BY <1>1, <1>5, <2>4 DEF AtContent, GoesOn, Listening, Hears
    <3> QED
      BY <2>3, <2>4, <3>1, <3>2, <3>3 DEF Writing
  <2>5. CASE ~bSuccess
    BY <1>1, <1>5, <2>3, <2>5 DEF AtContent, AtStop, GoesOn, Down, Moved, Between
  <2> QED
    BY <2>4, <2>5
<1>6. CASE AtContent /\ call.kind # "write"
  <2>1. PICK p \in {"start", "restart"} :
          p = (IF call.kind = "burst" THEN "restart" ELSE "start")
    OBVIOUS
  <2>2. plan = Ahead(p, AgainPlan(call)) /\ p \in Parts
    BY <1>6, <2>1, PartNames DEF AtContent, AddressedPlan, RestartPlan
  <2>3. /\ plan' = AgainPlan(call)
        /\ bSuccess \/ p = "start" => todo' = Start4
        /\ ~bSuccess /\ p # "start" => todo' = << >>
    BY <1>1, <2>1, <2>2, PartStep, PlanTypes, PartOps
  <2>4. CASE bSuccess \/ p = "start"
    <3>1. ~chip.drive /\ scl = 0 /\ moved = i /\ (bSuccess => At(i))
      BY <1>6 DEF AtContent, GoesOn, Listening, Hears, Down
    <3> QED
      BY <1>1, <1>6, <2>3, <2>4, <3>1 DEF Starting, StartOf, Free, At
  <2>5. CASE ~bSuccess /\ p # "start"
    BY <1>1, <1>6, <2>3, <2>5 DEF AtContent, AtAgain, GoesOn, Down, Between
  <2> QED
    BY <2>4, <2>5
<1>7. CASE AtAgain
  <2>1. PICK n \in 1 .. MaxLen : n = Size(call) /\ n \in Nat
    BY <1>1, PlanTypes
  <2>2. BytesPlan(n) \in Seq(Parts)
    BY <2>1, BytesPlans
  <2>3. plan = Ahead("again", BytesPlan(n))
    BY <1>7, <2>1 DEF AtAgain, AgainPlan
  <2>4. /\ plan' = BytesPlan(n)
        /\ bSuccess => todo' = Ahead("SDA_DIR_OUT", WriteRest(SLAVE_ADDR + 1, 0))
        /\ ~bSuccess => todo' = << >>
    BY <1>1, <2>2, <2>3, PartStep, PartNames, PartOps
  <2>5. Size(call)' = n
    BY <1>1, <2>1
  <2>6. CASE bSuccess
    <3>1. WriteOf(SLAVE_ADDR + 1, "none")'
      BY <1>1, <1>7, <2>4, <2>5, <2>6 DEF AtAgain, GoesOn, WriteOf, At
    <3>2. Listening("none")' /\ bSuccess' /\ moved' = i'
      BY <1>1, <1>7, <2>6 DEF AtAgain, GoesOn, Listening, Hears
    <3> QED
      BY <2>4, <2>6, <3>1, <3>2, Addresses DEF Writing
  <2>7. CASE ~bSuccess
    <3>1. AtByte(n)'
      BY <1>1, <1>7, <2>1, <2>4, <2>5, <2>7 DEF AtAgain, AtByte, GoesOn, Down
    <3> QED
      BY <2>1, <2>4, <2>7, <3>1 DEF Between
  <2> QED
    BY <2>6, <2>7
<1>8. ASSUME NEW r \in 1 .. MaxLen, AtByte(r)
      PROVE  (Between \/ Reading)'
  <2>1. r \in Nat /\ r # 0 /\ r - 1 \in Nat /\ MaxLen \in Nat
    BY I2cBusAssumption
  <2>2. PICK p \in {"last", "more"} : p = IF r = 1 THEN "last" ELSE "more"
    OBVIOUS
  <2>3. plan = Ahead(p, BytesPlan(r - 1)) /\ BytesPlan(r - 1) \in Seq(Parts) /\ p \in Parts
    BY <1>8, <2>1, <2>2, BytesPlans, PartNames DEF AtByte
  <2>4. /\ plan' = BytesPlan(r - 1)
        /\ bSuccess => todo' = Part(p, i)
        /\ ~bSuccess => todo' = << >>
    BY <2>2, <2>3, PartStep
  <2>5. Part(p, i) = Read3(r)
    <3>1. i2c_read(r > 1) = Read3(r)
      BY <2>1, AnswerRows
    <3>2. CASE r = 1
      <4>1. (r > 1) = FALSE
        BY <3>2
      <4> QED
        BY <2>2, <3>1, <3>2, <4>1, PartOps
    <3>3. CASE r # 1
      <4>1. (r > 1) = TRUE
        BY <2>1, <3>3
      <4> QED
        BY <2>2, <3>1, <3>3, <4>1, PartOps
    <3> QED
      BY <3>2, <3>3
  <2>6. CASE bSuccess
    <3>1. ReadsByte(r)'
      BY <1>1, <1>8, <2>4, <2>5, <2>6 DEF AtByte, ReadsByte, Sends, Pulls, At
    <3> QED
      BY <3>1 DEF Reading
  <2>7. CASE ~bSuccess /\ r = 1
    <3>1. plan' = StopPlan
      BY <2>4, <2>7, BytesPlans
    <3> QED
      BY <1>1, <1>8, <2>4, <2>7, <3>1 DEF AtByte, AtStop, Down, Moved, Between
  <2>8. CASE ~bSuccess /\ r # 1
    <3>1. PICK q \in 1 .. MaxLen : q = r - 1
      BY <2>1, <2>8
    <3>2. q <= Size(call) /\ Size(call)' = Size(call)
      <4>1. Size(call) \in Nat
        BY <1>1, PlanTypes
      <4> QED
        BY <1>1, <1>8, <2>1, <3>1, <4>1 DEF AtByte
    <3>3. AtByte(q)'
      BY <1>1, <1>8, <2>4, <2>8, <3>1, <3>2 DEF AtByte, Down
    <3> QED
      BY <2>4, <2>8, <3>3 DEF Between
  <2> QED
    BY <2>6, <2>7, <2>8
<1>9. CASE AtStop
  <2>1. plan = Ahead("stop", << >>)
    BY <1>9 DEF AtStop, StopPlan
  <2>2. plan' = << >> /\ todo' = Stop4
    BY <1>1, <2>1, PartStep, PlanTypes, PartNames, PartOps
  <2> QED
    BY <1>1, <1>9, <2>2 DEF AtStop, Stopping, Down, Moved
<1>10. CASE AtEnd
  BY <1>1, <1>10 DEF AtEnd
<1> QED
  BY <1>2, <1>3, <1>4, <1>5, <1>6, <1>7, <1>8, <1>9, <1>10 DEF Between

(* The invariant holds at reset, and every step of the driver keeps it.    *)
LEMMA BusStart == BusInit => BusInv
<1> SUFFICES ASSUME BusInit PROVE BusInv
  OBVIOUS
<1>1. Idle \in Chips /\ ~Idle.drive
  BY BytesNat DEF Idle, Chips
<1>2. BusTypes
  BY <1>1, BytesNat DEF BusInit, BusTypes
<1>3. Quiet
  BY <1>1 DEF BusInit, Quiet
<1> QED
  BY <1>2, <1>3 DEF BusInv

LEMMA NextPortStep ==
  ASSUME BusInv, NextPort
  PROVE  BusInv' /\ Meant /\ (Kept \/ Put \/ Got) /\ UNCHANGED <<call, i, result>> /\ Calling
<1>1. todo # << >> /\ UNCHANGED <<call, i, result>>
  BY DEF NextPort
<1>2. /\ BusTypes /\ Calling
      /\ Starting \/ Stopping \/ Writing \/ Answered \/ Reading
  BY <1>1 DEF BusInv, Quiet, Between
<1>3. Calling'
  BY <1>1, <1>2 DEF Calling
<1>4. CASE Starting
  BY <1>1, <1>2, <1>3, <1>4, StartStep DEF BusInv
<1>5. CASE Stopping
  BY <1>1, <1>2, <1>3, <1>5, StopStep DEF BusInv
<1>6. CASE Writing
  BY <1>1, <1>2, <1>3, <1>6, WriteStep DEF BusInv
<1>7. CASE Answered
  BY <1>1, <1>2, <1>3, <1>7, AnswerStep DEF BusInv
<1>8. CASE Reading
  BY <1>1, <1>2, <1>3, <1>8, ReadStep DEF BusInv
<1> QED
  BY <1>2, <1>4, <1>5, <1>6, <1>7, <1>8

LEMMA CallStep ==
  ASSUME BusInv, Call
  PROVE  BusInv'
<1>1. PICK c \in Requests :
        /\ call' = c /\ plan' = Transaction(c) /\ call = NoCall
        /\ i' = 0 /\ bSuccess' = TRUE /\ moved' = 0
        /\ UNCHANGED <<scl, dir, out, chip, regs, todo, byte>>
  BY DEF Call, wires
<1>2. BusTypes /\ Quiet
  <2>1. ~Calling
    BY <1>1, RequestFacts DEF Calling
  <2> QED
    BY <2>1 DEF BusInv
<1>3. BusTypes'
  BY <1>1, <1>2 DEF BusTypes
<1>4. Calling'
  BY <1>1, RequestFacts, I2cBusAssumption DEF Calling
<1>5. plan' = StartPlan(c)
  BY <1>1, Transactions
<1>6. Free'
  BY <1>1, <1>2 DEF Quiet, Free, Left
<1>7. AtStart' /\ todo' = << >>
  BY <1>1, <1>2, <1>5, <1>6 DEF AtStart, Quiet
<1> QED
  BY <1>3, <1>4, <1>7 DEF BusInv, Between

(* A call that is over has sent its stop.                                  *)
LEMMA AtTheEnd ==
  ASSUME BusInv, Over
  PROVE  /\ BusTypes /\ Calling /\ AtEnd /\ call \in Requests
         /\ call.len \in Nat /\ i \in Nat /\ i < call.len
<1>1. todo = << >> /\ plan = << >> /\ call # NoCall
  BY DEF Over
<1>2. BusTypes /\ Calling /\ Between /\ call \in Requests
  BY <1>1, Busy DEF BusInv, Quiet, Calling
<1>3. AtEnd
  <2>1. /\ StartPlan(call) # << >> /\ DevicePlan(call) # << >> /\ RegisterPlan(call) # << >>
        /\ AgainPlan(call) # << >> /\ StopPlan # << >>
    <3>1. /\ DevicePlan(call) \in Seq(Parts) /\ RegisterPlan(call) \in Seq(Parts)
          /\ AddressedPlan(call) \in Seq(Parts) /\ << >> \in Seq(Parts)
      BY <1>2, PlanTypes
    <3>2. BytesPlan(Size(call)) \in Seq(Parts)
      BY <1>2, PlanTypes, BytesPlans
    <3>3. StartPlan(call) # << >> /\ DevicePlan(call) # << >> /\ RegisterPlan(call) # << >>
      BY <3>1, PartNames, PartAhead DEF StartPlan, DevicePlan, RegisterPlan
    <3>4. AgainPlan(call) # << >> /\ StopPlan # << >>
      BY <3>1, <3>2, PartNames, PartAhead DEF AgainPlan, StopPlan
    <3> QED
      BY <3>3, <3>4
  <2>2. AddressedPlan(call) # << >>
    <3>1. StopPlan \in Seq(Parts) /\ AgainPlan(call) \in Seq(Parts)
      BY <1>2, PlanTypes
    <3>2. DataPlan # << >>
      BY <3>1, PartNames, PartAhead DEF DataPlan
    <3>3. RestartPlan(call) # << >>
      BY <3>1, PartNames, PartAhead DEF RestartPlan
    <3> QED
      BY <3>2, <3>3 DEF AddressedPlan
  <2>3. \A r \in 1 .. MaxLen : BytesPlan(r) # << >>
    <3> SUFFICES ASSUME NEW r \in 1 .. MaxLen PROVE BytesPlan(r) # << >>
      OBVIOUS
    <3>1. r \in Nat /\ r # 0 /\ r - 1 \in Nat
      BY I2cBusAssumption
    <3>2. PICK p \in Parts : BytesPlan(r) = Ahead(p, BytesPlan(r - 1))
      BY <3>1, BytesPlans, PartNames
    <3>3. BytesPlan(r - 1) \in Seq(Parts)
      BY <3>1, BytesPlans
    <3> QED
      BY <3>2, <3>3, PartAhead
  <2> QED
    BY <1>1, <1>2, <2>1, <2>2, <2>3
       DEF Between, AtStart, AtDevice, AtRegister, AtContent, AtAgain, AtByte, AtStop
<1> QED
  BY <1>2, <1>3, RequestFacts DEF Calling

LEMMA NextByteStep ==
  ASSUME BusInv, NextByte
  PROVE  BusInv'
<1>1. /\ Over /\ i' = i + 1 /\ bSuccess /\ i + 1 < call.len /\ call.kind # "burst"
      /\ bSuccess' = TRUE /\ plan' = Transaction(call)
      /\ UNCHANGED <<scl, dir, out, chip, regs, call, todo, byte, array, result, moved>>
  BY DEF NextByte, Following, wires
<1>2. /\ BusTypes /\ Calling /\ AtEnd /\ call \in Requests
      /\ call.len \in Nat /\ i \in Nat /\ i < call.len
  BY <1>1, AtTheEnd
<1>3. BusTypes' /\ Calling'
  BY <1>1, <1>2 DEF BusTypes, Calling
<1>4. moved' = i'
  BY <1>1, <1>2 DEF AtEnd, Moved, Size
<1>5. plan' = StartPlan(call)
  BY <1>1, <1>2, Transactions
<1>6. Free'
  BY <1>1, <1>2 DEF AtEnd, Left, Free
<1>7. AtStart' /\ todo' = << >>
  BY <1>1, <1>4, <1>5, <1>6 DEF AtStart, Over
<1> QED
  BY <1>3, <1>7 DEF BusInv, Between

LEMMA ReturnStep ==
  ASSUME BusInv, Return
  PROVE  BusInv' /\ (bSuccess <=> moved = call.len)
<1>1. /\ Over /\ Following = {} /\ call' = NoCall /\ result' # "none"
      /\ UNCHANGED <<scl, dir, out, chip, regs, plan, todo, bSuccess, byte, array, moved>>
  BY DEF Return, wires
<1>2. /\ BusTypes /\ Calling /\ AtEnd /\ call \in Requests
      /\ call.len \in Nat /\ i \in Nat /\ i < call.len
  BY <1>1, AtTheEnd
<1>3. BusTypes' /\ Quiet'
  BY <1>1, <1>2 DEF BusTypes, Quiet, AtEnd, Left, Over
<1>4. ASSUME bSuccess PROVE moved = call.len
  <2>1. moved = i + Size(call)
    BY <1>2, <1>4 DEF AtEnd, Moved
  <2>2. CASE call.kind = "burst"
    BY <1>2, <2>1, <2>2 DEF Calling, Size
  <2>3. CASE call.kind # "burst"
    <3>1. ~(i + 1 < call.len)
      BY <1>1, <1>4, <2>3 DEF Following
    <3> QED
      BY <1>2, <2>1, <2>3, <3>1 DEF Size
  <2> QED
    BY <2>2, <2>3
<1>5. ASSUME ~bSuccess PROVE moved # call.len
  <2>1. moved = i
    BY <1>2, <1>5 DEF AtEnd, Moved
  <2> QED
    BY <1>2, <2>1
<1> QED
  BY <1>3, <1>4, <1>5 DEF BusInv

LEMMA BusSteps ==
  ASSUME BusInv, [Program]_busVars
  PROVE  BusInv'
<1>1. CASE Call
  BY <1>1, CallStep
<1>2. CASE NextPart
  <2>1. BusTypes /\ Calling /\ Between
    <3>1. todo = << >> /\ plan # << >>
      BY <1>2 DEF NextPart
    <3> QED
      BY <3>1, Busy DEF BusInv, Quiet
  <2>2. BusTypes' /\ Calling'
    BY <1>2, <2>1, PartFrame
  <2> QED
    BY <1>2, <2>1, <2>2, NextPartStep DEF BusInv
<1>3. CASE NextPort
  BY <1>3, NextPortStep
<1>4. CASE NextByte
  BY <1>4, NextByteStep
<1>5. CASE Return
  BY <1>5, ReturnStep
<1>6. CASE UNCHANGED busVars
  <2>1. /\ UNCHANGED <<scl, dir, out, chip, regs, call, i, plan, todo>>
        /\ UNCHANGED <<bSuccess, byte, moved, result>>
    BY <1>6 DEF busVars, wires, locals
  <2>2. BusTypes'
    BY <2>1 DEF BusInv, BusTypes
  <2>3. Quiet => Quiet'
    BY <2>1 DEF Quiet, Left
  <2>4. Calling => Calling'
    BY <2>1 DEF Calling
  <2>5. Between => Between'
    BY <2>1 DEF Between, AtStart, AtDevice, AtRegister, AtContent, AtAgain, AtByte,
                AtStop, AtEnd,
       GoesOn, Listening, Hears, Sends, Pulls, Free, Down, Left, Moved, At
  <2>6. Starting => Starting'
    BY <2>1 DEF Starting, StartOf, Free, Hears, At
  <2>7. Stopping => Stopping'
    BY <2>1 DEF Stopping, Moved
  <2>8. Writing => Writing'
    BY <2>1 DEF Writing, WriteOf, WritesBit, EndsBit, Listening, Hears, At
  <2>9. Answered => Answered'
    BY <2>1 DEF Answered, Taken, Refused, At
  <2>10. Reading => Reading'
    BY <2>1 DEF Reading, ReadsByte, ReadsBit, NextUp, Sends, Pulls, At
  <2> QED
    BY <2>2, <2>3, <2>4, <2>5, <2>6, <2>7, <2>8, <2>9, <2>10 DEF BusInv
<1> QED
  BY <1>1, <1>2, <1>3, <1>4, <1>5, <1>6 DEF Program
-----------------------------------------------------------------------------

(* At every port access the driver, the wires, the chip and the bytes moved *)
(* so far are where the invariant says, whatever the chip leaves without an *)
(* acknowledge.                                                            *)
THEOREM BusInvHolds == BusSpec => []BusInv
<1>1. BusInv /\ [Program]_busVars => BusInv'
  BY BusSteps
<1> QED
  BY BusStart, <1>1, PTL DEF BusSpec

(* After a call both wires are high and the chip waits for a start, however *)
(* far the call got: each of the three transactions ends with i2c_stop.    *)
THEOREM BusIsLeftFreeHolds == BusSpec => []BusIsLeftFree
<1>1. BusInv => BusIsLeftFree
  <2> SUFFICES ASSUME BusInv, call = NoCall, result # "none"
               PROVE  scl = 1 /\ Sda = 1 /\ chip.phase = "idle"
    BY DEF BusIsLeftFree
  <2>1. Quiet
    <3>1. ~Calling
      BY RequestFacts DEF Calling
    <3> QED
      BY <3>1 DEF BusInv
  <2> QED
    BY <2>1 DEF Quiet, Left, Sda
<1> QED
  BY <1>1, BusInvHolds, PTL

(* The data line moves under a high clock in i2c_start and i2c_stop, and   *)
(* nowhere else.                                                           *)
THEOREM BusEdgesMeant == BusSpec => StartsAndStopsAsMeant
<1>1. BusInv /\ [Program]_busVars => [Meant]_busVars
  <2> SUFFICES ASSUME BusInv, Program PROVE Meant
    OBVIOUS
  <2>1. CASE NextPort
    BY <2>1, NextPortStep
  <2>2. CASE ~NextPort
    <3>1. UNCHANGED <<scl, dir, out, chip>> /\ (todo' = todo \/ todo = << >>)
      BY <2>2 DEF Program, Call, NextPart, NextByte, Return, wires
    <3> QED
      BY <3>1 DEF Meant, Sda
  <2> QED
    BY <2>1, <2>2
<1> QED
  BY <1>1, BusInvHolds, PTL DEF BusSpec, StartsAndStopsAsMeant, Meant

(* What the callers of mcu.c see are steps of the abstract calls: bytes go *)
(* one by one between the array and consecutive registers, and ER_SUCCESS  *)
(* means that all of them did.                                             *)
THEOREM BusKeepsPromise == BusSpec => Promise!Init /\ [][Promise!Next]_(Promise!vars)
<1>1. BusInit => Promise!Init
  BY DEF BusInit, Promise!Init, Bytes, Promise!Bytes
<1>2. ASSUME BusInv, [Program]_busVars
      PROVE  [Promise!Next]_(Promise!vars)
  <2>1. CASE Call
    <3>1. Promise!Begin
      BY <2>1 DEF Call, Promise!Begin, Promise!Blank
    <3> QED
      BY <3>1 DEF Promise!Next
  <2>2. CASE NextPart \/ NextByte
    BY <2>2 DEF NextPart, NextByte, Promise!vars
  <2>3. CASE NextPort
    <3>1. /\ Kept \/ Put \/ Got
          /\ UNCHANGED <<call, i, result>> /\ Calling
      BY <1>2, <2>3, NextPortStep
    <3>2. call # NoCall
      BY <3>1, RequestFacts DEF Calling
    <3>3. CASE Kept
      BY <3>1, <3>3 DEF Kept, Promise!vars
    <3>4. CASE Put
      <4>1. Promise!MoveByte
        BY <3>1, <3>2, <3>4 DEF Put, Calling, Promise!MoveByte, Promise!Register, Reg
      <4> QED
        BY <4>1 DEF Promise!Next
    <3>5. CASE Got
      <4>1. Promise!MoveByte
        BY <3>1, <3>2, <3>5 DEF Got, Promise!MoveByte, Promise!Register, Reg
      <4> QED
        BY <4>1 DEF Promise!Next
    <3> QED
      BY <3>1, <3>3, <3>4, <3>5
  <2>4. CASE Return
    <3>1. bSuccess <=> moved = call.len
      BY <1>2, <2>4, ReturnStep
    <3>2. Promise!End
      BY <2>4, <3>1 DEF Return, Over, Promise!End
    <3> QED
      BY <3>2 DEF Promise!Next
  <2>5. CASE UNCHANGED busVars
    BY <2>5 DEF busVars, locals, Promise!vars
  <2> QED
    BY <1>2, <2>1, <2>2, <2>3, <2>4, <2>5 DEF Program
<1> QED
  BY <1>1, <1>2, BusInvHolds, PTL DEF BusSpec

-----------------------------------------------------------------------------
(* The DDC bus and the authentication.                                     *)

(***************************************************************************)
(* The inductive invariant.                                                *)
(***************************************************************************)

(* EngineTakesNoLiveCommand does not say where the driver is while it      *)
(* waits for its command: in one of the loops that do, none of which gives *)
(* the bus away; nor that wherever the engine may be given the bus next,   *)
(* the last command has been answered or given up.                         *)
ReadLabels == {"bcaps", "bcaps2", "bksv", "ksvlist", "vr", "fifoready", "clearfifo", "load"}
HostReads == asked => master = "HOST" /\ pc \in ReadLabels \cup {"abort"}
BeforeFire == {"bksv", "bcaps2", "an", "fire", "fire2", "resumerep"}
Settled ==
  ddc = "busy" /\ (master = "HDCP" \/ (~asked /\ pc \in BeforeFire)) => givenUp

(* What is left on the counters and in the job where a step relies on it:  *)
(* an authentication has a caller to go back to, a load is owed while the  *)
(* EDID is read, and the engine is fired only out of reset.                *)
CallerKnown ==
  pc \in AuthLabels \/ ret \in {"bcaps", "cancelled"} => job # "none"
LoadOwed == pc \in {"clearedid", "clearfifo", "load"} \/ ret = "clearedid" => rounds > 0
EngineReady ==
  /\ pc \in {"bcaps2", "fire", "fire2"} => ~hdcpRst /\ desire
  /\ engine # "off" => ~hdcpRst /\ desire

(* The rest of TypeOK in parts: the registers of the chip, the variables   *)
(* of the driver, its counters, and where it is.                           *)
Lines == disp \in Displays /\ ints \subseteq Interrupts
Flags ==
  /\ doneMask \in BOOLEAN /\ hdcpRst \in BOOLEAN /\ desire \in BOOLEAN /\ mute \in BOOLEAN
  /\ bHPD \in BOOLEAN /\ bAuthenticated \in BOOLEAN
  /\ HPD \in BOOLEAN /\ intHpd \in BOOLEAN /\ bRepeater \in BOOLEAN
  /\ asked \in BOOLEAN /\ givenUp \in BOOLEAN
Modes ==
  /\ master \in {"HOST", "HDCP"} /\ ddc \in {"idle", "busy", "done", "error"}
  /\ engine \in Engine /\ list \in {"none", "done", "fail"}
  /\ job \in {"none", "hang", "fail", "output"}
Locals ==
  /\ saved \in [rst : BOOLEAN, desire : BOOLEAN, master : {"HOST", "HDCP"}]
  /\ upset \subseteq {"fifo", "hang"}
Counters == tries \in 0 .. Polls /\ rounds \in 0 .. (Polls + Blocks)
Places ==
  /\ pc \in PassLabels \cup AuthLabels
  /\ pc = "abort" => ret \in AbortReturns
  /\ pc # "abort" => ret = "none"

IInv == /\ Lines /\ Flags /\ Modes /\ Locals /\ Counters /\ Places
        /\ HostReads /\ Settled /\ CallerKnown /\ LoadOwed /\ EngineReady

(***************************************************************************)
(* Every step keeps it.                                                    *)
(***************************************************************************)

(* The invariant holds of the firmware as it starts.                       *)
LEMMA InvInit == Init => IInv
<1> SUFFICES ASSUME Init PROVE IInv
  OBVIOUS
<1> USE HdcpAssumption DEF Init
<1>1. disp \in Displays /\ ints \subseteq Interrupts /\ engine \in Engine
  BY DEF Interrupts, Engine
<1>2. saved \in [rst : BOOLEAN, desire : BOOLEAN, master : {"HOST", "HDCP"}]
  BY DEF Nothing
<1>3. Lines /\ Flags /\ Modes /\ Locals
  BY <1>1, <1>2 DEF Lines, Flags, Modes, Locals
<1>4. Counters
  BY DEF Counters
<1>5. Places
  BY DEF Places, PassLabels, AuthLabels
<1>6. CallerKnown
  BY DEF AuthLabels, CallerKnown
<1>7. HostReads /\ Settled /\ LoadOwed /\ EngineReady
  BY DEF HostReads, Settled, LoadOwed, EngineReady
<1> QED
  BY <1>3, <1>4, <1>5, <1>6, <1>7 DEF IInv

(* Chip and display.                                                       *)
LEMMA EnvironmentStep == IInv /\ Environment => IInv'
<1> SUFFICES ASSUME IInv, Environment PROVE IInv'
  OBVIOUS
<1> USE HdcpAssumption
<1> USE DEF Lines, Flags, Modes, Locals, Counters, Places, HostReads, Settled, BeforeFire,
            CallerKnown,
            LoadOwed, EngineReady, ReadLabels, PassLabels, AuthLabels, AbortReturns, Displays,
            Interrupts, Engine
<1>0. /\ Lines /\ Flags /\ Modes /\ Locals /\ Counters /\ Places
      /\ HostReads /\ Settled /\ CallerKnown /\ LoadOwed /\ EngineReady
  BY DEF IInv
<1>1. CASE PlugOrUnplug
  BY <1>0, <1>1 DEF PlugOrUnplug, driverVars, IInv
<1>2. CASE EngineStep
  <2> USE <1>0, <1>2 DEF EngineStep, Working, driverVars
  <2>1. Lines' /\ Modes'
    OBVIOUS
  <2>2. Flags'
    OBVIOUS
  <2>3. Locals' /\ Counters' /\ LoadOwed'
    OBVIOUS
  <2>4. Places'
    OBVIOUS
  <2>5. HostReads' /\ Settled' /\ CallerKnown' /\ EngineReady'
    OBVIOUS
  <2> QED
    BY <2>1, <2>2, <2>3, <2>4, <2>5 DEF IInv
<1>3. CASE DdcAnswers
  BY <1>0, <1>3 DEF DdcAnswers, driverVars, IInv
<1>4. CASE BusHang
  BY <1>0, <1>4 DEF BusHang, driverVars, IInv
<1>5. CASE FifoError
  BY <1>0, <1>5 DEF FifoError, driverVars, IInv
<1> QED
  BY <1>1, <1>2, <1>3, <1>4, <1>5 DEF Environment

(* The pass of the loop.                                                   *)
LEMMA PassStep == IInv /\ CheckHDMITX => IInv'
<1> SUFFICES ASSUME IInv, CheckHDMITX PROVE IInv'
  OBVIOUS
<1> USE HdcpAssumption
<1> USE DEF Lines, Flags, Modes, Locals, Counters, Places, HostReads, Settled, BeforeFire,
            CallerKnown,
            LoadOwed, EngineReady, ReadLabels, PassLabels, AuthLabels, AbortReturns, Displays,
            Interrupts, Engine
<1>0. /\ Lines /\ Flags /\ Modes /\ Locals /\ Counters /\ Places
      /\ HostReads /\ Settled /\ CallerKnown /\ LoadOwed /\ EngineReady
  BY DEF IInv
<1>1. CASE ReadStatus
  BY <1>0, <1>1 DEF ReadStatus, chipVars, Goto, LeaveDriver, IInv
<1>2. CASE ReadStat1
  <2> USE <1>0, <1>2 DEF ReadStat1, CallAbort, Command, HostCommands, SetEngine,
                         ClearDDCFIFO, waitVars, Goto, LeaveDriver
  <2>1. Lines' /\ Modes'
    OBVIOUS
  <2>2. hdcpRst' \in BOOLEAN /\ desire' \in BOOLEAN
    OBVIOUS
  <2>3. /\ doneMask' \in BOOLEAN /\ mute' \in BOOLEAN /\ bAuthenticated' \in BOOLEAN
        /\ bHPD' \in BOOLEAN /\ HPD' \in BOOLEAN /\ intHpd' \in BOOLEAN
        /\ bRepeater' \in BOOLEAN /\ asked' \in BOOLEAN /\ givenUp' \in BOOLEAN
    <3>1. doneMask' \in BOOLEAN /\ mute' \in BOOLEAN /\ bAuthenticated' \in BOOLEAN
      OBVIOUS
    <3>2. /\ bHPD' \in BOOLEAN /\ HPD' \in BOOLEAN /\ intHpd' \in BOOLEAN
          /\ bRepeater' \in BOOLEAN
      OBVIOUS
    <3>3. asked' \in BOOLEAN /\ givenUp' \in BOOLEAN
      OBVIOUS
    <3> QED
      BY <3>1, <3>2, <3>3
  <2>4. Locals' /\ Counters' /\ LoadOwed'
    OBVIOUS
  <2>5. Places'
    OBVIOUS
  <2>6. HostReads' /\ Settled' /\ CallerKnown' /\ EngineReady'
    OBVIOUS
  <2> QED
    BY <2>1, <2>2, <2>3, <2>4, <2>5, <2>6 DEF IInv
<1>3. CASE Hung
  <2> USE <1>0, <1>3 DEF Hung, Resume, Goto, LeaveDriver
  <2>1. Lines' /\ Modes'
    OBVIOUS
  <2>2. Flags'
    OBVIOUS
  <2>3. Locals' /\ Counters' /\ LoadOwed'
    OBVIOUS
  <2>4. Places'
    OBVIOUS
  <2>5. HostReads' /\ Settled' /\ CallerKnown' /\ EngineReady'
    OBVIOUS
  <2> QED
    BY <2>1, <2>2, <2>3, <2>4, <2>5 DEF IInv
<1>4. CASE ReadPlug
  <2> USE <1>0, <1>4 DEF ReadPlug, SetEngine, Goto, LeaveDriver
  <2>1. Lines' /\ Modes'
    OBVIOUS
  <2>2. Flags'
    OBVIOUS
  <2>3. Locals' /\ Counters' /\ LoadOwed'
    OBVIOUS
  <2>4. Places'
    OBVIOUS
  <2>5. HostReads' /\ Settled' /\ CallerKnown' /\ EngineReady'
    OBVIOUS
  <2> QED
    BY <2>1, <2>2, <2>3, <2>4, <2>5 DEF IInv
<1>5. CASE ReadStat2
  <2> USE <1>0, <1>5 DEF ReadStat2, CallAbort, Command, HostCommands, SetEngine, waitVars,
                         Goto, LeaveDriver
  <2>1. Lines' /\ Modes'
    OBVIOUS
  <2>2. Flags'
    <3>1. hdcpRst' \in BOOLEAN /\ desire' \in BOOLEAN
      OBVIOUS
    <3>2. doneMask' \in BOOLEAN /\ mute' \in BOOLEAN /\ bAuthenticated' \in BOOLEAN
      OBVIOUS
    <3>3. /\ bHPD' \in BOOLEAN /\ HPD' \in BOOLEAN /\ intHpd' \in BOOLEAN
          /\ bRepeater' \in BOOLEAN
      OBVIOUS
    <3>4. asked' \in BOOLEAN /\ givenUp' \in BOOLEAN
      OBVIOUS
    <3> QED
      BY <3>1, <3>2, <3>3, <3>4
  <2>3. Locals' /\ Counters' /\ LoadOwed'
    OBVIOUS
  <2>4. Places'
    OBVIOUS
  <2>5. HostReads' /\ Settled' /\ CallerKnown' /\ EngineReady'
    OBVIOUS
  <2> QED
    BY <2>1, <2>2, <2>3, <2>4, <2>5 DEF IInv
<1>6. CASE Failed
  BY <1>0, <1>6 DEF Failed, Resume, Goto, LeaveDriver, IInv
<1>7. CASE ClearInterrupts
  BY <1>0, <1>7 DEF ClearInterrupts, Goto, LeaveDriver, IInv
<1>8. CASE Pass
  <2> USE <1>0, <1>8 DEF Pass, chipVars, Goto, LeaveDriver
  <2>1. Lines' /\ Modes'
    OBVIOUS
  <2>2. Flags'
    OBVIOUS
  <2>3. Locals' /\ Counters' /\ LoadOwed'
    OBVIOUS
  <2>4. Places'
    OBVIOUS
  <2>5. HostReads' /\ Settled' /\ CallerKnown' /\ EngineReady'
    OBVIOUS
  <2> QED
    BY <2>1, <2>2, <2>3, <2>4, <2>5 DEF IInv
<1>9. CASE SetOutput
  BY <1>0, <1>9 DEF SetOutput, SetEngine, Goto, LeaveDriver, IInv
<1> QED
  BY <1>1, <1>2, <1>3, <1>4, <1>5, <1>6, <1>7, <1>8, <1>9 DEF CheckHDMITX

(* What a read of the display leaves alone.                                *)
Aside == UNCHANGED <<ints, doneMask, list, mute, bAuthenticated, job, upset>> /\ LeaveDriver

(* A command is given where the driver has none to wait for.               *)
LEMMA IssueKeeps ==
  ASSUME NEW here \in ReadLabels, IInv, Issue(here), Aside
  PROVE  IInv'
<1> USE HdcpAssumption
<1> USE DEF Lines, Flags, Modes, Locals, Counters, Places, HostReads, Settled, BeforeFire,
            CallerKnown,
            LoadOwed, EngineReady, ReadLabels, PassLabels, AuthLabels, AbortReturns, Displays,
            Interrupts, Engine
<1>0. /\ Lines /\ Flags /\ Modes /\ Locals /\ Counters /\ Places
      /\ HostReads /\ Settled /\ CallerKnown /\ LoadOwed /\ EngineReady
  BY DEF IInv
<1> USE <1>0 DEF Issue, Command, HostCommands, Aside, LeaveDriver
<1>1. Lines' /\ Modes'
  OBVIOUS
<1>2. Flags'
  OBVIOUS
<1>3. Locals' /\ Counters' /\ LoadOwed'
  OBVIOUS
<1>4. Places'
  OBVIOUS
<1>5. HostReads' /\ Settled'
  OBVIOUS
<1>6. CallerKnown' /\ EngineReady'
  OBVIOUS
<1> QED
  BY <1>1, <1>2, <1>3, <1>4, <1>5, <1>6 DEF IInv

(* It is waited for.                                                       *)
LEMMA WaitKeeps ==
  ASSUME NEW here \in ReadLabels, IInv, Wait(here), Aside
  PROVE  IInv'
<1> USE HdcpAssumption
<1> USE DEF Lines, Flags, Modes, Locals, Counters, Places, HostReads, Settled, BeforeFire,
            CallerKnown,
            LoadOwed, EngineReady, ReadLabels, PassLabels, AuthLabels, AbortReturns, Displays,
            Interrupts, Engine
<1>0. /\ Lines /\ Flags /\ Modes /\ Locals /\ Counters /\ Places
      /\ HostReads /\ Settled /\ CallerKnown /\ LoadOwed /\ EngineReady
  BY DEF IInv
<1> USE <1>0 DEF Wait, PollAgain, Aside, LeaveDriver
<1>1. Lines' /\ Modes'
  OBVIOUS
<1>2. Flags'
  OBVIOUS
<1>3. Locals' /\ Counters' /\ LoadOwed'
  OBVIOUS
<1>4. Places'
  OBVIOUS
<1>5. HostReads' /\ Settled'
  OBVIOUS
<1>6. CallerKnown' /\ EngineReady'
  OBVIOUS
<1> QED
  BY <1>1, <1>2, <1>3, <1>4, <1>5, <1>6 DEF IInv

(* It is over, or given up, and the driver goes on to a place where it is  *)
(* in order: an authentication stays one, a load is owed where one is read, *)
(* and the engine is fired only after the second BCaps.                    *)
LEMMA ThenKeeps ==
  ASSUME NEW here \in ReadLabels, NEW next \in (PassLabels \cup AuthLabels) \ {"abort"},
         IInv, Then(here, Done \/ NoAnswer, next), Aside,
         bRepeater' \in BOOLEAN, rounds' \in 0 .. (Polls + Blocks),
         next \in AuthLabels => here \in AuthLabels,
         next \in {"clearedid", "clearfifo", "load"} => rounds' > 0,
         next \in {"bcaps2", "fire", "fire2"} => here = "bcaps2"
  PROVE  IInv'
<1> USE HdcpAssumption
<1> USE DEF Lines, Flags, Modes, Locals, Counters, Places, HostReads, Settled, BeforeFire,
            CallerKnown,
            LoadOwed, EngineReady, ReadLabels, PassLabels, AuthLabels, AbortReturns, Displays,
            Interrupts, Engine
<1>0. /\ Lines /\ Flags /\ Modes /\ Locals /\ Counters /\ Places
      /\ HostReads /\ Settled /\ CallerKnown /\ LoadOwed /\ EngineReady
  BY DEF IInv
<1> USE <1>0 DEF Then, StopWaiting, Done, NoAnswer, Goto, Aside, LeaveDriver
<1>1. Lines' /\ Modes'
  OBVIOUS
<1>2. Flags'
  OBVIOUS
<1>3. Locals' /\ Counters' /\ LoadOwed'
  OBVIOUS
<1>4. Places'
  OBVIOUS
<1>5. HostReads' /\ Settled'
  OBVIOUS
<1>6. CallerKnown' /\ EngineReady'
  OBVIOUS
<1> QED
  BY <1>1, <1>2, <1>3, <1>4, <1>5, <1>6 DEF IInv

(* The EDID is read.                                                       *)
LEMMA EdidStep == IInv /\ ReadEDID => IInv'
<1> SUFFICES ASSUME IInv, ReadEDID PROVE IInv'
  OBVIOUS
<1> USE HdcpAssumption
<1> USE DEF Lines, Flags, Modes, Locals, Counters, Places, HostReads, Settled, BeforeFire,
            CallerKnown,
            LoadOwed, EngineReady, ReadLabels, PassLabels, AuthLabels, AbortReturns, Displays,
            Interrupts, Engine
<1>0. /\ Lines /\ Flags /\ Modes /\ Locals /\ Counters /\ Places
      /\ HostReads /\ Settled /\ CallerKnown /\ LoadOwed /\ EngineReady
  BY DEF IInv
<1>1. CASE StartEDID
  <2> USE <1>0, <1>1 DEF StartEDID, CallAbort, Command, HostCommands, SetEngine,
                         ClearDDCFIFO, waitVars, Goto, LeaveDriver
  <2>1. Lines' /\ Modes'
    OBVIOUS
  <2>2. Flags'
    <3>1. hdcpRst' \in BOOLEAN /\ desire' \in BOOLEAN
      OBVIOUS
    <3>2. doneMask' \in BOOLEAN /\ mute' \in BOOLEAN /\ bAuthenticated' \in BOOLEAN
      OBVIOUS
    <3>3. /\ bHPD' \in BOOLEAN /\ HPD' \in BOOLEAN /\ intHpd' \in BOOLEAN
          /\ bRepeater' \in BOOLEAN
      OBVIOUS
    <3>4. asked' \in BOOLEAN /\ givenUp' \in BOOLEAN
      OBVIOUS
    <3> QED
      BY <3>1, <3>2, <3>3, <3>4
  <2>3. Locals' /\ Counters' /\ LoadOwed'
    OBVIOUS
  <2>4. Places'
    OBVIOUS
  <2>5. HostReads' /\ Settled' /\ CallerKnown' /\ EngineReady'
    OBVIOUS
  <2> QED
    BY <2>1, <2>2, <2>3, <2>4, <2>5 DEF IInv
<1>2. CASE ClearLoad
  <2>1. Aside /\ "clearfifo" \in ReadLabels
    BY <1>2 DEF ClearLoad, Aside
  <2>2. CASE Issue("clearfifo") \/ Wait("clearfifo")
    BY <2>1, <2>2, IssueKeeps, WaitKeeps
  <2>3. CASE /\ Then("clearfifo", Done \/ (ddc = "busy" /\ tries = 0), "load")
             /\ UNCHANGED <<bRepeater, rounds>>
    <3>1. Then("clearfifo", Done \/ NoAnswer, "load") /\ rounds > 0
      BY <1>0, <2>3 DEF Then, NoAnswer
    <3>2. bRepeater' \in BOOLEAN /\ rounds' \in 0 .. (Polls + Blocks) /\ rounds' > 0
      BY <1>0, <2>3, <3>1
    <3> QED
      BY <2>1, <3>1, <3>2, ThenKeeps
  <2>4. CASE /\ pc = "clearfifo" /\ asked /\ CallAbort("output", hdcpRst, desire, master)
             /\ rounds' = 0 /\ UNCHANGED bRepeater
    <3> USE <1>0, <2>1, <2>4 DEF CallAbort, Command, HostCommands, SetEngine, Goto, Aside,
            LeaveDriver
    <3>1. Lines' /\ Modes'
      OBVIOUS
    <3>2. Flags'
      OBVIOUS
    <3>3. Locals' /\ Counters' /\ LoadOwed'
      OBVIOUS
    <3>4. Places'
      OBVIOUS
    <3>5. HostReads' /\ Settled' /\ CallerKnown' /\ EngineReady'
      OBVIOUS
    <3> QED
      BY <3>1, <3>2, <3>3, <3>4, <3>5 DEF IInv
  <2> QED
    BY <1>2, <2>2, <2>3, <2>4 DEF ClearLoad
<1>3. CASE ReadLoad
  <2>1. Aside /\ "load" \in ReadLabels
    BY <1>3 DEF ReadLoad, Aside
  <2>2. CASE Issue("load") \/ Wait("load")
    BY <2>1, <2>2, IssueKeeps, WaitKeeps
  <2>3. CASE /\ Then("load", Done, IF rounds > 1 THEN "clearfifo" ELSE "output")
             /\ rounds' = rounds - 1 /\ UNCHANGED bRepeater
    <3> DEFINE next == IF rounds > 1 THEN "clearfifo" ELSE "output"
    <3>1. Then("load", Done \/ NoAnswer, next) /\ rounds > 0
      BY <1>0, <2>3 DEF Then
    <3>2. bRepeater' \in BOOLEAN /\ rounds' \in 0 .. (Polls + Blocks)
      BY <1>0, <2>3, <3>1
    <3>3. next \in {"clearfifo", "output"} /\ (next = "clearfifo" => rounds' > 0)
      BY <1>0, <2>3
    <3> HIDE DEF next
    <3> QED
      BY <2>1, <3>1, <3>2, <3>3, ThenKeeps
  <2>4. CASE Then("load", NoAnswer, "output") /\ rounds' = 0 /\ UNCHANGED bRepeater
    <3>1. Then("load", Done \/ NoAnswer, "output")
      BY <2>4 DEF Then
    <3>2. bRepeater' \in BOOLEAN /\ rounds' \in 0 .. (Polls + Blocks)
      BY <1>0, <2>4
    <3> QED
      BY <2>1, <3>1, <3>2, ThenKeeps
  <2> QED
    BY <1>3, <2>2, <2>3, <2>4 DEF ReadLoad
<1>4. CASE ClearEDID
  <2> USE <1>0, <1>4 DEF ClearEDID, ClearDDCFIFO, HostCommands, Goto, LeaveDriver
  <2>1. Lines' /\ Modes'
    OBVIOUS
  <2>2. Flags'
    OBVIOUS
  <2>3. Locals' /\ Counters' /\ LoadOwed'
    OBVIOUS
  <2>4. Places'
    OBVIOUS
  <2>5. HostReads' /\ Settled' /\ CallerKnown' /\ EngineReady'
    OBVIOUS
  <2> QED
    BY <2>1, <2>2, <2>3, <2>4, <2>5 DEF IInv
<1> QED
  BY <1>1, <1>2, <1>3, <1>4 DEF ReadEDID

(* A repeater is authenticated.                                            *)
LEMMA RepeaterStep == IInv /\ HDCP_Authenticate_Repeater => IInv'
<1> SUFFICES ASSUME IInv, HDCP_Authenticate_Repeater PROVE IInv'
  OBVIOUS
<1> USE HdcpAssumption
<1> USE DEF Lines, Flags, Modes, Locals, Counters, Places, HostReads, Settled, BeforeFire,
            CallerKnown,
            LoadOwed, EngineReady, ReadLabels, PassLabels, AuthLabels, AbortReturns, Displays,
            Interrupts, Engine
<1>0. /\ Lines /\ Flags /\ Modes /\ Locals /\ Counters /\ Places
      /\ HostReads /\ Settled /\ CallerKnown /\ LoadOwed /\ EngineReady
  BY DEF IInv
<1>1. CASE AwaitList
  <2> USE <1>0, <1>1 DEF AwaitList, LookAgain, Goto, LeaveDriver
  <2>1. Lines' /\ Modes'
    <3>1. disp' \in Displays /\ ints' \subseteq Interrupts
      OBVIOUS
    <3>2. Modes'
      OBVIOUS
    <3> QED
      BY <3>1, <3>2
  <2>2. Flags'
    OBVIOUS
  <2>3. Locals'
    OBVIOUS
  <2>4. Counters' /\ LoadOwed'
    OBVIOUS
  <2>5. Places'
    OBVIOUS
  <2>6. HostReads' /\ Settled' /\ CallerKnown' /\ EngineReady'
    OBVIOUS
  <2> QED
    BY <2>1, <2>2, <2>3, <2>4, <2>5, <2>6 DEF IInv
<1>2. CASE RepeaterGood
  BY <1>0, <1>2 DEF RepeaterGood, HDCP_ResumeRepeaterAuthenticate, Goto, LeaveDriver, IInv
<1>3. CASE CancelRepeater
  <2> USE <1>0, <1>3 DEF CancelRepeater, CallAbort, Command, HostCommands, SetEngine,
                         Goto, LeaveDriver
  <2>1. Lines' /\ Modes'
    OBVIOUS
  <2>2. Flags'
    OBVIOUS
  <2>3. Locals' /\ Counters' /\ LoadOwed'
    OBVIOUS
  <2>4. Places'
    OBVIOUS
  <2>5. HostReads' /\ Settled' /\ CallerKnown' /\ EngineReady'
    OBVIOUS
  <2> QED
    BY <2>1, <2>2, <2>3, <2>4, <2>5 DEF IInv
<1>4. CASE Cancelled
  BY <1>0, <1>4 DEF Cancelled, HDCP_ClearAuthInterrupt, Goto, LeaveDriver, IInv
<1> QED
  BY <1>1, <1>2, <1>3, <1>4 DEF HDCP_Authenticate_Repeater

(* An authentication that failed leaves AbortDDC what it needs.             *)
LEMMA AuthBadSaves ==
  ASSUME Locals, AuthBad
  PROVE  saved' \in [rst : BOOLEAN, desire : BOOLEAN, master : {"HOST", "HDCP"}]
<1>1. CASE job = "output"
  <2>1. saved' = [rst |-> TRUE, desire |-> FALSE, master |-> "HOST"]
    BY <1>1, Zenon DEF AuthBad, CallAbort
  <2> QED
    BY <2>1
<1>2. CASE job # "output"
  BY <1>2 DEF AuthBad, Locals
<1> QED
  BY <1>1, <1>2

(* A display is authenticated, and the result goes back to the caller.     *)
LEMMA AuthenticateStep == IInv /\ HDCP_Authenticate => IInv'
<1> SUFFICES ASSUME IInv, HDCP_Authenticate PROVE IInv'
  OBVIOUS
<1> USE HdcpAssumption
<1> USE DEF Lines, Flags, Modes, Locals, Counters, Places, HostReads, Settled, BeforeFire,
            CallerKnown,
            LoadOwed, EngineReady, ReadLabels, PassLabels, AuthLabels, AbortReturns, Displays,
            Interrupts, Engine
<1>0. /\ Lines /\ Flags /\ Modes /\ Locals /\ Counters /\ Places
      /\ HostReads /\ Settled /\ CallerKnown /\ LoadOwed /\ EngineReady
  BY DEF IInv
<1>1. CASE Authenticate
  <2> USE <1>0, <1>1 DEF Authenticate, CallAbort, Command, HostCommands, SetEngine, Goto,
                         LeaveDriver
  <2>1. Lines' /\ Modes'
    OBVIOUS
  <2>2. Flags'
    OBVIOUS
  <2>3. Locals' /\ Counters' /\ LoadOwed'
    OBVIOUS
  <2>4. Places'
    OBVIOUS
  <2>5. HostReads' /\ Settled' /\ CallerKnown' /\ EngineReady'
    OBVIOUS
  <2> QED
    BY <2>1, <2>2, <2>3, <2>4, <2>5 DEF IInv
<1>2. CASE PrepareAn
  <2> USE <1>0, <1>2 DEF PrepareAn, SetEngine, HDCP_ClearAuthInterrupt, Goto, LeaveDriver
  <2>1. Lines' /\ Modes'
    OBVIOUS
  <2>2. Flags'
    OBVIOUS
  <2>3. Locals' /\ Counters' /\ LoadOwed'
    OBVIOUS
  <2>4. Places'
    OBVIOUS
  <2>5. HostReads' /\ Settled' /\ CallerKnown' /\ EngineReady'
    OBVIOUS
  <2> QED
    BY <2>1, <2>2, <2>3, <2>4, <2>5 DEF IInv
<1>3. CASE HDCP_Auth_Fire
  BY <1>0, <1>3 DEF HDCP_Auth_Fire, Goto, LeaveDriver, IInv
<1>4. CASE AwaitDone
  <2> USE <1>0, <1>4 DEF AwaitDone, LookAgain, chipVars, Goto, LeaveDriver
  <2>1. Lines' /\ Modes'
    OBVIOUS
  <2>2. Flags'
    BY ZenonT(60)
  <2>3. Locals'
    OBVIOUS
  <2>4. Counters' /\ LoadOwed'
    OBVIOUS
  <2>5. Places'
    OBVIOUS
  <2>6. HostReads' /\ Settled' /\ CallerKnown' /\ EngineReady'
    OBVIOUS
  <2> QED
    BY <2>1, <2>2, <2>3, <2>4, <2>5, <2>6 DEF IInv
<1>5. CASE HDCP_Authenticate_Repeater
  BY <1>5, RepeaterStep
<1>6. CASE AuthGood
  <2> USE <1>0, <1>6 DEF AuthGood, Unmute, Back, Goto, LeaveDriver
  <2>1. Lines' /\ Modes'
    OBVIOUS
  <2>2. Flags'
    OBVIOUS
  <2>3. Locals' /\ Counters' /\ LoadOwed'
    OBVIOUS
  <2>4. Places'
    OBVIOUS
  <2>5. HostReads' /\ Settled' /\ CallerKnown' /\ EngineReady'
    OBVIOUS
  <2> QED
    BY <2>1, <2>2, <2>3, <2>4, <2>5 DEF IInv
<1>7. CASE AuthBad
  <2> USE <1>0, <1>7 DEF AuthBad, Unmute, Back,
            CallAbort, Command, HostCommands, SetEngine, waitVars, HDCP_ClearAuthInterrupt, Goto,
            LeaveDriver
  <2>1. Lines' /\ Modes'
    OBVIOUS
  <2>2. hdcpRst' \in BOOLEAN /\ desire' \in BOOLEAN
    OBVIOUS
  <2>3. /\ doneMask' \in BOOLEAN /\ mute' \in BOOLEAN /\ bAuthenticated' \in BOOLEAN
        /\ bHPD' \in BOOLEAN /\ HPD' \in BOOLEAN /\ intHpd' \in BOOLEAN
        /\ bRepeater' \in BOOLEAN /\ asked' \in BOOLEAN /\ givenUp' \in BOOLEAN
    OBVIOUS
  <2>4. saved' \in [rst : BOOLEAN, desire : BOOLEAN, master : {"HOST", "HDCP"}]
    BY AuthBadSaves
  <2>5. upset' \subseteq {"fifo", "hang"} /\ Counters' /\ LoadOwed'
    OBVIOUS
  <2>6. Places'
    OBVIOUS
  <2>7. HostReads' /\ Settled' /\ CallerKnown' /\ EngineReady'
    OBVIOUS
  <2> QED
    BY <2>1, <2>2, <2>3, <2>4, <2>5, <2>6, <2>7 DEF IInv
<1>8. CASE ResetDone
  <2> USE <1>0, <1>8 DEF ResetDone, Unmute, Goto, LeaveDriver
  <2>1. Lines' /\ Modes'
    OBVIOUS
  <2>2. Flags'
    OBVIOUS
  <2>3. Locals' /\ Counters' /\ LoadOwed'
    OBVIOUS
  <2>4. Places'
    OBVIOUS
  <2>5. HostReads' /\ Settled' /\ CallerKnown' /\ EngineReady'
    OBVIOUS
  <2> QED
    BY <2>1, <2>2, <2>3, <2>4, <2>5 DEF IInv
<1> QED
  BY <1>1, <1>2, <1>3, <1>4, <1>5, <1>6, <1>7, <1>8 DEF HDCP_Authenticate

(* The registers of the display are read.                                  *)
LEMMA ReadsStep == IInv /\ Reads => IInv'
<1> SUFFICES ASSUME IInv, Reads PROVE IInv'
  OBVIOUS
<1> USE HdcpAssumption
<1> USE DEF Lines, Flags, Modes, Locals, Counters, Places, HostReads, Settled, BeforeFire,
            CallerKnown,
            LoadOwed, EngineReady, ReadLabels, PassLabels, AuthLabels, AbortReturns, Displays,
            Interrupts, Engine
<1>0. /\ Lines /\ Flags /\ Modes /\ Locals /\ Counters /\ Places
      /\ HostReads /\ Settled /\ CallerKnown /\ LoadOwed /\ EngineReady
  BY DEF IInv
<1>1. Aside
  BY DEF Reads, Aside
<1>2. ASSUME NEW here \in ReadLabels, Issue(here) \/ Wait(here)
      PROVE  IInv'
  BY <1>1, <1>2, IssueKeeps, WaitKeeps
<1>3. ASSUME NEW here, NEW next,
             Then(here, Done \/ NoAnswer, next),
             \/ here = "bcaps" /\ next \in {"bksv", "authfail"}
             \/ here = "bcaps2" /\ next = "fire2"
             \/ here = "bksv" /\ next \in {"an", "authfail"}
             \/ here = "fifoready" /\ next \in {"fifoready", "countkeys", "cancel"}
             \/ here = "ksvlist" /\ next \in {"vr", "cancel"}
             \/ here = "vr" /\ next \in {"resumerep", "cancel"},
             bRepeater' \in BOOLEAN, rounds' \in 0 .. (Polls + Blocks)
      PROVE  IInv'
  <2>1. /\ here \in ReadLabels /\ here \in AuthLabels
        /\ next \in (PassLabels \cup AuthLabels) \ {"abort"}
        /\ next \notin {"clearedid", "clearfifo", "load"}
        /\ next \in {"bcaps2", "fire", "fire2"} => here = "bcaps2"
    BY <1>3
  <2> QED
    BY <1>1, <1>3, <2>1, ThenKeeps
<1>4. ASSUME NEW here, NEW next, Then(here, Done, next) \/ Then(here, NoAnswer, next)
      PROVE  Then(here, Done \/ NoAnswer, next)
  BY <1>4 DEF Then
<1>5. bRepeater \in BOOLEAN /\ rounds \in 0 .. (Polls + Blocks)
  BY <1>0
<1>6. CASE HDCP_GetBCaps("bcaps", "bksv", "authfail")
  BY <1>2, <1>3, <1>4, <1>5, <1>6 DEF HDCP_GetBCaps, ReadLabels
<1>7. CASE HDCP_GetBCaps("bcaps2", "fire2", "fire2")
  BY <1>2, <1>3, <1>4, <1>5, <1>7 DEF HDCP_GetBCaps, ReadLabels
<1>8. CASE HDCP_GetBKSV
  BY <1>2, <1>3, <1>4, <1>5, <1>8 DEF HDCP_GetBKSV, ReadLabels
<1>9. CASE HDCP_GetKSVList
  BY <1>2, <1>3, <1>4, <1>5, <1>9 DEF HDCP_GetKSVList, ReadLabels
<1>10. CASE HDCP_GetVr
  BY <1>2, <1>3, <1>4, <1>5, <1>10 DEF HDCP_GetVr, ReadLabels
<1>11. CASE WaitKSVFifo
  <2>1. rounds > 0 /\ rounds' = rounds - 1 => rounds' \in 0 .. (Polls + Blocks)
    BY <1>5
  <2>2. 0 \in 0 .. (Polls + Blocks)
    OBVIOUS
  <2> QED
    BY <1>2, <1>3, <1>4, <1>5, <1>11, <2>1, <2>2 DEF WaitKSVFifo, ReadLabels
<1>12. CASE CountKeys
  <2> USE <1>0, <1>1, <1>12 DEF CountKeys, ClearDDCFIFO, HostCommands, Goto, Aside,
                                LeaveDriver
  <2>1. Lines' /\ Modes'
    OBVIOUS
  <2>2. Flags'
    OBVIOUS
  <2>3. Locals' /\ Counters' /\ LoadOwed'
    OBVIOUS
  <2>4. Places'
    OBVIOUS
  <2>5. HostReads' /\ Settled' /\ CallerKnown' /\ EngineReady'
    OBVIOUS
  <2> QED
    BY <2>1, <2>2, <2>3, <2>4, <2>5 DEF IInv
<1> QED
  BY <1>6, <1>7, <1>8, <1>9, <1>10, <1>11, <1>12 DEF Reads

(* AbortDDC goes back where it was called from.                            *)
LEMMA AbortStep == IInv /\ AbortDDC => IInv'
<1> SUFFICES ASSUME IInv, AbortDDC PROVE IInv'
  OBVIOUS
<1> USE HdcpAssumption
<1> USE DEF Lines, Flags, Modes, Locals, Counters, Places, HostReads, Settled, BeforeFire,
            CallerKnown,
            LoadOwed, EngineReady, ReadLabels, PassLabels, AuthLabels, AbortReturns, Displays,
            Interrupts, Engine
<1>0. /\ Lines /\ Flags /\ Modes /\ Locals /\ Counters /\ Places
      /\ HostReads /\ Settled /\ CallerKnown /\ LoadOwed /\ EngineReady
  BY DEF IInv
<1>1. CASE PollAgain
  <2>0. UNCHANGED <<hdcpRst, desire, engine, master, ddc, asked, givenUp, pc, ret, saved>>
    BY <1>1 DEF AbortDDC, PollAgain, Done, NoAnswer
  <2> USE <1>0, <1>1, <2>0 DEF AbortDDC, PollAgain, LeaveDriver
  <2>1. Lines' /\ Modes'
    OBVIOUS
  <2>2. Flags'
    OBVIOUS
  <2>3. Locals' /\ Counters' /\ LoadOwed'
    OBVIOUS
  <2>4. Places'
    OBVIOUS
  <2>5. HostReads' /\ Settled' /\ CallerKnown' /\ EngineReady'
    OBVIOUS
  <2> QED
    BY <2>1, <2>2, <2>3, <2>4, <2>5 DEF IInv
<1>2. CASE ~PollAgain
  <2>0. /\ Done \/ NoAnswer
        /\ StopWaiting
        /\ SetEngine(saved.rst, saved.desire)
        /\ master' = saved.master
        /\ Goto(ret) /\ ret' = "none" /\ saved' = Nothing
    BY <1>2 DEF AbortDDC
  <2>a. saved.rst \in BOOLEAN /\ saved.desire \in BOOLEAN /\ saved.master \in {"HOST", "HDCP"}
    BY <1>0
  <2> USE <1>0, <2>0, <2>a DEF AbortDDC, Done, NoAnswer, StopWaiting, SetEngine, Nothing,
                               Goto,
            LeaveDriver
  <2>1. Lines' /\ Modes'
    OBVIOUS
  <2>2. Flags'
    <3>1. hdcpRst' \in BOOLEAN /\ desire' \in BOOLEAN
      OBVIOUS
    <3>2. doneMask' \in BOOLEAN /\ mute' \in BOOLEAN /\ bAuthenticated' \in BOOLEAN
      OBVIOUS
    <3>3. /\ bHPD' \in BOOLEAN /\ HPD' \in BOOLEAN /\ intHpd' \in BOOLEAN
          /\ bRepeater' \in BOOLEAN
      OBVIOUS
    <3>4. asked' \in BOOLEAN /\ givenUp' \in BOOLEAN
      OBVIOUS
    <3> QED
      BY <3>1, <3>2, <3>3, <3>4
  <2>3. Locals' /\ Counters' /\ LoadOwed'
    OBVIOUS
  <2>4. Places'
    OBVIOUS
  <2>5. HostReads' /\ Settled' /\ CallerKnown' /\ EngineReady'
    OBVIOUS
  <2> QED
    BY <2>1, <2>2, <2>3, <2>4, <2>5 DEF IInv
<1> QED
  BY <1>1, <1>2

(* So does every step of the system.                                       *)
LEMMA InvStep == IInv /\ [Next]_vars => IInv'
<1>1. IInv /\ UNCHANGED vars => IInv'
  BY DEF IInv, Lines, Flags, Modes, Locals, Counters, Places, HostReads,
         Settled, BeforeFire, CallerKnown, LoadOwed, EngineReady, vars, chipVars, driverVars
<1> QED
  BY <1>1, EnvironmentStep, PassStep, EdidStep, ReadsStep, AuthenticateStep, AbortStep
  DEF Next, Driver

(***************************************************************************)
(* What follows from it.                                                   *)
(***************************************************************************)

(* The inductive invariant holds in every reachable state.                 *)
LEMMA InvHolds == Spec => []IInv
  BY InvInit, InvStep, PTL DEF Spec

(* TypeOK holds in every reachable state: the driver always has a place to *)
(* go back to, no counter of its loops falls below zero, and the engine    *)
(* runs only out of reset, whatever chip and display answer.               *)
THEOREM TypeCorrect == Spec => []TypeOK
<1>1. IInv => TypeOK
  BY DEF IInv, Lines, Flags, Modes, Locals, Counters, Places, EngineReady, TypeOK
<1> QED
  BY <1>1, InvHolds, PTL

(* The engine takes the bus over a command of the host only when the       *)
(* driver has waited for that command to the end, for every number of      *)
(* polls and loads: none of the ways out of a read, an abort or an         *)
(* authentication hands the bus over while a command may still be          *)
(* answered in its time.                                                   *)
THEOREM EngineWaitsForCommands == Spec => []EngineTakesNoLiveCommand
<1>1. IInv => EngineTakesNoLiveCommand
  BY DEF IInv, Modes, HostReads, Settled, EngineTakesNoLiveCommand
<1> QED
  BY <1>1, InvHolds, PTL

(***************************************************************************)
(* The link of an authentic display is checked.                            *)
(***************************************************************************)

(* The engine has the bus, and is at work on the link or has said that it  *)
(* failed.                                                                 *)
Link == Working /\ engine # "off"

(* In the pass of the loop: the display that was there in the last pass    *)
(* and is there in this one has its link, if the driver holds it for       *)
(* authentic; and so has every display whose AUTH_DONE is still to be      *)
(* believed.                                                               *)
LinkInv ==
  upset = {} =>
    /\ pc = "status" /\ bHPD /\ bAuthenticated => Link
    /\ pc \in {"stat1", "plug", "stat2", "clear", "pass"} /\ HPD /\ bHPD /\ bAuthenticated
       => Link
    /\ "done" \in ints /\ pc \in {"status", "stat1", "pass"} => Link
    /\ "done" \in ints /\ pc \in {"plug", "stat2"} /\ HPD => Link

(* During an authentication: the display is not held for authentic before  *)
(* the engine has the link, what the reset leaves is off, and a resumption *)
(* after a bus hang has the hang on record.                                *)
AuthInv ==
  /\ pc = "authok" => Link
  /\ \/ pc \in (AuthLabels \ {"authenticate", "authok"}) \cup {"resetdone"}
     \/ ret \in {"bcaps", "cancelled", "resetdone"}
     => ~bAuthenticated
  /\ pc = "hung" \/ ret = "hung" => upset # {}
  /\ job = "hang" /\ pc # "authok" => upset # {}
  /\ pc = "resetdone" \/ ret = "resetdone" => engine = "off" /\ "done" \notin ints
  /\ pc = "await" => master = "HDCP"
  /\ pc \in {"await", "awaitlist", "fifoready", "countkeys", "ksvlist", "vr", "resumerep"}
     => engine # "off"

LEMMA LinkInit == Init => LinkInv /\ AuthInv
  BY DEF Init, LinkInv, AuthInv, AuthLabels

(* Chip and display take no link away and set AUTH_DONE only with one.     *)
LEMMA LinkEnvironment == IInv /\ LinkInv /\ AuthInv /\ Environment => LinkInv' /\ AuthInv'
<1> SUFFICES ASSUME IInv, LinkInv, AuthInv, Environment PROVE LinkInv' /\ AuthInv'
  OBVIOUS
<1> USE DEF LinkInv, AuthInv, Link, driverVars
<1>0. Flags /\ Modes /\ Places
  BY DEF IInv
<1>1. CASE PlugOrUnplug
  BY <1>0, <1>1 DEF PlugOrUnplug, Working
<1>2. CASE EngineStep
  <2>1. /\ Working /\ Working' /\ engine # "off" /\ engine' # "off"
        /\ UNCHANGED driverVars /\ UNCHANGED master
    BY <1>2 DEF EngineStep, Working
  <2> QED
    BY <2>1
<1>3. CASE DdcAnswers
  BY <1>0, <1>3 DEF DdcAnswers, Working
<1>4. CASE BusHang
  BY <1>0, <1>4 DEF BusHang, Working
<1>5. CASE FifoError
  BY <1>0, <1>5 DEF FifoError, Working
<1> QED
  BY <1>1, <1>2, <1>3, <1>4, <1>5 DEF Environment

(* The pass of the loop loses a link only with the display, or by what it  *)
(* does about a FIFO error or a bus hang.                                  *)
LEMMA LinkPass == IInv /\ LinkInv /\ AuthInv /\ CheckHDMITX => LinkInv' /\ AuthInv'
<1> SUFFICES ASSUME IInv, LinkInv, AuthInv, CheckHDMITX PROVE LinkInv' /\ AuthInv'
  OBVIOUS
<1> USE DEF LinkInv, AuthInv, Link, Working, Goto, LeaveDriver, AuthLabels
<1>0. Lines /\ Flags /\ Modes /\ Places /\ Locals /\ CallerKnown
  BY DEF IInv
<1> USE <1>0 DEF Lines, Flags, Modes, Places
<1>1. CASE ReadStatus
  BY <1>1 DEF ReadStatus, chipVars
<1>2. CASE ReadStat1
  BY <1>2 DEF ReadStat1, CallAbort, Command, HostCommands, SetEngine, ClearDDCFIFO,
              waitVars, Locals
<1>3. CASE Hung
  BY <1>3 DEF Hung, Resume
<1>4. CASE ReadPlug
  BY <1>4 DEF ReadPlug, SetEngine
<1>5. CASE ReadStat2
  BY <1>5 DEF ReadStat2, CallAbort, Command, HostCommands, SetEngine, waitVars
<1>6. CASE Failed
  BY <1>6 DEF Failed, Resume
<1>7. CASE ClearInterrupts
  BY <1>7 DEF ClearInterrupts
<1>8. CASE Pass
  BY <1>8 DEF Pass, chipVars
<1>9. CASE SetOutput
  BY <1>9 DEF SetOutput, SetEngine
<1> QED
  BY <1>1, <1>2, <1>3, <1>4, <1>5, <1>6, <1>7, <1>8, <1>9 DEF CheckHDMITX

(* Reading the display ends in an authentication of it.                    *)
LEMMA LinkEdid == IInv /\ LinkInv /\ AuthInv /\ ReadEDID => LinkInv' /\ AuthInv'
<1> SUFFICES ASSUME IInv, LinkInv, AuthInv, ReadEDID PROVE LinkInv' /\ AuthInv'
  OBVIOUS
<1> USE DEF LinkInv, AuthInv, Goto, LeaveDriver, AuthLabels
<1>0. Places
  BY DEF IInv
<1>1. CASE StartEDID
  BY <1>0, <1>1 DEF Places, StartEDID, CallAbort, Command, HostCommands, SetEngine,
                    ClearDDCFIFO, waitVars
<1>2. CASE ClearLoad
  BY <1>0, <1>2 DEF Places, ClearLoad, Issue, Command, HostCommands, Wait, PollAgain,
                    Then, StopWaiting, CallAbort, Command, HostCommands, SetEngine
<1>3. CASE ReadLoad
  BY <1>0, <1>3 DEF Places, ReadLoad, Issue, Command, Wait, PollAgain, Then
<1>4. CASE ClearEDID
  BY <1>0, <1>4 DEF Places, ClearEDID, ClearDDCFIFO
<1> QED
  BY <1>1, <1>2, <1>3, <1>4 DEF ReadEDID

(* So do the reads of its HDCP registers, which leave the engine alone.    *)
LEMMA LinkReads == IInv /\ LinkInv /\ AuthInv /\ Reads => LinkInv' /\ AuthInv'
<1> SUFFICES ASSUME IInv, LinkInv, AuthInv, Reads PROVE LinkInv' /\ AuthInv'
  OBVIOUS
<1>0. Places
  BY DEF IInv
<1>1. UNCHANGED <<ints, engine, bAuthenticated, upset, job>>
  BY DEF Reads, HDCP_GetBCaps, HDCP_GetBKSV, HDCP_GetKSVList, HDCP_GetVr, WaitKSVFifo,
         CountKeys, Issue, Wait, Then
<1>2. /\ ret' = ret
      /\ pc \in (ReadLabels \ {"clearfifo", "load"}) \cup {"countkeys"}
      /\ \/ pc' = pc
         \/ pc = "bcaps" /\ pc' \in {"bksv", "authfail"}
         \/ pc = "bcaps2" /\ pc' = "fire2"
         \/ pc = "bksv" /\ pc' \in {"an", "authfail"}
         \/ pc = "fifoready" /\ pc' \in {"countkeys", "cancel"}
         \/ pc = "countkeys" /\ pc' \in {"ksvlist", "cancel"}
         \/ pc = "ksvlist" /\ pc' \in {"vr", "cancel"}
         \/ pc = "vr" /\ pc' \in {"resumerep", "cancel"}
  BY DEF Reads, HDCP_GetBCaps, HDCP_GetBKSV, HDCP_GetKSVList, HDCP_GetVr, WaitKSVFifo,
         CountKeys, Issue, Wait, Then, Goto, ReadLabels
<1> QED
  BY <1>0, <1>1, <1>2 DEF LinkInv, AuthInv, AuthLabels, Places, ReadLabels

(* An authentication ends with the link, or without the display being held *)
(* for authentic.                                                          *)
LEMMA LinkAuthenticate ==
  IInv /\ LinkInv /\ AuthInv /\ HDCP_Authenticate => LinkInv' /\ AuthInv'
<1> SUFFICES ASSUME IInv, LinkInv, AuthInv, HDCP_Authenticate PROVE LinkInv' /\ AuthInv'
  OBVIOUS
<1> USE DEF LinkInv, AuthInv, Link, Working, Goto, LeaveDriver, AuthLabels
<1>0. Lines /\ Flags /\ Modes /\ Places /\ CallerKnown /\ EngineReady
  BY DEF IInv
<1> USE <1>0 DEF Lines, Flags, Modes, Places
<1>1. CASE Authenticate
  BY <1>1 DEF Authenticate, CallAbort, Command, HostCommands, SetEngine
<1>2. CASE PrepareAn
  BY <1>2 DEF PrepareAn, SetEngine, HDCP_ClearAuthInterrupt
<1>3. CASE HDCP_Auth_Fire
  BY <1>3 DEF HDCP_Auth_Fire
<1>4. CASE AwaitDone
  BY <1>4 DEF AwaitDone, chipVars, LookAgain, EngineReady
<1>5. CASE AwaitList
  BY <1>5 DEF AwaitList, LookAgain
<1>6. CASE RepeaterGood
  BY <1>6 DEF RepeaterGood, HDCP_ResumeRepeaterAuthenticate, EngineReady
<1>7. CASE CancelRepeater
  BY <1>7 DEF CancelRepeater, CallAbort, Command, HostCommands, SetEngine
<1>8. CASE Cancelled
  BY <1>8 DEF Cancelled, HDCP_ClearAuthInterrupt
<1>9. CASE AuthGood
  BY <1>9 DEF AuthGood, Unmute, Back, CallerKnown
<1>10. CASE AuthBad
  BY <1>10 DEF AuthBad, Unmute, Back, CallerKnown, CallAbort, Command, HostCommands,
               SetEngine,
               HDCP_ClearAuthInterrupt
<1>11. CASE ResetDone
  BY <1>11 DEF ResetDone, Unmute
<1> QED
  BY <1>1, <1>2, <1>3, <1>4, <1>5, <1>6, <1>7, <1>8, <1>9, <1>10, <1>11
  DEF HDCP_Authenticate, HDCP_Authenticate_Repeater

(* AbortDDC does not start the engine again.                               *)
LEMMA LinkAbort == IInv /\ LinkInv /\ AuthInv /\ AbortDDC => LinkInv' /\ AuthInv'
  BY DEF IInv, Places, LinkInv, AuthInv, AbortDDC, SetEngine, Goto, LeaveDriver,
         AuthLabels, AbortReturns

LEMMA LinkStep == IInv /\ LinkInv /\ AuthInv /\ [Next]_vars => LinkInv' /\ AuthInv'
<1>1. LinkInv /\ AuthInv /\ UNCHANGED vars => LinkInv' /\ AuthInv'
  BY DEF LinkInv, AuthInv, Link, Working, vars, chipVars, driverVars
<1> QED
  BY <1>1, LinkEnvironment, LinkPass, LinkEdid, LinkReads, LinkAuthenticate, LinkAbort
  DEF Next, Driver

(* While the driver holds the display for authentic, the engine is at work *)
(* on the link or has said that it failed, at the start of every pass,     *)
(* whatever chip and display did in between: an AUTH_DONE that comes late, *)
(* a resumption that goes wrong or a display that is replaced never leaves *)
(* bAuthenticated standing without a link, but for FIFO errors and bus     *)
(* hangs.                                                                  *)
THEOREM LinkOfAuthenticIsChecked == Spec => []AuthenticatedLinkIsChecked
<1>1. LinkInv => AuthenticatedLinkIsChecked
  BY DEF LinkInv, Link, AuthenticatedLinkIsChecked
<1> QED
  BY <1>1, LinkInit, LinkStep, InvHolds, PTL DEF Spec
=============================================================================
