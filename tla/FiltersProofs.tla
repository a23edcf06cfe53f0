---------------------------- MODULE FiltersProofs ----------------------------
(***************************************************************************)
(* Proofs about Filters, for bytes and addresses of any width and any      *)
(* prefix: that the word compare of cidr_match_v4 and the byte loop of     *)
(* cidr_match_v6 both decide whether an address lies in a network, and     *)
(* that a deny rule cannot be overruled.                                   *)
(*                                                                         *)
(* A compare by quotients is taken bit by bit (SameQuotient); what is left *)
(* is which bit of which byte a bit of the address is (Places).            *)
(***************************************************************************)
EXTENDS Filters, FiniteSetTheorems, FunctionTheorems, WellFoundedInduction, TLAPS

-----------------------------------------------------------------------------
(* Induction over the natural numbers, for a set instead of a predicate.   *)
LEMMA Induction ==
  ASSUME NEW T, 0 \in T, \A n \in Nat : n \in T => n + 1 \in T
  PROVE  Nat \subseteq T
<1>1. IsWellFoundedOn(OpToRel(<, Nat), Nat)
  BY NatLessThanWellFounded
<1>2. SUFFICES ASSUME Nat \ T # {}
               PROVE  FALSE
  OBVIOUS
<1> DEFINE S == Nat \ T
           R == OpToRel(<, Nat)
<1>3. IsWellFoundedOn(R, Nat)
  BY <1>1
<1>4. S \subseteq Nat
  OBVIOUS
<1>5. S # {}
  BY <1>2
<1>6. \A x, y \in Nat : x < y => <<x, y>> \in R
  BY DEF OpToRel
<1> HIDE DEF R, S
<1>7. PICK x \in S : \A y \in S : ~ (<<y, x>> \in R)
  <2>1. \E x \in S : \A y \in S : ~ (<<y, x>> \in R)
    BY <1>3, <1>4, <1>5, WFMin, Zenon
  <2> QED
    BY <2>1
<1>8. \A y \in S : ~(y < x)
  BY <1>4, <1>6, <1>7, Zenon
<1>9. x \in Nat /\ x \notin T
  BY DEF S
<1>10. x # 0 /\ x - 1 \in Nat /\ x - 1 < x /\ (x - 1) + 1 = x
  BY <1>9
<1>11. x - 1 \in T
  BY <1>8, <1>10 DEF S
<1> QED
  BY <1>9, <1>10, <1>11

-----------------------------------------------------------------------------
(* Powers of two, counted as subsets.                                      *)
LEMMA PowerIsCount ==
  ASSUME NEW n \in Nat
  PROVE  /\ IsFiniteSet(SUBSET (1..n)) /\ 2^n = Cardinality(SUBSET (1..n))
         /\ 2^n \in Nat
<1>1. IsFiniteSet(1..n) /\ Cardinality(1..n) = n
  <2>1. Cardinality(1..n) = IF 1 > n THEN 0 ELSE n - 1 + 1
    BY FS_Interval
  <2> QED
    BY <2>1, FS_Interval
<1> DEFINE S == 1..n
<1>2. IsFiniteSet(S)
  BY <1>1
<1> HIDE DEF S
<1>3. IsFiniteSet(SUBSET S) /\ Cardinality(SUBSET S) = 2^Cardinality(S)
  BY <1>2, FS_SUBSET
<1>4. Cardinality(SUBSET S) \in Nat
  BY <1>3, FS_CardinalityType
<1>5. Cardinality(S) = n
  BY <1>1 DEF S
<1> QED
  BY <1>3, <1>4, <1>5 DEF S

LEMMA PowerStep ==
  ASSUME NEW n \in Nat
  PROVE  2^(n + 1) = 2 * 2^n
<1> DEFINE A == SUBSET (1..n)
           With(X) == X \cup {n + 1}
           B == {With(X) : X \in A}
           F == [X \in A |-> With(X)]
<1>1. SUBSET (1..(n + 1)) = A \cup B
  <2>1. 1..(n + 1) = 1..n \cup {n + 1}
    OBVIOUS
  <2>2. ASSUME NEW X \in SUBSET (1..(n + 1)), X \notin A
        PROVE  X \in B
    <3>1. n + 1 \in X
      BY <2>1, <2>2
    <3>2. X \ {n + 1} \in A /\ X = With(X \ {n + 1})
      BY <2>1, <3>1
    <3> QED
      BY <3>2
  <2>3. A \subseteq SUBSET (1..(n + 1)) /\ B \subseteq SUBSET (1..(n + 1))
    BY <2>1
  <2> QED
    BY <2>2, <2>3
<1>2. \A X \in A : n + 1 \notin X
  OBVIOUS
<1>3. A \cap B = {}
  BY <1>2
<1>4. F \in Bijection(A, B)
  <2>1. F \in [A -> B]
    OBVIOUS
  <2>2. \A X, Y \in A : F[X] = F[Y] => X = Y
    <3>1. \A X \in A : F[X] \ {n + 1} = X
      BY <1>2
    <3> QED
      BY <3>1
  <2>3. \A Y \in B : \E X \in A : F[X] = Y
    OBVIOUS
  <2> HIDE DEF A, B, F
  <2> QED
    BY <2>1, <2>2, <2>3, Fun_IsBij
<1>5. /\ IsFiniteSet(A) /\ Cardinality(A) = 2^n /\ 2^n \in Nat
      /\ Cardinality(SUBSET (1..(n + 1))) = 2^(n + 1)
  <2>1. n + 1 \in Nat
    OBVIOUS
  <2> QED
    BY <2>1, PowerIsCount
<1>6. ExistsBijection(A, B)
  BY <1>4 DEF ExistsBijection
<1> HIDE DEF A, B
<1>7. IsFiniteSet(B) /\ Cardinality(B) = Cardinality(A)
  BY <1>5, <1>6, FS_Bijection
<1>8. Cardinality(A \cup B) = Cardinality(A) + Cardinality(B) - Cardinality(A \cap B)
  BY <1>5, <1>7, FS_Union
<1>9. Cardinality(A \cap B) = 0
  BY <1>3, FS_EmptySet
<1>10. Cardinality(A \cup B) = 2^(n + 1)
  BY <1>1, <1>5, Zenon
<1>11. Cardinality(A) = 2^n /\ Cardinality(B) = 2^n
  BY <1>5, <1>7, Zenon
<1>12. 2^(n + 1) = 2^n + 2^n - 0
  BY <1>8, <1>9, <1>10, <1>11, Zenon
<1> QED
  BY <1>5, <1>12

\* From here on 2^n is only what these facts say.
LEMMA Power ==
  /\ 2^0 = 1
  /\ \A n \in Nat : 2^n \in Nat \ {0} /\ 2^(n + 1) = 2 * 2^n
<1>1. 2^0 = 1
  OBVIOUS
<1> DEFINE T == {n \in Nat : 2^n \in Nat \ {0}}
<1>2. 0 \in T
  BY <1>1
<1>3. \A n \in Nat : n \in T => n + 1 \in T
  BY PowerStep
<1> HIDE DEF T
<1>4. Nat \subseteq T
  BY <1>2, <1>3, Induction
<1> QED
  BY <1>1, <1>4, PowerStep DEF T

LEMMA PowerSum ==
  ASSUME NEW m \in Nat, NEW n \in Nat
  PROVE  2^(m + n) = 2^m * 2^n
<1> DEFINE T == {k \in Nat : 2^(m + k) = 2^m * 2^k}
<1>1. 0 \in T
  BY Power
<1>2. ASSUME NEW k \in Nat, k \in T
      PROVE  k + 1 \in T
  <2>1. /\ 2^((m + k) + 1) = 2 * 2^(m + k) /\ 2^(k + 1) = 2 * 2^k
        /\ 2^m \in Nat /\ 2^k \in Nat
    BY Power
  <2>2. 2^(m + (k + 1)) = 2^((m + k) + 1)
    OBVIOUS
  <2>3. 2^(m + k) = 2^m * 2^k
    BY <1>2
  <2> QED
    BY <2>1, <2>2, <2>3
<1> HIDE DEF T
<1>3. Nat \subseteq T
  BY <1>1, <1>2, Induction
<1> QED
  BY <1>3 DEF T

-----------------------------------------------------------------------------
(* Quotients and bits.                                                     *)
LEMMA DivSum ==
  ASSUME NEW a \in Nat, NEW x \in Nat, NEW p \in Nat \ {0}
  PROVE  (a * p + x) \div p = a + (x \div p)
OBVIOUS

LEMMA DivDiv ==
  ASSUME NEW a \in Nat, NEW p \in Nat \ {0}, NEW q \in Nat \ {0}
  PROVE  a \div (p * q) = (a \div p) \div q
OBVIOUS

\* Whether two numbers below 2^n agree without their last d bits.
LEMMA SameQuotient ==
  ASSUME NEW n \in Nat, NEW a \in 0..(2^n - 1), NEW b \in 0..(2^n - 1), NEW d \in 0..n
  PROVE  a \div 2^d = b \div 2^d
           <=> \A j \in d..(n - 1) : (a \div 2^j) % 2 = (b \div 2^j) % 2
<1> DEFINE BitOf(x, j) == (x \div 2^j) % 2
           Agree(e) == a \div 2^e = b \div 2^e <=> \A j \in e..(n - 1) : BitOf(a, j) = BitOf(b, j)
           T == {m \in Nat : m <= n => Agree(n - m)}
<1>1. a \in Nat /\ b \in Nat /\ a < 2^n /\ b < 2^n /\ 2^n \in Nat \ {0}
  BY Power
<1>2. 0 \in T
  <2>1. a \div 2^n = 0 /\ b \div 2^n = 0
    BY <1>1
  <2> QED
    BY <2>1
<1>3. ASSUME NEW m \in Nat, m \in T
      PROVE  m + 1 \in T
  <2>1. SUFFICES ASSUME m + 1 <= n
                 PROVE  Agree(n - (m + 1))
    OBVIOUS
  <2> DEFINE e == n - (m + 1)
             p == 2^e
  <2>2. e \in Nat /\ e + 1 = n - m /\ p \in Nat \ {0} /\ 2^(e + 1) = p * 2
    BY <2>1, Power
  <2>3. a \div 2^(e + 1) = (a \div p) \div 2 /\ b \div 2^(e + 1) = (b \div p) \div 2
    <3>1. 2 \in Nat \ {0}
      OBVIOUS
    <3> HIDE DEF p
    <3>2. a \div (p * 2) = (a \div p) \div 2 /\ b \div (p * 2) = (b \div p) \div 2
      BY <1>1, <2>2, <3>1, DivDiv
    <3>3. 2^(e + 1) = p * 2
      BY <2>2
    <3> HIDE DEF e
    <3> QED
      BY <3>2, <3>3, Zenon
  <2>4. \A x, y \in Nat : x = y <=> x \div 2 = y \div 2 /\ x % 2 = y % 2
    OBVIOUS
  <2>5. a \div p \in Nat /\ b \div p \in Nat
    <3> HIDE DEF p
    <3> QED
      BY <1>1, <2>2
  <2>6. a \div p = b \div p <=> a \div 2^(e + 1) = b \div 2^(e + 1) /\ BitOf(a, e) = BitOf(b, e)
    <3>1. BitOf(a, e) = (a \div p) % 2 /\ BitOf(b, e) = (b \div p) % 2
      OBVIOUS
    <3> HIDE DEF e, p, BitOf
    <3> QED
      BY <2>3, <2>4, <2>5, <3>1
  <2>7. Agree(e + 1)
    <3> HIDE DEF Agree
    <3> QED
      BY <1>3, <2>1, <2>2
  <2>8. \A j : j \in e..(n - 1) <=> j = e \/ j \in (e + 1)..(n - 1)
    BY <2>1
  <2>9. Agree(e)
    <3> HIDE DEF e, BitOf
    <3>1. \A j \in (e + 1)..(n - 1) : j \in e..(n - 1)
      BY <2>8
    <3>2. e \in e..(n - 1)
      BY <2>8
    <3> QED
      BY <2>6, <2>7, <2>8, <3>1, <3>2
  <2> QED
    BY <2>9
<1> HIDE DEF T, Agree
<1>4. Nat \subseteq T
  BY <1>2, <1>3, Induction
<1>5. Agree(d)
  <2>1. n - d \in Nat /\ n - d <= n /\ n - (n - d) = d
    OBVIOUS
  <2> QED
    BY <1>4, <2>1 DEF T
<1> QED
  BY <1>5 DEF Agree

\* Which byte and which bit of it a bit of an address is.
LEMMA Places ==
  ASSUME NEW B \in Nat \ {0}, NEW i \in Nat, NEW r \in 0..(B - 1)
  PROVE  (i * B + r) \div B = i /\ (i * B + r) % B = r
<1>1. r \div B = 0
  OBVIOUS
<1>2. (i * B + r) \div B = i
  BY <1>1, DivSum
<1> DEFINE x == i * B + r
<1>3. x \in Nat
  OBVIOUS
<1>4. x % B = x - B * (x \div B)
  <2> HIDE DEF x
  <2> QED
    BY <1>3
<1> QED
  BY <1>2, <1>4

-----------------------------------------------------------------------------
(* The word of an IPv4 address.                                            *)
WordNext(addr, i, before) == before * 2^ByteBits + addr[i]

\* The recursion of Word defines a function.
LEMMA WordIs ==
  ASSUME NEW addr, Len(addr) \in Nat
  PROVE  \E g : /\ \A i \in 0..Len(addr) :
                     g[i] = IF i = 0 THEN 0 ELSE WordNext(addr, i, g[i - 1])
                /\ Word(addr) = g[Len(addr)]
<1> DEFINE Recurs(g, n) ==
             g = [i \in 0..n |-> IF i = 0 THEN 0 ELSE WordNext(addr, i, g[i - 1])]
           T == {n \in Nat : \E g : Recurs(g, n)}
<1>1. 0 \in T
  <2>1. Recurs([i \in 0..0 |-> 0], 0)
    OBVIOUS
  <2> QED
    BY <2>1
<1>2. ASSUME NEW n \in Nat, n \in T
      PROVE  n + 1 \in T
  <2>1. PICK g : Recurs(g, n)
    BY <1>2
  <2> DEFINE h == [i \in 0..(n + 1) |->
                     IF i = n + 1 THEN WordNext(addr, n + 1, g[n]) ELSE g[i]]
  <2>2. \A i \in 0..(n + 1) :
          h[i] = IF i = 0 THEN 0 ELSE WordNext(addr, i, h[i - 1])
    <3>1. SUFFICES ASSUME NEW i \in 0..(n + 1)
                   PROVE  h[i] = IF i = 0 THEN 0 ELSE WordNext(addr, i, h[i - 1])
      OBVIOUS
    <3>2. CASE i = n + 1
      <4>1. h[i] = WordNext(addr, i, g[n]) /\ h[i - 1] = g[n] /\ i # 0
        BY <3>2
      <4> QED
        BY <4>1
    <3>3. CASE i # n + 1 /\ i # 0
      <4>1. h[i] = g[i] /\ h[i - 1] = g[i - 1] /\ i \in 0..n
        BY <3>3
      <4> QED
        BY <2>1, <3>3, <4>1
    <3>4. CASE i # n + 1 /\ i = 0
      BY <2>1, <3>4
    <3> QED
      BY <3>2, <3>3, <3>4
  <2>3. Recurs(h, n + 1)
    BY <2>2
  <2> HIDE DEF h, Recurs
  <2> QED
    BY <2>3
<1> HIDE DEF T
<1>3. Nat \subseteq T
  BY <1>1, <1>2, Induction
<1>4. \E g : Recurs(g, Len(addr))
  BY <1>3 DEF T
<1> DEFINE w == CHOOSE g : Recurs(g, Len(addr))
<1>5. Word(addr) = w[Len(addr)]
  BY DEF Word, WordNext
<1>6. Recurs(w, Len(addr))
  <2> HIDE DEF Recurs
  <2> QED
    BY <1>4
<1> HIDE DEF w
<1>7. \A i \in 0..Len(addr) : w[i] = IF i = 0 THEN 0 ELSE WordNext(addr, i, w[i - 1])
  BY <1>6
<1> QED
  BY <1>5, <1>7

\* One more byte: its bits are the low ones, the others move up.
LEMMA ByteAdded ==
  ASSUME NEW B \in Nat \ {0}, NEW a \in Nat, NEW x \in 0..(2^B - 1), NEW j \in Nat
  PROVE  /\ j < B => ((a * 2^B + x) \div 2^j) % 2 = (x \div 2^j) % 2
         /\ j >= B => ((a * 2^B + x) \div 2^j) % 2 = (a \div 2^(j - B)) % 2
<1>1. x \in Nat /\ x < 2^B /\ 2^B \in Nat \ {0}
  BY Power
<1>2. CASE j < B
  <2> DEFINE p == 2^j
             q == 2^(B - j - 1)
  <2>1. p \in Nat \ {0} /\ q \in Nat \ {0} /\ 2^B = p * (2 * q)
    <3>1. j \in Nat /\ B - j - 1 \in Nat /\ B - j \in Nat /\ (B - j - 1) + 1 = B - j /\ j + (B - j) = B
      BY <1>2
    <3>2. 2^(B - j) = 2 * q
      BY <3>1, Power
    <3>3. 2^B = p * 2^(B - j)
      BY <3>1, PowerSum
    <3> QED
      BY <3>1, <3>2, <3>3, Power
  <2> HIDE DEF p, q
  <2>2. a * 2^B = (a * (2 * q)) * p /\ a * (2 * q) \in Nat /\ a * (2 * q) = 2 * (a * q) /\ a * q \in Nat
    BY <2>1
  <2>3. (a * 2^B + x) \div p = a * (2 * q) + (x \div p)
    <3> DEFINE c == a * (2 * q)
    <3>1. c \in Nat /\ a * 2^B = c * p
      BY <2>2
    <3> HIDE DEF c
    <3>2. (c * p + x) \div p = c + (x \div p)
      BY <1>1, <2>1, <3>1, DivSum
    <3>3. (a * 2^B + x) \div p = c + (x \div p)
      BY <3>1, <3>2, Zenon
    <3> QED
      BY <3>3 DEF c
  <2>4. x \div p \in Nat
    BY <1>1, <2>1
  <2>5. \A m, n \in Nat : (2 * m + n) % 2 = n % 2
    OBVIOUS
  <2>6. (a * 2^B + x) \div p = 2 * (a * q) + (x \div p)
    BY <2>2, <2>3
  <2>7. ((a * 2^B + x) \div p) % 2 = (x \div p) % 2
    BY <2>2, <2>4, <2>5, <2>6
  <2> QED
    BY <1>2, <2>7 DEF p
<1>3. CASE j >= B
  <2> DEFINE p == 2^B
             q == 2^(j - B)
  <2>1. p \in Nat \ {0} /\ q \in Nat \ {0} /\ 2^j = p * q
    <3>1. j - B \in Nat /\ B \in Nat /\ B + (j - B) = j
      BY <1>3
    <3>2. 2^(B + (j - B)) = p * q
      BY <3>1, PowerSum
    <3> QED
      BY <3>1, <3>2, Power
  <2>2. x \div p = 0
    BY <1>1
  <2> HIDE DEF q
  <2>3. (a * p + x) \div p = a
    <3>1. (a * p + x) \div p = a + (x \div p)
      BY <1>1, DivSum
    <3> QED
      BY <2>2, <3>1
  <2>4. a * p + x \in Nat
    BY <1>1
  <2> DEFINE y == a * p + x
  <2>5. y \div (p * q) = (y \div p) \div q
    <3>1. y \in Nat
      BY <2>4
    <3> HIDE DEF y, p
    <3> QED
      BY <2>1, <3>1, DivDiv
  <2>6. y \div 2^j = a \div q
    <3>1. y \div p = a
      BY <2>3
    <3> HIDE DEF y, p
    <3> QED
      BY <2>1, <2>5, <3>1
  <2>7. ((a * 2^B + x) \div 2^j) % 2 = (a \div 2^(j - B)) % 2
    BY <2>6, Zenon DEF q
  <2>8. ~(j < B)
    BY <1>3
  <2> QED
    BY <2>7, <2>8, Zenon
<1> QED
  BY <1>2, <1>3

LEMMA LowBits ==
  ASSUME NEW B \in Nat \ {0}, NEW a \in Nat, NEW x \in 0..(2^B - 1), NEW j \in Nat, j < B
  PROVE  ((a * 2^B + x) \div 2^j) % 2 = (x \div 2^j) % 2
BY ByteAdded, Zenon

LEMMA HighBits ==
  ASSUME NEW B \in Nat \ {0}, NEW a \in Nat, NEW x \in 0..(2^B - 1), NEW j \in Nat, j >= B
  PROVE  ((a * 2^B + x) \div 2^j) % 2 = (a \div 2^(j - B)) % 2
BY ByteAdded, Zenon

LEMMA WordBits ==
  ASSUME NEW n \in Nat, NEW addr \in [1..n -> 0..(2^ByteBits - 1)]
  PROVE  /\ Word(addr) \in 0..(2^(ByteBits * n) - 1)
         /\ \A k \in 0..(ByteBits * n - 1) :
              (Word(addr) \div 2^(ByteBits * n - 1 - k)) % 2 = Bit(addr, k)
<1> DEFINE B == ByteBits
           W == 2^B
<1>1. B \in Nat \ {0} /\ W \in Nat \ {0}
  BY Power, FiltersAssumption
<1>2. Len(addr) = n
  OBVIOUS
<1>3. PICK g : /\ \A i \in 0..n : g[i] = IF i = 0 THEN 0 ELSE WordNext(addr, i, g[i - 1])
               /\ Word(addr) = g[n]
  BY <1>2, WordIs
<1> HIDE DEF B
<1> DEFINE Good(i) ==
             /\ g[i] \in 0..(2^(i * B) - 1)
             /\ \A j \in 0..(i * B - 1) : (g[i] \div 2^j) % 2 = Bit(addr, i * B - 1 - j)
           T == {i \in Nat : i <= n => Good(i)}
<1>4. 0 \in T
  <2>1. g[0] = 0 /\ 0 * B = 0 /\ 2^0 = 1
    BY <1>1, <1>3, Power
  <2>2. g[0] \in 0..(2^(0 * B) - 1)
    <3>1. 0 * B = 0
      BY <2>1
    <3>2. 2^(0 * B) = 2^0
      BY <3>1, Zenon
    <3>3. 2^(0 * B) = 1
      BY <2>1, <3>2, Zenon
    <3> HIDE DEF W
    <3>4. \A p : p = 1 => g[0] \in 0..(p - 1)
      BY <2>1
    <3> QED
      BY <3>3, <3>4, Zenon
  <2>3. 0..(0 * B - 1) = {}
    BY <2>1
  <2> QED
    BY <2>2, <2>3
<1>5. ASSUME NEW i \in Nat, i \in T
      PROVE  i + 1 \in T
  <2>1. SUFFICES ASSUME i + 1 <= n
                 PROVE  Good(i + 1)
    OBVIOUS
  <2>2. Good(i)
    <3> HIDE DEF Good
    <3> QED
      BY <1>5, <2>1
  <2> DEFINE a == g[i]
             x == addr[i + 1]
  <2>3. g[i + 1] = a * W + x
    <3>1. i + 1 \in 0..n /\ i + 1 # 0 /\ (i + 1) - 1 = i
      BY <2>1
    <3>2. g[i + 1] = WordNext(addr, i + 1, g[i])
      BY <1>3, <3>1
    <3> QED
      BY <3>2 DEF WordNext, B
  <2>4. x \in 0..(W - 1) /\ x \in Nat
    <3>1. i + 1 \in 1..n
      BY <2>1
    <3> QED
      BY <3>1, <1>1 DEF B
  <2>5. i * B \in Nat /\ (i + 1) * B = i * B + B
    BY <1>1
  <2> DEFINE m == i * B
             M == 2^m
  <2>6. M \in Nat \ {0} /\ 2^(m + B) = M * W /\ a \in 0..(M - 1)
    BY <1>1, <2>2, <2>5, Power, PowerSum
  <2>7. g[i + 1] \in 0..(2^((i + 1) * B) - 1)
    <3>1. 2^((i + 1) * B) = M * W
      BY <2>5, <2>6
    <3> HIDE DEF M, W, a, x
    <3>2. a * W + x \in 0..(M * W - 1)
      <4>1. a + 1 <= M /\ a \in Nat
        BY <2>6
      <4>2. (a + 1) * W <= M * W
        BY <1>1, <2>6, <4>1
      <4>3. (a + 1) * W = a * W + W /\ a * W \in Nat /\ M * W \in Nat
        BY <1>1, <2>6, <4>1
      <4> QED
        BY <1>1, <2>4, <4>2, <4>3
    <3> QED
      BY <2>3, <3>1, <3>2
  <2>8. ASSUME NEW j \in 0..((i + 1) * B - 1)
        PROVE  (g[i + 1] \div 2^j) % 2 = Bit(addr, (i + 1) * B - 1 - j)
    <3>0. j \in Nat /\ a \in Nat
      BY <2>5, <2>6
    <3>1. CASE j < B
      <4>1. (g[i + 1] \div 2^j) % 2 = (x \div 2^j) % 2
        <5> HIDE DEF a, x, B
        <5>1. x \in 0..(2^B - 1)
          BY <2>4
        <5>2. B \in Nat \ {0}
          BY <1>1
        <5>3. a \in Nat /\ j \in Nat
          BY <3>0
        <5>4. ((a * 2^B + x) \div 2^j) % 2 = (x \div 2^j) % 2
          BY <5>1, <5>2, <5>3, <3>1, LowBits, Zenon
        <5> QED
          BY <2>3, <5>4, Zenon
      <4> DEFINE r == B - 1 - j
                 k == i * B + r
      <4>2. r \in 0..(B - 1) /\ B - 1 - r = j
        BY <1>1, <3>0, <3>1
      <4>3. k \div B = i /\ k % B = r
        <5> HIDE DEF r
        <5> QED
          BY <1>1, <4>2, Places
      <4>4. (i + 1) * B - 1 - j = k
        BY <2>5, <1>1, <3>0
      <4>5. Bit(addr, k) = (x \div 2^j) % 2
        <5> HIDE DEF k, r
        <5> QED
          BY <4>2, <4>3 DEF Bit, B
      <4> QED
        BY <4>1, <4>4, <4>5
    <3>2. CASE j >= B
      <4>1. (g[i + 1] \div 2^j) % 2 = (a \div 2^(j - B)) % 2
        <5> HIDE DEF a, x, B
        <5>1. x \in 0..(2^B - 1)
          BY <2>4
        <5>2. B \in Nat \ {0}
          BY <1>1
        <5>3. a \in Nat /\ j \in Nat
          BY <3>0
        <5>4. ((a * 2^B + x) \div 2^j) % 2 = (a \div 2^(j - B)) % 2
          BY <5>1, <5>2, <5>3, <3>2, HighBits, Zenon
        <5> QED
          BY <2>3, <5>4, Zenon
      <4>2. j - B \in 0..(i * B - 1) /\ i * B - 1 - (j - B) = (i + 1) * B - 1 - j
        BY <1>1, <2>5, <3>0, <3>2
      <4>3. (a \div 2^(j - B)) % 2 = Bit(addr, i * B - 1 - (j - B))
        BY <2>2, <4>2
      <4> QED
        BY <4>1, <4>2, <4>3
    <3> QED
      BY <1>1, <3>0, <3>1, <3>2
  <2> QED
    BY <2>7, <2>8
<1> HIDE DEF T, Good
<1>6. Good(n)
  <2>1. Nat \subseteq T
    BY <1>4, <1>5, Induction
  <2> QED
    BY <2>1 DEF T
<1>7. n * B = ByteBits * n
  BY <1>1 DEF B
<1>8. ASSUME NEW k \in 0..(ByteBits * n - 1)
      PROVE  (Word(addr) \div 2^(ByteBits * n - 1 - k)) % 2 = Bit(addr, k)
  <2> DEFINE j == n * B - 1 - k
  <2>1. j \in 0..(n * B - 1) /\ n * B - 1 - j = k /\ j = ByteBits * n - 1 - k
    BY <1>1, <1>7
  <2>2. (g[n] \div 2^j) % 2 = Bit(addr, n * B - 1 - j)
    <3> HIDE DEF j
    <3> QED
      BY <1>6, <2>1 DEF Good
  <2> QED
    BY <1>3, <2>1, <2>2
<1>9. Word(addr) \in 0..(2^(ByteBits * n) - 1)
  BY <1>3, <1>6, <1>7 DEF Good
<1> QED
  BY <1>8, <1>9

-----------------------------------------------------------------------------
(* The two compares decide whether an address lies in a network.           *)
LEMMA SameBits ==
  ASSUME NEW n \in Nat, NEW x \in [1..n -> 0..(2^ByteBits - 1)],
         NEW y \in [1..n -> 0..(2^ByteBits - 1)], NEW prefix \in 0..(ByteBits * n)
  PROVE  Word(x) \div 2^(ByteBits * n - prefix) = Word(y) \div 2^(ByteBits * n - prefix)
           <=> \A k \in 0..(prefix - 1) : Bit(x, k) = Bit(y, k)
<1> DEFINE W == ByteBits * n
           d == W - prefix
           a == Word(x)
           b == Word(y)
<1>1. W \in Nat /\ prefix \in Nat /\ d \in 0..W
  BY FiltersAssumption
<1>2. a \in 0..(2^W - 1) /\ \A k \in 0..(W - 1) : (a \div 2^(W - 1 - k)) % 2 = Bit(x, k)
  BY WordBits
<1>3. b \in 0..(2^W - 1) /\ \A k \in 0..(W - 1) : (b \div 2^(W - 1 - k)) % 2 = Bit(y, k)
  BY WordBits
<1>4. a \div 2^d = b \div 2^d <=> \A j \in d..(W - 1) : (a \div 2^j) % 2 = (b \div 2^j) % 2
  <2> HIDE DEF a, b, d, W
  <2> QED
    BY <1>1, <1>2, <1>3, SameQuotient
<1> HIDE DEF a, b, W
<1>5. ASSUME \A j \in d..(W - 1) : (a \div 2^j) % 2 = (b \div 2^j) % 2,
             NEW k \in 0..(prefix - 1)
      PROVE  Bit(x, k) = Bit(y, k)
  <2> DEFINE j == W - 1 - k
  <2>1. j \in d..(W - 1) /\ k \in 0..(W - 1)
    BY <1>1
  <2>2. (a \div 2^j) % 2 = (b \div 2^j) % 2
    <3> HIDE DEF j
    <3> QED
      BY <1>5, <2>1
  <2> QED
    BY <1>2, <1>3, <2>1, <2>2
<1>6. ASSUME \A k \in 0..(prefix - 1) : Bit(x, k) = Bit(y, k),
             NEW j \in d..(W - 1)
      PROVE  (a \div 2^j) % 2 = (b \div 2^j) % 2
  <2> DEFINE k == W - 1 - j
  <2>1. k \in 0..(prefix - 1) /\ k \in 0..(W - 1) /\ W - 1 - k = j
    BY <1>1
  <2>2. Bit(x, k) = Bit(y, k)
    <3> HIDE DEF k
    <3> QED
      BY <1>6, <2>1
  <2> HIDE DEF k
  <2>3. (a \div 2^(W - 1 - k)) % 2 = (b \div 2^(W - 1 - k)) % 2
    BY <1>2, <1>3, <2>1, <2>2
  <2>4. W - 1 - k = j
    BY <2>1
  <2> QED
    BY <2>3, <2>4, Zenon
<1> HIDE DEF d
<1>7. a \div 2^d = b \div 2^d <=> \A k \in 0..(prefix - 1) : Bit(x, k) = Bit(y, k)
  BY <1>4, <1>5, <1>6
<1> QED
  BY <1>7 DEF a, b, d, W

\* What is left of byte i of a prefix, and which of its bits are dropped.
Remain(prefix, i)  == prefix - i * ByteBits
Dropped(prefix, i) ==
  IF Remain(prefix, i) >= ByteBits THEN 0 ELSE ByteBits - Remain(prefix, i)

LEMMA SameBytes ==
  ASSUME NEW n \in Nat, NEW x \in [1..n -> 0..(2^ByteBits - 1)],
         NEW y \in [1..n -> 0..(2^ByteBits - 1)], NEW prefix \in 0..(ByteBits * n)
  PROVE  (\A i \in 0..(n - 1) :
            Remain(prefix, i) > 0 =>
              x[i + 1] \div 2^Dropped(prefix, i) = y[i + 1] \div 2^Dropped(prefix, i))
           <=> \A k \in 0..(prefix - 1) : Bit(x, k) = Bit(y, k)
<1> DEFINE B == ByteBits
<1>1. B \in Nat \ {0} /\ prefix \in Nat
  BY FiltersAssumption
<1>2. ASSUME NEW i \in 0..(n - 1), Remain(prefix, i) > 0
      PROVE  /\ Dropped(prefix, i) \in 0..B
             /\ x[i + 1] \div 2^Dropped(prefix, i) = y[i + 1] \div 2^Dropped(prefix, i)
                  <=> \A j \in Dropped(prefix, i)..(B - 1) :
                        (x[i + 1] \div 2^j) % 2 = (y[i + 1] \div 2^j) % 2
  <2> DEFINE d == Dropped(prefix, i)
  <2>1. i * B \in Nat
    BY <1>1
  <2>2. d \in 0..B
    BY <1>1, <1>2, <2>1 DEF Dropped, Remain
  <2>3. x[i + 1] \in 0..(2^B - 1) /\ y[i + 1] \in 0..(2^B - 1)
    OBVIOUS
  <2> HIDE DEF d
  <2>4. x[i + 1] \div 2^d = y[i + 1] \div 2^d
          <=> \A j \in d..(B - 1) : (x[i + 1] \div 2^j) % 2 = (y[i + 1] \div 2^j) % 2
    BY <1>1, <2>2, <2>3, SameQuotient
  <2> QED
    BY <2>2, <2>4 DEF d
\* Bit r of byte i, from the top, is bit i * B + r of the address.
<1>3. ASSUME NEW i \in Nat, NEW r \in 0..(B - 1)
      PROVE  /\ Bit(x, i * B + r) = (x[i + 1] \div 2^(B - 1 - r)) % 2
             /\ Bit(y, i * B + r) = (y[i + 1] \div 2^(B - 1 - r)) % 2
  <2>1. (i * B + r) \div B = i /\ (i * B + r) % B = r
    BY <1>1, Places
  <2> DEFINE k == i * B + r
  <2>2. k \div B = i /\ k % B = r
    BY <2>1
  <2> HIDE DEF k
  <2>3. /\ Bit(x, k) = (x[i + 1] \div 2^(B - 1 - r)) % 2
        /\ Bit(y, k) = (y[i + 1] \div 2^(B - 1 - r)) % 2
    BY <2>2 DEF Bit
  <2> QED
    BY <2>3 DEF k
<1> HIDE DEF B
<1>4. ASSUME \A i \in 0..(n - 1) :
               Remain(prefix, i) > 0 =>
                 x[i + 1] \div 2^Dropped(prefix, i) = y[i + 1] \div 2^Dropped(prefix, i),
             NEW k \in 0..(prefix - 1)
      PROVE  Bit(x, k) = Bit(y, k)
  <2> DEFINE i == k \div B
             r == k % B
             j == B - 1 - r
  <2>1. k \in Nat /\ i \in Nat /\ r \in 0..(B - 1) /\ k = i * B + r
    BY <1>1
  <2> HIDE DEF i, r
  <2>2. i \in 0..(n - 1)
    <3>1. i * B < n * B
      BY <1>1, <2>1 DEF B
    <3>2. i >= n => i * B >= n * B
      BY <1>1, <2>1
    <3>3. i * B \in Nat /\ n * B \in Nat
      BY <1>1, <2>1
    <3> QED
      BY <2>1, <3>1, <3>2, <3>3
  <2>3. i * B \in Nat /\ Remain(prefix, i) = prefix - i * B
    BY <1>1, <2>1 DEF Remain, B
  <2>4. Remain(prefix, i) > r /\ Remain(prefix, i) > 0
    BY <1>1, <2>1, <2>3
  <2>5. Dropped(prefix, i) <= j /\ Dropped(prefix, i) \in Nat /\ j \in 0..(B - 1)
    <3>1. Remain(prefix, i) \in Int
      BY <2>3
    <3> QED
      BY <1>1, <2>1, <2>4, <3>1 DEF Dropped, B
  <2>6. j \in Dropped(prefix, i)..(B - 1)
    BY <1>1, <2>5
  <2>7. (x[i + 1] \div 2^j) % 2 = (y[i + 1] \div 2^j) % 2
    <3> HIDE DEF j
    <3> QED
      BY <1>2, <1>4, <2>2, <2>4, <2>6
  <2>8. Bit(x, i * B + r) = Bit(y, i * B + r)
    BY <1>3, <2>1, <2>7
  <2> QED
    BY <2>1, <2>8, Zenon
<1>5. ASSUME \A k \in 0..(prefix - 1) : Bit(x, k) = Bit(y, k),
             NEW i \in 0..(n - 1), Remain(prefix, i) > 0,
             NEW j \in Dropped(prefix, i)..(B - 1)
      PROVE  (x[i + 1] \div 2^j) % 2 = (y[i + 1] \div 2^j) % 2
  <2> DEFINE r == B - 1 - j
             k == i * B + r
  <2>1. i * B \in Nat /\ Remain(prefix, i) = prefix - i * B
    BY <1>1 DEF Remain, B
  <2>2. j \in Nat /\ j <= B - 1 /\ Dropped(prefix, i) <= j
    BY <1>1, <1>2, <1>5
  <2>3. r \in 0..(B - 1) /\ r < Remain(prefix, i)
    <3>1. Remain(prefix, i) \in Int
      BY <2>1
    <3> QED
      BY <1>1, <1>5, <2>2, <3>1 DEF Dropped, B
  <2>4. k \in 0..(prefix - 1)
    <3> DEFINE m == i * B
    <3>1. m \in Nat /\ Remain(prefix, i) = prefix - m
      BY <2>1
    <3>2. r \in Nat /\ r < Remain(prefix, i)
      BY <1>1, <2>3
    <3> HIDE DEF m, r
    <3>3. m + r \in 0..(prefix - 1)
      BY <1>1, <3>1, <3>2
    <3> QED
      BY <3>3 DEF m
  <2>5. Bit(x, k) = Bit(y, k)
    <3> HIDE DEF k
    <3> QED
      BY <1>5, <2>4
  <2>6. B - 1 - r = j
    BY <1>1, <2>2
  <2> HIDE DEF r
  <2>7. (x[i + 1] \div 2^(B - 1 - r)) % 2 = (y[i + 1] \div 2^(B - 1 - r)) % 2
    BY <1>3, <2>3, <2>5
  <2> QED
    BY <2>6, <2>7, Zenon
<1> QED
  BY <1>2, <1>4, <1>5

LEMMA HitsIsWithin ==
  ASSUME NEW rule \in Rule, NEW addr \in Address(rule.family)
  PROVE  Hits(rule, rule.family, addr) <=> Within(rule, addr)
<1> DEFINE f == rule.family
           n == Bytes[f]
<1>1. /\ f \in Family /\ rule.addr \in Address(f) /\ rule.prefix \in 0..(ByteBits * n)
  BY DEF Rule, RuleOf, Width, Family
<1>2. n \in Nat
  BY <1>1, FiltersAssumption
<1>3. /\ rule.addr \in [1..n -> 0..(2^ByteBits - 1)] /\ addr \in [1..n -> 0..(2^ByteBits - 1)]
      /\ Len(addr) = n
  BY <1>1, <1>2 DEF Address
<1>4. CASE f = "v4"
  <2> DEFINE h == ByteBits * n - rule.prefix
  <2>1. Word(rule.addr) \div 2^h = Word(addr) \div 2^h <=> Within(rule, addr)
    <3> HIDE DEF f, n
    <3> QED
      BY <1>1, <1>2, <1>3, SameBits DEF Within
  <2>2. Hits(rule, f, addr) <=> Word(rule.addr) \div 2^h = Word(addr) \div 2^h
    BY <1>4 DEF Hits, MatchV4, Width
  <2> QED
    BY <2>1, <2>2
<1>5. CASE f = "v6"
  <2> DEFINE Compared(i) ==
               Remain(rule.prefix, i) > 0 =>
                 rule.addr[i + 1] \div 2^Dropped(rule.prefix, i)
                   = addr[i + 1] \div 2^Dropped(rule.prefix, i)
  <2>1. (\A i \in 0..(n - 1) : Compared(i)) <=> Within(rule, addr)
    <3> HIDE DEF f, n
    <3> QED
      BY <1>1, <1>2, <1>3, SameBytes DEF Within
  <2>2. Hits(rule, f, addr) <=> \A i \in 0..(n - 1) : Compared(i)
    <3>1. Hits(rule, f, addr) <=> MatchV6(rule, addr)
      BY <1>5 DEF Hits
    <3>2. MatchV6(rule, addr) <=> \A i \in 0..(n - 1) : Compared(i)
      BY <1>3 DEF MatchV6, Remain, Dropped
    <3> QED
      BY <3>1, <3>2
  <2> QED
    BY <2>1, <2>2
<1> QED
  BY <1>1, <1>4, <1>5 DEF Family

-----------------------------------------------------------------------------
(* The inductive invariant: packets are only judged once the options are   *)
(* complete, so that a verdict keeps to the configuration it was passed on.*)
IInv ==
  /\ TypeOK
  /\ Judged => stage = "run"
  /\ Judged /\ verdict.passed => Matches(verdict.packet)

\* What parse_args may be left with.
Config ==
  [src : Seq(Rule), dst : Seq(Rule), direction : {"ingress", "egress", None},
   sport : Nat \cup {None}, dport : Nat \cup {None}, proc : [ProcField -> Nat \cup {None}]]

LEMMA ParsedRuleType ==
  ASSUME NEW t \in Token, t.addr # None
  PROVE  ParsedRule(t) \in Rule
<1>1. PICK f \in Family : t \in TokenOf(f)
  BY DEF Token, Family
<1>2. /\ t.deny \in BOOLEAN /\ t.family = f /\ t.prefix \in Nat \cup {None}
      /\ t.addr \in Address(f)
  BY <1>1 DEF TokenOf
<1>3. Width(f) \in Nat
  <2>1. ByteBits \in Nat /\ Bytes[f] \in Nat
    BY FiltersAssumption
  <2> QED
    BY <2>1 DEF Width
<1>4. PrefixLen(t) \in 0..Width(f)
  <2>1. CASE t.prefix = None
    BY <1>2, <1>3, <2>1 DEF PrefixLen
  <2>2. CASE t.prefix # None
    <3>1. t.prefix % PrefixMod \in Nat
      <4>1. PrefixMod \in Nat /\ PrefixMod > 0 /\ t.prefix \in Nat
        BY <1>2, <1>3, <2>2, FiltersAssumption
      <4> QED
        BY <4>1
    <3> QED
      BY <1>2, <1>3, <2>2, <3>1 DEF PrefixLen, Lesser
  <2> QED
    BY <2>1, <2>2
<1>5. ParsedRule(t) \in RuleOf(f)
  BY <1>2, <1>4 DEF ParsedRule, RuleOf
<1> QED
  BY <1>5 DEF Rule, Family

LEMMA PushedType ==
  ASSUME NEW rules \in Seq(Rule), NEW list \in Seq(Token), Readable(list)
  PROVE  Pushed(rules, list) \in Seq(Rule)
<1> DEFINE new == [i \in 1..Len(list) |-> ParsedRule(list[i])]
<1>1. Len(list) \in Nat
  OBVIOUS
<1>2. \A i \in 1..Len(list) : ParsedRule(list[i]) \in Rule
  <2>1. \A i \in 1..Len(list) : list[i] \in Token /\ list[i].addr # None
    BY DEF Readable
  <2> QED
    BY <2>1, ParsedRuleType
<1>3. new \in Seq(Rule)
  BY <1>1, <1>2
<1>4. Pushed(rules, list) = rules \o new
  BY DEF Pushed
<1> HIDE DEF new
<1> QED
  BY <1>3, <1>4

LEMMA InitInv == Init => IInv
BY FiltersAssumption DEF Init, IInv, TypeOK, Judged

\* Reading an option changes the configuration and judges nothing.
LEMMA ReadInv ==
  ASSUME IInv, Reading, cfg' \in Config, stage' \in {"args", "run", "refused"}
  PROVE  IInv'
<1>1. stage = "args" /\ given < MaxArgs /\ given' = given + 1 /\ verdict' = verdict
  BY DEF Reading
<1>2. verdict = None
  BY <1>1 DEF IInv, Judged
<1>3. given' \in 0..MaxArgs
  BY <1>1, FiltersAssumption DEF IInv, TypeOK
<1>4. TypeOK'
  BY <1>1, <1>2, <1>3 DEF TypeOK, Config
<1> QED
  BY <1>1, <1>2, <1>4 DEF IInv, Judged

LEMMA StepInv == IInv /\ [Next]_vars => IInv'
<1> SUFFICES ASSUME IInv, [Next]_vars
             PROVE  IInv'
  OBVIOUS
<1>1. cfg \in Config /\ stage \in {"args", "run", "refused"}
  BY DEF IInv, TypeOK, Config
<1>2. ASSUME NEW arg \in Args, AddRules(arg)
      PROVE  IInv'
  <2>1. /\ arg.opt \in Side /\ Readable(arg.list) /\ UNCHANGED stage /\ Reading
        /\ cfg' = [cfg EXCEPT ![arg.opt] = Pushed(@, arg.list)]
    BY <1>2 DEF AddRules
  <2>2. arg.list \in Seq(Token)
    <3>1. arg \in Arg /\ arg.opt \notin ProcField /\ arg.opt \notin {"direction", "sport", "dport"}
      BY <2>1, InputsAssumption DEF Side, ProcField
    <3> QED
      BY <3>1 DEF Arg
  <2>3. CASE arg.opt = "src"
    <3>1. Pushed(cfg.src, arg.list) \in Seq(Rule)
      BY <1>1, <2>1, <2>2, PushedType DEF Config
    <3>2. cfg' = [cfg EXCEPT !.src = Pushed(cfg.src, arg.list)]
      BY <1>1, <2>1, <2>3 DEF Config
    <3>3. cfg' \in Config
      BY <1>1, <3>1, <3>2 DEF Config
    <3> QED
      BY <1>1, <2>1, <3>3, ReadInv
  <2>4. CASE arg.opt = "dst"
    <3>1. Pushed(cfg.dst, arg.list) \in Seq(Rule)
      BY <1>1, <2>1, <2>2, PushedType DEF Config
    <3>2. cfg' = [cfg EXCEPT !.dst = Pushed(cfg.dst, arg.list)]
      BY <1>1, <2>1, <2>4 DEF Config
    <3>3. cfg' \in Config
      BY <1>1, <3>1, <3>2 DEF Config
    <3> QED
      BY <1>1, <2>1, <3>3, ReadInv
  <2> QED
    BY <2>1, <2>3, <2>4 DEF Side
<1>3. ASSUME NEW arg \in Args, SetFilter(arg)
      PROVE  IInv'
  <2>1. /\ arg.opt \in {"direction", "sport", "dport"} /\ arg.value # None
        /\ UNCHANGED stage /\ Reading /\ cfg' = [cfg EXCEPT ![arg.opt] = arg.value]
    BY <1>3 DEF SetFilter
  <2>2. arg \in Arg /\ arg.opt \notin Side /\ arg.opt \notin ProcField
    BY <2>1, InputsAssumption DEF Side, ProcField
  <2>3. cfg' \in Config
    <3>1. CASE arg.opt = "direction"
      <4>1. arg.value \in {"ingress", "egress", None}
        BY <2>2, <3>1 DEF Arg
      <4> QED
        BY <1>1, <2>1, <3>1, <4>1 DEF Config
    <3>2. CASE arg.opt = "sport"
      <4>1. arg.value \in Nat \cup {None}
        BY <2>2, <3>2 DEF Arg
      <4> QED
        BY <1>1, <2>1, <3>2, <4>1 DEF Config
    <3>3. CASE arg.opt = "dport"
      <4>1. arg.value \in Nat \cup {None}
        BY <2>2, <3>3 DEF Arg
      <4> QED
        BY <1>1, <2>1, <3>3, <4>1 DEF Config
    <3> QED
      BY <2>1, <3>1, <3>2, <3>3
  <2> QED
    BY <1>1, <2>1, <2>3, ReadInv
<1>4. ASSUME NEW arg \in Args, SetProcFilter(arg)
      PROVE  IInv'
  <2> DEFINE filter == Cast(arg.opt, arg.value)
  <2>1. /\ arg.opt \in ProcField /\ arg.value # None /\ UNCHANGED stage /\ Reading
        /\ cfg' = [cfg EXCEPT !.proc[arg.opt] = filter]
    BY <1>4 DEF SetProcFilter
  <2>2. filter \in Nat
    <3>1. arg \in Arg /\ arg.opt \notin Side /\ arg.opt \notin {"direction", "sport", "dport"}
      BY <2>1, InputsAssumption DEF Side, ProcField
    <3>2. arg.value \in Nat
      BY <2>1, <3>1 DEF Arg
    <3>3. arg.value % PidMod \in Nat
      BY <3>2, FiltersAssumption
    <3> QED
      BY <3>2, <3>3 DEF Cast
  <2> HIDE DEF filter
  <2>3. cfg' \in Config
    <3>1. [cfg.proc EXCEPT ![arg.opt] = filter] \in [ProcField -> Nat \cup {None}]
      BY <1>1, <2>1, <2>2 DEF Config
    <3>2. cfg' = [cfg EXCEPT !.proc = [cfg.proc EXCEPT ![arg.opt] = filter]]
      BY <1>1, <2>1 DEF Config
    <3> QED
      BY <1>1, <3>1, <3>2 DEF Config
  <2> QED
    BY <1>1, <2>1, <2>3, ReadInv
<1>5. ASSUME NEW arg \in Args, Refuse(arg)
      PROVE  IInv'
  <2>1. Reading /\ stage' = "refused" /\ cfg' = cfg
    BY <1>5 DEF Refuse
  <2> QED
    BY <1>1, <2>1, ReadInv
<1>6. CASE Begin
  <2>1. verdict = None
    BY <1>6 DEF Begin, IInv, Judged
  <2> QED
    BY <1>6, <2>1 DEF Begin, IInv, TypeOK, Judged
<1>7. ASSUME NEW p \in Packets, HandlePacket(p)
      PROVE  IInv'
  <2>1. /\ stage = "run" /\ verdict' = [packet |-> p, passed |-> Matches(p)]
        /\ cfg' = cfg /\ given' = given /\ stage' = stage
    BY <1>7 DEF HandlePacket
  <2>2. Matches(p) \in BOOLEAN
    BY DEF Matches
  <2>3. TypeOK'
    BY <2>1, <2>2 DEF IInv, TypeOK
  <2>4. verdict'.packet = p /\ (verdict'.passed <=> Matches(p))
    BY <2>1
  <2>5. \A q : Matches(q)' <=> Matches(q)
    BY <2>1 DEF Matches
  <2> QED
    BY <2>1, <2>3, <2>4, <2>5 DEF IInv, Judged
<1>8. CASE UNCHANGED vars
  <2>1. cfg' = cfg /\ given' = given /\ stage' = stage /\ verdict' = verdict
    BY <1>8 DEF vars
  <2> QED
    BY <2>1 DEF IInv, TypeOK, Judged, Matches
<1> QED
  BY <1>2, <1>3, <1>4, <1>5, <1>6, <1>7, <1>8 DEF Next

LEMMA Invariance == Spec => []IInv
BY InitInv, StepInv, PTL DEF Spec

(* Types of the configuration, whatever the command line holds.            *)
THEOREM TypeCorrect == Spec => []TypeOK
<1>1. IInv => TypeOK
  BY DEF IInv
<1> QED
  BY <1>1, Invariance, PTL

LEMMA RulesAndPackets ==
  ASSUME IInv, Judged, NEW side \in Side, NEW rule \in RulesOf(side),
         rule.family = verdict.packet.family
  PROVE  /\ rule \in Rule
         /\ verdict.packet[side] \in Address(rule.family)
         /\ \E i \in 1..Len(cfg[side]) : cfg[side][i] = rule
<1>1. cfg.src \in Seq(Rule) /\ cfg.dst \in Seq(Rule)
  BY DEF IInv, TypeOK
<1>2. cfg[side] \in Seq(Rule)
  BY <1>1 DEF Side
<1>3. PICK i \in 1..Len(cfg[side]) : cfg[side][i] = rule
  BY DEF RulesOf
<1>4. rule \in Rule
  BY <1>2, <1>3
<1>5. verdict.packet \in Packet
  BY InputsAssumption DEF IInv, TypeOK, Judged
<1>6. PICK f \in Family : verdict.packet \in PacketOf(f)
  BY <1>5 DEF Packet, Family
<1>7. /\ verdict.packet.family = f
      /\ verdict.packet.src \in Address(f) /\ verdict.packet.dst \in Address(f)
  BY <1>6 DEF PacketOf
<1>8. verdict.packet[side] \in Address(f)
  BY <1>7 DEF Side
<1> QED
  BY <1>3, <1>4, <1>7, <1>8

(* cidr_match_v4 and cidr_match_v6 decide, for every prefix and every      *)
(* width of a byte and of an address, whether the address lies in the      *)
(* network.                                                                *)
THEOREM MatchesArePrefixes == Spec => []MatchIsPrefix
<1>1. IInv => MatchIsPrefix
  <2>1. SUFFICES ASSUME IInv, Judged, NEW side \in Side, NEW rule \in RulesOf(side),
                        rule.family = verdict.packet.family
                 PROVE  Hits(rule, rule.family, verdict.packet[side])
                          <=> Within(rule, verdict.packet[side])
    BY DEF MatchIsPrefix
  <2>2. rule \in Rule /\ verdict.packet[side] \in Address(rule.family)
    BY <2>1, RulesAndPackets
  <2> QED
    BY <2>2, HitsIsWithin
<1> QED
  BY <1>1, Invariance, PTL

(* No packet passes whose source or destination lies in a denied network,  *)
(* wherever cidr_set_accepts meets the rule in the list.                   *)
THEOREM DenialsWin == Spec => []DenyWins
<1>1. IInv => DenyWins
  <2>1. SUFFICES ASSUME IInv, Judged, verdict.passed, NEW side \in Side,
                        NEW rule \in RulesOf(side), rule.deny,
                        rule.family = verdict.packet.family,
                        Within(rule, verdict.packet[side])
                 PROVE  FALSE
    BY DEF DenyWins
  <2> DEFINE p == verdict.packet
             rules == cfg[side]
  <2>2. rule \in Rule /\ p[side] \in Address(rule.family)
    BY <2>1, RulesAndPackets
  <2>3. PICK i \in 1..Len(rules) : rules[i] = rule
    BY <2>1, RulesAndPackets
  <2>4. Hits(rules[i], p.family, p[side])
    BY <2>1, <2>2, <2>3, HitsIsWithin
  <2>5. Accepts(rules, p.family, p[side])
    <3>1. Accepts(cfg.src, p.family, p.src) /\ Accepts(cfg.dst, p.family, p.dst)
      BY <2>1 DEF IInv, Matches
    <3> QED
      BY <3>1 DEF Side
  <2> QED
    BY <2>1, <2>3, <2>4, <2>5 DEF Accepts
<1> QED
  BY <1>1, Invariance, PTL
=============================================================================
