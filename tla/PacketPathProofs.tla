-------------------------- MODULE PacketPathProofs --------------------------
(***************************************************************************)
(* Proofs about PacketPath, for any number of keys and buckets, any hash   *)
(* and any capacity: whom the records name, and that the array of chains   *)
(* implements the table of FlowTable.                                      *)
(*                                                                         *)
(* The proofs see the array as the set of its flows, Flows(t), and each    *)
(* operation as what it does to that set.                                  *)
(***************************************************************************)
EXTENDS PacketPath, FiniteSetTheorems, FunctionTheorems, WellFoundedInduction, TLAPS

FlowRec == [key : Keys, seen : Nat, pid : Pids \cup {Nobody}]

\* No two flows of a chain have the same key.
Distinct(chain) ==
  \A i, j \in 1..Len(chain) : chain[i].key = chain[j].key => i = j

\* Every flow is in the chain of its key, once.
Sound(t) ==
  /\ t \in [1..Buckets -> Seq(FlowRec)]
  /\ \A b \in 1..Buckets :
       /\ \A i \in 1..Len(t[b]) : Hash(t[b][i].key) = b
       /\ Distinct(t[b])

Flows(t) == {Flow(t, x) : x \in Places(t)}

KeysOf(t) == {f.key : f \in Flows(t)}

-----------------------------------------------------------------------------
(* Induction over the natural numbers, for a set instead of a predicate.   *)
LEMMA NatOrder ==
  \E R : IsWellFoundedOn(R, Nat) /\ \A x, y \in Nat : x < y => <<x, y>> \in R
<1>1. IsWellFoundedOn(OpToRel(<, Nat), Nat)
  BY NatLessThanWellFounded
<1>2. \A x, y \in Nat : x < y => <<x, y>> \in OpToRel(<, Nat)
  BY DEF OpToRel
<1> QED
  BY <1>1, <1>2

LEMMA Least ==
  ASSUME NEW T, T \subseteq Nat, T # {}
  PROVE  \E x \in T : \A y \in T : x <= y
<1>1. PICK R : IsWellFoundedOn(R, Nat) /\ \A x, y \in Nat : x < y => <<x, y>> \in R
  BY NatOrder
<1>2. IsWellFoundedOn(R, Nat)
  BY <1>1
<1>3. \E x \in T : \A y \in T : ~ (<<y, x>> \in R)
  BY <1>2, WFMin, Zenon
<1>4. PICK x \in T : \A y \in T : ~ (<<y, x>> \in R)
  BY <1>3
<1>5. \A y \in T : ~(y < x)
  BY <1>1, <1>4, Zenon
<1> QED
  BY <1>5

LEMMA Induction ==
  ASSUME NEW T, 0 \in T, \A n \in Nat : n \in T => n + 1 \in T
  PROVE  Nat \subseteq T
<1>1. SUFFICES ASSUME Nat \ T # {}
               PROVE  FALSE
  OBVIOUS
<1>2. PICK x \in Nat \ T : \A y \in Nat \ T : x <= y
  BY <1>1, Least
<1>3. x # 0 /\ x - 1 \in Nat /\ ~(x <= x - 1)
  BY <1>2
<1>4. x - 1 \in T
  BY <1>2, <1>3
<1> QED
  BY <1>2, <1>3, <1>4

-----------------------------------------------------------------------------
(* The walk of flow_gc through a chain.                                    *)
KeptNext(chain, cutoff, i, before) ==
  IF chain[i].seen < cutoff THEN before ELSE Append(before, chain[i])

\* The recursion of Kept defines a function.
LEMMA KeptDefined ==
  ASSUME NEW chain, NEW cutoff, Len(chain) \in Nat
  PROVE  Kept(chain, cutoff) =
           [i \in 0..Len(chain) |->
              IF i = 0 THEN <<>>
              ELSE KeptNext(chain, cutoff, i, Kept(chain, cutoff)[i - 1])]
<1> DEFINE Recurs(g, n) ==
             g = [i \in 0..n |->
                    IF i = 0 THEN <<>> ELSE KeptNext(chain, cutoff, i, g[i - 1])]
           T == {n \in Nat : \E g : Recurs(g, n)}
<1>1. 0 \in T
  <2>1. Recurs([i \in 0..0 |-> <<>>], 0)
    OBVIOUS
  <2> QED
    BY <2>1
<1>2. ASSUME NEW n \in Nat, n \in T
      PROVE  n + 1 \in T
  <2>1. PICK g : Recurs(g, n)
    BY <1>2
  <2> DEFINE h == [i \in 0..(n + 1) |->
                     IF i = n + 1 THEN KeptNext(chain, cutoff, n + 1, g[n]) ELSE g[i]]
  <2>2. \A i \in 0..(n + 1) :
          h[i] = IF i = 0 THEN <<>> ELSE KeptNext(chain, cutoff, i, h[i - 1])
    <3>1. SUFFICES ASSUME NEW i \in 0..(n + 1)
                   PROVE  h[i] = IF i = 0 THEN <<>>
                                 ELSE KeptNext(chain, cutoff, i, h[i - 1])
      OBVIOUS
    <3>2. CASE i = n + 1
      <4>1. h[i] = KeptNext(chain, cutoff, i, g[n]) /\ h[i - 1] = g[n] /\ i # 0
        BY <3>2
      <4> QED
        BY <4>1
    <3>3. CASE i # n + 1 /\ i # 0
      <4>1. h[i] = g[i] /\ h[i - 1] = g[i - 1] /\ i \in 0..n
        BY <3>3
      <4> QED
        BY <2>1, <3>3, <4>1
    <3>4. CASE i # n + 1 /\ i = 0
      BY <2>1, <3>4
    <3> QED
      BY <3>2, <3>3, <3>4
  <2>3. Recurs(h, n + 1)
    BY <2>2
  <2> HIDE DEF h, Recurs
  <2> QED
    BY <2>3
<1> HIDE DEF T
<1>3. Nat \subseteq T
  BY <1>1, <1>2, Induction
<1>4. \E g : Recurs(g, Len(chain))
  BY <1>3 DEF T
<1>5. Kept(chain, cutoff) = CHOOSE g : Recurs(g, Len(chain))
  BY DEF Kept, KeptNext
<1> HIDE DEF Recurs
<1>6. Recurs(Kept(chain, cutoff), Len(chain))
  BY <1>4, <1>5
<1> QED
  BY <1>6 DEF Recurs

\* What is left of a chain: the flows that are not too old, and no others.
LEMMA SweepKeeps ==
  ASSUME NEW chain \in Seq(FlowRec), NEW cutoff, Distinct(chain)
  PROVE  /\ Sweep(chain, cutoff) \in Seq(FlowRec)
         /\ Distinct(Sweep(chain, cutoff))
         /\ \A f : (\E j \in 1..Len(Sweep(chain, cutoff)) : Sweep(chain, cutoff)[j] = f)
                     <=> \E i \in 1..Len(chain) : chain[i] = f /\ ~(f.seen < cutoff)
<1> DEFINE K == Kept(chain, cutoff)
           Left(s, i) ==
             /\ s \in Seq(FlowRec) /\ Distinct(s)
             /\ \A f : (\E j \in 1..Len(s) : s[j] = f)
                         <=> \E j \in 1..i : chain[j] = f /\ ~(f.seen < cutoff)
           T == {i \in Nat : i <= Len(chain) => Left(K[i], i)}
<1>0. Len(chain) \in Nat
  OBVIOUS
<1>1. K = [i \in 0..Len(chain) |->
             IF i = 0 THEN <<>> ELSE KeptNext(chain, cutoff, i, K[i - 1])]
  BY <1>0, KeptDefined
<1> HIDE DEF K
<1>2. 0 \in T
  <2>1. K[0] = <<>>
    BY <1>0, <1>1
  <2>2. Left(<<>>, 0)
    BY DEF Distinct
  <2> QED
    BY <2>1, <2>2
<1>3. ASSUME NEW i \in Nat, i \in T
      PROVE  i + 1 \in T
  <2>1. SUFFICES ASSUME i + 1 <= Len(chain)
                 PROVE  Left(K[i + 1], i + 1)
    OBVIOUS
  <2>2. Left(K[i], i)
    <3> HIDE DEF Left
    <3> QED
      BY <1>0, <1>3, <2>1
  <2> DEFINE s == K[i]
             c == chain[i + 1]
  <2>3. K[i + 1] = IF c.seen < cutoff THEN s ELSE Append(s, c)
    <3>1. i + 1 \in 0..Len(chain) /\ i + 1 # 0 /\ (i + 1) - 1 = i
      BY <1>0, <2>1
    <3> QED
      BY <1>1, <3>1 DEF KeptNext
  <2>4. c \in FlowRec
    BY <1>0, <2>1
  <2>5. s \in Seq(FlowRec) /\ Distinct(s)
    BY <2>2
  <2>6. \A f : (\E j \in 1..Len(s) : s[j] = f)
                 <=> \E j \in 1..i : chain[j] = f /\ ~(f.seen < cutoff)
    BY <2>2
  <2>7. \A f : (\E j \in 1..(i + 1) : chain[j] = f /\ ~(f.seen < cutoff))
                 <=> \/ \E j \in 1..Len(s) : s[j] = f
                     \/ f = c /\ ~(c.seen < cutoff)
    <3>1. \A j : j \in 1..(i + 1) <=> j \in 1..i \/ j = i + 1
      OBVIOUS
    <3> HIDE DEF s
    <3> QED
      BY <2>6, <3>1, Zenon
  <2> HIDE DEF s
  <2>8. CASE c.seen < cutoff
    BY <2>3, <2>5, <2>7, <2>8
  <2>9. CASE ~(c.seen < cutoff)
    <3> HIDE DEF c
    <3> DEFINE a == Append(s, c)
    <3>1. /\ a \in Seq(FlowRec) /\ Len(a) = Len(s) + 1 /\ Len(s) \in Nat
          /\ \A j \in 1..Len(s) : a[j] = s[j]
          /\ a[Len(s) + 1] = c
      BY <2>4, <2>5
    <3> HIDE DEF a
    <3>2. \A f : (\E j \in 1..Len(a) : a[j] = f) <=> (\E j \in 1..Len(s) : s[j] = f) \/ f = c
      <4>1. \A j : j \in 1..Len(a) <=> j \in 1..Len(s) \/ j = Len(s) + 1
        BY <3>1
      <4> QED
        BY <3>1, <4>1
    <3>3. \A j \in 1..Len(s) : s[j].key # c.key
      <4>1. SUFFICES ASSUME NEW j \in 1..Len(s), s[j].key = c.key
                     PROVE  FALSE
        OBVIOUS
      <4>2. PICK m \in 1..i : chain[m] = s[j]
        BY <2>6
      <4>3. chain[m].key = chain[i + 1].key /\ m \in 1..Len(chain) /\ i + 1 \in 1..Len(chain)
        BY <1>0, <2>1, <4>1, <4>2 DEF c
      <4>4. m = i + 1
        BY <4>3 DEF Distinct
      <4> QED
        BY <4>4
    <3>4. Distinct(a)
      <4>1. SUFFICES ASSUME NEW x \in 1..Len(a), NEW y \in 1..Len(a), a[x].key = a[y].key
                     PROVE  x = y
        BY DEF Distinct
      <4>2. CASE x \in 1..Len(s) /\ y \in 1..Len(s)
        BY <2>5, <3>1, <4>1, <4>2 DEF Distinct
      <4>3. CASE x = Len(s) + 1 /\ y \in 1..Len(s)
        BY <3>1, <3>3, <4>1, <4>3
      <4>4. CASE x \in 1..Len(s) /\ y = Len(s) + 1
        BY <3>1, <3>3, <4>1, <4>4
      <4> QED
        BY <3>1, <4>2, <4>3, <4>4
    <3>5. K[i + 1] = a
      BY <2>3, <2>9 DEF a, c
    <3> QED
      BY <2>7, <2>9, <3>1, <3>2, <3>4, <3>5
  <2> QED
    BY <2>8, <2>9
<1> HIDE DEF T
<1>4. Nat \subseteq T
  BY <1>2, <1>3, Induction
<1> HIDE DEF Left
<1>5. Left(K[Len(chain)], Len(chain))
  BY <1>0, <1>4 DEF T
<1>6. Sweep(chain, cutoff) = K[Len(chain)]
  BY DEF Sweep, K
<1> QED
  BY <1>5, <1>6 DEF Left

-----------------------------------------------------------------------------
(* The array as the set of its flows.                                      *)
LEMMA PlaceIs ==
  ASSUME NEW t, Sound(t)
  PROVE  /\ \A b \in 1..Buckets : \A i \in 1..Len(t[b]) :
              <<b, i>> \in Places(t) /\ Flow(t, <<b, i>>) = t[b][i]
         /\ \A x \in Places(t) : \E b \in 1..Buckets : \E i \in 1..Len(t[b]) : x = <<b, i>>
         /\ \A b \in 1..Buckets : \A i \in 1..Len(t[b]) : t[b][i] \in FlowRec
<1>1. \A b \in 1..Buckets : t[b] \in Seq(FlowRec) /\ DOMAIN t[b] = 1..Len(t[b])
  BY DEF Sound
<1>2. \A b \in 1..Buckets : \A i \in 1..Len(t[b]) : t[b][i] \in FlowRec
  BY <1>1
<1>3. \A x : x \in Places(t) <=> \E b \in 1..Buckets : x \in {b} \X (1..Len(t[b]))
  BY <1>1 DEF Places
<1>4. \A b \in 1..Buckets : \A i \in 1..Len(t[b]) : <<b, i>> \in Places(t)
  BY <1>3
<1>5. ASSUME NEW x \in Places(t)
      PROVE  \E b \in 1..Buckets : \E i \in 1..Len(t[b]) : x = <<b, i>>
  <2>1. PICK b \in 1..Buckets : x \in {b} \X (1..Len(t[b]))
    BY <1>3
  <2>2. PICK c \in {b}, i \in 1..Len(t[b]) : x = <<c, i>>
    BY <2>1
  <2> QED
    BY <2>2
<1> QED
  BY <1>2, <1>4, <1>5 DEF Flow

LEMMA FlowIs ==
  ASSUME NEW t, Sound(t)
  PROVE  /\ \A f : f \in Flows(t) <=> \E b \in 1..Buckets : \E i \in 1..Len(t[b]) : t[b][i] = f
         /\ Flows(t) \subseteq FlowRec
         /\ \A f \in Flows(t) : f.key \in Keys /\ f.seen \in Nat /\ Hash(f.key) \in 1..Buckets
<1>1. \A f : f \in Flows(t) <=> \E b \in 1..Buckets : \E i \in 1..Len(t[b]) : t[b][i] = f
  <2>1. ASSUME NEW f \in Flows(t)
        PROVE  \E b \in 1..Buckets : \E i \in 1..Len(t[b]) : t[b][i] = f
    <3>1. PICK x \in Places(t) : Flow(t, x) = f
      BY DEF Flows
    <3>2. PICK b \in 1..Buckets : \E i \in 1..Len(t[b]) : x = <<b, i>>
      BY PlaceIs
    <3> QED
      BY <3>1, <3>2, PlaceIs
  <2>2. ASSUME NEW b \in 1..Buckets, NEW i \in 1..Len(t[b])
        PROVE  t[b][i] \in Flows(t)
    <3>1. <<b, i>> \in Places(t) /\ Flow(t, <<b, i>>) = t[b][i]
      BY PlaceIs
    <3> QED
      BY <3>1, Zenon DEF Flows
  <2> QED
    BY <2>1, <2>2
<1>2. Flows(t) \subseteq FlowRec
  BY <1>1, PlaceIs
<1> QED
  BY <1>1, <1>2, PacketPathAssumption DEF FlowRec

\* A key is at one place, in the chain of its hash.
LEMMA OnePlace ==
  ASSUME NEW t, Sound(t), NEW b \in 1..Buckets, NEW i \in 1..Len(t[b]),
         NEW c \in 1..Buckets, NEW j \in 1..Len(t[c]), t[b][i].key = t[c][j].key
  PROVE  b = c /\ i = j
<1>1. Hash(t[b][i].key) = b /\ Hash(t[c][j].key) = c
  BY DEF Sound
<1>2. b = c
  BY <1>1
<1> QED
  BY <1>2 DEF Sound, Distinct

LEMMA OneFlow ==
  ASSUME NEW t, Sound(t), NEW f \in Flows(t), NEW g \in Flows(t), f.key = g.key
  PROVE  f = g
<1>1. PICK b \in 1..Buckets : \E i \in 1..Len(t[b]) : t[b][i] = f
  BY FlowIs
<1>2. PICK i \in 1..Len(t[b]) : t[b][i] = f
  BY <1>1
<1>3. PICK c \in 1..Buckets : \E j \in 1..Len(t[c]) : t[c][j] = g
  BY FlowIs
<1>4. PICK j \in 1..Len(t[c]) : t[c][j] = g
  BY <1>3
<1> QED
  BY <1>2, <1>4, OnePlace

\* flow_find finds the flow of the key if there is one.
LEMMA Found ==
  ASSUME NEW t, Sound(t), NEW k \in Key
  PROVE  /\ FlowFind(t, k) = {} <=> k \notin KeysOf(t)
         /\ \A f \in Flows(t) : f.key = k =>
              /\ FlowFind(t, k) # {}
              /\ Flow(t, CHOOSE x \in FlowFind(t, k) : TRUE) = f
         /\ \A x \in FlowFind(t, k) : Flow(t, x) \in Flows(t) /\ Flow(t, x).key = k
<1>1. ASSUME NEW x \in FlowFind(t, k)
      PROVE  Flow(t, x) \in Flows(t) /\ Flow(t, x).key = k
  <2>1. Hash(k) \in 1..Buckets
    BY PacketPathAssumption
  <2>2. x \in {Hash(k)} \X (1..Len(t[Hash(k)])) /\ Flow(t, x).key = k
    BY <2>1 DEF FlowFind, Sound
  <2>3. PICK i \in 1..Len(t[Hash(k)]) : x = <<Hash(k), i>>
    BY <2>2
  <2> QED
    BY <2>1, <2>2, <2>3, PlaceIs DEF Flows
<1>2. ASSUME NEW f \in Flows(t), f.key = k
      PROVE  FlowFind(t, k) # {}
  <2>1. PICK b \in 1..Buckets : \E i \in 1..Len(t[b]) : t[b][i] = f
    BY FlowIs
  <2>2. PICK i \in 1..Len(t[b]) : t[b][i] = f
    BY <2>1
  <2>3. b = Hash(k) /\ DOMAIN t[b] = 1..Len(t[b]) /\ Flow(t, <<b, i>>) = f
    <3>1. Hash(t[b][i].key) = b /\ t[b] \in Seq(FlowRec)
      BY DEF Sound
    <3> QED
      BY <1>2, <2>2, <3>1, PlaceIs
  <2>4. <<b, i>> \in {Hash(k)} \X DOMAIN t[Hash(k)]
    BY <2>3
  <2> QED
    BY <1>2, <2>3, <2>4 DEF FlowFind
<1>3. ASSUME NEW f \in Flows(t), f.key = k
      PROVE  Flow(t, CHOOSE x \in FlowFind(t, k) : TRUE) = f
  <2>1. (CHOOSE x \in FlowFind(t, k) : TRUE) \in FlowFind(t, k)
    BY <1>2, <1>3
  <2> QED
    BY <1>1, <1>3, <2>1, OneFlow
<1>4. FlowFind(t, k) = {} <=> k \notin KeysOf(t)
  BY <1>1, <1>2 DEF KeysOf
<1> QED
  BY <1>1, <1>2, <1>3, <1>4

\* There are as many places as keys.
LEMMA Counted ==
  ASSUME NEW t, Sound(t)
  PROVE  /\ KeysOf(t) \subseteq Keys /\ IsFiniteSet(KeysOf(t))
         /\ Cardinality(Places(t)) = Cardinality(KeysOf(t))
         /\ Cardinality(KeysOf(t)) \in Nat
<1>1. KeysOf(t) \subseteq Keys
  BY FlowIs DEF KeysOf
<1>2. IsFiniteSet(KeysOf(t)) /\ Cardinality(KeysOf(t)) \in Nat
  BY <1>1, FS_Subset, FS_CardinalityType, PacketPathAssumption
<1> DEFINE PlaceOf == [k \in KeysOf(t) |-> CHOOSE x \in Places(t) : Flow(t, x).key = k]
<1>3. \A k \in KeysOf(t) : PlaceOf[k] \in Places(t) /\ Flow(t, PlaceOf[k]).key = k
  <2>1. \A k \in KeysOf(t) : \E x \in Places(t) : Flow(t, x).key = k
    BY DEF KeysOf, Flows
  <2> QED
    BY <2>1
<1>4. \A x \in Places(t) : Flow(t, x).key \in KeysOf(t)
  BY DEF KeysOf, Flows
<1>5. ASSUME NEW x \in Places(t), NEW y \in Places(t), Flow(t, x).key = Flow(t, y).key
      PROVE  x = y
  <2>1. PICK b \in 1..Buckets : \E i \in 1..Len(t[b]) : x = <<b, i>>
    BY PlaceIs
  <2>2. PICK i \in 1..Len(t[b]) : x = <<b, i>>
    BY <2>1
  <2>3. PICK c \in 1..Buckets : \E j \in 1..Len(t[c]) : y = <<c, j>>
    BY PlaceIs
  <2>4. PICK j \in 1..Len(t[c]) : y = <<c, j>>
    BY <2>3
  <2>5. t[b][i].key = t[c][j].key
    BY <1>5, <2>2, <2>4, PlaceIs
  <2> QED
    BY <2>2, <2>4, <2>5, OnePlace
<1>6. DOMAIN PlaceOf = KeysOf(t)
  OBVIOUS
<1>7. PlaceOf \in [KeysOf(t) -> Places(t)]
  BY <1>3
<1> HIDE DEF PlaceOf
<1>8. PlaceOf \in Bijection(KeysOf(t), Places(t))
  <2>1. \A j, k \in KeysOf(t) : PlaceOf[j] = PlaceOf[k] => j = k
    BY <1>3
  <2>2. \A x \in Places(t) : \E k \in KeysOf(t) : PlaceOf[k] = x
    BY <1>3, <1>4, <1>5
  <2> QED
    BY <1>7, <2>1, <2>2, Fun_IsBij
<1>9. Cardinality(Places(t)) = Cardinality(KeysOf(t))
  BY <1>2, <1>8, FS_Bijection DEF ExistsBijection
<1> QED
  BY <1>1, <1>2, <1>9

-----------------------------------------------------------------------------
(* What the operations do to the set.                                      *)
LEMMA ChainIs ==
  ASSUME NEW t, Sound(t), NEW b \in 1..Buckets
  PROVE  \A f : f \in Flows(t) /\ Hash(f.key) = b <=> \E j \in 1..Len(t[b]) : t[b][j] = f
<1>1. ASSUME NEW f \in Flows(t), Hash(f.key) = b
      PROVE  \E j \in 1..Len(t[b]) : t[b][j] = f
  <2>1. PICK c \in 1..Buckets : \E j \in 1..Len(t[c]) : t[c][j] = f
    BY FlowIs
  <2>2. c = b
    BY <1>1, <2>1 DEF Sound
  <2> QED
    BY <2>1, <2>2
<1>2. ASSUME NEW j \in 1..Len(t[b])
      PROVE  t[b][j] \in Flows(t) /\ Hash(t[b][j].key) = b
  BY FlowIs DEF Sound
<1> QED
  BY <1>1, <1>2

LEMMA ChainReplaced ==
  ASSUME NEW t, Sound(t), NEW u, Sound(u), NEW b \in 1..Buckets,
         \A c \in 1..Buckets : c # b => u[c] = t[c]
  PROVE  \A f : f \in Flows(u) <=> \/ (f \in Flows(t) /\ Hash(f.key) # b)
                                    \/ \E i \in 1..Len(u[b]) : u[b][i] = f
<1>1. Sound(u)
  OBVIOUS
<1>2. ASSUME NEW f, Hash(f.key) = b
      PROVE  f \in Flows(u) <=> \E i \in 1..Len(u[b]) : u[b][i] = f
  <2>1. f \in Flows(u) /\ Hash(f.key) = b <=> \E i \in 1..Len(u[b]) : u[b][i] = f
    BY <1>1, ChainIs
  <2> QED
    BY <1>2, <2>1
<1>3. ASSUME NEW f, Hash(f.key) # b
      PROVE  f \in Flows(u) <=> f \in Flows(t)
  <2>1. CASE Hash(f.key) \in 1..Buckets
    <3> DEFINE c == Hash(f.key)
    <3>1. u[c] = t[c]
      BY <1>3, <2>1
    <3>2. f \in Flows(u) /\ Hash(f.key) = c <=> \E i \in 1..Len(u[c]) : u[c][i] = f
      BY <1>1, <2>1, ChainIs
    <3>3. f \in Flows(t) /\ Hash(f.key) = c <=> \E i \in 1..Len(t[c]) : t[c][i] = f
      BY <2>1, ChainIs
    <3> QED
      BY <3>1, <3>2, <3>3
  <2>2. CASE Hash(f.key) \notin 1..Buckets
    <3>1. f \in Flows(u) => Hash(f.key) \in 1..Buckets
      BY <1>1, FlowIs
    <3>2. f \in Flows(t) => Hash(f.key) \in 1..Buckets
      BY FlowIs
    <3> QED
      BY <2>2, <3>1, <3>2
  <2> QED
    BY <2>1, <2>2
<1>4. \A f : (\E i \in 1..Len(u[b]) : u[b][i] = f) => Hash(f.key) = b
  BY DEF Sound
<1> QED
  BY <1>2, <1>3, <1>4

LEMMA Unlinked ==
  ASSUME NEW t, Sound(t), NEW x \in Places(t)
  PROVE  /\ Sound(Unlink(t, x))
         /\ Flows(Unlink(t, x)) = Flows(t) \ {Flow(t, x)}
<1>1. PICK b \in 1..Buckets : \E i \in 1..Len(t[b]) : x = <<b, i>>
  BY PlaceIs
<1>2. PICK i \in 1..Len(t[b]) : x = <<b, i>>
  BY <1>1
<1> DEFINE s == t[b]
           r == SubSeq(s, 1, i - 1) \o SubSeq(s, i + 1, Len(s))
<1>3. s \in Seq(FlowRec) /\ Distinct(s) /\ \A j \in 1..Len(s) : Hash(s[j].key) = b
  BY DEF Sound
<1>4. Unlink(t, x) = [t EXCEPT ![b] = r] /\ Flow(t, x) = s[i]
  <2>1. x[1] = b /\ x[2] = i
    BY <1>2
  <2>2. t \in [1..Buckets -> Seq(FlowRec)]
    BY DEF Sound
  <2> QED
    BY <2>1, <2>2 DEF Unlink, Flow, Seqs!RemoveAt
<1>5. i \in 1..Len(s) /\ Len(s) \in Nat
  BY <1>2, <1>3
<1> HIDE DEF s
<1>6. /\ r \in Seq(FlowRec) /\ Len(r) = Len(s) - 1
      /\ \A j \in 1..Len(r) : r[j] = IF j < i THEN s[j] ELSE s[j + 1]
  <2> DEFINE p == SubSeq(s, 1, i - 1)
             q == SubSeq(s, i + 1, Len(s))
  <2>1. /\ p \in Seq(FlowRec) /\ Len(p) = i - 1
        /\ \A j \in 1..(i - 1) : p[j] = s[j]
    BY <1>3, <1>5
  <2>2. /\ q \in Seq(FlowRec) /\ Len(q) = Len(s) - i
        /\ \A j \in 1..(Len(s) - i) : q[j] = s[i + j]
    BY <1>3, <1>5
  <2>0. r = p \o q
    OBVIOUS
  <2> HIDE DEF p, q, r
  <2>3. r \in Seq(FlowRec) /\ Len(r) = Len(s) - 1
    <3>0. p \in Seq(FlowRec) /\ q \in Seq(FlowRec)
      BY <2>1, <2>2
    <3>1. r \in Seq(FlowRec) /\ Len(r) = Len(p) + Len(q)
      BY ONLY <2>0, <3>0
    <3> QED
      BY <1>5, <2>1, <2>2, <3>1
  <2>4. \A j \in 1..Len(r) : r[j] = IF j < i THEN p[j] ELSE q[j - (i - 1)]
    BY <1>5, <2>0, <2>1, <2>2, <2>3
  <2>5. \A j \in 1..Len(r) : r[j] = IF j < i THEN s[j] ELSE s[j + 1]
    <3>1. SUFFICES ASSUME NEW j \in 1..Len(r)
                   PROVE  r[j] = IF j < i THEN s[j] ELSE s[j + 1]
      OBVIOUS
    <3>2. CASE j < i
      <4>1. j \in 1..(i - 1)
        BY <1>5, <2>3, <3>2
      <4> QED
        BY <2>1, <2>4, <3>2, <4>1
    <3>3. CASE ~(j < i)
      <4>1. j - (i - 1) \in 1..(Len(s) - i) /\ i + (j - (i - 1)) = j + 1
        BY <1>5, <2>3, <3>3
      <4> QED
        BY <2>2, <2>4, <3>3, <4>1
    <3> QED
      BY <3>2, <3>3
  <2> QED
    BY <2>3, <2>5
<1> HIDE DEF r
<1>7. /\ \A j \in 1..Len(r) : j \in 1..Len(s) /\ j + 1 \in 1..Len(s)
      /\ Len(r) \in Nat
  BY <1>5, <1>6
<1>8. Distinct(r)
  <2>1. SUFFICES ASSUME NEW m \in 1..Len(r), NEW n \in 1..Len(r), r[m].key = r[n].key
                 PROVE  m = n
    BY DEF Distinct
  <2>2. CASE m < i /\ n < i
    BY <1>3, <1>6, <1>7, <2>1, <2>2 DEF Distinct
  <2>3. CASE ~(m < i) /\ ~(n < i)
    <3>1. s[m + 1].key = s[n + 1].key /\ m + 1 \in 1..Len(s) /\ n + 1 \in 1..Len(s)
      BY <1>6, <1>7, <2>1, <2>3
    <3>2. m + 1 = n + 1
      BY <1>3, <3>1 DEF Distinct
    <3> QED
      BY <1>7, <3>2
  <2>4. CASE m < i /\ ~(n < i)
    <3>1. m = n + 1
      BY <1>3, <1>6, <1>7, <2>1, <2>4 DEF Distinct
    <3> QED
      BY <1>5, <1>7, <2>4, <3>1
  <2>5. CASE ~(m < i) /\ n < i
    <3>1. m + 1 = n
      BY <1>3, <1>6, <1>7, <2>1, <2>5 DEF Distinct
    <3> QED
      BY <1>5, <1>7, <2>5, <3>1
  <2> QED
    BY <2>2, <2>3, <2>4, <2>5
<1>9. \A j \in 1..Len(r) : Hash(r[j].key) = b
  BY <1>3, <1>6, <1>7
<1>10. \A f : (\E j \in 1..Len(r) : r[j] = f) <=> \E j \in 1..Len(s) : s[j] = f /\ j # i
  <2>1. ASSUME NEW j \in 1..Len(r)
        PROVE  \E m \in 1..Len(s) : s[m] = r[j] /\ m # i
    <3>1. CASE j < i
      <4>1. r[j] = s[j] /\ j # i /\ j \in 1..Len(s)
        BY <1>5, <1>6, <1>7, <3>1
      <4> QED
        BY <4>1
    <3>2. CASE ~(j < i)
      <4>1. r[j] = s[j + 1] /\ j + 1 # i /\ j + 1 \in 1..Len(s)
        BY <1>5, <1>6, <1>7, <3>2
      <4> QED
        BY <4>1
    <3> QED
      BY <3>1, <3>2
  <2>2. ASSUME NEW j \in 1..Len(s), j # i
        PROVE  \E m \in 1..Len(r) : r[m] = s[j]
    <3>1. CASE j < i
      <4>1. j \in 1..Len(r) /\ r[j] = s[j]
        BY <1>5, <1>6, <3>1
      <4> QED
        BY <4>1
    <3>2. CASE ~(j < i)
      <4>1. j - 1 \in 1..Len(r) /\ ~(j - 1 < i) /\ (j - 1) + 1 = j
        BY <1>5, <1>6, <2>2, <3>2
      <4>2. r[j - 1] = s[j]
        BY <1>6, <4>1
      <4> QED
        BY <4>1, <4>2
    <3> QED
      BY <3>1, <3>2
  <2> QED
    BY <2>1, <2>2
<1>11. \A f : f \in Flows(t) /\ Hash(f.key) = b <=> \E j \in 1..Len(s) : s[j] = f
  BY ChainIs DEF s
<1>12. \A j \in 1..Len(s) : s[j] = s[i] => j = i
  BY <1>3, <1>5 DEF Distinct
<1> DEFINE v == Unlink(t, x)
<1>13. /\ v \in [1..Buckets -> Seq(FlowRec)] /\ v[b] = r
       /\ \A c \in 1..Buckets : c # b => v[c] = t[c]
  BY <1>4, <1>6 DEF Sound
<1> HIDE DEF v
<1>14. /\ Sound(v)
       /\ \A f : f \in Flows(v) <=> \/ f \in Flows(t) /\ Hash(f.key) # b
                                   \/ \E j \in 1..Len(r) : r[j] = f
  <2>1. v \in [1..Buckets -> Seq(FlowRec)]
    BY <1>13
  <2>2. \A c \in 1..Buckets : c # b => v[c] = t[c]
    BY <1>13
  <2>3. Sound(v)
    BY <1>8, <1>9, <2>1, <1>13 DEF Sound
  <2>4. b \in 1..Buckets
    BY <1>1
  <2>5. \A f : f \in Flows(v) <=> \/ (f \in Flows(t) /\ Hash(f.key) # b)
                                  \/ \E j \in 1..Len(v[b]) : v[b][j] = f
    BY <2>2, <2>3, <2>4, ChainReplaced
  <2> QED
    BY <1>13, <2>3, <2>5
<1>15. \A f : f \in Flows(v) <=> f \in Flows(t) /\ f # s[i]
  <2>1. s[i] \in Flows(t) /\ Hash(s[i].key) = b
    BY <1>5, <1>11
  <2> QED
    BY <1>10, <1>11, <1>12, <1>14, <2>1
<1> QED
  BY <1>4, <1>14, <1>15 DEF v

\* What Insert puts into the table.
Blank(k) == [key |-> k, seen |-> 0, pid |-> Nobody]

LEMMA Inserted ==
  ASSUME NEW t, Sound(t), NEW k \in Keys, k \notin KeysOf(t)
  PROVE  /\ Sound(Insert(t, k))
         /\ Flows(Insert(t, k)) = Flows(t) \cup {Blank(k)}
<1> DEFINE b == Hash(k)
           s == t[b]
           r == <<Blank(k)>> \o s
           v == Insert(t, k)
<1>1. b \in 1..Buckets
  BY PacketPathAssumption
<1>2. s \in Seq(FlowRec) /\ Distinct(s) /\ \A i \in 1..Len(s) : Hash(s[i].key) = b
  BY <1>1 DEF Sound
<1>3. Blank(k) \in FlowRec /\ Blank(k).key = k
  BY DEF Blank, FlowRec
<1>4. /\ v[b] = r
      /\ \A c \in 1..Buckets : c # b => v[c] = t[c]
      /\ v \in [1..Buckets -> Seq(FlowRec)]
  <2>1. t \in [1..Buckets -> Seq(FlowRec)]
    BY DEF Sound
  <2>2. r \in Seq(FlowRec)
    BY <1>2, <1>3
  <2> HIDE DEF b
  <2>3. v = [t EXCEPT ![b] = r]
    BY <1>1, <2>1 DEF Insert, Blank, b
  <2> HIDE DEF v, r
  <2> QED
    BY <1>1, <2>1, <2>2, <2>3
<1>5. \A f \in Flows(t) : f.key # k
  BY DEF KeysOf
<1>6. \A i \in 1..Len(s) : s[i].key # k
  BY <1>1, <1>5, ChainIs
<1> HIDE DEF v
<1>7. \A f : f \in Flows(t) /\ Hash(f.key) = b <=> \E i \in 1..Len(s) : s[i] = f
  BY <1>1, ChainIs
<1> HIDE DEF s
<1>8. /\ r \in Seq(FlowRec) /\ Len(s) \in Nat /\ Len(r) = Len(s) + 1
      /\ r[1] = Blank(k) /\ \A i \in 1..Len(s) : r[i + 1] = s[i]
  BY <1>2, <1>3
<1> HIDE DEF r
<1>9. \A i \in 1..Len(r) : i = 1 \/ (i - 1 \in 1..Len(s) /\ r[i] = s[i - 1])
  <2>1. SUFFICES ASSUME NEW i \in 1..Len(r), i # 1
                 PROVE  i - 1 \in 1..Len(s) /\ r[i] = s[i - 1]
    OBVIOUS
  <2>2. i - 1 \in 1..Len(s) /\ (i - 1) + 1 = i
    BY <1>8, <2>1
  <2> QED
    BY <1>8, <2>2
<1>10. Sound(v)
  <2>1. Distinct(r)
    <3>1. SUFFICES ASSUME NEW i \in 1..Len(r), NEW j \in 1..Len(r), r[i].key = r[j].key
                   PROVE  i = j
      BY DEF Distinct
    <3>2. CASE i = 1 \/ j = 1
      BY <1>3, <1>6, <1>8, <1>9, <3>1, <3>2
    <3>3. CASE i # 1 /\ j # 1
      <4>1. i - 1 = j - 1
        BY <1>2, <1>9, <3>1, <3>3 DEF Distinct
      <4> QED
        BY <1>8, <4>1
    <3> QED
      BY <3>2, <3>3
  <2>2. \A i \in 1..Len(r) : Hash(r[i].key) = b
    <3>1. SUFFICES ASSUME NEW i \in 1..Len(r)
                   PROVE  Hash(r[i].key) = b
      OBVIOUS
    <3>2. CASE i = 1
      <4>1. r[i].key = k
        BY <1>3, <1>8, <3>2
      <4> QED
        BY <4>1
    <3>3. CASE i # 1
      BY <1>2, <1>9, <3>3
    <3> QED
      BY <3>2, <3>3
  <2> QED
    BY <1>4, <2>1, <2>2 DEF Sound
<1>11. \A f : f \in Flows(v) <=> \/ (f \in Flows(t) /\ Hash(f.key) # b)
                                 \/ \E i \in 1..Len(v[b]) : v[b][i] = f
  <2>1. \A c \in 1..Buckets : c # b => v[c] = t[c]
    BY <1>4
  <2> HIDE DEF b
  <2> QED
    BY <1>1, <1>10, <2>1, ChainReplaced
<1>12. \A f : (\E i \in 1..Len(r) : r[i] = f) <=> f = Blank(k) \/ \E i \in 1..Len(s) : s[i] = f
  <2>1. ASSUME NEW i \in 1..Len(s)
        PROVE  \E j \in 1..Len(r) : r[j] = s[i]
    <3>1. i + 1 \in 1..Len(r)
      BY <1>8
    <3> QED
      BY <1>8, <3>1
  <2>2. 1 \in 1..Len(r)
    BY <1>8
  <2> QED
    BY <1>8, <1>9, <2>1, <2>2
<1>13. \A f : f \in Flows(v) <=> f \in Flows(t) \/ f = Blank(k)
  BY <1>4, <1>7, <1>11, <1>12
<1> QED
  BY <1>10, <1>13 DEF v

\* What Stamp makes of the flow f of its key.
Stamped(f, time, pid) ==
  [key |-> f.key, seen |-> time, pid |-> IF pid = Nobody THEN f.pid ELSE pid]

LEMMA StampIs ==
  ASSUME NEW t, Sound(t), NEW k \in Keys, NEW time \in Nat, NEW pid \in Pids \cup {Nobody}
  PROVE  /\ Sound(Stamp(t, k, time, pid))
         /\ \A f : f \in Flows(Stamp(t, k, time, pid)) <=>
                     \/ (f \in Flows(t) /\ f.key # k)
                     \/ \E g \in Flows(t) : g.key = k /\ f = Stamped(g, time, pid)
<1> DEFINE b == Hash(k)
           s == t[b]
           New(f) == IF f.key # k THEN f ELSE Stamped(f, time, pid)
           r == [i \in 1..Len(s) |-> New(s[i])]
           v == Stamp(t, k, time, pid)
<1>1. b \in 1..Buckets
  BY PacketPathAssumption
<1>2. s \in Seq(FlowRec) /\ Distinct(s) /\ \A i \in 1..Len(s) : Hash(s[i].key) = b
  BY <1>1 DEF Sound
<1>3. \A f \in FlowRec : New(f) \in FlowRec /\ New(f).key = f.key
  BY DEF Stamped, FlowRec
<1>4. v = [t EXCEPT ![b] = r]
  <2>1. t \in [1..Buckets -> Seq(FlowRec)] /\ DOMAIN s = 1..Len(s)
    BY <1>2 DEF Sound
  <2>2. r = [i \in DOMAIN s |-> IF s[i].key # k THEN s[i]
               ELSE [key |-> k, seen |-> time, pid |-> IF pid = Nobody THEN s[i].pid ELSE pid]]
    BY <2>1 DEF Stamped
  <2> QED
    BY <1>1, <2>1, <2>2 DEF Stamp
<1>5. \A f : f \in Flows(t) /\ Hash(f.key) = b <=> \E i \in 1..Len(s) : s[i] = f
  BY <1>1, ChainIs
<1> HIDE DEF v, s
<1>6. \A i \in 1..Len(s) : s[i] \in FlowRec /\ New(s[i]) \in FlowRec
  BY <1>2, <1>3
<1>7. /\ r \in Seq(FlowRec) /\ Len(r) = Len(s) /\ \A i \in 1..Len(s) : r[i] = New(s[i])
  <2> HIDE DEF New
  <2>1. Len(s) \in Nat
    BY <1>2
  <2>2. r \in [1..Len(s) -> FlowRec]
    BY <1>6
  <2>3. r \in Seq(FlowRec)
    BY <2>1, <2>2
  <2>4. Len(r) = Len(s)
    BY <2>1, <2>2
  <2> QED
    BY <2>3, <2>4
<1>8. /\ v[b] = r
      /\ \A c \in 1..Buckets : c # b => v[c] = t[c]
      /\ v \in [1..Buckets -> Seq(FlowRec)]
  <2>1. t \in [1..Buckets -> Seq(FlowRec)]
    BY DEF Sound
  <2> HIDE DEF b, r
  <2> QED
    BY <1>1, <1>4, <1>7, <2>1
<1> HIDE DEF r
<1>9. \A i \in 1..Len(s) : r[i] = New(s[i]) /\ r[i].key = s[i].key
  <2> HIDE DEF New
  <2> QED
    BY <1>3, <1>6, <1>7
<1>10. Sound(v)
  <2>1. Distinct(r)
    BY <1>2, <1>7, <1>9 DEF Distinct
  <2>2. \A i \in 1..Len(r) : Hash(r[i].key) = b
    BY <1>2, <1>7, <1>9
  <2> QED
    BY <1>8, <2>1, <2>2 DEF Sound
<1>11. \A f : f \in Flows(v) <=> \/ (f \in Flows(t) /\ Hash(f.key) # b)
                                 \/ \E i \in 1..Len(v[b]) : v[b][i] = f
  <2>1. \A c \in 1..Buckets : c # b => v[c] = t[c]
    BY <1>8
  <2> HIDE DEF b
  <2> QED
    BY <1>1, <1>10, <2>1, ChainReplaced
<1>12. \A f : (\E i \in 1..Len(r) : r[i] = f) <=>
                \E g \in Flows(t) : Hash(g.key) = b /\ f = New(g)
  <2> HIDE DEF New, b
  <2>1. \A f : (\E i \in 1..Len(r) : r[i] = f) <=> \E i \in 1..Len(s) : f = New(s[i])
    BY <1>7, <1>9
  <2> QED
    BY <1>5, <2>1
<1>13. \A f : f \in Flows(v) <=> \/ (f \in Flows(t) /\ Hash(f.key) # b)
                                 \/ \E g \in Flows(t) : Hash(g.key) = b /\ f = New(g)
  <2> HIDE DEF New, b
  <2> QED
    BY <1>8, <1>11, <1>12
<1>14. \A f : f \in Flows(v) <=> \/ (f \in Flows(t) /\ f.key # k)
                                 \/ \E g \in Flows(t) : g.key = k /\ f = Stamped(g, time, pid)
  <2>1. ASSUME NEW f \in Flows(v)
        PROVE  \/ (f \in Flows(t) /\ f.key # k)
               \/ \E g \in Flows(t) : g.key = k /\ f = Stamped(g, time, pid)
    BY <1>13
  <2>2. ASSUME NEW f \in Flows(t), f.key # k
        PROVE  f \in Flows(v)
    <3>1. f = New(f)
      BY <2>2
    <3> QED
      BY <1>13, <3>1
  <2>3. ASSUME NEW g \in Flows(t), g.key = k
        PROVE  Stamped(g, time, pid) \in Flows(v)
    <3>1. Stamped(g, time, pid) = New(g)
      BY <2>3
    <3> QED
      BY <1>13, <2>3, <3>1
  <2> QED
    BY <2>1, <2>2, <2>3
<1> QED
  BY <1>10, <1>14 DEF v

\* What a sweep of all chains leaves.
Swept(t, cutoff) == [b \in 1..Buckets |-> Sweep(t[b], cutoff)]

LEMMA SweptIs ==
  ASSUME NEW t, Sound(t), NEW cutoff
  PROVE  /\ Sound(Swept(t, cutoff))
         /\ Flows(Swept(t, cutoff)) = {f \in Flows(t) : ~(f.seen < cutoff)}
<1> DEFINE v == Swept(t, cutoff)
<1>1. \A b \in 1..Buckets : v[b] = Sweep(t[b], cutoff)
  BY DEF Swept
<1>2. v = [b \in 1..Buckets |-> v[b]]
  BY DEF Swept
<1> HIDE DEF v
<1>3. ASSUME NEW b \in 1..Buckets
      PROVE  /\ v[b] \in Seq(FlowRec)
             /\ Distinct(v[b])
             /\ \A f : (\E j \in 1..Len(v[b]) : v[b][j] = f)
                         <=> \E i \in 1..Len(t[b]) : t[b][i] = f /\ ~(f.seen < cutoff)
  <2>1. t[b] \in Seq(FlowRec)
    BY DEF Sound
  <2>2. Distinct(t[b])
    BY DEF Sound
  <2>3. /\ Sweep(t[b], cutoff) \in Seq(FlowRec)
        /\ Distinct(Sweep(t[b], cutoff))
        /\ \A f : (\E j \in 1..Len(Sweep(t[b], cutoff)) : Sweep(t[b], cutoff)[j] = f)
                    <=> \E i \in 1..Len(t[b]) : t[b][i] = f /\ ~(f.seen < cutoff)
    BY <2>1, <2>2, SweepKeeps, Zenon
  <2> QED
    BY <1>1, <2>3
<1>4. ASSUME NEW b \in 1..Buckets, NEW j \in 1..Len(v[b])
      PROVE  Hash(v[b][j].key) = b
  <2>1. \E i \in 1..Len(t[b]) : t[b][i] = v[b][j]
    BY <1>3
  <2> QED
    BY <2>1 DEF Sound
<1>5. Sound(v)
  <2>1. v \in [1..Buckets -> Seq(FlowRec)]
    BY <1>2, <1>3
  <2> QED
    BY <1>3, <1>4, <2>1 DEF Sound
<1>6. \A f : f \in Flows(v) <=> f \in Flows(t) /\ ~(f.seen < cutoff)
  <2>1. \A f : f \in Flows(v) <=> \E b \in 1..Buckets : \E j \in 1..Len(v[b]) : v[b][j] = f
    BY <1>5, FlowIs
  <2>2. \A f : f \in Flows(t) <=> \E b \in 1..Buckets : \E i \in 1..Len(t[b]) : t[b][i] = f
    BY FlowIs
  <2>3. \A b \in 1..Buckets : \A f :
           (\E j \in 1..Len(v[b]) : v[b][j] = f)
              <=> (\E i \in 1..Len(t[b]) : t[b][i] = f) /\ ~(f.seen < cutoff)
    <3>1. SUFFICES ASSUME NEW b \in 1..Buckets, NEW f
                   PROVE  (\E j \in 1..Len(v[b]) : v[b][j] = f)
                            <=> (\E i \in 1..Len(t[b]) : t[b][i] = f) /\ ~(f.seen < cutoff)
      OBVIOUS
    <3> QED
      BY <1>3
  <2> QED
    BY <2>1, <2>2, <2>3, Zenon
<1> QED
  BY <1>5, <1>6 DEF v

\* The victim is a flow of the table, and none is older.
LEMMA VictimIs ==
  ASSUME NEW t, Sound(t), Places(t) # {}
  PROVE  /\ Victim(t) \in Places(t)
         /\ \A f \in Flows(t) : Flow(t, Victim(t)).seen <= f.seen
<1> DEFINE Times == {Flow(t, x).seen : x \in Places(t)}
           Older(x, y) ==
             \/ Flow(t, x).seen < Flow(t, y).seen
             \/ Flow(t, x).seen = Flow(t, y).seen /\ First(x, y)
<1>1. \A x \in Places(t) : Flow(t, x) \in Flows(t) /\ Flow(t, x).seen \in Nat
  BY FlowIs DEF Flows
<1>2. PICK m \in Times : \A n \in Times : m <= n
  <2>1. Times \subseteq Nat /\ Times # {}
    BY <1>1
  <2> HIDE DEF Times
  <2> QED
    BY <2>1, Least
<1>3. \A y \in Places(t) : Flow(t, y).seen \in Nat /\ m <= Flow(t, y).seen /\ m \in Nat
  BY <1>1, <1>2
<1> DEFINE Rows == {b \in 1..Buckets : \E i \in 1..Len(t[b]) : t[b][i].seen = m}
<1>4. PICK b \in Rows : \A c \in Rows : b <= c
  <2>1. Rows \subseteq Nat
    BY PacketPathAssumption
  <2>2. Rows # {}
    <3>1. PICK x \in Places(t) : Flow(t, x).seen = m
      BY <1>2
    <3>2. PICK b \in 1..Buckets : \E i \in 1..Len(t[b]) : x = <<b, i>>
      BY PlaceIs
    <3>3. PICK i \in 1..Len(t[b]) : x = <<b, i>>
      BY <3>2
    <3>4. t[b][i].seen = m
      BY <3>1, <3>3, PlaceIs
    <3> QED
      BY <3>4
  <2> HIDE DEF Rows
  <2> QED
    BY <2>1, <2>2, Least
<1> DEFINE Columns == {i \in 1..Len(t[b]) : t[b][i].seen = m}
<1>5. PICK i \in Columns : \A j \in Columns : i <= j
  <2>1. Columns \subseteq Nat
    BY DEF Sound
  <2>2. Columns # {}
    BY <1>4
  <2> HIDE DEF Columns
  <2> QED
    BY <2>1, <2>2, Least
<1>6. <<b, i>> \in Places(t) /\ Flow(t, <<b, i>>).seen = m
  BY <1>4, <1>5, PlaceIs
<1>7. ASSUME NEW y \in Places(t)
      PROVE  Older(<<b, i>>, y)
  <2>1. PICK c \in 1..Buckets : \E j \in 1..Len(t[c]) : y = <<c, j>>
    BY PlaceIs
  <2>2. PICK j \in 1..Len(t[c]) : y = <<c, j>>
    BY <2>1
  <2>3. Flow(t, y) = t[c][j]
    BY <2>2, PlaceIs
  <2>4. CASE m < Flow(t, y).seen
    BY <1>6, <2>4
  <2>5. CASE m = Flow(t, y).seen
    <3>1. c \in Rows
      BY <2>3, <2>5
    <3>2. b = c => i <= j
      BY <1>5, <2>3, <2>5
    <3>3. b \in Int /\ c \in Int /\ b <= c
      BY <1>4, <3>1, PacketPathAssumption
    <3>4. First(<<b, i>>, y)
      BY <2>2, <3>2, <3>3 DEF First
    <3> QED
      BY <1>6, <2>5, <3>4
  <2> QED
    BY <1>3, <2>4, <2>5
<1> DEFINE V == Victim(t)
<1>8. V \in Places(t) /\ \A y \in Places(t) : Older(V, y)
  <2>1. \E x \in Places(t) : \A y \in Places(t) : Older(x, y)
    <3> HIDE DEF Older
    <3> QED
      BY <1>6, <1>7
  <2>2. V = CHOOSE x \in Places(t) : \A y \in Places(t) : Older(x, y)
    BY DEF Victim
  <2> HIDE DEF Older, V
  <2> QED
    BY <2>1, <2>2
<1> HIDE DEF V
<1>9. \A y \in Places(t) : Flow(t, V).seen <= Flow(t, y).seen
  BY <1>3, <1>8
<1>10. \A f \in Flows(t) : Flow(t, V).seen <= f.seen
  BY <1>9 DEF Flows
<1> QED
  BY <1>8, <1>10 DEF V

-----------------------------------------------------------------------------
(* The table of FlowTable that the array stands for.                       *)
Bar(t) ==
  [k \in {Flow(t, x).key : x \in Places(t)} |->
     Flow(t, CHOOSE x \in FlowFind(t, k) : TRUE).seen]

LEMMA BarIs ==
  ASSUME NEW t, Sound(t)
  PROVE  /\ DOMAIN Bar(t) = KeysOf(t)
         /\ \A f \in Flows(t) : Bar(t)[f.key] = f.seen
         /\ \A k \in KeysOf(t) : Bar(t)[k] \in Nat
<1>1. {Flow(t, x).key : x \in Places(t)} = KeysOf(t)
  BY DEF KeysOf, Flows
<1>2. \A f \in Flows(t) : Bar(t)[f.key] = f.seen
  <2>1. ASSUME NEW f \in Flows(t)
        PROVE  Bar(t)[f.key] = f.seen
    <3>1. f.key \in Key /\ f.key \in KeysOf(t)
      BY FlowIs, PacketPathAssumption DEF KeysOf
    <3>2. Flow(t, CHOOSE x \in FlowFind(t, f.key) : TRUE) = f
      BY <3>1, Found
    <3> QED
      BY <1>1, <3>1, <3>2 DEF Bar
  <2> QED
    BY <2>1
<1>3. \A k \in KeysOf(t) : Bar(t)[k] \in Nat
  BY <1>2, FlowIs DEF KeysOf
<1> QED
  BY <1>1, <1>2, <1>3 DEF Bar

\* A function with the keys of an array and the times of its flows is what
\* the array stands for.
LEMMA BarEqual ==
  ASSUME NEW t, Sound(t), NEW s,
         s = [k \in KeysOf(t) |-> s[k]],
         \A f \in Flows(t) : s[f.key] = f.seen
  PROVE  Bar(t) = s
<1>1. \A k \in KeysOf(t) : Bar(t)[k] = s[k]
  BY BarIs DEF KeysOf
<1>2. Bar(t) = [k \in KeysOf(t) |-> Bar(t)[k]]
  BY BarIs DEF Bar
<1> QED
  BY <1>1, <1>2

-----------------------------------------------------------------------------
(* Each operation on the array is the one of FlowTable on what the array   *)
(* stands for.                                                             *)
LEMMA SameCardinality ==
  ASSUME NEW S PROVE Table!Cardinality(S) = Cardinality(S)
BY DEF Table!Cardinality, Cardinality

LEMMA TableSwept ==
  ASSUME NEW s, NEW c, NEW d, NEW n, Table!GcDue(now), d = Table!Expired(s, now),
         n = Cardinality(d),
         Bar(chains') = Table!Without(s, d), count' = Table!DropCount(c, n), lastGc' = now
  PROVE  Table!Collect(s, c, now)
<1>1. n = Table!Cardinality(Table!Expired(s, now))
  BY SameCardinality
<1> QED
  BY <1>1 DEF Table!Collect, Bar, Flow, Places, FlowFind

LEMMA CollectIs ==
  ASSUME NEW t, Sound(t), NEW c, c = Cardinality(KeysOf(t)),
         now \in Nat, lastGc \in Nat, Collect(t, c, now)
  PROVE  /\ Sound(chains') /\ Flows(chains') \subseteq Flows(t)
         /\ count' = Cardinality(KeysOf(chains')) /\ lastGc' \in Nat
         /\ Table!Collect(Bar(t), c, now)
<1> DEFINE cutoff == Sub(now, IdleMs)
           v == Swept(t, cutoff)
           freed == Cardinality(Places(t)) - Cardinality(Places(v))
           dead == Table!Expired(Bar(t), now)
<1>1. Sound(v) /\ Flows(v) = {f \in Flows(t) : ~(f.seen < cutoff)}
  BY SweptIs
<1>2. dead = {k \in KeysOf(t) : Bar(t)[k] < cutoff}
  <2>1. Table!Sub(now, IdleMs) = cutoff
    BY DEF Table!Sub, Sub
  <2>2. DOMAIN Bar(t) = KeysOf(t)
    BY BarIs
  <2> HIDE DEF cutoff
  <2> QED
    BY <2>1, <2>2 DEF Table!Expired
<1> HIDE DEF cutoff, v, dead
<1>3. KeysOf(v) = KeysOf(t) \ dead
  <2>1. \A f \in Flows(t) : f.key \in dead <=> f.seen < cutoff
    BY <1>2, BarIs DEF KeysOf
  <2>2. ASSUME NEW k \in KeysOf(v)
        PROVE  k \in KeysOf(t) \ dead
    BY <1>1, <2>1 DEF KeysOf
  <2>3. ASSUME NEW k \in KeysOf(t) \ dead
        PROVE  k \in KeysOf(v)
    BY <1>1, <2>1 DEF KeysOf
  <2> QED
    BY <2>2, <2>3
<1>4. Bar(v) = Table!Without(Bar(t), dead)
  <2> DEFINE s == [k \in KeysOf(v) |-> Bar(t)[k]]
  <2>1. \A f \in Flows(v) : s[f.key] = f.seen
    BY <1>1, BarIs DEF KeysOf
  <2>2. s = [k \in KeysOf(v) |-> s[k]]
    OBVIOUS
  <2>3. s = Table!Without(Bar(t), dead)
    BY <1>3, BarIs DEF Table!Without
  <2> HIDE DEF s
  <2>4. Bar(v) = s
    BY <1>1, <2>1, <2>2, BarEqual
  <2> QED
    BY <2>3, <2>4
<1>5. /\ Cardinality(Places(t)) = c /\ Cardinality(Places(v)) = Cardinality(KeysOf(v))
      /\ c \in Nat /\ Cardinality(KeysOf(v)) \in Nat /\ IsFiniteSet(KeysOf(t))
  BY <1>1, Counted
<1>6. Cardinality(dead) = freed /\ freed \in Nat /\ c >= freed /\ c - freed = Cardinality(KeysOf(v))
  <2>1. KeysOf(t) \cap dead = dead /\ dead \subseteq KeysOf(t)
    BY <1>2
  <2>2. IsFiniteSet(dead) /\ Cardinality(dead) \in Nat
    BY <1>5, <2>1, FS_Subset, FS_CardinalityType
  <2>3. Cardinality(KeysOf(t) \ dead) = Cardinality(KeysOf(t)) - Cardinality(KeysOf(t) \cap dead)
    BY <1>5, FS_Difference
  <2> QED
    BY <1>3, <1>5, <2>1, <2>2, <2>3
<1> HIDE DEF freed
<1> DEFINE due == lastGc = 0 \/ Sub(now, lastGc) > GcMs
<1>7. Table!GcDue(now) <=> due
  BY DEF Table!GcDue, Table!Sub, Sub
<1>8. IF due
      THEN chains' = v /\ count' = (IF c >= freed THEN c - freed ELSE 0) /\ lastGc' = now
      ELSE chains' = t /\ count' = c /\ lastGc' = lastGc
  BY DEF Collect, v, cutoff, Swept, freed
<1> HIDE DEF due
<1>9. CASE due
  <2>1. chains' = v /\ count' = Cardinality(KeysOf(v)) /\ lastGc' = now
    BY <1>6, <1>8, <1>9
  <2>2. count' = Table!DropCount(c, Cardinality(dead))
    BY <1>6, <1>8, <1>9 DEF Table!DropCount
  <2>3. Bar(chains') = Table!Without(Bar(t), dead)
    BY <1>4, <2>1
  <2>4. Table!Collect(Bar(t), c, now)
    <3>1. dead = Table!Expired(Bar(t), now)
      BY DEF dead
    <3> QED
      BY <1>7, <1>9, <2>1, <2>2, <2>3, <3>1, TableSwept
  <2> QED
    BY <1>1, <2>1, <2>4
<1>10. CASE ~due
  <2>1. Bar(chains') = Bar(t)
    BY <1>8, <1>10
  <2>2. Table!Collect(Bar(t), c, now)
    BY <1>7, <1>8, <1>10, <2>1 DEF Table!Collect, Bar, Flow, Places, FlowFind
  <2> QED
    BY <1>8, <1>10, <2>2
<1> QED
  BY <1>9, <1>10

\* flow_get makes room: the table is as it was, or without one oldest flow.
LEMMA RoomIs ==
  ASSUME NEW t, Sound(t), NEW c, c = Cardinality(KeysOf(t))
  PROVE  /\ Sound(Room(t, c).table) /\ Flows(Room(t, c).table) \subseteq Flows(t)
         /\ Room(t, c).count = Cardinality(KeysOf(Room(t, c).table))
         /\ \/ ~(c >= MaxItems) /\ Room(t, c).table = t /\ Room(t, c).count = c
            \/ /\ c >= MaxItems
               /\ \E v \in Table!Oldest(Bar(t)) :
                    /\ Bar(Room(t, c).table) = Table!Without(Bar(t), {v})
                    /\ Room(t, c).count = Table!DropCount(c, 1)
<1>1. c \in Nat /\ IsFiniteSet(KeysOf(t)) /\ Cardinality(Places(t)) = c
  BY Counted
<1>2. CASE ~(c >= MaxItems)
  <2>1. Room(t, c).table = t /\ Room(t, c).count = c
    BY <1>2 DEF Room
  <2> QED
    BY <1>2, <2>1
<1>3. CASE c >= MaxItems
  <2>1. c > 0
    BY <1>1, <1>3, PacketPathAssumption
  <2>2. Places(t) # {}
    <3>1. Cardinality({}) = 0
      BY FS_EmptySet
    <3> QED
      BY <1>1, <2>1, <3>1
  <2> DEFINE x == Victim(t)
             g == Flow(t, x)
             u == Unlink(t, x)
             v == g.key
  <2>3. Room(t, c).table = u /\ Room(t, c).count = c - 1
    BY <1>3, <2>1, <2>2 DEF Room
  <2>4. x \in Places(t) /\ \A f \in Flows(t) : g.seen <= f.seen
    BY <2>2, VictimIs
  <2>5. Sound(u) /\ Flows(u) = Flows(t) \ {g}
    BY <2>4, Unlinked
  <2>6. g \in Flows(t)
    BY <2>4 DEF Flows
  <2> HIDE DEF u, g, x
  <2>7. v \in KeysOf(t)
    BY <2>6 DEF KeysOf
  <2>8. KeysOf(u) = KeysOf(t) \ {v}
    <3>1. \A f \in Flows(t) : f.key = v => f = g
      BY <2>6, OneFlow
    <3> QED
      BY <2>5, <3>1 DEF KeysOf
  <2>9. c - 1 = Cardinality(KeysOf(u))
    BY <1>1, <2>7, <2>8, FS_RemoveElement
  <2>10. Bar(u) = Table!Without(Bar(t), {v})
    <3> DEFINE s == [k \in KeysOf(u) |-> Bar(t)[k]]
    <3>1. \A f \in Flows(u) : s[f.key] = f.seen
      BY <2>5, BarIs DEF KeysOf
    <3>2. s = [k \in KeysOf(u) |-> s[k]]
      OBVIOUS
    <3>3. s = Table!Without(Bar(t), {v})
      BY <2>8, BarIs DEF Table!Without
    <3> HIDE DEF s
    <3>4. Bar(u) = s
      BY <2>5, <3>1, <3>2, BarEqual
    <3> QED
      BY <3>3, <3>4
  <2>11. v \in Table!Oldest(Bar(t))
    <3>1. DOMAIN Bar(t) = KeysOf(t) /\ \A f \in Flows(t) : Bar(t)[f.key] = f.seen
      BY BarIs
    <3>2. \A j \in KeysOf(t) : Bar(t)[v] <= Bar(t)[j]
      BY <2>4, <2>6, <3>1 DEF KeysOf
    <3> QED
      BY <2>7, <3>1, <3>2 DEF Table!Oldest
  <2>12. c - 1 = Table!DropCount(c, 1)
    BY <1>1, <2>1 DEF Table!DropCount
  <2> HIDE DEF v
  <2> QED
    BY <1>3, <2>3, <2>5, <2>9, <2>10, <2>11, <2>12
<1> QED
  BY <1>2, <1>3

\* A packet of flow k stamps it, and makes it if it is not there.
Made(t, k) == IF FlowFind(t, k) # {} THEN t ELSE Insert(t, k)

LEMMA Touched ==
  ASSUME NEW t, Sound(t), NEW k \in Keys, NEW time \in Nat, NEW pid \in Pids \cup {Nobody}
  PROVE  /\ Sound(Stamp(Made(t, k), k, time, pid))
         /\ KeysOf(Stamp(Made(t, k), k, time, pid)) = KeysOf(t) \cup {k}
         /\ Bar(Stamp(Made(t, k), k, time, pid)) = Table!Touch(Bar(t), k, time)
         /\ \A f \in Flows(Stamp(Made(t, k), k, time, pid)) :
              \/ f \in Flows(t)
              \/ f.key = k /\ f.pid = pid
              \/ \E g \in Flows(t) : f.key = k /\ g.key = k /\ f.pid = g.pid
<1> DEFINE m == Made(t, k)
           v == Stamp(m, k, time, pid)
<1>1. k \in Key
  BY PacketPathAssumption
<1>2. FlowFind(t, k) = {} <=> k \notin KeysOf(t)
  BY <1>1, Found
<1>3. /\ Sound(m) /\ KeysOf(m) = KeysOf(t) \cup {k}
      /\ \A f : f \in Flows(m) => f \in Flows(t) \/ f = Blank(k)
      /\ Flows(t) \subseteq Flows(m)
  <2>1. CASE k \in KeysOf(t)
    BY <1>2, <2>1 DEF Made
  <2>2. CASE k \notin KeysOf(t)
    <3>1. m = Insert(t, k)
      BY <1>2, <2>2 DEF Made
    <3>2. Sound(Insert(t, k)) /\ Flows(Insert(t, k)) = Flows(t) \cup {Blank(k)}
      BY <2>2, Inserted
    <3> HIDE DEF m
    <3>3. Sound(m) /\ Flows(m) = Flows(t) \cup {Blank(k)}
      BY <3>1, <3>2
    <3>4. KeysOf(m) = KeysOf(t) \cup {k}
      <4>1. Blank(k).key = k
        BY DEF Blank
      <4> QED
        BY <3>3, <4>1 DEF KeysOf
    <3> QED
      BY <3>3, <3>4
  <2> QED
    BY <2>1, <2>2
<1> HIDE DEF m
<1>4. /\ Sound(v)
      /\ \A f : f \in Flows(v) <=> \/ (f \in Flows(m) /\ f.key # k)
                                   \/ \E g \in Flows(m) : g.key = k /\ f = Stamped(g, time, pid)
  BY <1>3, StampIs
<1> HIDE DEF v
<1>5. \A g : /\ Stamped(g, time, pid).key = g.key /\ Stamped(g, time, pid).seen = time
             /\ Stamped(g, time, pid).pid = IF pid = Nobody THEN g.pid ELSE pid
  BY DEF Stamped
<1>6. KeysOf(v) = KeysOf(t) \cup {k}
  <2>1. ASSUME NEW j \in KeysOf(v)
        PROVE  j \in KeysOf(m)
    <3>1. PICK f \in Flows(v) : f.key = j
      BY DEF KeysOf
    <3>2. CASE f \in Flows(m)
      BY <3>1, <3>2 DEF KeysOf
    <3>3. CASE \E g \in Flows(m) : g.key = k /\ f = Stamped(g, time, pid)
      BY <1>5, <3>1, <3>3 DEF KeysOf
    <3> QED
      BY <1>4, <3>1, <3>2, <3>3
  <2>2. ASSUME NEW j \in KeysOf(m)
        PROVE  j \in KeysOf(v)
    <3>1. PICK g \in Flows(m) : g.key = j
      BY DEF KeysOf
    <3>2. CASE j # k
      BY <1>4, <3>1, <3>2 DEF KeysOf
    <3>3. CASE j = k
      <4>1. Stamped(g, time, pid) \in Flows(v) /\ Stamped(g, time, pid).key = j
        BY <1>4, <1>5, <3>1, <3>3
      <4> QED
        BY <4>1 DEF KeysOf
    <3> QED
      BY <3>2, <3>3
  <2> QED
    BY <1>3, <2>1, <2>2
<1>7. Bar(v) = Table!Touch(Bar(t), k, time)
  <2> DEFINE s == [j \in KeysOf(v) |-> IF j = k THEN time ELSE Bar(t)[j]]
  <2>1. ASSUME NEW f \in Flows(v)
        PROVE  s[f.key] = f.seen
    <3>1. f.key \in KeysOf(v)
      BY DEF KeysOf
    <3>2. CASE f.key = k
      <4>1. \E g \in Flows(m) : f = Stamped(g, time, pid)
        BY <1>4, <3>2
      <4> QED
        BY <1>5, <3>1, <3>2, <4>1
    <3>3. CASE f.key # k
      <4>1. ~ \E g \in Flows(m) : g.key = k /\ f = Stamped(g, time, pid)
        BY <1>5, <3>3
      <4>2. f \in Flows(m)
        BY <1>4, <4>1
      <4>3. f \in Flows(t)
        <5>1. Blank(k).key = k
          BY DEF Blank
        <5> QED
          BY <1>3, <3>3, <4>2, <5>1
      <4>4. Bar(t)[f.key] = f.seen
        BY <4>3, BarIs
      <4> QED
        BY <3>1, <3>3, <4>4
    <3> QED
      BY <3>2, <3>3
  <2>2. s = [j \in KeysOf(v) |-> s[j]]
    OBVIOUS
  <2>3. s = Table!Touch(Bar(t), k, time)
    BY <1>6, BarIs DEF Table!Touch
  <2> HIDE DEF s
  <2>4. Bar(v) = s
    BY <1>4, <2>1, <2>2, BarEqual
  <2> QED
    BY <2>3, <2>4
<1>8. ASSUME NEW f \in Flows(v)
      PROVE  \/ f \in Flows(t)
             \/ f.key = k /\ f.pid = pid
             \/ \E g \in Flows(t) : f.key = k /\ g.key = k /\ f.pid = g.pid
  <2>1. Blank(k).key = k /\ Blank(k).pid = Nobody
    BY DEF Blank
  <2>2. CASE f \in Flows(m) /\ f.key # k
    BY <1>3, <2>1, <2>2
  <2>3. ASSUME NEW g \in Flows(m), g.key = k, f = Stamped(g, time, pid)
        PROVE  \/ f.key = k /\ f.pid = pid
               \/ \E h \in Flows(t) : f.key = k /\ h.key = k /\ f.pid = h.pid
    <3>1. f.key = k /\ f.pid = IF pid = Nobody THEN g.pid ELSE pid
      BY <1>5, <2>3
    <3>2. g \in Flows(t) \/ g.pid = Nobody
      BY <1>3, <2>1
    <3> QED
      BY <2>3, <3>1, <3>2
  <2> QED
    BY <1>4, <2>2, <2>3
<1> QED
  BY <1>4, <1>6, <1>7, <1>8 DEF v, m

-----------------------------------------------------------------------------
(* The inductive invariant.  The flows never have an owner that is not one *)
(* of their own end's, nor one that the filter rejects: that is what makes *)
(* borrowing from the other direction harmless.                            *)
IInv ==
  /\ Sound(chains)
  /\ count = Cardinality(KeysOf(chains))
  /\ now \in Nat /\ lastGc \in Nat
  /\ \A f \in Flows(chains) : f.pid \in Resolves(f.key)
  /\ asked # NoFilter => \A f \in Flows(chains) : f.pid = PidFilter
  /\ OnlyWanted
  /\ NamesOwnEnd

\* Whoever resolves is a process or nobody.
LEMMA ResolvesType ==
  ASSUME NEW k \in Keys
  PROVE  k \in Key /\ Resolves(k) \subseteq Pids \cup {Nobody}
<1>1. k \in Key /\ LocalEnd(k) \in Ends
  BY PacketPathAssumption DEF Key, LocalEnd
<1> QED
  BY <1>1, PacketPathAssumption DEF Resolves

LEMMA Reversed ==
  ASSUME NEW k \in Key
  PROVE  ReverseKey(k) \in Key /\ Resolves(ReverseKey(k)) = Resolves(k)
<1>1. ReverseKey(k) \in Key
  BY DEF Key, ReverseKey
<1>2. LocalEnd(ReverseKey(k)) = LocalEnd(k)
  BY DEF Key, ReverseKey, LocalEnd
<1> QED
  BY <1>1, <1>2 DEF Resolves

\* The name of a record is one of the flows', or was found for the packet.
LEMMA NamedIs ==
  ASSUME NEW t, Sound(t), NEW k \in Key, NEW pid,
         \A f \in Flows(t) : f.pid \in Resolves(f.key)
  PROVE  /\ Named(t, k, pid) = pid \/ \E f \in Flows(t) : Named(t, k, pid) = f.pid
         /\ pid \in Resolves(k) => Named(t, k, pid) \in Resolves(k)
<1> DEFINE r == ReverseKey(k)
           F == FlowFind(t, r)
           x == CHOOSE y \in F : TRUE
<1>1. r \in Key /\ Resolves(r) = Resolves(k)
  BY Reversed
<1>2. \A y \in F : Flow(t, y) \in Flows(t) /\ Flow(t, y).key = r
  <2> HIDE DEF r
  <2> QED
    BY <1>1, Found
<1> HIDE DEF r
<1>3. \/ Named(t, k, pid) = pid
      \/ Named(t, k, pid) = Nobody /\ pid = Nobody
      \/ F # {} /\ Named(t, k, pid) = Flow(t, x).pid
  BY DEF Named, r
<1>4. F # {} => x \in F
  OBVIOUS
<1> HIDE DEF x, F
<1>5. F # {} => Flow(t, x) \in Flows(t) /\ Flow(t, x).pid \in Resolves(k)
  BY <1>1, <1>2, <1>4
<1> QED
  BY <1>3, <1>5

\* The end of every packet: the invariant holds for what it made of the table.
LEMMA CollectKeeps ==
  ASSUME IInv, UNCHANGED asked, now' \in Nat, NEW t, Sound(t), NEW c, c = Cardinality(KeysOf(t)),
         Collect(t, c, now),
         \A f \in Flows(t) : f.pid \in Resolves(f.key),
         asked # NoFilter => \A f \in Flows(t) : f.pid = PidFilter,
         \A r \in record' : r.pid \in Resolves(r.key) /\ (asked # NoFilter => r.pid = PidFilter)
  PROVE  IInv' /\ Table!Collect(Bar(t), c, now)
<1>1. /\ Sound(chains') /\ Flows(chains') \subseteq Flows(t)
      /\ count' = Cardinality(KeysOf(chains')) /\ lastGc' \in Nat
      /\ Table!Collect(Bar(t), c, now)
  BY CollectIs DEF IInv
<1>2. PidFilter' = PidFilter
  BY DEF PidFilter
<1>3. \A f \in Flows(chains') : f.pid \in Resolves(f.key)
  BY <1>1
<1>4. (OnlyWanted /\ NamesOwnEnd)'
  BY <1>2 DEF OnlyWanted, NamesOwnEnd, Resolves
<1>5. asked' # NoFilter => \A f \in Flows(chains') : f.pid = PidFilter'
  BY <1>1, <1>2
<1> QED
  BY <1>1, <1>3, <1>4, <1>5 DEF IInv

LEMMA TcpPacketStep ==
  ASSUME IInv, NEW k \in Keys, NEW pid \in Resolves(k), NEW lag \in 0..MaxLag,
         TcpPacket(k, pid, lag)
  PROVE  IInv' /\ Table!TcpPacket(k, lag)
<1> DEFINE room == Room(chains, count)
           new == FlowFind(chains, k) = {}
           old == IF new THEN room.table ELSE chains
           t == Stamp(Made(old, k), k, now + lag, pid)
           c == IF new THEN room.count + 1 ELSE count
<1>1. /\ Sound(chains) /\ count = Cardinality(KeysOf(chains)) /\ now \in Nat
      /\ \A f \in Flows(chains) : f.pid \in Resolves(f.key)
      /\ asked # NoFilter => \A f \in Flows(chains) : f.pid = PidFilter
  BY DEF IInv
<1>2. k \in Key /\ pid \in Pids \cup {Nobody} /\ now + lag \in Nat /\ now' = now + lag
  BY <1>1, ResolvesType, PacketPathAssumption DEF TcpPacket, Elapse
<1>3. new <=> k \notin KeysOf(chains)
  BY <1>1, <1>2, Found
<1>4. /\ Sound(room.table) /\ Flows(room.table) \subseteq Flows(chains)
      /\ room.count = Cardinality(KeysOf(room.table))
      /\ \/ ~(count >= MaxItems) /\ room.table = chains /\ room.count = count
         \/ /\ count >= MaxItems
            /\ \E v \in Table!Oldest(Bar(chains)) :
                 /\ Bar(room.table) = Table!Without(Bar(chains), {v})
                 /\ room.count = Table!DropCount(count, 1)
  BY <1>1, RoomIs
<1>5. Sound(old) /\ Flows(old) \subseteq Flows(chains)
  BY <1>1, <1>4
<1>6. new => k \notin KeysOf(old) /\ FlowFind(old, k) = {}
  <2>1. new => k \notin KeysOf(old)
    BY <1>3, <1>5 DEF KeysOf
  <2> HIDE DEF new, old
  <2> QED
    BY <1>2, <1>5, <2>1, Found
<1>7. /\ Wanted(pid) /\ UNCHANGED asked /\ Collect(t, c, now)
      /\ record' = {[key |-> k, pid |-> Named(t, k, pid)]}
  <2>1. Made(old, k) = IF FlowFind(chains, k) # {} THEN chains ELSE Insert(room.table, k)
    BY <1>6 DEF Made
  <2> QED
    BY <2>1 DEF TcpPacket
<1> HIDE DEF new, room
<1>8. /\ Sound(t) /\ KeysOf(t) = KeysOf(old) \cup {k}
      /\ Bar(t) = Table!Touch(Bar(old), k, now + lag)
      /\ \A f \in Flows(t) :
           \/ f \in Flows(old)
           \/ f.key = k /\ f.pid = pid
           \/ \E g \in Flows(old) : f.key = k /\ g.key = k /\ f.pid = g.pid
  <2> HIDE DEF old
  <2> QED
    BY <1>2, <1>5, Touched
<1>9. c = Cardinality(KeysOf(t))
  <2>1. CASE new
    <3>1. IsFiniteSet(KeysOf(old)) /\ k \notin KeysOf(old)
      BY <1>5, <1>6, <2>1, Counted
    <3>2. Cardinality(KeysOf(old) \cup {k}) = Cardinality(KeysOf(old)) + 1
      BY <3>1, FS_AddElement
    <3> QED
      BY <1>4, <1>8, <2>1, <3>2
  <2>2. CASE ~new
    <3>1. KeysOf(t) = KeysOf(chains)
      BY <1>3, <1>8, <2>2
    <3> QED
      BY <1>1, <2>2, <3>1
  <2> QED
    BY <2>1, <2>2
<1> HIDE DEF t
<1>10. \A f \in Flows(t) : f.pid \in Resolves(f.key)
  BY <1>1, <1>5, <1>8
<1>11. asked # NoFilter => \A f \in Flows(t) : f.pid = PidFilter
  BY <1>1, <1>5, <1>7, <1>8 DEF Wanted
<1>12. \A r \in record' : r.pid \in Resolves(r.key) /\ (asked # NoFilter => r.pid = PidFilter)
  <2>1. \/ Named(t, k, pid) = pid
        \/ \E f \in Flows(t) : Named(t, k, pid) = f.pid
    BY <1>2, <1>8, <1>10, NamedIs
  <2>2. Named(t, k, pid) \in Resolves(k)
    BY <1>2, <1>8, <1>10, NamedIs
  <2>3. asked # NoFilter => Named(t, k, pid) = PidFilter
    BY <1>7, <1>11, <2>1 DEF Wanted
  <2> QED
    BY <1>7, <2>2, <2>3
<1>13. IInv' /\ Table!Collect(Bar(t), c, now)
  <2> HIDE DEF c
  <2> QED
    BY <1>2, <1>7, <1>8, <1>9, <1>10, <1>11, <1>12, CollectKeeps
<1>14. Table!Elapse(lag)
  BY DEF Table!Elapse, TcpPacket, Elapse
<1>15. Table!Live = KeysOf(chains)
  <2>1. Table!Live = DOMAIN Bar(chains)
    BY DEF Table!Live, Bar
  <2> QED
    BY <1>1, <2>1, BarIs
<1>16. CASE ~new
  <2>1. Table!Collect(Table!Touch(Bar(chains), k, now + lag), count, now)
    BY <1>8, <1>13, <1>16
  <2>2. Table!KnownFlow(k, lag)
    BY <1>3, <1>14, <1>15, <1>16, <2>1 DEF Table!KnownFlow, Bar
  <2> QED
    BY <1>13, <2>2 DEF Table!TcpPacket
<1>17. CASE new /\ ~(count >= MaxItems)
  <2>1. Table!Collect(Table!Touch(Bar(chains), k, now + lag), count + 1, now)
    BY <1>4, <1>8, <1>13, <1>17
  <2>2. Table!NewFlow(k, lag)
    BY <1>3, <1>14, <1>15, <1>17, <2>1 DEF Table!NewFlow, Table!Full, Bar
  <2> QED
    BY <1>13, <2>2 DEF Table!TcpPacket
<1>18. CASE new /\ count >= MaxItems
  <2>1. PICK v \in Table!Oldest(Bar(chains)) :
          /\ Bar(room.table) = Table!Without(Bar(chains), {v})
          /\ room.count = Table!DropCount(count, 1)
    BY <1>4, <1>18
  <2>2. Table!Collect(Table!Touch(Table!Without(Bar(chains), {v}), k, now + lag),
                      Table!DropCount(count, 1) + 1, now)
    BY <1>8, <1>13, <1>18, <2>1
  <2>3. Table!Evict(k, v, lag)
    BY <1>3, <1>14, <1>15, <1>18, <2>1, <2>2 DEF Table!Evict, Table!Full, Bar
  <2>4. v \in Table!Live
    BY <1>1, <1>15, <2>1, BarIs DEF Table!Oldest
  <2> QED
    BY <1>13, <2>3, <2>4 DEF Table!TcpPacket
<1> QED
  BY <1>16, <1>17, <1>18

LEMMA TcpNoMemoryStep ==
  ASSUME IInv, NEW k \in Keys, NEW pid \in Resolves(k), NEW lag \in 0..MaxLag,
         TcpNoMemory(k, pid, lag)
  PROVE  IInv' /\ Table!NewFlowNoMemory(k, lag)
<1> DEFINE room == Room(chains, count)
<1>1. /\ Sound(chains) /\ count = Cardinality(KeysOf(chains)) /\ now \in Nat
      /\ \A f \in Flows(chains) : f.pid \in Resolves(f.key)
      /\ asked # NoFilter => \A f \in Flows(chains) : f.pid = PidFilter
  BY DEF IInv
<1>2. k \in Key /\ now + lag \in Nat /\ now' = now + lag
  BY <1>1, ResolvesType, PacketPathAssumption DEF TcpNoMemory, Elapse
<1>3. k \notin KeysOf(chains)
  BY <1>1, <1>2, Found DEF TcpNoMemory
<1>4. /\ Sound(room.table) /\ Flows(room.table) \subseteq Flows(chains)
      /\ room.count = Cardinality(KeysOf(room.table))
      /\ \/ ~(count >= MaxItems) /\ room.table = chains /\ room.count = count
         \/ /\ count >= MaxItems
            /\ \E v \in Table!Oldest(Bar(chains)) :
                 /\ Bar(room.table) = Table!Without(Bar(chains), {v})
                 /\ room.count = Table!DropCount(count, 1)
  BY <1>1, RoomIs
<1>5. /\ UNCHANGED <<asked, record>> /\ Collect(room.table, room.count, now)
  BY DEF TcpNoMemory
<1> HIDE DEF room
<1>6. \A r \in record' : r.pid \in Resolves(r.key) /\ (asked # NoFilter => r.pid = PidFilter)
  BY <1>5 DEF IInv, OnlyWanted, NamesOwnEnd, Resolves
<1>7. IInv' /\ Table!Collect(Bar(room.table), room.count, now)
  BY <1>1, <1>2, <1>4, <1>5, <1>6, CollectKeeps
<1>8. Table!Elapse(lag)
  BY DEF Table!Elapse, TcpNoMemory, Elapse
<1>9. Table!Live = KeysOf(chains)
  <2>1. Table!Live = DOMAIN Bar(chains)
    BY DEF Table!Live, Bar
  <2> QED
    BY <1>1, <2>1, BarIs
<1>10. CASE ~(count >= MaxItems)
  <2>1. Table!Collect(Bar(chains), count, now)
    BY <1>4, <1>7, <1>10
  <2> QED
    BY <1>3, <1>7, <1>8, <1>9, <1>10, <2>1 DEF Table!NewFlowNoMemory, Table!Full, Bar
<1>11. CASE count >= MaxItems
  <2>1. PICK v \in Table!Oldest(Bar(chains)) :
          /\ Bar(room.table) = Table!Without(Bar(chains), {v})
          /\ room.count = Table!DropCount(count, 1)
    BY <1>4, <1>11
  <2>2. Table!Collect(Table!Without(Bar(chains), {v}), Table!DropCount(count, 1), now)
    BY <1>7, <2>1
  <2> QED
    BY <1>3, <1>7, <1>8, <1>9, <1>11, <2>1, <2>2 DEF Table!NewFlowNoMemory, Table!Full, Bar
<1> QED
  BY <1>10, <1>11

LEMMA UdpPacketStep ==
  ASSUME IInv, NEW k \in Keys, NEW pid \in Resolves(k), UdpPacket(k, pid)
  PROVE  IInv' /\ Table!UdpPacket
<1>1. /\ Sound(chains) /\ count = Cardinality(KeysOf(chains)) /\ now \in Nat
      /\ \A f \in Flows(chains) : f.pid \in Resolves(f.key)
      /\ asked # NoFilter => \A f \in Flows(chains) : f.pid = PidFilter
  BY DEF IInv
<1>2. now' \in Nat /\ Table!Elapse(0)
  BY <1>1 DEF UdpPacket, Elapse, Table!Elapse
<1>3. /\ UNCHANGED asked /\ Collect(chains, count, now)
      /\ record' = {[key |-> k, pid |-> pid]} /\ Wanted(pid)
  BY DEF UdpPacket
<1>4. \A r \in record' : r.pid \in Resolves(r.key) /\ (asked # NoFilter => r.pid = PidFilter)
  BY <1>3 DEF Wanted
<1>5. IInv' /\ Table!Collect(Bar(chains), count, now)
  BY <1>1, <1>2, <1>3, <1>4, CollectKeeps
<1> QED
  BY <1>2, <1>5 DEF Table!UdpPacket, Bar

LEMMA TickStep ==
  ASSUME IInv, Tick
  PROVE  IInv' /\ Table!Tick
<1>1. UNCHANGED <<asked, chains, count, lastGc, record>> /\ now' = now + 1 /\ now + 1 <= MaxNow
  BY DEF Tick, Elapse
<1>2. now \in Nat /\ now < MaxNow
  BY <1>1, PacketPathAssumption DEF IInv
<1>3. IInv'
  BY <1>1, <1>2 DEF IInv, OnlyWanted, NamesOwnEnd, Resolves, PidFilter
<1> QED
  BY <1>1, <1>2, <1>3 DEF Table!Tick, Flow, Places, FlowFind

LEMMA Invariance == Spec => []IInv
<1>1. Init => IInv
  <2>1. SUFFICES ASSUME Init
                 PROVE  IInv
    OBVIOUS
  <2>2. \A b \in 1..Buckets : chains[b] = <<>>
    BY <2>1 DEF Init
  <2>3. Sound(chains)
    BY <2>1, <2>2 DEF Init, Sound, Distinct
  <2>4. Flows(chains) = {}
    BY <2>2, <2>3, FlowIs
  <2>5. KeysOf(chains) = {}
    BY <2>4 DEF KeysOf
  <2>6. now \in Nat /\ lastGc \in Nat /\ count = 0 /\ record = {}
    BY <2>1, PacketPathAssumption DEF Init
  <2> QED
    BY <2>3, <2>4, <2>5, <2>6, FS_EmptySet DEF IInv, OnlyWanted, NamesOwnEnd
<1>2. IInv /\ [Next]_vars => IInv'
  <2>1. ASSUME IInv, UNCHANGED vars
        PROVE  IInv'
    BY <2>1 DEF IInv, OnlyWanted, NamesOwnEnd, Resolves, PidFilter, vars, clock
  <2> QED
    BY <2>1, TcpPacketStep, TcpNoMemoryStep, UdpPacketStep, TickStep DEF Next
<1> QED
  BY <1>1, <1>2, PTL DEF Spec

(* Under -pid no record names another process than the one that was asked  *)
(* for: the order of packet_matches_filters and of the loan in             *)
(* process_tcp_flow does no harm, for any hash and any capacity.           *)
THEOREM RecordsWanted == Spec => []OnlyWanted
<1>1. IInv => OnlyWanted
  BY DEF IInv
<1> QED
  BY <1>1, Invariance, PTL

(* No record names the process at the other end of a connection, for any   *)
(* set of endpoints and of connections between them.                       *)
THEOREM RecordsNameOwnEnd == Spec => []NamesOwnEnd
<1>1. IInv => NamesOwnEnd
  BY DEF IInv
<1> QED
  BY <1>1, Invariance, PTL

(* The array of chains of flow_find, flow_get and flow_gc implements the   *)
(* table of FlowTable, for any number of buckets and any hash.             *)
THEOREM ChainsImplementTable == Spec => ImplementsFlowTable
<1>1. Init => Table!Init
  <2>1. SUFFICES ASSUME Init
                 PROVE  Table!Init
    OBVIOUS
  <2>2. \A b \in 1..Buckets : DOMAIN chains[b] = {}
    BY <2>1 DEF Init
  <2>3. Places(chains) = {}
    BY <2>2 DEF Places
  <2> QED
    BY <2>1, <2>3 DEF Init, Table!Init
<1>2. IInv /\ [Next]_vars => [Table!Next]_(Table!vars)
  <2>1. ASSUME UNCHANGED vars
        PROVE  UNCHANGED Table!vars
    BY <2>1 DEF vars, clock, Table!vars, Flow, Places, FlowFind
  <2>2. ASSUME IInv, Next
        PROVE  Table!Next
    <3>1. ASSUME NEW k \in Keys, NEW pid \in Resolves(k), NEW lag \in 0..MaxLag,
                 TcpPacket(k, pid, lag) \/ TcpNoMemory(k, pid, lag)
          PROVE  Table!Next
      BY <2>2, <3>1, TcpPacketStep, TcpNoMemoryStep DEF Table!Next
    <3>2. ASSUME NEW k \in Keys, NEW pid \in Resolves(k), UdpPacket(k, pid)
          PROVE  Table!Next
      BY <2>2, <3>2, UdpPacketStep DEF Table!Next
    <3>3. CASE Tick
      BY <2>2, <3>3, TickStep DEF Table!Next
    <3> QED
      BY <2>2, <3>1, <3>2, <3>3 DEF Next
  <2> QED
    BY <2>1, <2>2
<1> QED
  BY <1>1, <1>2, Invariance, PTL DEF Spec, ImplementsFlowTable, Table!Spec
=============================================================================
