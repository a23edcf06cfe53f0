--------------------------- MODULE FlowTableProofs ---------------------------
(***************************************************************************)
(* Proofs about FlowTable, for every set of keys, every capacity, every    *)
(* idle time and every clock width.  IInv is the inductive invariant: the  *)
(* size properties need each other (an eviction is decided on flow_count   *)
(* and performed on the buckets), SweptClean needs the order of lastGc,    *)
(* seen and now, and the action properties need the clock to have passed   *)
(* IdleMs.                                                                 *)
(***************************************************************************)
EXTENDS FlowTable, FiniteSetTheorems, TLAPS

IInv ==
  /\ TypeOK
  /\ CountExact
  /\ Bounded
  /\ SweptClean

-----------------------------------------------------------------------------
(* The keys of any table are finitely many.                                *)
LEMMA FiniteTable ==
  ASSUME NEW S, S \subseteq Keys
  PROVE  IsFiniteSet(S) /\ Cardinality(S) \in Nat
<1>1. IsFiniteSet(S)
  BY FS_Subset, FlowTableAssumption
<1> QED
  BY <1>1, FS_CardinalityType

(* The two branches at the end of handle_packet re-establish the invariant *)
(* from a table that satisfies it.                                         *)
LEMMA CollectKeeps ==
  ASSUME NEW s, NEW c,
         DOMAIN s \subseteq Keys,
         s \in [DOMAIN s -> 0..MaxNow],
         c = Cardinality(DOMAIN s),
         c <= MaxItems,
         now \in Nat, now' \in Nat, now <= now', now' <= MaxNow,
         lastGc \in 0..now,
         lastGc # 0 => \A k \in DOMAIN s : s[k] + IdleMs >= lastGc,
         Collect(s, c, now)
  PROVE  IInv'
<1> USE FlowTableAssumption
<1>1. CASE GcDue(now)
  <2> DEFINE dead == Expired(s, now)
  <2>1. /\ seen' = Without(s, dead)
        /\ count' = DropCount(c, Cardinality(dead))
        /\ lastGc' = now
    BY <1>1 DEF Collect
  <2>2. dead \subseteq DOMAIN s
    BY DEF Expired
  <2>3. Live' = DOMAIN s \ dead
    BY <2>1 DEF Without, Live
  <2>4. \A k \in Live' : seen'[k] = s[k]
    BY <2>1, <2>3 DEF Without
  <2>5. /\ IsFiniteSet(DOMAIN s) /\ c \in Nat
        /\ Cardinality(dead) \in Nat /\ Cardinality(Live') \in Nat
    <3>1. dead \subseteq Keys /\ Live' \subseteq Keys
      BY <2>2, <2>3
    <3> QED
      BY <3>1, FiniteTable
  <2>6. Cardinality(Live') = c - Cardinality(dead)
    <3>1. DOMAIN s \cap dead = dead
      BY <2>2
    <3> QED
      BY <2>3, <2>5, <3>1, FS_Difference
  <2>7. TypeOK'
    <3>1. seen' \in [Live' -> 0..MaxNow]
      BY <2>1, <2>3 DEF Without, Live
    <3>2. count' \in Nat
      BY <2>1, <2>5, <2>6 DEF DropCount
    <3>3. Live' \subseteq Keys
      BY <2>3
    <3> QED
      BY <2>1, <3>1, <3>2, <3>3 DEF TypeOK
  <2>8. CountExact' /\ Bounded'
    BY <2>1, <2>5, <2>6 DEF CountExact, Bounded, DropCount
  <2>9. SweptClean'
    <3>1. \A k \in Live' : s[k] \in Nat /\ s[k] >= Sub(now, IdleMs)
      BY <2>3 DEF Expired, Sub
    <3>2. \A k \in Live' : s[k] + IdleMs >= now
      BY <3>1 DEF Sub
    <3> QED
      BY <2>1, <2>4, <3>2 DEF SweptClean
  <2> QED
    BY <2>7, <2>8, <2>9 DEF IInv
<1>2. CASE ~GcDue(now)
  <2>1. seen' = s /\ count' = c /\ lastGc' = lastGc
    BY <1>2 DEF Collect
  <2>2. Live' = DOMAIN s
    BY <2>1 DEF Live
  <2>3. c \in Nat
    BY FiniteTable
  <2>4. TypeOK'
    BY <2>1, <2>2, <2>3 DEF TypeOK
  <2>5. CountExact' /\ Bounded' /\ SweptClean'
    BY <2>1, <2>2 DEF CountExact, Bounded, SweptClean
  <2> QED
    BY <2>4, <2>5 DEF IInv
<1> QED
  BY <1>1, <1>2

-----------------------------------------------------------------------------
LEMMA InitInv == Init => IInv
<1> SUFFICES ASSUME Init PROVE IInv
  OBVIOUS
<1>1. Live = {}
  BY DEF Init, Live
<1>2. Cardinality(Live) = 0
  BY <1>1, FS_EmptySet
<1>3. TypeOK
  BY <1>1, FlowTableAssumption DEF Init, TypeOK
<1> QED
  BY <1>1, <1>2, <1>3, FlowTableAssumption
  DEF Init, IInv, CountExact, Bounded, SweptClean

(* What the table is between the handling of a TCP packet of flow k and    *)
(* the sweep: k has the newest stamp and everything else is as it was.     *)
LEMMA TouchedTable ==
  ASSUME IInv, NEW base \in SUBSET Live, NEW k \in Keys,
         NEW lag \in Nat, now + lag <= MaxNow
  PROVE  LET s == Touch(Without(seen, Live \ base), k, now + lag)
         IN  /\ DOMAIN s = base \cup {k}
             /\ DOMAIN s \subseteq Keys
             /\ s \in [DOMAIN s -> 0..MaxNow]
             /\ s[k] = now + lag
             /\ \A j \in DOMAIN s : j # k => s[j] = seen[j]
             /\ lastGc # 0 => \A j \in DOMAIN s : s[j] + IdleMs >= lastGc
<1> USE FlowTableAssumption DEF IInv, TypeOK, SweptClean
<1> DEFINE b == Without(seen, Live \ base)
           s == Touch(b, k, now + lag)
<1>1. b = [j \in base |-> seen[j]]
  <2>1. DOMAIN seen \ (Live \ base) = base
    BY DEF Live
  <2> QED
    BY <2>1 DEF Without
<1>2. s = [j \in base \cup {k} |-> IF j = k THEN now + lag ELSE b[j]]
  BY <1>1 DEF Touch
<1>3. DOMAIN s = base \cup {k} /\ DOMAIN s \subseteq Keys
  BY <1>2
<1>4. s[k] = now + lag /\ \A j \in DOMAIN s : j # k => s[j] = seen[j]
  BY <1>1, <1>2
<1>5. s \in [DOMAIN s -> 0..MaxNow]
  BY <1>1, <1>2
<1>6. ASSUME lastGc # 0, NEW j \in DOMAIN s PROVE s[j] + IdleMs >= lastGc
  BY <1>3, <1>4, <1>6
<1> QED
  BY <1>3, <1>4, <1>5, <1>6

LEMMA WithoutNothing ==
  ASSUME TypeOK, NEW S, S \cap Live = {}
  PROVE  Without(seen, S) = seen
<1>1. DOMAIN seen \ S = DOMAIN seen
  BY DEF Live
<1> QED
  BY <1>1 DEF TypeOK, Without, Live

-----------------------------------------------------------------------------
LEMMA KnownFlowInv ==
  ASSUME IInv, NEW k \in Keys, NEW lag \in 0..MaxLag, KnownFlow(k, lag)
  PROVE  IInv'
<1> DEFINE s == Touch(seen, k, now + lag)
<1>1. Without(seen, Live \ Live) = seen
  BY WithoutNothing DEF IInv
<1>2. /\ k \in Live /\ lag \in Nat /\ now \in Nat
      /\ now' = now + lag /\ now' <= MaxNow
      /\ Collect(s, count, now)
  BY FlowTableAssumption DEF KnownFlow, Elapse, IInv, TypeOK
<1>3. /\ DOMAIN s = Live
      /\ DOMAIN s \subseteq Keys /\ s \in [DOMAIN s -> 0..MaxNow]
      /\ lastGc # 0 => \A j \in DOMAIN s : s[j] + IdleMs >= lastGc
  <2>1. Live \cup {k} = Live
    BY <1>2
  <2> QED
    BY <1>1, <1>2, <2>1, TouchedTable
<1>4. /\ count = Cardinality(DOMAIN s) /\ count <= MaxItems
      /\ lastGc \in 0..now /\ now <= now' /\ now' \in Nat
  BY <1>2, <1>3 DEF IInv, TypeOK, CountExact, Bounded
<1> HIDE DEF s
<1> QED
  BY <1>2, <1>3, <1>4, CollectKeeps

LEMMA NewFlowInv ==
  ASSUME IInv, NEW k \in Keys, NEW lag \in 0..MaxLag, NewFlow(k, lag)
  PROVE  IInv'
<1> DEFINE s == Touch(seen, k, now + lag)
<1>1. Without(seen, Live \ Live) = seen
  BY WithoutNothing DEF IInv
<1>2. /\ k \notin Live /\ lag \in Nat /\ now \in Nat /\ count < MaxItems
      /\ now' = now + lag /\ now' <= MaxNow
      /\ Collect(s, count + 1, now)
  BY FlowTableAssumption DEF NewFlow, Full, Elapse, IInv, TypeOK
<1>3. /\ DOMAIN s = Live \cup {k}
      /\ DOMAIN s \subseteq Keys /\ s \in [DOMAIN s -> 0..MaxNow]
      /\ lastGc # 0 => \A j \in DOMAIN s : s[j] + IdleMs >= lastGc
  BY <1>1, <1>2, TouchedTable
<1>4. /\ count + 1 = Cardinality(DOMAIN s) /\ count + 1 <= MaxItems
      /\ lastGc \in 0..now /\ now <= now' /\ now' \in Nat
  <2>1. IsFiniteSet(Live)
    BY FiniteTable DEF IInv, TypeOK
  <2>2. Cardinality(Live \cup {k}) = Cardinality(Live) + 1
    BY <1>2, <2>1, FS_AddElement
  <2> QED
    BY <1>2, <1>3, <2>2, FlowTableAssumption DEF IInv, TypeOK, CountExact
<1> HIDE DEF s
<1> QED
  BY <1>2, <1>3, <1>4, CollectKeeps

LEMMA EvictInv ==
  ASSUME IInv, NEW k \in Keys, NEW lag \in 0..MaxLag, NEW victim \in Live,
         Evict(k, victim, lag)
  PROVE  IInv'
<1> DEFINE s == Touch(Without(seen, {victim}), k, now + lag)
           c == DropCount(count, 1) + 1
           base == Live \ {victim}
<1>1. Live \ base = {victim}
  OBVIOUS
<1>2. /\ k \notin Live /\ lag \in Nat /\ now \in Nat /\ count >= MaxItems
      /\ now' = now + lag /\ now' <= MaxNow
      /\ Collect(s, c, now)
  BY FlowTableAssumption DEF Evict, Full, Elapse, IInv, TypeOK
<1>3. /\ DOMAIN s = base \cup {k}
      /\ DOMAIN s \subseteq Keys /\ s \in [DOMAIN s -> 0..MaxNow]
      /\ lastGc # 0 => \A j \in DOMAIN s : s[j] + IdleMs >= lastGc
  BY <1>1, <1>2, TouchedTable
<1>4. /\ c = Cardinality(DOMAIN s) /\ c <= MaxItems
      /\ lastGc \in 0..now /\ now <= now' /\ now' \in Nat
  <2>1. IsFiniteSet(Live) /\ IsFiniteSet(base)
    BY FiniteTable, FS_Subset DEF IInv, TypeOK
  <2>2. Cardinality(base) = Cardinality(Live) - 1
    BY <2>1, FS_RemoveElement
  <2>3. Cardinality(base \cup {k}) = Cardinality(Live)
    BY <1>2, <2>1, <2>2, FS_AddElement, FS_CardinalityType
  <2> QED
    BY <1>2, <1>3, <2>3, FlowTableAssumption
    DEF IInv, TypeOK, CountExact, Bounded, DropCount
<1> HIDE DEF s, c
<1> QED
  BY <1>2, <1>3, <1>4, CollectKeeps

\* A table that only loses entries keeps what CollectKeeps asks for.
LEMMA ShrunkTable ==
  ASSUME IInv, NEW dead \in SUBSET Live
  PROVE  LET s == Without(seen, dead)
         IN  /\ DOMAIN s = Live \ dead
             /\ DOMAIN s \subseteq Keys /\ s \in [DOMAIN s -> 0..MaxNow]
             /\ \A j \in DOMAIN s : s[j] = seen[j]
             /\ lastGc # 0 => \A j \in DOMAIN s : s[j] + IdleMs >= lastGc
BY DEF Without, Live, IInv, TypeOK, SweptClean

LEMMA UdpPacketInv ==
  ASSUME IInv, UdpPacket
  PROVE  IInv'
<1>1. /\ now \in Nat /\ now' = now /\ now <= MaxNow
      /\ Collect(seen, count, now)
  BY FlowTableAssumption DEF UdpPacket, Elapse, IInv, TypeOK
<1>2. /\ count = Cardinality(DOMAIN seen) /\ count <= MaxItems
      /\ lastGc \in 0..now
      /\ DOMAIN seen \subseteq Keys /\ seen \in [DOMAIN seen -> 0..MaxNow]
      /\ lastGc # 0 => \A j \in DOMAIN seen : seen[j] + IdleMs >= lastGc
  BY DEF IInv, TypeOK, CountExact, Bounded, SweptClean, Live
<1> QED
  BY <1>1, <1>2, CollectKeeps

LEMMA NewFlowNoMemoryInv ==
  ASSUME IInv, NEW k \in Keys, NEW lag \in 0..MaxLag, NewFlowNoMemory(k, lag)
  PROVE  IInv'
<1>1. /\ now \in Nat /\ now' = now + lag /\ now' <= MaxNow
      /\ now <= now' /\ now' \in Nat /\ lastGc \in 0..now
  BY FlowTableAssumption DEF NewFlowNoMemory, Elapse, IInv, TypeOK
<1>2. CASE Collect(seen, count, now)
  <2>1. /\ count = Cardinality(DOMAIN seen) /\ count <= MaxItems
        /\ DOMAIN seen \subseteq Keys /\ seen \in [DOMAIN seen -> 0..MaxNow]
        /\ lastGc # 0 => \A j \in DOMAIN seen : seen[j] + IdleMs >= lastGc
    BY DEF IInv, TypeOK, CountExact, Bounded, SweptClean, Live
  <2> QED
    BY <1>1, <1>2, <2>1, CollectKeeps
<1>3. ASSUME NEW victim \in Oldest(seen),
             Collect(Without(seen, {victim}), DropCount(count, 1), now)
      PROVE  IInv'
  <2> DEFINE s == Without(seen, {victim})
  <2>1. victim \in Live
    BY DEF Oldest, Live
  <2>2. /\ DOMAIN s = Live \ {victim}
        /\ DOMAIN s \subseteq Keys /\ s \in [DOMAIN s -> 0..MaxNow]
        /\ lastGc # 0 => \A j \in DOMAIN s : s[j] + IdleMs >= lastGc
    BY <2>1, ShrunkTable
  <2>3. IsFiniteSet(Live) /\ Cardinality(Live) \in Nat
    BY FiniteTable DEF IInv, TypeOK
  <2>4. /\ Cardinality(DOMAIN s) = Cardinality(Live) - 1
        /\ Cardinality(DOMAIN s) \in Nat
    BY <2>1, <2>2, <2>3, FS_RemoveElement, FiniteTable
  <2>5. /\ DropCount(count, 1) = Cardinality(DOMAIN s)
        /\ DropCount(count, 1) <= MaxItems
    BY <2>3, <2>4, FlowTableAssumption
    DEF IInv, CountExact, Bounded, DropCount
  <2> HIDE DEF s
  <2>6. Collect(s, DropCount(count, 1), now)
    BY <1>3 DEF s
  <2> QED
    BY <1>1, <2>2, <2>5, <2>6, CollectKeeps
<1> QED
  BY <1>2, <1>3 DEF NewFlowNoMemory

LEMMA StepInv == IInv /\ [Next]_vars => IInv'
<1> SUFFICES ASSUME IInv, [Next]_vars PROVE IInv'
  OBVIOUS
<1>1. ASSUME NEW k \in Keys, NEW lag \in 0..MaxLag, TcpPacket(k, lag)
      PROVE  IInv'
  BY <1>1, KnownFlowInv, NewFlowInv, EvictInv DEF TcpPacket
<1>2. ASSUME NEW k \in Keys, NEW lag \in 0..MaxLag, NewFlowNoMemory(k, lag)
      PROVE  IInv'
  BY <1>2, NewFlowNoMemoryInv
<1>3. CASE UdpPacket
  BY <1>3, UdpPacketInv
<1>4. CASE Tick
  BY <1>4, FlowTableAssumption
  DEF Tick, IInv, TypeOK, CountExact, Bounded, SweptClean, Live
<1>5. CASE UNCHANGED vars
  BY <1>5 DEF vars, IInv, TypeOK, CountExact, Bounded, SweptClean, Live
<1> QED
  BY <1>1, <1>2, <1>3, <1>4, <1>5 DEF Next

LEMMA Invariance == Spec => []IInv
BY InitInv, StepInv, PTL DEF Spec

(* The types of the table, its count and its two times.                    *)
THEOREM TypeCorrect == Spec => []TypeOK
BY Invariance, PTL DEF IInv

(* flow_count never drifts from the buckets, whatever mix of insertions,   *)
(* evictions, failed allocations and sweeps the packets cause.             *)
THEOREM CountsExactly == Spec => []CountExact
BY Invariance, PTL DEF IInv

(* The buckets never hold more than FLOW_STATE_MAX_ITEMS flows: flow_get   *)
(* decides on flow_count, so this rests on the count being exact.          *)
THEOREM TableBounded == Spec => []Bounded
BY Invariance, PTL DEF IInv

(* No flow that outlived a sweep was expired at that sweep, even when the  *)
(* cutoff of the sweep wrapped.                                            *)
THEOREM SweepsComplete == Spec => []SweptClean
BY Invariance, PTL DEF IInv

-----------------------------------------------------------------------------
(* From here on the program starts at least IdleMs after the machine did,  *)
(* so that now - 120000 never wraps.                                       *)
Uptime == now \in Nat /\ now >= BootMs

LEMMA UptimeStep == Uptime /\ [Next]_vars => Uptime'
<1> SUFFICES ASSUME Uptime, [Next]_vars PROVE Uptime'
  OBVIOUS
<1>1. ASSUME NEW lag \in Nat, Elapse(lag) PROVE Uptime'
  BY <1>1, FlowTableAssumption DEF Elapse, Uptime
<1>2. ASSUME NEW k \in Keys, NEW lag \in 0..MaxLag,
             TcpPacket(k, lag) \/ NewFlowNoMemory(k, lag)
      PROVE  Uptime'
  <2>1. Elapse(lag)
    BY <1>2 DEF TcpPacket, KnownFlow, NewFlow, Evict, NewFlowNoMemory
  <2>2. lag \in Nat
    BY FlowTableAssumption
  <2> QED
    BY <1>1, <2>1, <2>2
<1>3. CASE UdpPacket
  BY <1>1, <1>3 DEF UdpPacket
<1>4. CASE Tick
  BY <1>4, FlowTableAssumption DEF Tick, Uptime
<1>5. CASE UNCHANGED vars
  BY <1>5 DEF vars, Uptime
<1> QED
  BY <1>2, <1>3, <1>4, <1>5 DEF Next

LEMMA UptimeInvariance == Spec => []Uptime
<1>1. Init => Uptime
  BY FlowTableAssumption DEF Init, Uptime
<1> QED
  BY <1>1, UptimeStep, PTL DEF Spec

\* What the end of handle_packet may drop once the clock has passed IdleMs.
LEMMA CollectDrops ==
  ASSUME NEW s, NEW c, now \in Nat, now >= IdleMs,
         \A k \in DOMAIN s : s[k] \in Nat,
         Collect(s, c, now)
  PROVE  /\ Live' \subseteq DOMAIN s
         /\ \A k \in DOMAIN s \ Live' : s[k] + IdleMs < now
<1>1. CASE GcDue(now)
  <2>1. Live' = DOMAIN s \ Expired(s, now)
    BY <1>1 DEF Collect, Without, Live
  <2> QED
    BY <2>1, FlowTableAssumption DEF Expired, Sub
<1>2. CASE ~GcDue(now)
  BY <1>2 DEF Collect, Live
<1> QED
  BY <1>1, <1>2

LEMMA TcpPacketDrops ==
  ASSUME IInv, Uptime, BootMs >= IdleMs,
         NEW k \in Keys, NEW lag \in 0..MaxLag, TcpPacket(k, lag)
  PROVE  DropsJustified /\ k \in Live'
<1> USE FlowTableAssumption
<1>0. /\ now \in Nat /\ now >= IdleMs
      /\ \A j \in Live : seen[j] \in Nat
      /\ Live = DOMAIN seen
  BY DEF IInv, TypeOK, Uptime, Live
<1>1. CASE KnownFlow(k, lag)
  <2> DEFINE s == Touch(seen, k, now + lag)
  <2>1. k \in Live /\ lag \in Nat /\ Collect(s, count, now)
    BY <1>1 DEF KnownFlow
  <2>2. /\ DOMAIN s = Live /\ s[k] = now + lag
        /\ \A j \in Live : j # k => s[j] = seen[j]
    BY <1>0, <2>1 DEF Touch
  <2>3. \A j \in DOMAIN s : s[j] \in Nat
    BY <1>0, <2>1, <2>2
  <2> HIDE DEF s
  <2>4. /\ Live' \subseteq DOMAIN s
        /\ \A j \in DOMAIN s \ Live' : s[j] + IdleMs < now
    BY <1>0, <2>1, <2>3, CollectDrops
  <2>5. k \in Live'
    BY <1>0, <2>1, <2>2, <2>4
  <2> QED
    BY <1>0, <2>1, <2>2, <2>4, <2>5 DEF DropsJustified, Idle
<1>2. CASE NewFlow(k, lag)
  <2> DEFINE s == Touch(seen, k, now + lag)
  <2>1. k \notin Live /\ lag \in Nat /\ Collect(s, count + 1, now)
    BY <1>2 DEF NewFlow
  <2>2. /\ DOMAIN s = Live \cup {k} /\ s[k] = now + lag
        /\ \A j \in Live : s[j] = seen[j]
    BY <1>0, <2>1 DEF Touch
  <2>3. \A j \in DOMAIN s : s[j] \in Nat
    BY <1>0, <2>1, <2>2
  <2> HIDE DEF s
  <2>4. /\ Live' \subseteq DOMAIN s
        /\ \A j \in DOMAIN s \ Live' : s[j] + IdleMs < now
    BY <1>0, <2>1, <2>3, CollectDrops
  <2>5. k \in Live'
    BY <1>0, <2>1, <2>2, <2>4
  <2> QED
    BY <1>0, <2>1, <2>2, <2>4, <2>5 DEF DropsJustified, Idle
<1>3. ASSUME NEW victim \in Live, Evict(k, victim, lag)
      PROVE  DropsJustified /\ k \in Live'
  <2> DEFINE s == Touch(Without(seen, {victim}), k, now + lag)
  <2>1. /\ k \notin Live /\ lag \in Nat /\ count = MaxItems
        /\ \A j \in Live : seen[victim] <= seen[j]
        /\ Collect(s, DropCount(count, 1) + 1, now)
    BY <1>0, <1>3 DEF Evict, Full, Oldest, IInv, TypeOK, CountExact, Bounded
  <2>2. /\ DOMAIN s = (Live \ {victim}) \cup {k} /\ s[k] = now + lag
        /\ \A j \in Live \ {victim} : s[j] = seen[j]
    BY <1>0, <2>1 DEF Touch, Without
  <2>3. \A j \in DOMAIN s : s[j] \in Nat
    BY <1>0, <2>1, <2>2
  <2> HIDE DEF s
  <2>4. /\ Live' \subseteq DOMAIN s
        /\ \A j \in DOMAIN s \ Live' : s[j] + IdleMs < now
    BY <1>0, <2>1, <2>3, CollectDrops
  <2>5. k \in Live'
    BY <1>0, <2>1, <2>2, <2>4
  <2>6. \A j \in Live \ Live' : j = victim \/ Idle(j)
    BY <1>0, <2>2, <2>4 DEF Idle
  <2> QED
    BY <2>1, <2>5, <2>6 DEF DropsJustified
<1> QED
  BY <1>1, <1>2, <1>3 DEF TcpPacket

LEMMA StepDrops ==
  ASSUME IInv, Uptime, BootMs >= IdleMs, Next
  PROVE  DropsJustified
<1> USE FlowTableAssumption
<1>0. /\ now \in Nat /\ now >= IdleMs
      /\ \A k \in Live : seen[k] \in Nat
      /\ Live = DOMAIN seen
  BY DEF IInv, TypeOK, Uptime, Live
<1>1. ASSUME NEW k \in Keys, NEW lag \in 0..MaxLag, TcpPacket(k, lag)
      PROVE  DropsJustified
  BY <1>1, TcpPacketDrops
<1>2. ASSUME NEW dead \in SUBSET Live, NEW c,
             Collect(Without(seen, dead), c, now)
      PROVE  \A j \in Live \ Live' : j \in dead \/ Idle(j)
  <2> DEFINE s == Without(seen, dead)
  <2>1. DOMAIN s = Live \ dead /\ \A j \in DOMAIN s : s[j] = seen[j]
    BY <1>0 DEF Without
  <2>2. \A j \in DOMAIN s : s[j] \in Nat
    BY <1>0, <2>1
  <2>3. Collect(s, c, now)
    BY <1>2
  <2> HIDE DEF s
  <2>4. \A j \in DOMAIN s \ Live' : s[j] + IdleMs < now
    BY <1>0, <2>2, <2>3, CollectDrops
  <2> QED
    BY <1>0, <2>1, <2>4 DEF Idle
<1>3. ASSUME Collect(seen, count, now) PROVE DropsJustified
  <2>1. Without(seen, {}) = seen
    BY WithoutNothing DEF IInv
  <2> QED
    BY <1>2, <1>3, <2>1 DEF DropsJustified
<1>4. ASSUME NEW k \in Keys, NEW lag \in 0..MaxLag, NewFlowNoMemory(k, lag)
      PROVE  DropsJustified
  <2>1. CASE Collect(seen, count, now)
    BY <1>3, <2>1
  <2>2. ASSUME Full(count), NEW victim \in Oldest(seen),
               Collect(Without(seen, {victim}), DropCount(count, 1), now)
        PROVE  DropsJustified
    <3>1. /\ victim \in Live /\ count = MaxItems
          /\ \A j \in Live : seen[victim] <= seen[j]
      BY <1>0, <2>2 DEF Full, Oldest, IInv, TypeOK, CountExact, Bounded
    <3>2. \A j \in Live \ Live' : j = victim \/ Idle(j)
      BY <1>2, <2>2, <3>1
    <3> QED
      BY <3>1, <3>2 DEF DropsJustified
  <2> QED
    BY <1>4, <2>1, <2>2 DEF NewFlowNoMemory
<1>5. CASE UdpPacket
  BY <1>3, <1>5 DEF UdpPacket
<1>6. CASE Tick
  BY <1>6 DEF Tick, DropsJustified, Live
<1> QED
  BY <1>1, <1>4, <1>5, <1>6 DEF Next

(* A program started at least 120 s after boot drops a flow only because   *)
(* it has been idle for 120 s or because it is the oldest of a full table. *)
THEOREM DropsOnlyIdleOrOldest ==
  ASSUME BootMs >= IdleMs
  PROVE  Spec => OnlyIdleOrOldestDropped
<1>1. IInv /\ Uptime /\ [Next]_vars => [DropsJustified]_vars
  BY StepDrops
<1> QED
  BY <1>1, Invariance, UptimeInvariance, PTL DEF Spec, OnlyIdleOrOldestDropped

(* From the same start, the flow whose packet is being handled is still    *)
(* there after the eviction and the sweep of that packet.                  *)
THEOREM HandledFlowStays ==
  ASSUME BootMs >= IdleMs
  PROVE  Spec => HandledFlowKept
<1>1. IInv /\ Uptime => HandledKept
  BY TcpPacketDrops DEF HandledKept
<1> QED
  BY <1>1, Invariance, UptimeInvariance, PTL DEF Spec, HandledFlowKept
=============================================================================
