-------------------------- MODULE OwnerResolveProofs --------------------------
(* That every process named by a record once had a socket on the packet's  *)
(* local port: whatever is stored anywhere on the way is already so.       *)
EXTENDS OwnerResolve, TLAPS

\* Whether pid has had a socket on the local port of packet p.
Owned(p, pid) ==
  \E h \in held : h[1] = pid /\ Port(h[2]) = Port(OwnerKey(p)[1])

SocketsHeld ==
  \A s \in sockets : \A p \in s.pids : <<p, s.local>> \in held

Connected ==
  \A s \in sockets : s.peer # NoPeer => <<s.local, s.peer>> \in Connection

\* An inode belongs to one socket for ever.
InodesUnique ==
  /\ \A s \in sockets : s.inode <= inodes
  /\ \A s, t \in sockets : s.inode = t.inode => s.local = t.local
  /\ \A o \in owners : o[1] <= inodes

RecordedHeld == \A c \in DOMAIN recorded : <<recorded[c], c[1]>> \in held

OwnersHeld ==
  \A o \in owners : \A s \in sockets :
    s.inode = o[1] => <<o[2], s.local>> \in held

CacheHeld == \A m \in cache : m.pid # Nobody => <<m.pid, m.local>> \in held

FlowHeld == \A p \in Packet : flow[p] # Nobody => Owned(p, flow[p])

IInv ==
  /\ TypeOK
  /\ SocketsHeld /\ Connected /\ InodesUnique
  /\ RecordedHeld /\ OwnersHeld /\ CacheHeld
  /\ FlowHeld /\ EverOwned

-----------------------------------------------------------------------------
LEMMA PeerSameEnd ==
  ASSUME NEW p \in Packet
  PROVE  PeerFlow(p) \in Packet /\ OwnerKey(PeerFlow(p)) = OwnerKey(p)
BY DEF Packet, PeerFlow, OwnerKey

LEMMA KeyIsConnection ==
  ASSUME NEW p \in Packet
  PROVE  OwnerKey(p) \in Connection
BY DEF Packet, OwnerKey, Connection, Endpoint

\* What a packet is looked up in names only former holders of its port.
LEMMA ResolvesOwned ==
  ASSUME IInv, NEW p \in Packet, NEW pid, Resolves(p, pid), pid # Nobody
  PROVE  Owned(p, pid) /\ pid \in Pids
<1>1. CASE InMap(p) /\ pid = recorded[OwnerKey(p)]
  <2>1. <<pid, OwnerKey(p)[1]>> \in held /\ pid \in Pids
    BY <1>1 DEF InMap, IInv, RecordedHeld, TypeOK
  <2> QED
    BY <2>1 DEF Owned
<1>2. CASE \E m \in Listeners(p) : pid = m.pid
  <2>1. PICK m \in Listeners(p) : pid = m.pid
    BY <1>2
  <2>2. m \in cache /\ Port(m.local) = Port(OwnerKey(p)[1])
    BY DEF Listeners
  <2>3. <<pid, m.local>> \in held /\ pid \in Pids
    BY <2>1, <2>2 DEF IInv, CacheHeld, TypeOK, Entry
  <2> QED
    BY <2>2, <2>3 DEF Owned
<1>3. CASE \E m \in Directional(p) : pid = m.pid
  <2>1. PICK m \in Directional(p) : pid = m.pid
    BY <1>3
  <2>2. m \in cache /\ m.local = OwnerKey(p)[1]
    BY DEF Directional
  <2>3. <<pid, m.local>> \in held /\ pid \in Pids
    BY <2>1, <2>2 DEF IInv, CacheHeld, TypeOK, Entry
  <2> QED
    BY <2>2, <2>3 DEF Owned
<1> QED
  BY <1>1, <1>2, <1>3 DEF Resolves

\* Nor does a flow learn anything else, or lend it to the other direction.
LEMMA AttributeKeeps ==
  ASSUME IInv, NEW p \in Packet, NEW pid \in Pids \cup {Nobody},
         pid # Nobody => Owned(p, pid), Attribute(p, pid), UNCHANGED held
  PROVE  /\ flow' \in [Packet -> Pids \cup {Nobody}]
         /\ last' \in [packet : Packet, pid : Pids \cup {Nobody}]
         /\ FlowHeld' /\ EverOwned'
<1>1. flow \in [Packet -> Pids \cup {Nobody}]
  BY DEF IInv, TypeOK
<1>2. flow' \in [Packet -> Pids \cup {Nobody}]
  BY <1>1 DEF Attribute
<1>3. \A q \in Packet : flow'[q] # Nobody => Owned(q, flow'[q])
  BY <1>1 DEF Attribute, IInv, FlowHeld
<1>4. FlowHeld'
  BY <1>3 DEF FlowHeld, Owned
<1>5. flow[PeerFlow(p)] # Nobody => Owned(p, flow[PeerFlow(p)])
  BY PeerSameEnd DEF IInv, FlowHeld, Owned
<1>6. last' = [packet |-> p, pid |-> last'.pid]
  BY DEF Attribute
<1>7. last'.pid \in Pids \cup {Nobody} /\ (last'.pid # Nobody => Owned(p, last'.pid))
  BY <1>1, <1>5, PeerSameEnd DEF Attribute
<1>8. EverOwned'
  BY <1>6, <1>7 DEF EverOwned, Owned
<1> QED
  BY <1>2, <1>4, <1>6, <1>7, <1>8

-----------------------------------------------------------------------------
\* The processes disturb nothing that zwbee has stored: nobody loses a past.
LEMMA HostKeeps ==
  ASSUME IInv, UNCHANGED zwbee, held \subseteq held'
  PROVE  CacheHeld' /\ FlowHeld' /\ EverOwned'
<1>1. CacheHeld'
  BY DEF IInv, CacheHeld, zwbee
<1>2. FlowHeld'
  BY DEF IInv, FlowHeld, Owned, zwbee
<1>3. EverOwned'
  BY DEF IInv, EverOwned, zwbee
<1> QED
  BY <1>1, <1>2, <1>3

LEMMA OpensKeeps ==
  ASSUME IInv, NEW p \in Pids, NEW l \in Local, NEW r \in Endpoint \cup {NoPeer},
         Opens(p, l, r), UNCHANGED owners,
         r # NoPeer => <<l, r>> \in Connection
  PROVE  /\ sockets' \subseteq Socket /\ inodes' \in 0..MaxSockets
         /\ held' \subseteq Pids \X Local /\ held \subseteq held'
         /\ SocketsHeld' /\ Connected' /\ InodesUnique' /\ OwnersHeld'
<1> DEFINE new == [inode |-> inodes + 1, local |-> l, peer |-> r, pids |-> {p}]
<1>1. inodes \in Nat /\ inodes + 1 \in 1..MaxSockets
  BY OwnerAssumption DEF IInv, TypeOK, Opens
<1>2. new \in Socket
  BY <1>1 DEF Socket
<1>3. sockets' = sockets \cup {new} /\ inodes' = inodes + 1
      /\ held' = held \cup {<<p, l>>}
  BY DEF Opens
<1>4. sockets' \subseteq Socket /\ inodes' \in 0..MaxSockets
      /\ held' \subseteq Pids \X Local /\ held \subseteq held'
  <2>1. sockets \subseteq Socket /\ held \subseteq Pids \X Local
    BY DEF IInv, TypeOK
  <2>2. sockets' \subseteq Socket
    BY <1>2, <1>3, <2>1
  <2>3. inodes' \in 0..MaxSockets
    BY <1>1, <1>3, OwnerAssumption
  <2>4. held' \subseteq Pids \X Local /\ held \subseteq held'
    BY <1>3, <2>1
  <2> QED
    BY <2>2, <2>3, <2>4
<1>5. new.inode = inodes + 1 /\ new.local = l /\ new.pids = {p} /\ new.peer = r
  OBVIOUS
<1> HIDE DEF new
<1>11. Connected'
  BY <1>3, <1>5 DEF IInv, Connected
<1>6. SocketsHeld'
  BY <1>3, <1>5 DEF IInv, SocketsHeld
<1>7. \A s \in sockets : s.inode \in Nat /\ s.inode <= inodes
  BY DEF IInv, TypeOK, Socket, InodesUnique
<1>8. \A o \in owners : o[1] \in Nat /\ o[1] <= inodes
  BY DEF IInv, TypeOK, InodesUnique
<1>9. InodesUnique'
  BY <1>1, <1>3, <1>5, <1>7, <1>8 DEF IInv, InodesUnique
<1>10. OwnersHeld'
  BY <1>1, <1>3, <1>5, <1>8 DEF IInv, OwnersHeld
<1> QED
  BY <1>4, <1>6, <1>9, <1>10, <1>11

LEMMA RecordedKeeps ==
  ASSUME IInv, NEW p \in Pids, NEW c \in Connection, recorded' = Recorded(p, c),
         held \subseteq held', <<p, c[1]>> \in held'
  PROVE  /\ DOMAIN recorded' \subseteq Connection
         /\ \A k \in DOMAIN recorded' : recorded'[k] \in Pids
         /\ RecordedHeld'
<1>1. DOMAIN recorded' = DOMAIN recorded \cup {c}
      /\ \A k \in DOMAIN recorded' : recorded'[k] = IF k = c THEN p ELSE recorded[k]
  BY DEF Recorded
<1> QED
  BY <1>1 DEF IInv, TypeOK, RecordedHeld

LEMMA ListenKeeps ==
  ASSUME IInv, NEW p \in Pids, NEW l \in Local, Listen(p, l)
  PROVE  IInv'
<1>1. Opens(p, l, NoPeer) /\ UNCHANGED <<recorded, zwbee>>
  BY DEF Listen
<1>2. UNCHANGED owners
  BY <1>1 DEF zwbee, scan
<1>3. /\ sockets' \subseteq Socket /\ inodes' \in 0..MaxSockets
      /\ held' \subseteq Pids \X Local /\ held \subseteq held'
      /\ SocketsHeld' /\ Connected' /\ InodesUnique' /\ OwnersHeld'
  BY <1>1, <1>2, OpensKeeps
<1>4. CacheHeld' /\ FlowHeld' /\ EverOwned'
  BY <1>1, <1>3, HostKeeps
<1>5. RecordedHeld'
  BY <1>1, <1>3 DEF IInv, RecordedHeld
<1>6. TypeOK'
  BY <1>1, <1>3 DEF IInv, TypeOK, zwbee, scan
<1> QED
  BY <1>3, <1>4, <1>5, <1>6 DEF IInv

LEMMA ConnectedKeeps ==
  ASSUME IInv, NEW p \in Pids, NEW c \in Connection, Opens(p, c[1], c[2]),
         recorded' = Recorded(p, c), UNCHANGED zwbee
  PROVE  IInv'
<1>1. UNCHANGED owners
  BY DEF zwbee, scan
<1>2. c[1] \in Local /\ c[2] \in Endpoint /\ <<c[1], c[2]>> \in Connection
  BY DEF Connection
<1>3. /\ sockets' \subseteq Socket /\ inodes' \in 0..MaxSockets
      /\ held' \subseteq Pids \X Local /\ held \subseteq held'
      /\ SocketsHeld' /\ Connected' /\ InodesUnique' /\ OwnersHeld'
  BY <1>1, <1>2, OpensKeeps
<1>4. CacheHeld' /\ FlowHeld' /\ EverOwned'
  BY <1>3, HostKeeps
<1>5. <<p, c[1]>> \in held'
  BY DEF Opens
<1>6. /\ DOMAIN recorded' \subseteq Connection
      /\ \A k \in DOMAIN recorded' : recorded'[k] \in Pids
      /\ RecordedHeld'
  BY <1>3, <1>5, RecordedKeeps
<1>7. TypeOK'
  BY <1>3, <1>6 DEF IInv, TypeOK, zwbee, scan
<1> QED
  BY <1>3, <1>4, <1>6, <1>7 DEF IInv

LEMMA SendKeeps ==
  ASSUME IInv, NEW p \in Pids, NEW s \in sockets, Send(p, s)
  PROVE  IInv'
<1>1. <<p, s.local>> \in held /\ <<s.local, s.peer>> \in Connection
  BY DEF Send, IInv, SocketsHeld, Connected
<1>2. /\ DOMAIN recorded' \subseteq Connection
      /\ \A k \in DOMAIN recorded' : recorded'[k] \in Pids
      /\ RecordedHeld'
  BY <1>1, RecordedKeeps DEF Send
<1>3. CacheHeld' /\ FlowHeld' /\ EverOwned'
  BY HostKeeps DEF Send
<1>4. TypeOK'
  BY <1>2 DEF Send, IInv, TypeOK, zwbee, scan
<1>5. SocketsHeld' /\ Connected' /\ InodesUnique' /\ OwnersHeld'
  BY DEF Send, IInv, SocketsHeld, Connected, InodesUnique, OwnersHeld, zwbee, scan
<1> QED
  BY <1>2, <1>3, <1>4, <1>5 DEF IInv

LEMMA ShareKeeps ==
  ASSUME IInv, NEW p \in Pids, NEW s \in sockets, Share(p, s)
  PROVE  IInv'
<1> DEFINE t == [s EXCEPT !.pids = @ \cup {p}]
<1>1. s \in Socket
  BY DEF IInv, TypeOK
<1>2. /\ t \in Socket /\ t.pids = s.pids \cup {p}
      /\ t.inode = s.inode /\ t.local = s.local /\ t.peer = s.peer
  BY <1>1 DEF Socket
<1>3. sockets' = (sockets \ {s}) \cup {t} /\ held' = held \cup {<<p, s.local>>}
      /\ UNCHANGED <<inodes, recorded, zwbee>>
  BY DEF Share
<1> HIDE DEF t
<1>4. held \subseteq held'
  BY <1>3
<1>5. CacheHeld' /\ FlowHeld' /\ EverOwned'
  BY <1>3, <1>4, HostKeeps
<1>6. SocketsHeld'
  BY <1>2, <1>3 DEF IInv, SocketsHeld
<1>7. Connected'
  BY <1>2, <1>3 DEF IInv, Connected
<1>8. InodesUnique'
  BY <1>2, <1>3 DEF IInv, InodesUnique, zwbee, scan
<1>9. OwnersHeld'
  BY <1>2, <1>3 DEF IInv, OwnersHeld, zwbee, scan
<1>10. RecordedHeld'
  BY <1>3, <1>4 DEF IInv, RecordedHeld
<1>11. sockets' \subseteq Socket /\ held' \subseteq Pids \X Local
  <2>1. s.local \in Local
    BY <1>1 DEF Socket
  <2> QED
    BY <1>2, <1>3, <2>1 DEF IInv, TypeOK
<1>12. TypeOK'
  BY <1>3, <1>11 DEF IInv, TypeOK, zwbee, scan
<1> QED
  BY <1>5, <1>6, <1>7, <1>8, <1>9, <1>10, <1>12 DEF IInv

LEMMA CloseKeeps ==
  ASSUME IInv, NEW p \in Pids, NEW s \in sockets, Close(p, s)
  PROVE  IInv'
<1> DEFINE t == [s EXCEPT !.pids = @ \ {p}]
<1>1. s \in Socket
  BY DEF IInv, TypeOK
<1>2. /\ t \in Socket /\ t.pids \subseteq s.pids
      /\ t.inode = s.inode /\ t.local = s.local /\ t.peer = s.peer
  BY <1>1 DEF Socket
<1>3. sockets' \subseteq sockets \cup {t}
      /\ UNCHANGED <<inodes, recorded, held, zwbee>>
  BY DEF Close
<1> HIDE DEF t
<1>4. CacheHeld' /\ FlowHeld' /\ EverOwned'
  BY <1>3, HostKeeps
<1>5. SocketsHeld'
  BY <1>2, <1>3 DEF IInv, SocketsHeld
<1>6. Connected'
  BY <1>2, <1>3 DEF IInv, Connected
<1>7. InodesUnique'
  <2>1. \A u \in sockets' : \E v \in sockets : u.inode = v.inode /\ u.local = v.local
    BY <1>2, <1>3
  <2> QED
    BY <1>3, <2>1 DEF IInv, InodesUnique, zwbee, scan
<1>8. OwnersHeld'
  BY <1>2, <1>3 DEF IInv, OwnersHeld, zwbee, scan
<1>9. RecordedHeld'
  BY <1>3 DEF IInv, RecordedHeld
<1>10. TypeOK'
  BY <1>2, <1>3 DEF IInv, TypeOK, zwbee, scan
<1> QED
  BY <1>4, <1>5, <1>6, <1>7, <1>8, <1>9, <1>10 DEF IInv

LEMMA EvictKeeps ==
  ASSUME IInv, NEW c \in Connection, Evict(c)
  PROVE  IInv'
<1>1. DOMAIN recorded' \subseteq DOMAIN recorded
      /\ \A k \in DOMAIN recorded' : recorded'[k] = recorded[k]
  BY DEF Evict
<1>2. UNCHANGED <<sockets, inodes, held, zwbee>>
  BY DEF Evict
<1>3. CacheHeld' /\ FlowHeld' /\ EverOwned'
  BY <1>2, HostKeeps
<1>4. RecordedHeld'
  BY <1>1, <1>2 DEF IInv, RecordedHeld
<1>5. TypeOK'
  BY <1>1, <1>2 DEF IInv, TypeOK, zwbee, scan
<1>6. SocketsHeld' /\ Connected' /\ InodesUnique' /\ OwnersHeld'
  BY <1>2 DEF IInv, SocketsHeld, Connected, InodesUnique, OwnersHeld, zwbee, scan
<1> QED
  BY <1>3, <1>4, <1>5, <1>6 DEF IInv

-----------------------------------------------------------------------------
\* zwbee only reads the host.
LEMMA ZwbeeKeeps ==
  ASSUME IInv, UNCHANGED host,
         owners' \subseteq (1..MaxSockets) \X Pids,
         OwnersHeld', \A o \in owners' : o[1] <= inodes,
         unread' \subseteq Pids, due' \in BOOLEAN,
         pc' \in {"ready", "owners", "tables", "again"},
         cache' \subseteq Entry, CacheHeld',
         flow' \in [Packet -> Pids \cup {Nobody}],
         last' \in [packet : Packet, pid : Pids \cup {Nobody}],
         FlowHeld', EverOwned'
  PROVE  IInv'
<1>1. TypeOK'
  BY DEF IInv, TypeOK, host
<1>2. SocketsHeld' /\ Connected' /\ InodesUnique' /\ RecordedHeld'
  BY DEF IInv, SocketsHeld, Connected, InodesUnique, RecordedHeld, host
<1> QED
  BY <1>1, <1>2 DEF IInv

\* What has not been read or attributed stays true.
LEMMA OwnersUntouched ==
  ASSUME IInv, UNCHANGED host, UNCHANGED owners \/ owners' = {}
  PROVE  /\ owners' \subseteq (1..MaxSockets) \X Pids
         /\ OwnersHeld' /\ \A o \in owners' : o[1] <= inodes
<1>1. CASE UNCHANGED owners
  BY <1>1 DEF IInv, TypeOK, OwnersHeld, InodesUnique, host
<1>2. CASE owners' = {}
  BY <1>2 DEF OwnersHeld
<1> QED
  BY <1>1, <1>2

LEMMA CacheUntouched ==
  ASSUME IInv, UNCHANGED host, UNCHANGED cache
  PROVE  cache' \subseteq Entry /\ CacheHeld'
BY DEF IInv, TypeOK, CacheHeld, host

LEMMA FlowUntouched ==
  ASSUME IInv, UNCHANGED host, UNCHANGED <<flow, last>>
  PROVE  /\ flow' \in [Packet -> Pids \cup {Nobody}]
         /\ last' \in [packet : Packet, pid : Pids \cup {Nobody}]
         /\ FlowHeld' /\ EverOwned'
<1>1. held' = held /\ flow' = flow /\ last' = last
  BY DEF host
<1>2. FlowHeld'
  BY <1>1 DEF IInv, FlowHeld, Owned
<1>3. EverOwned'
  BY <1>1 DEF IInv, EverOwned
<1> QED
  BY <1>1, <1>2, <1>3 DEF IInv, TypeOK

\* The packet at hand is attributed to a pid that held its port.
LEMMA AttributedKeeps ==
  ASSUME IInv, UNCHANGED host, NEW p \in Packet, NEW pid \in Pids \cup {Nobody},
         pid # Nobody => Owned(p, pid), Attribute(p, pid),
         UNCHANGED owners \/ owners' = {}, unread' \subseteq Pids,
         due' \in BOOLEAN, pc' \in {"ready", "owners", "tables", "again"},
         cache' \subseteq Entry, CacheHeld'
  PROVE  IInv'
<1>1. UNCHANGED held
  BY DEF host
<1>2. /\ flow' \in [Packet -> Pids \cup {Nobody}]
      /\ last' \in [packet : Packet, pid : Pids \cup {Nobody}]
      /\ FlowHeld' /\ EverOwned'
  BY <1>1, AttributeKeeps
<1> QED
  BY <1>2, OwnersUntouched, ZwbeeKeeps

LEMMA HandleKeeps ==
  ASSUME IInv, NEW p \in Packet, Handle(p)
  PROVE  IInv'
<1>1. /\ UNCHANGED <<host, cache, due, scan>> /\ pc' = "ready"
      /\ owners' = owners /\ unread' = unread
  BY DEF Handle, scan
<1>2. cache' \subseteq Entry /\ CacheHeld' /\ unread' \subseteq Pids /\ due' \in BOOLEAN
  BY <1>1, CacheUntouched DEF IInv, TypeOK
<1>3. PICK pid \in Pids \cup {Nobody} :
        Attribute(p, pid) /\ (pid # Nobody => Resolves(p, pid))
  BY DEF Handle
<1>4. pid # Nobody => Owned(p, pid)
  BY <1>3, ResolvesOwned
<1> QED
  BY <1>1, <1>2, <1>3, <1>4, AttributedKeeps

LEMMA LookAgainKeeps ==
  ASSUME IInv, LookAgain
  PROVE  IInv'
<1>1. /\ UNCHANGED <<host, cache, due, scan>> /\ pc' = "ready"
      /\ owners' = owners /\ unread' = unread
  BY DEF LookAgain, scan
<1>2. cache' \subseteq Entry /\ CacheHeld' /\ unread' \subseteq Pids /\ due' \in BOOLEAN
  BY <1>1, CacheUntouched DEF IInv, TypeOK
<1>3. PICK pid \in Pids \cup {Nobody} :
        /\ Attribute(last.packet, pid)
        /\ pid # Nobody => Resolves(last.packet, pid)
  BY DEF LookAgain
<1>4. last.packet \in Packet
  BY DEF IInv, TypeOK
<1>5. pid # Nobody => Owned(last.packet, pid)
  BY <1>3, <1>4, ResolvesOwned
<1> QED
  BY <1>1, <1>2, <1>3, <1>4, <1>5, AttributedKeeps

LEMMA RebuildKeeps ==
  ASSUME IInv, NEW p \in Packet, Rebuild(p)
  PROVE  IInv'
<1>1. /\ UNCHANGED <<host, cache, due, owners, flow>> /\ pc' = "owners"
      /\ unread' = Pids /\ last' = [packet |-> p, pid |-> Nobody]
  BY DEF Rebuild
<1>2. EverOwned' /\ last' \in [packet : Packet, pid : Pids \cup {Nobody}]
  BY <1>1 DEF EverOwned
<1>3. FlowHeld' /\ flow' \in [Packet -> Pids \cup {Nobody}] /\ due' \in BOOLEAN
  BY <1>1 DEF IInv, TypeOK, FlowHeld, Owned, host
<1> QED
  BY <1>1, <1>2, <1>3, OwnersUntouched, CacheUntouched, ZwbeeKeeps

\* What the scan finds of process p, p has.
LEMMA ReadProcessKeeps ==
  ASSUME IInv, NEW p \in Pids, ReadProcess(p)
  PROVE  IInv'
<1>1. /\ UNCHANGED <<host, cache, due, flow, last>> /\ pc' = "owners"
      /\ unread' \subseteq Pids /\ due' \in BOOLEAN
  BY DEF ReadProcess, IInv, TypeOK
<1>2. /\ flow' \in [Packet -> Pids \cup {Nobody}]
      /\ last' \in [packet : Packet, pid : Pids \cup {Nobody}]
      /\ FlowHeld' /\ EverOwned' /\ cache' \subseteq Entry /\ CacheHeld'
  BY <1>1, CacheUntouched, FlowUntouched
<1>3. \A o \in owners' : o \in owners \/ (o[2] = p /\ o[1] \in Finds(p) /\ o = <<o[1], p>>)
  BY DEF ReadProcess
<1>4. \A i \in Finds(p) : \E s \in sockets : s.inode = i /\ p \in s.pids
  BY DEF Finds
<1>5. \A i \in Finds(p) : i \in 1..MaxSockets /\ i <= inodes
  BY <1>4 DEF IInv, TypeOK, Socket, InodesUnique
<1>6. owners' \subseteq (1..MaxSockets) \X Pids /\ \A o \in owners' : o[1] <= inodes
  BY <1>3, <1>5 DEF IInv, TypeOK, InodesUnique
<1>7. ASSUME NEW o \in owners', NEW s \in sockets, s.inode = o[1]
      PROVE  <<o[2], s.local>> \in held
  <2>1. CASE o \in owners
    BY <1>7, <2>1 DEF IInv, OwnersHeld
  <2>2. CASE o[2] = p /\ o[1] \in Finds(p)
    <3>1. PICK t \in sockets : t.inode = o[1] /\ p \in t.pids
      BY <1>4, <2>2
    <3>2. t.local = s.local
      BY <1>7, <3>1 DEF IInv, InodesUnique
    <3> QED
      BY <2>2, <3>1, <3>2 DEF IInv, SocketsHeld
  <2> QED
    BY <1>3, <2>1, <2>2
<1>8. OwnersHeld'
  BY <1>1, <1>7 DEF OwnersHeld, host
<1> QED
  BY <1>1, <1>2, <1>6, <1>8, ZwbeeKeeps

LEMMA RebuildFailsKeeps ==
  ASSUME IInv, RebuildFails
  PROVE  IInv'
<1>1. /\ UNCHANGED <<host, cache, due>> /\ pc' = "ready"
      /\ owners' = {} /\ unread' = {} /\ Attribute(last.packet, Nobody)
  BY DEF RebuildFails
<1>2. cache' \subseteq Entry /\ CacheHeld' /\ due' \in BOOLEAN /\ last.packet \in Packet
  BY <1>1, CacheUntouched DEF IInv, TypeOK
<1> QED
  BY <1>1, <1>2, AttributedKeeps

LEMMA ResetKeeps ==
  ASSUME IInv, Reset
  PROVE  IInv'
<1>1. /\ UNCHANGED <<host, due, owners, unread, flow, last>> /\ pc' = "tables"
      /\ cache' = {}
  BY DEF Reset, scan
<1>2. cache' \subseteq Entry /\ CacheHeld' /\ due' \in BOOLEAN /\ unread' \subseteq Pids
  BY <1>1 DEF CacheHeld, IInv, TypeOK
<1> QED
  BY <1>1, <1>2, OwnersUntouched, FlowUntouched, ZwbeeKeeps

\* An entry with an owner pairs the owner's inode with a socket that has it.
LEMMA ReadTablesKeeps ==
  ASSUME IInv, ReadTables
  PROVE  IInv'
<1>1. PICK ok \in BOOLEAN, read \in SUBSET sockets :
        /\ cache' = {[local |-> s.local, peer |-> s.peer, pid |-> OwnerOf(s.inode)] :
                        s \in read}
        /\ IF ok
           THEN pc' = "again" /\ UNCHANGED <<flow, last>>
           ELSE pc' = "ready" /\ Attribute(last.packet, Nobody)
  BY DEF ReadTables
<1>2. /\ UNCHANGED host /\ owners' = {} /\ unread' \subseteq Pids /\ due' \in BOOLEAN
      /\ last.packet \in Packet
  BY DEF ReadTables, IInv, TypeOK
<1>3. \A i : OwnerOf(i) # Nobody => <<i, OwnerOf(i)>> \in owners /\ OwnerOf(i) \in Pids
  <2>1. \A i \in Known : \E p \in Pids : <<i, p>> \in owners
    BY DEF Known, IInv, TypeOK
  <2> QED
    BY <2>1 DEF OwnerOf
<1>4. \A s \in sockets :
        /\ OwnerOf(s.inode) \in Pids \cup {Nobody}
        /\ OwnerOf(s.inode) # Nobody => <<OwnerOf(s.inode), s.local>> \in held
  <2> SUFFICES ASSUME NEW s \in sockets, OwnerOf(s.inode) # Nobody
               PROVE  OwnerOf(s.inode) \in Pids
                      /\ <<OwnerOf(s.inode), s.local>> \in held
    OBVIOUS
  <2> DEFINE o == <<s.inode, OwnerOf(s.inode)>>
  <2>1. o \in owners /\ OwnerOf(s.inode) \in Pids
    BY <1>3
  <2>2. o[1] = s.inode /\ o[2] = OwnerOf(s.inode)
    OBVIOUS
  <2> HIDE DEF o
  <2> QED
    BY <2>1, <2>2 DEF IInv, OwnersHeld
<1>5. \A m \in cache' : \E s \in sockets :
        m = [local |-> s.local, peer |-> s.peer, pid |-> OwnerOf(s.inode)]
  BY <1>1
<1>6. cache' \subseteq Entry
  <2>1. \A s \in sockets : s.local \in Local /\ s.peer \in Endpoint \cup {NoPeer}
    BY DEF IInv, TypeOK, Socket
  <2>2. ASSUME NEW s \in sockets
        PROVE  [local |-> s.local, peer |-> s.peer, pid |-> OwnerOf(s.inode)] \in Entry
    <3>1. OwnerOf(s.inode) \in Pids \cup {Nobody}
      BY <1>4
    <3> QED
      BY <2>1, <3>1 DEF Entry
  <2> QED
    BY <1>5, <2>2
<1>7. CacheHeld'
  BY <1>2, <1>4, <1>5 DEF CacheHeld, host
<1>8. CASE pc' = "again" /\ UNCHANGED <<flow, last>>
  BY <1>2, <1>6, <1>7, <1>8, OwnersUntouched, FlowUntouched, ZwbeeKeeps
<1>9. CASE pc' = "ready" /\ Attribute(last.packet, Nobody)
  BY <1>2, <1>6, <1>7, <1>9, AttributedKeeps
<1> QED
  BY <1>1, <1>8, <1>9

LEMMA PassKeeps ==
  ASSUME IInv, Pass
  PROVE  IInv'
<1>1. /\ UNCHANGED <<host, cache, owners, unread, flow, last>>
      /\ pc' = "ready" /\ due' = TRUE
  BY DEF Pass, scan
<1>2. unread' \subseteq Pids
  BY <1>1 DEF IInv, TypeOK
<1> QED
  BY <1>1, <1>2, OwnersUntouched, CacheUntouched, FlowUntouched, ZwbeeKeeps

LEMMA ForgetKeeps ==
  ASSUME IInv, NEW p \in Packet, Forget(p)
  PROVE  IInv'
<1>1. /\ UNCHANGED <<host, cache, owners, unread, due, last>> /\ pc' = "ready"
      /\ flow' = [flow EXCEPT ![p] = Nobody]
  BY DEF Forget, scan
<1>2. unread' \subseteq Pids /\ due' \in BOOLEAN
      /\ last' \in [packet : Packet, pid : Pids \cup {Nobody}]
      /\ flow' \in [Packet -> Pids \cup {Nobody}]
  BY <1>1 DEF IInv, TypeOK
<1>3. FlowHeld'
  BY <1>1 DEF IInv, TypeOK, FlowHeld, Owned, host
<1>4. EverOwned'
  BY <1>1 DEF IInv, EverOwned, host
<1> QED
  BY <1>1, <1>2, <1>3, <1>4, OwnersUntouched, CacheUntouched, ZwbeeKeeps

-----------------------------------------------------------------------------
LEMMA InitInv == Init => IInv
<1> SUFFICES ASSUME Init PROVE IInv
  OBVIOUS
<1>1. last.packet \in Packet /\ last.pid = Nobody
      /\ last \in [packet : Packet, pid : Pids \cup {Nobody}]
  BY DEF Init
<1>2. DOMAIN recorded = {}
  BY DEF Init
<1>3. flow \in [Packet -> Pids \cup {Nobody}] /\ \A p \in Packet : flow[p] = Nobody
  BY DEF Init
<1>4. TypeOK
  BY <1>1, <1>2, <1>3, OwnerAssumption DEF Init, TypeOK
<1>5. SocketsHeld /\ Connected /\ InodesUnique /\ RecordedHeld /\ OwnersHeld /\ CacheHeld
  BY <1>2 DEF Init, SocketsHeld, Connected, InodesUnique, RecordedHeld, OwnersHeld, CacheHeld
<1>6. FlowHeld /\ EverOwned
  BY <1>1, <1>3 DEF FlowHeld, EverOwned
<1> QED
  BY <1>4, <1>5, <1>6 DEF IInv

LEMMA StepInv == IInv /\ [Next]_vars => IInv'
<1> SUFFICES ASSUME IInv, [Next]_vars PROVE IInv'
  OBVIOUS
<1>1. ASSUME NEW p \in Pids, NEW l \in Local, Listen(p, l) PROVE IInv'
  BY <1>1, ListenKeeps
<1>2. ASSUME NEW p \in Pids, NEW c \in Connection, Connect(p, c) \/ Accept(p, c)
      PROVE  IInv'
  BY <1>2, ConnectedKeeps DEF Connect, Accept
<1>3. ASSUME NEW p \in Pids, NEW s \in sockets, Send(p, s) PROVE IInv'
  BY <1>3, SendKeeps
<1>4. ASSUME NEW p \in Pids, NEW s \in sockets, Share(p, s) PROVE IInv'
  BY <1>4, ShareKeeps
<1>5. ASSUME NEW p \in Pids, NEW s \in sockets, Close(p, s) PROVE IInv'
  BY <1>5, CloseKeeps
<1>6. ASSUME NEW c \in Connection, Evict(c) PROVE IInv'
  BY <1>6, EvictKeeps
<1>7. ASSUME NEW p \in Packet, Handle(p) PROVE IInv'
  BY <1>7, HandleKeeps
<1>8. ASSUME NEW p \in Packet, Rebuild(p) PROVE IInv'
  BY <1>8, RebuildKeeps
<1>9. ASSUME NEW p \in Packet, Forget(p) PROVE IInv'
  BY <1>9, ForgetKeeps
<1>10. ASSUME NEW p \in Pids, ReadProcess(p) PROVE IInv'
  BY <1>10, ReadProcessKeeps
<1>11. CASE RebuildFails \/ Reset \/ ReadTables \/ LookAgain \/ Pass
  BY <1>11, RebuildFailsKeeps, ResetKeeps, ReadTablesKeeps, LookAgainKeeps, PassKeeps
<1>12. CASE UNCHANGED vars
  <2>1. UNCHANGED <<host, cache, owners, unread, due, pc, flow, last>>
    BY <1>12 DEF vars, zwbee, scan
  <2>2. unread' \subseteq Pids /\ due' \in BOOLEAN
        /\ pc' \in {"ready", "owners", "tables", "again"}
    BY <2>1 DEF IInv, TypeOK
  <2> QED
    BY <2>1, <2>2, OwnersUntouched, CacheUntouched, FlowUntouched, ZwbeeKeeps
<1> QED
  BY <1>1, <1>2, <1>3, <1>4, <1>5, <1>6, <1>7, <1>8, <1>9, <1>10, <1>11, <1>12
     DEF Next, Processes

LEMMA Invariant == Spec => []IInv
BY InitInv, StepInv, PTL DEF Spec

\* Every variable keeps its type.
THEOREM TypeCorrect == Spec => []TypeOK
<1>1. IInv => TypeOK
  BY DEF IInv
<1> QED
  BY <1>1, Invariant, PTL

\* A packet is only ever put down to a process that has had a socket on the
\* packet's local port (resolve_packet_meta, process_tcp_flow).
THEOREM OwnersEverOwned == Spec => []EverOwned
<1>1. IInv => EverOwned
  BY DEF IInv
<1> QED
  BY <1>1, Invariant, PTL
=============================================================================
