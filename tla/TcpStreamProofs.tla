--------------------------- MODULE TcpStreamProofs ---------------------------
(***************************************************************************)
(* Proofs about TcpStream for every set of conversations and every limit.  *)
(* Under every fault: the parsers never report or consume more than the    *)
(* buffer holds, bodies keep to their limit, and the records of a          *)
(* direction come out in the order of its messages.  Under Undisturbed:    *)
(* records are whole.  Under Unforgotten, on HTTP and on TLS connections:  *)
(* they are reported when their last unit arrives, and nothing is left in  *)
(* a buffer.  Under Addressed: a response is not reported under the name   *)
(* of an earlier exchange, and buffers, segments and parsers together      *)
(* implement ExchangeLog.                                                  *)
(***************************************************************************)
EXTENDS TcpStream, FiniteSetTheorems, WellFoundedInduction, TLAPS

Held == Unit \cup {Pad}

-----------------------------------------------------------------------------
(* Buffers.                                                                *)
LEMMA SubSeqHeld ==
  ASSUME NEW b \in Seq(Held), NEW m \in Nat \ {0}, NEW n \in 0..Len(b)
  PROVE  /\ SubSeq(b, m, n) \in Seq(Held)
         /\ Len(SubSeq(b, m, n)) = IF m <= n THEN n - m + 1 ELSE 0
  OBVIOUS

LEMMA FrontHeld ==
  ASSUME NEW b \in Seq(Held), NEW n \in Nat
  PROVE  Front(b, n) \in Seq(Held)
<1>1. Lesser(n, Len(b)) \in 0..Len(b)
  BY DEF Lesser
<1> QED
  BY <1>1, SubSeqHeld DEF Front

LEMMA CappedHeld ==
  ASSUME NEW b \in Seq(Held), NEW seg \in Seq(Held)
  PROVE  Capped(b, seg) \in Seq(Held) /\ Len(Capped(b, seg)) <= BufCap
<1> DEFINE all == b \o seg
<1>1. all \in Seq(Held) /\ Len(all) \in Nat
  OBVIOUS
<1>2. BufCap \in Nat \ {0}
  BY TcpStreamAssumption
<1>3. CASE Len(all) <= BufCap
  BY <1>1, <1>3 DEF Capped
<1>4. CASE ~(Len(all) <= BufCap)
  <2>1. Capped(b, seg) = SubSeq(all, Len(all) - BufCap + 1, Len(all))
    BY <1>4 DEF Capped
  <2> HIDE DEF all
  <2>2. Len(all) - BufCap + 1 \in Nat \ {0} /\ Len(all) \in 0..Len(all)
    BY <1>1, <1>2, <1>4
  <2> QED
    BY <1>1, <1>2, <2>1, <2>2, SubSeqHeld
<1> QED
  BY <1>3, <1>4

LEMMA RestHeld ==
  ASSUME NEW b \in Seq(Held), NEW n \in Nat
  PROVE  Rest(b, n) \in Seq(Held) /\ Len(Rest(b, n)) <= Len(b)
<1>1. CASE n >= Len(b)
  BY <1>1 DEF Rest
<1>2. CASE ~(n >= Len(b))
  <2>1. n + 1 \in Nat \ {0} /\ Len(b) \in 0..Len(b)
    OBVIOUS
  <2> QED
    BY <1>2, <2>1, SubSeqHeld DEF Rest
<1> QED
  BY <1>1, <1>2

-----------------------------------------------------------------------------
(* The parser.                                                             *)

\* A non-empty set of numbers has a least one.
LEMMA LeastExists ==
  ASSUME NEW S \in SUBSET Nat, S # {}
  PROVE  \E i \in S : \A j \in S : i <= j
<1>1. PICK i \in S : \A j \in S : ~(<<j, i>> \in OpToRel(<, Nat))
  BY NatLessThanWellFounded, WFMin
<1>2. \A j \in S : ~(j < i)
  BY <1>1, Zenon DEF OpToRel
<1>3. \A j \in S : i <= j
  BY <1>2
<1> QED
  BY <1>3

LEMMA HeaderEndBound ==
  ASSUME NEW b \in Seq(Held)
  PROVE  /\ HeaderEnd(b) \in 0..Len(b)
         /\ HeaderEnd(b) > 0 => b[HeaderEnd(b)].kind \in {"head", "last"}
<1> DEFINE blank == {i \in 1..Len(b) : b[i].kind \in {"head", "last"}}
<1>1. CASE blank = {}
  BY <1>1 DEF HeaderEnd
<1>2. CASE blank # {}
  <2>1. \E i \in blank : \A j \in blank : i <= j
    <3>1. blank \in SUBSET Nat
      OBVIOUS
    <3> HIDE DEF blank
    <3> QED
      BY <1>2, <3>1, LeastExists
  <2>2. HeaderEnd(b) \in blank
    BY <1>2, <2>1 DEF HeaderEnd
  <2> QED
    BY <2>2
<1> QED
  BY <1>1, <1>2


(* What a field of a unit of a buffer holds, when the unit has it.         *)
LEMMA UnitFields ==
  ASSUME NEW b \in Seq(Held), NEW i \in 1..Len(b), b[i].kind # "pad"
  PROVE  b[i] \in Unit /\ b[i].of \in Message /\ b[i].of.size \in Nat
<1>1. b[i] \in Held
  OBVIOUS
<1>2. b[i] # Pad
  BY DEF Pad
<1> QED
  BY <1>1, <1>2, TcpStreamAssumption DEF Held, Unit, Message

LEMMA AsIntType ==
  ASSUME NEW n \in Nat
  PROVE  AsInt(n) \in Int
<1>1. /\ n + IntMax + 1 \in Int
      /\ 2 * (IntMax + 1) \in Int /\ 2 * (IntMax + 1) > 0
      /\ IntMax + 1 \in Int
  BY TcpStreamAssumption
<1>2. (n + IntMax + 1) % (2 * (IntMax + 1)) \in Int
  BY <1>1
<1> QED
  BY <1>1, <1>2 DEF AsInt

LEMMA ContentLengthType ==
  ASSUME NEW b \in Seq(Held), HeaderEnd(b) > 0
  PROVE  ContentLength(b) \in Int
<1>1. HeaderEnd(b) \in 1..Len(b) /\ b[HeaderEnd(b)].kind # "pad"
  BY HeaderEndBound
<1>2. b[HeaderEnd(b)].of.size \in Nat
  BY <1>1, UnitFields
<1>3. AsInt(b[HeaderEnd(b)].of.size) \in Int
  BY <1>2, AsIntType
<1> QED
  BY <1>3 DEF ContentLength

LEMMA ChunksEndType ==
  ASSUME NEW b \in Seq(Held), HeaderEnd(b) > 0
  PROVE  ChunksEnd(b) = 0 \/ ChunksEnd(b) \in HeaderEnd(b) + 1..Len(b)
BY HeaderEndBound DEF ChunksEnd

(* A record never shows more of a body than the buffer holds behind the    *)
(* header, nor more than -max-body-size allows.                            *)
LEMMA KeptBound ==
  ASSUME NEW b \in Seq(Held), Parses(b)
  PROVE  /\ Kept(b) \in 0..Available(b)
         /\ BodyLimit < 0 => Kept(b) = 0
         /\ BodyLimit > 0 => Kept(b) <= BodyLimit
<1>1. /\ HeaderEnd(b) \in 1..Len(b) /\ BodyLimit \in Int
      /\ Available(b) \in Nat /\ Available(b) = Len(b) - HeaderEnd(b)
  BY HeaderEndBound, TcpStreamAssumption DEF Parses, Available
<1>2. ContentLength(b) \in Int
  BY <1>1, ContentLengthType
<1>3. CASE NoBody(b) \/ BodyLimit < 0
  BY <1>1, <1>3 DEF Kept
<1>4. CASE ~(NoBody(b) \/ BodyLimit < 0) /\ Declares(b, {"chunked"})
  <2>1. ChunksEnd(b) \in HeaderEnd(b) + 1..Len(b)
    BY <1>1, <1>4, ChunksEndType DEF Parses, BodyReady
  <2> QED
    BY <1>1, <1>4, <2>1 DEF Kept, Lesser
<1>5. CASE ~(NoBody(b) \/ BodyLimit < 0) /\ ~Declares(b, {"chunked"})
  <2>1. BodyLimit = 0 => Available(b) >= ContentLength(b)
    BY <1>5 DEF Parses, BodyReady
  <2> QED
    BY <1>1, <1>2, <1>5, <2>1 DEF Kept, Lesser
<1> QED
  BY <1>3, <1>4, <1>5

(* A complete message is at least one unit and at most the buffer: the     *)
(* loop of process_tcp_flow moves on in every round, and never past the    *)
(* end.                                                                    *)
LEMMA ConsumedBound ==
  ASSUME NEW b \in Seq(Held), Parses(b)
  PROVE  Consumed(b) \in 1..Len(b)
<1>1. HeaderEnd(b) \in 1..Len(b) /\ Len(b) \in Nat
  BY HeaderEndBound DEF Parses
<1>2. ContentLength(b) \in Int
  BY <1>1, ContentLengthType
<1>3. Kept(b) \in Nat
  BY <1>1, KeptBound DEF Available
<1>4. CASE NoBody(b)
  BY <1>1, <1>4 DEF Consumed, Lesser
<1>5. CASE ~NoBody(b) /\ Declares(b, {"chunked"})
  <2>1. ~(BodyLimit < 0) => ChunksEnd(b) \in HeaderEnd(b) + 1..Len(b)
    BY <1>1, <1>5, ChunksEndType DEF Parses, BodyReady
  <2> QED
    BY <1>1, <1>5, <2>1 DEF Consumed, Lesser
<1>6. CASE ~NoBody(b) /\ ~Declares(b, {"chunked"})
  BY <1>1, <1>2, <1>3, <1>6 DEF Consumed, Lesser
<1> QED
  BY <1>4, <1>5, <1>6

-----------------------------------------------------------------------------
IInv == TypeOK /\ WithinLimit

LEMMA OnConnectionType ==
  ASSUME NEW c \in Nat, NEW s \in Seq(Unit)
  PROVE  OnConnection(c, s) \in Seq(Unit)
<1>1. ASSUME NEW u \in Unit PROVE [u EXCEPT !.conn = c] \in Unit
  BY DEF Unit
<1>2. \A i \in 1..Len(s) : s[i] \in Unit
  OBVIOUS
<1>3. \A i \in 1..Len(s) : [s[i] EXCEPT !.conn = c] \in Unit
  BY <1>1, <1>2
<1> QED
  BY <1>3 DEF OnConnection

LEMMA InitInv == Init => IInv
<1> SUFFICES ASSUME Init PROVE IInv
  OBVIOUS
<1>1. PICK c \in Conversations : wire = [d \in Dir |-> OnConnection(1, c[d])]
  BY DEF Init
<1>2. \A d \in Dir : c[d] \in Seq(Unit)
  BY TcpStreamAssumption
<1>3. wire \in [Dir -> Seq(Unit)]
  BY <1>1, <1>2, OnConnectionType
<1>4. TypeOK
  BY <1>3, TcpStreamAssumption DEF Init, TypeOK
<1>5. WithinLimit
  BY DEF Init, WithinLimit
<1> QED
  BY <1>4, <1>5 DEF IInv

(* Writing a record of the right type, with a body within the limit, keeps *)
(* what is said of the records.                                            *)
LEMMA WriteKeeps ==
  ASSUME IInv, NEW d \in Dir, NEW r \in Record, Write(d, r),
         BodyLimit < 0 => r.kept = 0,
         BodyLimit > 0 => r.kept <= BodyLimit
  PROVE  out' \in [Dir -> Seq(Record)] /\ WithinLimit'
<1>1. out \in [Dir -> Seq(Record)]
  BY DEF IInv, TypeOK
<1>2. out' = [out EXCEPT ![d] = Append(out[d], r)]
  BY DEF Write
<1>3. out' \in [Dir -> Seq(Record)]
  BY <1>1, <1>2
<1>4. ASSUME NEW e \in Dir, NEW i \in 1..Len(out'[e])
      PROVE  /\ BodyLimit < 0 => out'[e][i].kept = 0
             /\ BodyLimit > 0 => out'[e][i].kept <= BodyLimit
  <2>1. CASE e = d
    <3>1. out'[d] = Append(out[d], r) /\ out[d] \in Seq(Record)
      BY <1>1, <1>2
    <3>2. /\ i \in 1..Len(out[d]) + 1
          /\ out'[d][i] = IF i <= Len(out[d]) THEN out[d][i] ELSE r
      BY <1>4, <2>1, <3>1
    <3> QED
      BY <2>1, <3>1, <3>2 DEF IInv, WithinLimit
  <2>2. CASE e # d
    BY <1>1, <1>2, <1>4, <2>2 DEF IInv, WithinLimit
  <2> QED
    BY <2>1, <2>2
<1> QED
  BY <1>3, <1>4 DEF WithinLimit

LEMMA RecordAtHeld ==
  ASSUME NEW b \in Seq(Held), NEW o \in 1..Len(b), b[o].kind = "rec"
  PROVE  RecordAt(b, o) \in Seq(Held)
<1>1. b[o].of.size \in Nat
  BY UnitFields
<1>2. Lesser(Len(b), o + b[o].of.size) \in 0..Len(b)
  BY <1>1 DEF Lesser
<1> QED
  BY <1>2, SubSeqHeld DEF RecordAt

(* What process_tcp_flow does before its HTTP loop: only these variables   *)
(* are its own, the others are the network's.                              *)
Flows ==
  /\ buf \in [Dir -> Seq(Held)]
  /\ \A d \in Dir : Len(buf[d]) <= BufCap
  /\ tls \in [Dir -> BOOLEAN]
  /\ domain \in [Dir -> Hosts \cup {None}]
  /\ loop \in Dir \cup {"idle"}
  /\ out \in [Dir -> Seq(Record)]

LEMMA HelloKeeps ==
  ASSUME IInv, NEW d \in Dir, NEW side, NEW b \in Seq(Held),
         NEW o \in 1..Len(b), b[o].kind = "rec", Hello(d, b, o, side)
  PROVE  Flows' /\ WithinLimit'
<1> DEFINE name == IF side = "request" THEN b[o].of.host ELSE Inherited(d)
           r == [id |-> <<b[o].conn, b[o].nth>>, proto |-> "tls",
                 took |-> RecordAt(b, o), kept |-> 0, host |-> name]
<1>1. Peer(d) \in Dir
  BY DEF Peer, Dir
<1>2. b[o] \in Unit /\ b[o].of \in Message
  BY UnitFields
<1>3. name \in Hosts \cup {None}
  BY <1>1, <1>2 DEF IInv, TypeOK, Inherited, Message
<1>4. b[o].conn \in Nat /\ b[o].nth \in Nat
  BY <1>2 DEF Unit
<1>5. r \in Record
  BY <1>3, <1>4, RecordAtHeld DEF Record, Held
<1>6. Write(d, r)
  BY DEF Hello
<1>7. r.kept = 0
  OBVIOUS
<1> HIDE DEF r
<1>8. out' \in [Dir -> Seq(Record)] /\ WithinLimit'
  BY <1>5, <1>6, <1>7, WriteKeeps, TcpStreamAssumption
<1>9. /\ buf' = [buf EXCEPT ![d] = <<>>]
      /\ tls' = [tls EXCEPT ![d] = TRUE]
      /\ domain' \in {domain, [domain EXCEPT ![d] = name]}
      /\ loop' = loop
  BY DEF Hello
<1> HIDE DEF name
<1>10. Flows
  BY DEF IInv, TypeOK, Flows, Held
<1>11. buf' \in [Dir -> Seq(Held)] /\ \A e \in Dir : Len(buf'[e]) <= BufCap
  <2>1. <<>> \in Seq(Held) /\ Len(<<>>) = 0 /\ 0 <= BufCap
    BY TcpStreamAssumption
  <2> QED
    BY <1>9, <1>10, <2>1 DEF Flows
<1>12. tls' \in [Dir -> BOOLEAN]
  BY <1>9, <1>10 DEF Flows
<1>13. domain' \in [Dir -> Hosts \cup {None}]
  BY <1>3, <1>9, <1>10 DEF Flows
<1>14. loop' \in Dir \cup {"idle"}
  BY <1>9, <1>10 DEF Flows
<1> QED
  BY <1>8, <1>11, <1>12, <1>13, <1>14 DEF Flows

LEMMA ReceiveKeeps ==
  ASSUME IInv, NEW d \in Dir, NEW seg \in Seq(Held), Receive(d, seg)
  PROVE  Flows' /\ WithinLimit'
<1> DEFINE b == Capped(buf[d], Front(seg, PktCap))
<1>1. b \in Seq(Held) /\ Len(b) <= BufCap
  <2>1. Front(seg, PktCap) \in Seq(Held)
    BY FrontHeld, TcpStreamAssumption
  <2>2. buf[d] \in Seq(Held)
    BY DEF IInv, TypeOK, Held
  <2> QED
    BY <2>1, <2>2, CappedHeld
<1>2. \A side : \A o \in FindHandshake(b, side) :
        o \in 1..Len(b) /\ b[o].kind = "rec"
  BY DEF FindHandshake
<1>3. CASE \E side : \E o \in FindHandshake(b, side) : Hello(d, b, o, side)
  BY <1>1, <1>2, <1>3, HelloKeeps
<1>4. CASE /\ buf' = [buf EXCEPT ![d] = b]
           /\ loop' = d
           /\ UNCHANGED <<tls, domain, out>>
  <2> HIDE DEF b
  <2> QED
    BY <1>1, <1>4 DEF IInv, TypeOK, Flows, WithinLimit, Held
<1> QED
  BY <1>3, <1>4 DEF Receive

(* One round of the HTTP loop.                                             *)
LEMMA ParseOneKeeps ==
  ASSUME IInv, NEW d \in Dir, ParseOne(d)
  PROVE  Flows' /\ WithinLimit'
<1> DEFINE b == buf[d]
           n == Consumed(b)
           name == IF HostOf(b) # None THEN HostOf(b) ELSE Inherited(d)
           r == [id |-> <<b[1].conn, b[1].nth>>, proto |-> "http",
                 took |-> SubSeq(b, 1, n), kept |-> Kept(b), host |-> name]
<1>1. Flows /\ b \in Seq(Held) /\ Parses(b)
  BY DEF IInv, TypeOK, Flows, Held, ParseOne
<1>2. n \in 1..Len(b)
  BY <1>1, ConsumedBound
<1>3. b[1] \in Unit
  <2>1. 1 \in 1..Len(b) /\ b[1].kind # "pad"
    BY <1>1, <1>2 DEF Parses, StartsMessage
  <2> QED
    BY <1>1, <2>1, UnitFields
<1>4. HostOf(b) \in Hosts \cup {None}
  <2>1. HeaderEnd(b) \in 1..Len(b) /\ b[HeaderEnd(b)].kind # "pad"
    BY <1>1, HeaderEndBound DEF Parses
  <2>2. b[HeaderEnd(b)].of \in Message
    BY <1>1, <2>1, UnitFields
  <2> QED
    BY <2>2 DEF HostOf, Message
<1>5. name \in Hosts \cup {None}
  <2>1. Peer(d) \in Dir
    BY DEF Peer, Dir
  <2> QED
    BY <1>1, <1>4, <2>1 DEF Flows, Inherited
<1>6. /\ Kept(b) \in Nat
      /\ BodyLimit < 0 => Kept(b) = 0
      /\ BodyLimit > 0 => Kept(b) <= BodyLimit
  BY <1>1, KeptBound, HeaderEndBound DEF Available
<1>7. SubSeq(b, 1, n) \in Seq(Held)
  BY <1>1, <1>2, SubSeqHeld
<1>8. b[1].conn \in Nat /\ b[1].nth \in Nat
  BY <1>3 DEF Unit
<1>9. Rest(b, n) \in Seq(Held) /\ Len(Rest(b, n)) <= Len(b)
  BY <1>1, <1>2, RestHeld
<1>10. /\ Write(d, r)
       /\ buf' = [buf EXCEPT ![d] = Rest(b, n)]
       /\ domain' \in {domain, [domain EXCEPT ![d] = name]}
       /\ tls' = [tls EXCEPT ![d] = FALSE]
       /\ loop' = loop
  BY DEF ParseOne
<1>11. Len(b) <= BufCap /\ Len(b) \in Nat /\ BufCap \in Nat
  BY <1>1, TcpStreamAssumption DEF Flows
<1> HIDE DEF b, n, name
<1>12. r \in Record /\ r.kept = Kept(b)
  BY <1>5, <1>6, <1>7, <1>8 DEF Record, Held
<1> HIDE DEF r
<1>13. out' \in [Dir -> Seq(Record)] /\ WithinLimit'
  BY <1>6, <1>10, <1>12, WriteKeeps
<1>14. buf' \in [Dir -> Seq(Held)] /\ \A e \in Dir : Len(buf'[e]) <= BufCap
  <2>1. Len(Rest(b, n)) <= BufCap
    BY <1>9, <1>11
  <2> QED
    BY <1>1, <1>9, <1>10, <2>1 DEF Flows
<1>15. tls' \in [Dir -> BOOLEAN]
  BY <1>1, <1>10 DEF Flows
<1>16. domain' \in [Dir -> Hosts \cup {None}]
  BY <1>1, <1>5, <1>10 DEF Flows
<1>17. loop' \in Dir \cup {"idle"}
  BY <1>1, <1>10 DEF Flows
<1> QED
  BY <1>13, <1>14, <1>15, <1>16, <1>17 DEF Flows

-----------------------------------------------------------------------------
(* What belongs to the network.                                            *)
Carried ==
  /\ conn \in 1..faults + 1
  /\ wire \in [Dir -> Seq(Unit)]
  /\ sent \in [Dir -> Nat]
  /\ \A d \in Dir : sent[d] <= Len(wire[d])
  /\ faults \in 0..MaxFaults /\ resent \in 0..faults

LEMMA Parts == IInv <=> Flows /\ Carried /\ WithinLimit
BY DEF IInv, TypeOK, Flows, Carried, Held

LEMMA PartsPrime == Flows' /\ Carried' /\ WithinLimit' => IInv'
BY DEF IInv, TypeOK, Flows, Carried, Held

LEMMA WireHeld ==
  ASSUME IInv, NEW d \in Dir, NEW i \in Nat \ {0}, NEW j \in 0..Len(wire[d])
  PROVE  SubSeq(wire[d], i, j) \in Seq(Held)
<1>1. wire[d] \in Seq(Held)
  BY DEF IInv, TypeOK, Held
<1> QED
  BY <1>1, SubSeqHeld

LEMMA FaultCarried ==
  ASSUME IInv, NEW kind, Fault(kind), conn' = conn, UNCHANGED <<wire, sent>>,
         resent' \in {resent, resent + 1}
  PROVE  Carried'
BY TcpStreamAssumption DEF IInv, TypeOK, Carried, Fault

LEMMA SegmentSent ==
  ASSUME IInv, NEW d \in Dir, NEW j \in 1..Len(wire[d]), Segment(d, j),
         wire' = wire
  PROVE  sent' \in [Dir -> Nat] /\ \A e \in Dir : sent'[e] <= Len(wire'[e])
BY DEF IInv, TypeOK, Segment

LEMMA DeliverKeeps ==
  ASSUME IInv, NEW d \in Dir, NEW j \in 1..Len(wire[d]), Deliver(d, j)
  PROVE  IInv'
<1>1. sent[d] + 1 \in Nat \ {0}
  BY DEF IInv, TypeOK
<1>2. SubSeq(wire[d], sent[d] + 1, j) \in Seq(Held)
  BY <1>1, WireHeld
<1>3. Flows' /\ WithinLimit'
  BY <1>2, ReceiveKeeps DEF Deliver
<1>4. sent' \in [Dir -> Nat] /\ \A e \in Dir : sent'[e] <= Len(wire'[e])
  BY SegmentSent DEF Deliver
<1>5. Carried'
  BY <1>4 DEF IInv, TypeOK, Carried, Deliver
<1> QED
  BY <1>3, <1>5, PartsPrime

LEMMA FlowsStay ==
  ASSUME IInv, UNCHANGED <<flow, loop, out>>
  PROVE  Flows' /\ WithinLimit'
BY Parts DEF Flows, WithinLimit, flow

LEMMA LoseKeeps ==
  ASSUME IInv, NEW d \in Dir, NEW j \in 1..Len(wire[d]), Lose(d, j)
  PROVE  IInv'
<1>1. Flows' /\ WithinLimit'
  BY FlowsStay DEF Lose
<1>2. sent' \in [Dir -> Nat] /\ \A e \in Dir : sent'[e] <= Len(wire'[e])
  BY SegmentSent DEF Lose
<1>3. wire' \in [Dir -> Seq(Unit)] /\ conn' \in 1..faults' + 1
      /\ faults' \in 0..MaxFaults /\ resent' \in 0..faults'
  BY TcpStreamAssumption DEF IInv, TypeOK, Lose, Fault
<1>4. Carried'
  BY <1>2, <1>3 DEF Carried
<1> QED
  BY <1>1, <1>4, PartsPrime

LEMMA RetransmitKeeps ==
  ASSUME IInv, NEW d \in Dir, NEW i \in 1..sent[d], NEW j \in 1..sent[d],
         Retransmit(d, i, j)
  PROVE  IInv'
<1>1. i \in Nat \ {0} /\ j \in 0..Len(wire[d])
  BY DEF IInv, TypeOK
<1>2. SubSeq(wire[d], i, j) \in Seq(Held)
  BY <1>1, WireHeld
<1>3. Flows' /\ WithinLimit'
  BY <1>2, ReceiveKeeps DEF Retransmit
<1>4. Carried'
  BY FaultCarried DEF Retransmit
<1> QED
  BY <1>3, <1>4, PartsPrime

LEMMA PaddedAckKeeps ==
  ASSUME IInv, NEW d \in Dir, PaddedAck(d)
  PROVE  IInv'
<1>1. <<Pad>> \in Seq(Held)
  BY DEF Held
<1>2. Flows' /\ WithinLimit'
  BY <1>1, ReceiveKeeps DEF PaddedAck
<1>3. Carried'
  BY FaultCarried DEF PaddedAck
<1> QED
  BY <1>2, <1>3, PartsPrime

LEMMA ForgetKeeps ==
  ASSUME IInv, NEW d \in Dir, Forget(d)
  PROVE  IInv'
<1>1. Flows /\ WithinLimit
  BY Parts
<1>2. <<>> \in Seq(Held) /\ Len(<<>>) = 0 /\ 0 <= BufCap
  BY TcpStreamAssumption
<1>3. /\ buf' = [buf EXCEPT ![d] = <<>>]
      /\ tls' = [tls EXCEPT ![d] = FALSE]
      /\ domain' = [domain EXCEPT ![d] = None]
      /\ UNCHANGED <<loop, out>>
  BY DEF Forget
<1>4. buf' \in [Dir -> Seq(Held)] /\ \A e \in Dir : Len(buf'[e]) <= BufCap
  BY <1>1, <1>2, <1>3 DEF Flows
<1>5. Flows'
  BY <1>1, <1>3, <1>4 DEF Flows
<1>6. WithinLimit'
  BY <1>1, <1>3 DEF WithinLimit
<1>7. Carried'
  BY FaultCarried DEF Forget
<1> QED
  BY <1>5, <1>6, <1>7, PartsPrime

LEMMA ReuseKeeps ==
  ASSUME IInv, Reuse
  PROVE  IInv'
<1>1. Flows' /\ WithinLimit'
  BY FlowsStay DEF Reuse
<1>2. conn \in 1..faults + 1 /\ faults \in 0..MaxFaults /\ MaxFaults \in Nat
  BY TcpStreamAssumption DEF IInv, TypeOK
<1>3. PICK c \in Conversations :
        wire' = [d \in Dir |-> OnConnection(conn + 1, c[d])]
  BY DEF Reuse
<1>4. \A d \in Dir : c[d] \in Seq(Unit)
  BY TcpStreamAssumption
<1>5. wire' \in [Dir -> Seq(Unit)]
  BY <1>2, <1>3, <1>4, OnConnectionType
<1>6. sent' = [d \in Dir |-> 0]
  BY DEF Reuse
<1>7. conn' \in 1..faults' + 1 /\ faults' \in 0..MaxFaults
  BY <1>2 DEF Reuse, Fault
<1>8. resent' \in 0..faults'
  BY <1>2 DEF IInv, TypeOK, Reuse, Fault
<1>9. sent' \in [Dir -> Nat] /\ \A d \in Dir : sent'[d] <= Len(wire'[d])
  <2>1. \A d \in Dir : Len(wire'[d]) \in Nat
    BY <1>5
  <2> QED
    BY <1>6, <2>1
<1>10. Carried'
  BY <1>5, <1>7, <1>8, <1>9 DEF Carried
<1> QED
  BY <1>1, <1>10, PartsPrime

LEMMA NetStays ==
  ASSUME IInv, UNCHANGED net
  PROVE  Carried'
BY DEF IInv, TypeOK, Carried, net

LEMMA LeaveKeeps ==
  ASSUME IInv, NEW d \in Dir, Leave(d)
  PROVE  IInv'
<1>1. Carried'
  BY NetStays DEF Leave
<1>2. Flows' /\ WithinLimit'
  BY Parts DEF Leave, Flows, WithinLimit, flow
<1> QED
  BY <1>1, <1>2, PartsPrime

LEMMA StepInv == IInv /\ [Next]_vars => IInv'
<1> SUFFICES ASSUME IInv, [Next]_vars PROVE IInv'
  OBVIOUS
<1>1. ASSUME NEW d \in Dir, NEW j \in 1..Len(wire[d]), Deliver(d, j) PROVE IInv'
  BY <1>1, DeliverKeeps
<1>2. ASSUME NEW d \in Dir, NEW j \in 1..Len(wire[d]), Lose(d, j) PROVE IInv'
  BY <1>2, LoseKeeps
<1>3. ASSUME NEW d \in Dir, NEW i \in 1..sent[d], NEW j \in 1..sent[d],
             Retransmit(d, i, j)
      PROVE  IInv'
  BY <1>3, RetransmitKeeps
<1>4. ASSUME NEW d \in Dir, PaddedAck(d) PROVE IInv'
  BY <1>4, PaddedAckKeeps
<1>5. ASSUME NEW d \in Dir, Forget(d) PROVE IInv'
  BY <1>5, ForgetKeeps
<1>6. CASE Reuse
  BY <1>6, ReuseKeeps
<1>7. ASSUME NEW d \in Dir, ParseOne(d) PROVE IInv'
  <2>1. Carried'
    BY <1>7, NetStays DEF ParseOne
  <2> QED
    BY <1>7, <2>1, ParseOneKeeps, PartsPrime
<1>8. ASSUME NEW d \in Dir, Leave(d) PROVE IInv'
  BY <1>8, LeaveKeeps
<1>9. CASE UNCHANGED vars
  BY <1>9, FlowsStay, NetStays, PartsPrime DEF vars
<1> QED
  BY <1>1, <1>2, <1>3, <1>4, <1>5, <1>6, <1>7, <1>8, <1>9 DEF Next

(* However a peer frames, resends, pads or loses its messages, no flow     *)
(* buffers more than FLOW_BUFFER_CAP, and every record is well formed:     *)
(* process_tcp_flow never parses or consumes past the end of its buffer.   *)
THEOREM TypeCorrect == Spec => []TypeOK
<1>1. IInv => TypeOK
  BY DEF IInv
<1> QED
  BY InitInv, StepInv, <1>1, PTL DEF Spec

(* No record shows more of a body than -max-body-size allows, for every    *)
(* limit and every stream.                                                 *)
THEOREM BodiesWithinLimit == Spec => []WithinLimit
<1>1. IInv => WithinLimit
  BY DEF IInv
<1> QED
  BY InitInv, StepInv, <1>1, PTL DEF Spec
-----------------------------------------------------------------------------
(* Induction over the natural numbers, for a set instead of a predicate.   *)
LEMMA Induction ==
  ASSUME NEW T, 0 \in T, \A n \in Nat : n \in T => n + 1 \in T
  PROVE  Nat \subseteq T
<1>1. SUFFICES ASSUME Nat \ T # {}
               PROVE  FALSE
  OBVIOUS
<1>2. PICK x \in Nat \ T : \A y \in Nat \ T : x <= y
  <2> DEFINE S == Nat \ T
  <2>1. S \in SUBSET Nat /\ S # {}
    BY <1>1
  <2> HIDE DEF S
  <2>2. \E x \in S : \A y \in S : x <= y
    BY <2>1, LeastExists
  <2> QED
    BY <2>2 DEF S
<1>3. x # 0 /\ x - 1 \in Nat /\ ~(x <= x - 1)
  BY <1>2
<1>4. x - 1 \in T
  BY <1>2, <1>3
<1> QED
  BY <1>2, <1>3, <1>4

-----------------------------------------------------------------------------
(* The order of the units of a stream.                                     *)
\* Where a unit stands in what its end says; padding stands nowhere.
Spots == [real : BOOLEAN, conn : Nat, nth : Nat, at : Nat]

Spot(u) ==
  IF u.kind = "pad" THEN [real |-> FALSE, conn |-> 0, nth |-> 0, at |-> 0]
  ELSE [real |-> TRUE, conn |-> u.conn, nth |-> u.nth, at |-> u.at]

Earlier(p, q) ==
  \/ p.conn < q.conn
  \/ p.conn = q.conn /\ (p.nth < q.nth \/ (p.nth = q.nth /\ p.at < q.at))

LEMMA EarlierTransitive ==
  ASSUME NEW p \in Spots, NEW q \in Spots, NEW r \in Spots, Earlier(p, q), Earlier(q, r)
  PROVE  Earlier(p, r)
BY DEF Earlier, Spots

LEMMA SpotType ==
  ASSUME NEW u \in Held
  PROVE  /\ Spot(u) \in Spots
         /\ Spot(u).real <=> u \in Unit
         /\ u \in Unit => /\ Spot(u).conn = u.conn /\ Spot(u).nth = u.nth
                          /\ Spot(u).at = u.at
<1>1. CASE u \in Unit
  <2>1. u.kind # "pad" /\ u.conn \in Nat /\ u.nth \in Nat /\ u.at \in Nat
    BY <1>1 DEF Unit
  <2>2. Spot(u) = [real |-> TRUE, conn |-> u.conn, nth |-> u.nth, at |-> u.at]
    BY <2>1 DEF Spot
  <2> QED
    BY <1>1, <2>1, <2>2 DEF Spots
<1>2. CASE u = Pad
  <2>1. u.kind = "pad"
    BY <1>2 DEF Pad
  <2>2. Spot(u) = [real |-> FALSE, conn |-> 0, nth |-> 0, at |-> 0]
    BY <2>1 DEF Spot
  <2>3. u \notin Unit
    BY <2>1 DEF Unit
  <2> QED
    BY <2>2, <2>3 DEF Spots
<1> QED
  BY <1>1, <1>2 DEF Held

\* The units of a script stand one behind the other.
LEMMA ScriptOrder ==
  ASSUME NEW s \in Seq(Unit), Script(s), NEW c, \A i \in 1..Len(s) : s[i].conn = c,
         NEW i \in 1..Len(s), NEW j \in 1..Len(s), i < j
  PROVE  Earlier(Spot(s[i]), Spot(s[j]))
<1> DEFINE T == {k \in Nat : i + (k + 1) <= Len(s) =>
                               Earlier(Spot(s[i]), Spot(s[i + (k + 1)]))}
<1>1. ASSUME NEW h \in 1..Len(s) - 1
      PROVE  Earlier(Spot(s[h]), Spot(s[h + 1]))
  <2>1. /\ s[h] \in Unit /\ s[h + 1] \in Unit /\ s[h] \in Held /\ s[h + 1] \in Held
        /\ s[h].conn = c /\ s[h + 1].conn = c
    BY DEF Held
  <2>2. FollowsIn(s[h], s[h + 1])
    BY DEF Script
  <2>3. /\ s[h].nth \in Nat /\ s[h + 1].nth \in Nat
        /\ s[h].at \in Nat /\ s[h + 1].at \in Nat
    BY <2>1 DEF Unit
  <2>4. s[h].nth < s[h + 1].nth \/ (s[h].nth = s[h + 1].nth /\ s[h].at < s[h + 1].at)
    BY <2>2, <2>3 DEF FollowsIn
  <2> QED
    BY <2>1, <2>4, SpotType DEF Earlier
<1>2. 0 \in T
  BY <1>1
<1>3. ASSUME NEW k \in Nat, k \in T
      PROVE  k + 1 \in T
  <2>1. SUFFICES ASSUME i + (k + 2) <= Len(s)
                 PROVE  Earlier(Spot(s[i]), Spot(s[i + (k + 2)]))
    OBVIOUS
  <2>2. Earlier(Spot(s[i]), Spot(s[i + (k + 1)]))
    BY <2>1, <1>3
  <2>3. i + (k + 1) \in 1..Len(s) - 1
    BY <2>1
  <2>4. Earlier(Spot(s[i + (k + 1)]), Spot(s[(i + (k + 1)) + 1]))
    BY <2>3, <1>1
  <2>5. (i + (k + 1)) + 1 = i + (k + 2)
    OBVIOUS
  <2>6. s[i] \in Held /\ s[i + (k + 1)] \in Held /\ s[i + (k + 2)] \in Held
    BY <2>1 DEF Held
  <2>7. Spot(s[i]) \in Spots /\ Spot(s[i + (k + 1)]) \in Spots /\ Spot(s[i + (k + 2)]) \in Spots
    BY <2>6, SpotType
  <2> QED
    BY <2>2, <2>4, <2>5, <2>7, EarlierTransitive
<1> HIDE DEF T
<1>4. Nat \subseteq T
  BY <1>2, <1>3, Induction
<1>5. j - i - 1 \in T
  BY <1>4
<1>6. i + ((j - i - 1) + 1) = j
  OBVIOUS
<1> QED
  BY <1>5, <1>6 DEF T

-----------------------------------------------------------------------------
(* A trail of spots is in order up to n steps back: each spot has a number *)
(* of at most n, its epoch, which never falls, and within an epoch the     *)
(* spots follow each other.                                                *)
InEpochs(f, t, len) ==
  \A i, j \in 1..len :
    i < j /\ t[i].real /\ t[j].real =>
      f[i] < f[j] \/ (f[i] = f[j] /\ Earlier(t[i], t[j]))

Epochs(t, len, n) == \E f \in [1..len -> 0..n] : InEpochs(f, t, len)

\* Part of a trail is no more out of order.
LEMMA PartOfTrail ==
  ASSUME NEW t, NEW len \in Nat, NEW n \in Nat, Epochs(t, len, n),
         NEW part, NEW less \in Nat, NEW g \in [1..less -> 1..len],
         \A i, j \in 1..less : i < j => g[i] < g[j],
         \A i \in 1..less : part[i] = t[g[i]]
  PROVE  Epochs(part, less, n)
<1>1. PICK f \in [1..len -> 0..n] : InEpochs(f, t, len)
  BY DEF Epochs
<1> DEFINE e == [i \in 1..less |-> f[g[i]]]
<1>2. e \in [1..less -> 0..n]
  OBVIOUS
<1>3. ASSUME NEW i \in 1..less, NEW j \in 1..less, i < j, part[i].real, part[j].real
      PROVE  e[i] < e[j] \/ (e[i] = e[j] /\ Earlier(part[i], part[j]))
  <2>1. g[i] \in 1..len /\ g[j] \in 1..len /\ g[i] < g[j] /\ t[g[i]].real /\ t[g[j]].real
    BY <1>3
  <2> QED
    BY <1>1, <2>1 DEF InEpochs
<1> QED
  BY <1>2, <1>3 DEF Epochs, InEpochs

\* What follows a trail in order may follow it in the same epoch if it stands
\* behind all of it, and in any case in a new one.
Continues(all, more, t, len, n, m) ==
  /\ \A i \in 1..len : all[i] = t[i]
  /\ \A i, j \in len + 1..len + more :
       i < j /\ all[i].real /\ all[j].real => Earlier(all[i], all[j])
  /\ m = n => \A i \in 1..len, j \in len + 1..len + more :
                t[i].real /\ all[j].real => Earlier(t[i], all[j])

LEMMA LongerTrail ==
  ASSUME NEW t, NEW len \in Nat, NEW n \in Nat, Epochs(t, len, n),
         NEW all, NEW more \in Nat, NEW m \in {n, n + 1},
         Continues(all, more, t, len, n, m)
  PROVE  Epochs(all, len + more, m)
<1> USE DEF Continues
<1>1. PICK f \in [1..len -> 0..n] : InEpochs(f, t, len)
  BY DEF Epochs
<1> DEFINE e == [i \in 1..len + more |-> IF i <= len THEN f[i] ELSE m]
<1>2. e \in [1..len + more -> 0..m]
  OBVIOUS
<1>3. ASSUME NEW i \in 1..len + more, NEW j \in 1..len + more, i < j,
             all[i].real, all[j].real
      PROVE  e[i] < e[j] \/ (e[i] = e[j] /\ Earlier(all[i], all[j]))
  <2>1. CASE j <= len
    <3>1. i \in 1..len /\ j \in 1..len /\ t[i].real /\ t[j].real
      BY <1>3, <2>1
    <3> QED
      BY <1>1, <1>3, <3>1 DEF InEpochs
  <2>2. CASE i <= len /\ ~(j <= len)
    <3>1. i \in 1..len /\ j \in len + 1..len + more /\ t[i].real
      BY <1>3, <2>2
    <3>2. e[i] = f[i] /\ f[i] \in 0..n /\ e[j] = m
      BY <1>3, <2>2, <3>1
    <3>3. m = n => Earlier(all[i], all[j])
      BY <1>3, <3>1
    <3> QED
      BY <3>2, <3>3
  <2>3. CASE ~(i <= len)
    <3>1. i \in len + 1..len + more /\ j \in len + 1..len + more
      BY <1>3, <2>3
    <3>2. e[i] = m /\ e[j] = m
      BY <1>3, <2>3
    <3> QED
      BY <1>3, <3>1, <3>2
  <2> QED
    BY <2>1, <2>2, <2>3
<1> QED
  BY <1>2, <1>3 DEF Epochs, InEpochs
(* How often a trail of message starts steps back is bounded by its epochs. *)
LEMMA StepsBack ==
  ASSUME NEW t, NEW len \in Nat, NEW n \in Nat, Epochs(t, len, n),
         \A i \in 1..len : t[i].real
  PROVE  LET back == {i \in 1..len - 1 : ~Earlier(t[i], t[i + 1])}
         IN  IsFiniteSet(back) /\ Cardinality(back) <= n
<1> DEFINE back == {i \in 1..len - 1 : ~Earlier(t[i], t[i + 1])}
<1>1. PICK f \in [1..len -> 0..n] : InEpochs(f, t, len)
  BY DEF Epochs
<1> DEFINE h == [i \in back |-> f[i + 1]]
<1>2. \A i \in 1..len, j \in 1..len : i < j => f[i] <= f[j]
  BY <1>1 DEF InEpochs
<1>3. \A i \in back : i \in 1..len /\ i + 1 \in 1..len /\ f[i] < f[i + 1]
  BY <1>1 DEF InEpochs
<1>4. \A i \in back, j \in back : i < j => f[i + 1] < f[j + 1]
  <2>1. SUFFICES ASSUME NEW i \in back, NEW j \in back, i < j
                 PROVE  f[i + 1] < f[j + 1]
    OBVIOUS
  <2>2. i + 1 \in 1..len /\ j \in 1..len /\ f[j] < f[j + 1] /\ i + 1 <= j
        /\ j + 1 \in 1..len
    BY <1>3, <2>1
  <2>3. f[i + 1] <= f[j]
    BY <1>2, <2>2
  <2>4. f[i + 1] \in 0..n /\ f[j] \in 0..n /\ f[j + 1] \in 0..n
    BY <2>2
  <2> QED
    BY <2>2, <2>3, <2>4
<1>5. h \in [back -> 1..n]
  <2>1. ASSUME NEW i \in back
        PROVE  f[i + 1] \in 1..n
    <3>1. f[i] < f[i + 1] /\ f[i] \in 0..n /\ f[i + 1] \in 0..n
      BY <1>3
    <3> QED
      BY <3>1
  <2> QED
    BY <2>1
<1>6. \A i \in back, j \in back : h[i] = h[j] => i = j
  <2>1. SUFFICES ASSUME NEW i \in back, NEW j \in back, i # j
                 PROVE  h[i] # h[j]
    OBVIOUS
  <2>2. i \in Nat /\ j \in Nat /\ f[i + 1] \in 0..n /\ f[j + 1] \in 0..n
    BY <1>3
  <2>3. CASE i < j
    BY <1>4, <2>2, <2>3
  <2>4. CASE j < i
    BY <1>4, <2>2, <2>4
  <2> QED
    BY <2>1, <2>2, <2>3, <2>4
<1> HIDE DEF back, h
<1>7. h \in Injection(back, 1..n)
  BY <1>5, <1>6 DEF Injection, IsInjective
<1>8. IsFiniteSet(1..n) /\ Cardinality(1..n) = n
  <2>1. Cardinality(1..n) = IF 1 > n THEN 0 ELSE n - 1 + 1
    BY FS_Interval
  <2> QED
    BY <2>1, FS_Interval
<1>9. IsFiniteSet(back) /\ Cardinality(back) <= Cardinality(1..n)
  <2>1. IsFiniteSet(1..n)
    BY <1>8
  <2>2. ExistsInjection(back, 1..n)
    BY <1>7 DEF ExistsInjection
  <2> QED
    BY <1>7, <2>1, <2>2, FS_Injection
<1>10. IsFiniteSet(back) /\ Cardinality(back) <= n
  BY <1>8, <1>9
<1> QED
  BY <1>10 DEF back

-----------------------------------------------------------------------------
(* The trail of a direction: its records, each by the unit it starts with, *)
(* and then the units in its buffer.                                       *)
StartOf(r) == [real |-> TRUE, conn |-> r.id[1], nth |-> r.id[2], at |-> 1]

Trail(o, b) ==
  [i \in 1..Len(o) + Len(b) |->
     IF i <= Len(o) THEN StartOf(o[i]) ELSE Spot(b[i - Len(o)])]

IsPart(part, less, t, len) ==
  \E g \in [1..less -> 1..len] :
    /\ \A i, j \in 1..less : i < j => g[i] < g[j]
    /\ \A i \in 1..less : part[i] = t[g[i]]

LEMMA TrailType ==
  ASSUME NEW o \in Seq(Record), NEW b \in Seq(Held)
  PROVE  /\ Len(o) \in Nat /\ Len(b) \in Nat
         /\ \A i \in 1..Len(o) + Len(b) : Trail(o, b)[i] \in Spots
<1>1. SUFFICES ASSUME NEW i \in 1..Len(o) + Len(b)
               PROVE  Trail(o, b)[i] \in Spots
  OBVIOUS
<1>2. CASE i <= Len(o)
  <2>1. o[i] \in Record
    BY <1>2
  <2>2. o[i].id[1] \in Nat /\ o[i].id[2] \in Nat
    BY <2>1 DEF Record
  <2> QED
    BY <1>2, <2>2 DEF Trail, StartOf, Spots
<1>3. CASE ~(i <= Len(o))
  <2>1. i - Len(o) \in 1..Len(b)
    BY <1>1, <1>3
  <2>2. b[i - Len(o)] \in Held
    BY <2>1
  <2> QED
    BY <1>3, <2>2, SpotType DEF Trail
<1> QED
  BY <1>2, <1>3

\* The buffer may lose its front.
LEMMA SuffixPart ==
  ASSUME NEW o \in Seq(Record), NEW all \in Seq(Held), NEW b \in Seq(Held),
         NEW k \in Nat, Len(b) + k <= Len(all), \A i \in 1..Len(b) : b[i] = all[i + k]
  PROVE  IsPart(Trail(o, b), Len(o) + Len(b), Trail(o, all), Len(o) + Len(all))
<1> DEFINE less == Len(o) + Len(b)
           len == Len(o) + Len(all)
           g == [i \in 1..less |-> IF i <= Len(o) THEN i ELSE i + k]
<1>1. Len(o) \in Nat /\ Len(b) \in Nat /\ Len(all) \in Nat
  OBVIOUS
<1>2. g \in [1..less -> 1..len]
  BY <1>1
<1>3. \A i, j \in 1..less : i < j => g[i] < g[j]
  BY <1>1
<1>4. ASSUME NEW i \in 1..less
      PROVE  Trail(o, b)[i] = Trail(o, all)[g[i]]
  <2>1. CASE i <= Len(o)
    BY <1>1, <2>1 DEF Trail
  <2>2. CASE ~(i <= Len(o))
    <3>1. i - Len(o) \in 1..Len(b) /\ (i + k) - Len(o) = (i - Len(o)) + k /\ g[i] = i + k
          /\ i + k \in 1..len /\ ~(i + k <= Len(o))
      BY <1>1, <1>4, <2>2
    <3>2. b[i - Len(o)] = all[(i + k) - Len(o)]
      BY <3>1
    <3> QED
      BY <2>2, <3>1, <3>2 DEF Trail
  <2> QED
    BY <2>1, <2>2
<1> HIDE DEF g
<1> QED
  BY <1>2, <1>3, <1>4 DEF IsPart

\* A record takes the place of the unit it starts with; at least what is in
\* front of that unit, and the unit, leave the buffer.
LEMMA RecordPart ==
  ASSUME NEW o \in Seq(Record), NEW b \in Seq(Held), NEW r \in Record,
         NEW p \in 1..Len(b), Spot(b[p]) = StartOf(r),
         NEW rest \in Seq(Held), NEW q \in Nat, p <= q,
         rest = <<>> \/ Len(rest) + q <= Len(b),
         \A i \in 1..Len(rest) : rest[i] = b[i + q]
  PROVE  IsPart(Trail(Append(o, r), rest), Len(o) + 1 + Len(rest),
                Trail(o, b), Len(o) + Len(b))
<1> DEFINE less == Len(o) + 1 + Len(rest)
           len == Len(o) + Len(b)
           t == Trail(o, b)
           u == Trail(Append(o, r), rest)
           g == [i \in 1..less |-> IF i <= Len(o) THEN i
                                   ELSE IF i = Len(o) + 1 THEN Len(o) + p
                                   ELSE i - 1 + q]
<1>1. /\ Len(o) \in Nat /\ Len(b) \in Nat /\ Len(rest) \in Nat
      /\ rest = <<>> => Len(rest) = 0
  OBVIOUS
<1>2. /\ Len(Append(o, r)) = Len(o) + 1
      /\ \A i \in 1..Len(o) : Append(o, r)[i] = o[i]
      /\ Append(o, r)[Len(o) + 1] = r
  OBVIOUS
<1>3. g \in [1..less -> 1..len]
  <2>1. SUFFICES ASSUME NEW i \in 1..less
                 PROVE  g[i] \in 1..len
    OBVIOUS
  <2>2. CASE i > Len(o) + 1
    <3>1. Len(rest) # 0 /\ Len(rest) + q <= Len(b)
      BY <1>1, <2>1, <2>2
    <3> QED
      BY <1>1, <2>1, <2>2, <3>1
  <2>3. CASE ~(i > Len(o) + 1)
    BY <1>1, <2>1, <2>3
  <2> QED
    BY <2>2, <2>3
<1>4. \A i, j \in 1..less : i < j => g[i] < g[j]
  BY <1>1
<1>5. ASSUME NEW i \in 1..less
      PROVE  u[i] = t[g[i]]
  <2>0. g[i] \in 1..len
    BY <1>3, <1>5
  <2>1. CASE i <= Len(o)
    BY <1>1, <1>2, <1>5, <2>1 DEF Trail
  <2>2. CASE i = Len(o) + 1
    <3>1. u[i] = StartOf(r)
      BY <1>1, <1>2, <1>5, <2>2 DEF Trail
    <3>2. g[i] = Len(o) + p /\ ~(Len(o) + p <= Len(o)) /\ (Len(o) + p) - Len(o) = p
      BY <1>1, <1>5, <2>2
    <3>3. t[g[i]] = Spot(b[p])
      BY <2>0, <3>2 DEF Trail
    <3> QED
      BY <3>1, <3>3
  <2>3. CASE i > Len(o) + 1
    <3>1. i - (Len(o) + 1) \in 1..Len(rest) /\ g[i] = i - 1 + q /\ ~(i <= Len(o) + 1)
      BY <1>1, <1>5, <2>3
    <3>2. u[i] = Spot(rest[i - (Len(o) + 1)])
      BY <1>1, <1>2, <1>5, <3>1 DEF Trail
    <3>3. rest[i - (Len(o) + 1)] = b[(i - (Len(o) + 1)) + q]
      BY <3>1
    <3>4. (i - 1 + q) - Len(o) = (i - (Len(o) + 1)) + q /\ ~(i - 1 + q <= Len(o))
      BY <1>1, <1>5, <2>3
    <3>5. t[g[i]] = Spot(b[(i - (Len(o) + 1)) + q])
      BY <2>0, <3>1, <3>4 DEF Trail
    <3> QED
      BY <3>2, <3>3, <3>5
  <2> QED
    BY <1>1, <1>5, <2>1, <2>2, <2>3
<1> HIDE DEF g, u, t
<1>6. IsPart(u, less, t, len)
  BY <1>3, <1>4, <1>5 DEF IsPart
<1> QED
  BY <1>6 DEF u, t

LEMMA PartOfPart ==
  ASSUME NEW a, NEW la \in Nat, NEW b, NEW lb \in Nat, NEW c, NEW lc \in Nat,
         IsPart(a, la, b, lb), IsPart(b, lb, c, lc)
  PROVE  IsPart(a, la, c, lc)
<1>1. PICK g \in [1..la -> 1..lb] :
        /\ \A i, j \in 1..la : i < j => g[i] < g[j]
        /\ \A i \in 1..la : a[i] = b[g[i]]
  BY DEF IsPart
<1>2. PICK h \in [1..lb -> 1..lc] :
        /\ \A i, j \in 1..lb : i < j => h[i] < h[j]
        /\ \A i \in 1..lb : b[i] = c[h[i]]
  BY DEF IsPart
<1> DEFINE e == [i \in 1..la |-> h[g[i]]]
<1>3. e \in [1..la -> 1..lc]
  BY <1>1, <1>2
<1>4. \A i, j \in 1..la : i < j => e[i] < e[j]
  BY <1>1, <1>2
<1>5. \A i \in 1..la : a[i] = c[e[i]]
  BY <1>1, <1>2
<1> HIDE DEF e
<1> QED
  BY <1>3, <1>4, <1>5 DEF IsPart

LEMMA PartEpochs ==
  ASSUME NEW t, NEW len \in Nat, NEW n \in Nat, Epochs(t, len, n),
         NEW part, NEW less \in Nat, IsPart(part, less, t, len)
  PROVE  Epochs(part, less, n)
<1>1. PICK g \in [1..less -> 1..len] :
        /\ \A i, j \in 1..less : i < j => g[i] < g[j]
        /\ \A i \in 1..less : part[i] = t[g[i]]
  BY DEF IsPart
<1>2. \A i, j \in 1..less : i < j => g[i] < g[j]
  BY <1>1
<1>3. \A i \in 1..less : part[i] = t[g[i]]
  BY <1>1
<1> QED
  BY <1>2, <1>3, PartOfTrail
-----------------------------------------------------------------------------
(* The order of the records, whatever goes wrong on the way.               *)

\* What is still to be said stands behind a trail: what follows the first n
\* units of the stream s, and every later connection than c.
Behind(t, len, c, s, n) ==
  \A i \in 1..len : t[i].real =>
    /\ t[i].conn <= c
    /\ \A k \in n + 1..Len(s) : Earlier(t[i], Spot(s[k]))

Starts(b) == \A i \in 1..Len(b) : b[i].kind \in {"start", "rec"} => b[i].at = 1

Said ==
  \A d \in Dir :
    Script(wire[d]) /\ \A i \in 1..Len(wire[d]) : wire[d][i].conn = conn

OrderedAt(d) ==
  LET t   == Trail(out[d], buf[d])
      len == Len(out[d]) + Len(buf[d])
  IN  Starts(buf[d]) /\ Epochs(t, len, resent) /\ Behind(t, len, conn, wire[d], sent[d])

OInv == IInv /\ Said /\ \A d \in Dir : OrderedAt(d)

LEMMA PartBehind ==
  ASSUME NEW t, NEW len \in Nat, NEW c, NEW s, NEW n, Behind(t, len, c, s, n),
         NEW part, NEW less \in Nat, IsPart(part, less, t, len)
  PROVE  Behind(part, less, c, s, n)
<1>1. PICK g \in [1..less -> 1..len] :
        /\ \A i, j \in 1..less : i < j => g[i] < g[j]
        /\ \A i \in 1..less : part[i] = t[g[i]]
  BY DEF IsPart
<1> QED
  BY <1>1 DEF Behind

LEMMA ScriptStarts ==
  ASSUME NEW s \in Seq(Unit), Script(s)
  PROVE  Starts(s)
<1>1. SUFFICES ASSUME NEW i \in 1..Len(s), s[i].kind \in {"start", "rec"}
               PROVE  s[i].at = 1
  BY DEF Starts
<1>2. s[i].kind = Kind(s[i].of, s[i].at)
  BY <1>1 DEF Script
<1> QED
  BY <1>1, <1>2 DEF Kind

\* What process_tcp_flow does with a packet: nothing changes its place.
LEMMA HelloOrder ==
  ASSUME NEW d \in Dir, out \in [Dir -> Seq(Record)], out' \in [Dir -> Seq(Record)],
         buf \in [Dir -> Seq(Held)], NEW b \in Seq(Held), Starts(b), NEW side,
         NEW o \in 1..Len(b), b[o].kind = "rec", Hello(d, b, o, side)
  PROVE  /\ IsPart(Trail(out'[d], buf'[d]), Len(out'[d]) + Len(buf'[d]),
                   Trail(out[d], b), Len(out[d]) + Len(b))
         /\ Starts(buf'[d])
<1> DEFINE name == IF side = "request" THEN b[o].of.host ELSE Inherited(d)
           r == [id |-> <<b[o].conn, b[o].nth>>, proto |-> "tls",
                 took |-> RecordAt(b, o), kept |-> 0, host |-> name]
<1>1. /\ out' = [out EXCEPT ![d] = Append(out[d], r)]
      /\ buf' = [buf EXCEPT ![d] = <<>>]
  BY DEF Hello, Write
<1>2. out'[d] = Append(out[d], r) /\ buf'[d] = <<>> /\ out[d] \in Seq(Record)
  BY <1>1
<1>3. b[o] \in Unit /\ b[o] \in Held
  BY UnitFields DEF Held
<1>4. Spot(b[o]) = StartOf(r)
  <2>1. Spot(b[o]) = [real |-> TRUE, conn |-> b[o].conn, nth |-> b[o].nth, at |-> 1]
    BY DEF Spot, Starts
  <2> QED
    BY <2>1 DEF StartOf
<1>5. r \in Record
  <2>1. out'[d] \in Seq(Record) /\ Len(out'[d]) = Len(out[d]) + 1 /\ Len(out[d]) \in Nat
        /\ out'[d][Len(out[d]) + 1] = r
    BY <1>2
  <2> QED
    BY <2>1
<1> HIDE DEF r
<1>6. Len(<<>>) = 0 /\ <<>> \in Seq(Held) /\ Len(out[d]) \in Nat
  BY <1>2
<1>7. IsPart(Trail(Append(out[d], r), <<>>), Len(out[d]) + 1 + Len(<<>>),
             Trail(out[d], b), Len(out[d]) + Len(b))
  <2>1. <<>> \in Seq(Held) /\ o \in Nat /\ o <= o /\ \A i \in 1..Len(<<>>) : <<>>[i] = b[i + o]
    BY <1>6
  <2> DEFINE rest == <<>>
  <2>2. rest = <<>> /\ rest \in Seq(Held) /\ \A i \in 1..Len(rest) : rest[i] = b[i + o]
    BY <2>1
  <2> HIDE DEF rest
  <2>3. IsPart(Trail(Append(out[d], r), rest), Len(out[d]) + 1 + Len(rest),
               Trail(out[d], b), Len(out[d]) + Len(b))
    BY <1>2, <1>4, <1>5, <2>1, <2>2, RecordPart
  <2> QED
    BY <2>3 DEF rest
<1>8. Len(out'[d]) = Len(out[d]) + 1
  BY <1>2
<1>9. Starts(buf'[d])
  BY <1>2 DEF Starts
<1> QED
  BY <1>2, <1>6, <1>7, <1>8, <1>9

LEMMA CappedSuffix ==
  ASSUME NEW b \in Seq(Held), NEW seg \in Seq(Held)
  PROVE  \E k \in Nat : /\ Len(Capped(b, seg)) + k = Len(b \o seg)
                        /\ \A i \in 1..Len(Capped(b, seg)) :
                             Capped(b, seg)[i] = (b \o seg)[i + k]
<1> DEFINE all == b \o seg
<1>1. all \in Seq(Held) /\ Len(all) \in Nat
  OBVIOUS
<1>2. BufCap \in Nat \ {0}
  BY TcpStreamAssumption
<1>3. CASE Len(all) <= BufCap
  <2>1. Capped(b, seg) = all
    BY <1>3 DEF Capped
  <2> HIDE DEF all
  <2>2. Len(Capped(b, seg)) + 0 = Len(all) /\ \A i \in 1..Len(all) : all[i] = all[i + 0]
    BY <1>1, <2>1
  <2> QED
    BY <2>1, <2>2 DEF all
<1>4. CASE ~(Len(all) <= BufCap)
  <2>1. Capped(b, seg) = SubSeq(all, Len(all) - BufCap + 1, Len(all))
    BY <1>4 DEF Capped
  <2> HIDE DEF all
  <2> DEFINE k == Len(all) - BufCap
  <2>2. k \in Nat /\ k + 1 \in Nat \ {0} /\ k + 1 <= Len(all)
    BY <1>1, <1>2, <1>4
  <2>3. Len(Capped(b, seg)) = Len(all) - k
    BY <1>1, <2>1, <2>2
  <2>4. \A i \in 1..Len(all) - k : Capped(b, seg)[i] = all[i + k]
    BY <1>1, <2>1, <2>2
  <2> HIDE DEF k
  <2>5. Len(Capped(b, seg)) + k = Len(all)
    BY <1>1, <2>2, <2>3
  <2> QED
    BY <2>2, <2>3, <2>4, <2>5 DEF all
<1> QED
  BY <1>3, <1>4

LEMMA ReceiveOrder ==
  ASSUME NEW d \in Dir, out \in [Dir -> Seq(Record)], out' \in [Dir -> Seq(Record)],
         buf \in [Dir -> Seq(Held)], Starts(buf[d]),
         NEW seg \in Seq(Held), Starts(seg), Receive(d, seg)
  PROVE  LET all == buf[d] \o Front(seg, PktCap)
         IN  /\ IsPart(Trail(out'[d], buf'[d]), Len(out'[d]) + Len(buf'[d]),
                       Trail(out[d], all), Len(out[d]) + Len(all))
             /\ Starts(buf'[d])
<1> DEFINE front == Front(seg, PktCap)
           all == buf[d] \o front
           b == Capped(buf[d], front)
<1>1. front \in Seq(Held)
  BY FrontHeld, TcpStreamAssumption
<1>2. buf[d] \in Seq(Held) /\ out[d] \in Seq(Record) /\ out'[d] \in Seq(Record)
  OBVIOUS
<1>3. b \in Seq(Held) /\ all \in Seq(Held)
  BY <1>1, <1>2, CappedHeld
<1>4. PICK k \in Nat : Len(b) + k = Len(all) /\ \A i \in 1..Len(b) : b[i] = all[i + k]
  BY <1>1, <1>2, CappedSuffix
<1>5. Starts(b)
  <2>1. \A i \in 1..Len(front) : front[i] = seg[i] /\ i \in 1..Len(seg)
    BY TcpStreamAssumption DEF Front, Lesser
  <2>2. Starts(front)
    BY <1>1, <2>1 DEF Starts
  <2>3. Starts(all)
    <3> HIDE DEF front
    <3>1. SUFFICES ASSUME NEW i \in 1..Len(all), all[i].kind \in {"start", "rec"}
                   PROVE  all[i].at = 1
      BY DEF Starts
    <3>2. CASE i <= Len(buf[d])
      <4>1. i \in 1..Len(buf[d]) /\ all[i] = buf[d][i]
        BY <1>1, <1>2, <3>1, <3>2
      <4> QED
        BY <3>1, <4>1 DEF Starts
    <3>3. CASE ~(i <= Len(buf[d]))
      <4>1. i - Len(buf[d]) \in 1..Len(front) /\ all[i] = front[i - Len(buf[d])]
        BY <1>1, <1>2, <3>1, <3>3
      <4> QED
        BY <2>2, <3>1, <4>1 DEF Starts
    <3> QED
      BY <3>2, <3>3
  <2> HIDE DEF all, b
  <2>4. SUFFICES ASSUME NEW i \in 1..Len(b), b[i].kind \in {"start", "rec"}
                 PROVE  b[i].at = 1
    BY DEF Starts
  <2>5. b[i] = all[i + k] /\ i + k \in 1..Len(all)
    BY <1>3, <1>4, <2>4
  <2> QED
    BY <2>3, <2>4, <2>5 DEF Starts
<1>6. IsPart(Trail(out[d], b), Len(out[d]) + Len(b), Trail(out[d], all), Len(out[d]) + Len(all))
  <2> HIDE DEF all, b
  <2>1. Len(b) + k <= Len(all)
    BY <1>3, <1>4
  <2> QED
    BY <1>2, <1>3, <1>4, <2>1, SuffixPart
<1>7. ASSUME NEW side, NEW o \in FindHandshake(b, side), Hello(d, b, o, side)
      PROVE  /\ IsPart(Trail(out'[d], buf'[d]), Len(out'[d]) + Len(buf'[d]),
                       Trail(out[d], b), Len(out[d]) + Len(b))
             /\ Starts(buf'[d])
  <2>1. o \in 1..Len(b) /\ b[o].kind = "rec"
    BY <1>7 DEF FindHandshake
  <2> HIDE DEF b
  <2> QED
    BY <1>3, <1>5, <1>7, <2>1, HelloOrder
<1>8. CASE \E side : \E o \in FindHandshake(b, side) : Hello(d, b, o, side)
  <2>1. /\ IsPart(Trail(out'[d], buf'[d]), Len(out'[d]) + Len(buf'[d]),
                  Trail(out[d], b), Len(out[d]) + Len(b))
        /\ Starts(buf'[d])
    BY <1>7, <1>8
  <2>2. Len(out'[d]) + Len(buf'[d]) \in Nat
    <3>1. buf'[d] = <<>>
      BY <1>8 DEF Hello
    <3> QED
      BY <1>2, <3>1
  <2>3. Len(out[d]) + Len(b) \in Nat /\ Len(out[d]) + Len(all) \in Nat
    BY <1>2, <1>3
  <2> HIDE DEF all, b
  <2>4. IsPart(Trail(out'[d], buf'[d]), Len(out'[d]) + Len(buf'[d]),
               Trail(out[d], all), Len(out[d]) + Len(all))
    BY <1>6, <2>1, <2>2, <2>3, PartOfPart
  <2> QED
    BY <2>1, <2>4 DEF all
<1>9. CASE buf' = [buf EXCEPT ![d] = b] /\ out' = out
  <2>1. buf'[d] = b /\ out'[d] = out[d]
    BY <1>9
  <2> QED
    BY <1>5, <1>6, <2>1
<1> QED
  BY <1>8, <1>9 DEF Receive
\* The trail of a direction, a run of its stream behind it.
LEMMA TrailGrows ==
  ASSUME NEW d \in Dir, OInv, NEW front \in Seq(Held), NEW base \in Nat,
         base + Len(front) <= Len(wire[d]),
         \A k \in 1..Len(front) : front[k] = wire[d][base + k],
         NEW m \in {resent, resent + 1}, m = resent => base = sent[d],
         NEW n \in Nat, n >= sent[d], n >= base + Len(front)
  PROVE  LET all == buf[d] \o front
             t   == Trail(out[d], all)
             len == Len(out[d]) + Len(all)
         IN  len \in Nat /\ Epochs(t, len, m) /\ Behind(t, len, conn, wire[d], n)
<1> DEFINE o == out[d]
           b == buf[d]
           all == b \o front
           old == Trail(o, b)
           t == Trail(o, all)
           len == Len(o) + Len(b)
           w == wire[d]
<1>1. /\ o \in Seq(Record) /\ b \in Seq(Held) /\ w \in Seq(Unit)
      /\ sent[d] \in Nat /\ resent \in Nat /\ conn \in Nat
  BY TcpStreamAssumption DEF OInv, IInv, TypeOK, Held
<1>2. /\ Script(w) /\ \A i \in 1..Len(w) : w[i].conn = conn
      /\ Epochs(old, len, resent) /\ Behind(old, len, conn, w, sent[d])
  BY DEF OInv, Said, OrderedAt
<1>4. base + Len(front) <= Len(w) /\ \A k \in 1..Len(front) : front[k] = w[base + k]
  OBVIOUS
<1>5. base = sent[d] \/ m = resent + 1
  OBVIOUS
<1> HIDE DEF o, b, w
<1>l. Len(o) \in Nat /\ Len(b) \in Nat /\ Len(front) \in Nat /\ Len(w) \in Nat
  BY <1>1
<1>3. /\ all \in Seq(Held) /\ Len(all) = Len(b) + Len(front)
      /\ \A i \in 1..Len(b) : all[i] = b[i]
      /\ \A k \in 1..Len(front) : all[Len(b) + k] = front[k]
      /\ Len(o) \in Nat /\ Len(b) \in Nat /\ Len(front) \in Nat /\ Len(w) \in Nat
  <2>1. all \in Seq(Held) /\ Len(all) = Len(b) + Len(front)
    BY <1>1
  <2>2. \A i \in 1..Len(b) : all[i] = b[i]
    BY <1>1
  <2>3. \A k \in 1..Len(front) : all[Len(b) + k] = front[k]
    BY <1>1
  <2> QED
    BY <1>l, <2>1, <2>2, <2>3
<1> HIDE DEF all
<1>6. \A i \in 1..len : t[i] = old[i]
  <2>1. SUFFICES ASSUME NEW i \in 1..len
                 PROVE  t[i] = old[i]
    OBVIOUS
  <2>2. CASE i <= Len(o)
    BY <1>3, <2>1, <2>2 DEF Trail
  <2>3. CASE ~(i <= Len(o))
    <3>1. i - Len(o) \in 1..Len(b) /\ i \in 1..Len(o) + Len(all)
      BY <1>3, <2>1, <2>3
    <3> QED
      BY <1>3, <2>1, <2>3, <3>1 DEF Trail
  <2> QED
    BY <2>2, <2>3
<1>7. \A j \in len + 1..len + Len(front) : t[j] = Spot(w[base + (j - len)])
  <2>1. SUFFICES ASSUME NEW j \in len + 1..len + Len(front)
                 PROVE  t[j] = Spot(w[base + (j - len)])
    OBVIOUS
  <2>2. j - len \in 1..Len(front) /\ ~(j <= Len(o)) /\ j \in 1..Len(o) + Len(all)
        /\ j - Len(o) = Len(b) + (j - len)
    BY <1>3, <2>1
  <2>3. all[j - Len(o)] = front[j - len]
    BY <1>3, <2>2
  <2>4. t[j] = Spot(all[j - Len(o)])
    BY <2>2 DEF Trail
  <2>5. front[j - len] = w[base + (j - len)]
    BY <1>4, <2>2
  <2> QED
    BY <2>3, <2>4, <2>5
<1>8. \A i, j \in len + 1..len + Len(front) : i < j => Earlier(t[i], t[j])
  <2>1. SUFFICES ASSUME NEW i \in len + 1..len + Len(front),
                        NEW j \in len + 1..len + Len(front), i < j
                 PROVE  Earlier(t[i], t[j])
    OBVIOUS
  <2>2. base + (i - len) \in 1..Len(w) /\ base + (j - len) \in 1..Len(w)
        /\ base + (i - len) < base + (j - len)
    BY <1>3, <1>4, <2>1
  <2>3. Earlier(Spot(w[base + (i - len)]), Spot(w[base + (j - len)]))
    BY <1>1, <1>2, <2>2, ScriptOrder
  <2> QED
    BY <1>7, <2>1, <2>3
<1>9. m = resent => \A i \in 1..len, j \in len + 1..len + Len(front) :
                      old[i].real /\ t[j].real => Earlier(old[i], t[j])
  <2>1. SUFFICES ASSUME base = sent[d], NEW i \in 1..len,
                        NEW j \in len + 1..len + Len(front), old[i].real
                 PROVE  Earlier(old[i], t[j])
    BY <1>1, <1>5
  <2>a. j - len \in 1..Len(front)
    BY <1>l, <2>1
  <2>2. base + (j - len) \in sent[d] + 1..Len(w)
    <3> DEFINE h == j - len
    <3>1. h \in 1..Len(front)
      BY <2>a
    <3> HIDE DEF h
    <3>a. base = sent[d] /\ base + Len(front) <= Len(w)
      BY <1>4, <2>1
    <3>2. base + h \in sent[d] + 1..Len(w)
      <4> DEFINE lw == Len(w)
                 lf == Len(front)
                 s == sent[d]
      <4>1. /\ lw \in Nat /\ lf \in Nat /\ s \in Nat /\ base = s
            /\ base + lf <= lw /\ h \in 1..lf
        BY <1>l, <3>a, <3>1
      <4> HIDE DEF lw, lf, s
      <4>2. base + h \in s + 1..lw
        BY <4>1
      <4> QED
        BY <4>2 DEF lw, s
    <3> QED
      BY <3>2 DEF h
  <2>3. Earlier(old[i], Spot(w[base + (j - len)]))
    BY <1>2, <2>1, <2>2 DEF Behind
  <2> QED
    BY <1>7, <2>1, <2>3
<1>10. len \in Nat /\ Len(o) + Len(all) = len + Len(front)
  BY <1>3
<1> HIDE DEF t, old, len
<1>11. Epochs(t, len + Len(front), m)
  <2>1. \A i, j \in len + 1..len + Len(front) :
          i < j /\ t[i].real /\ t[j].real => Earlier(t[i], t[j])
    BY <1>8
  <2>2. resent \in Nat /\ len \in Nat /\ Len(front) \in Nat
    BY <1>1, <1>3, <1>10
  <2>3. Epochs(old, len, resent)
    BY <1>2
  <2>4. m \in {resent, resent + 1}
    OBVIOUS
  <2>5. \A i \in 1..len : t[i] = old[i]
    BY <1>6
  <2>6. m = resent => \A i \in 1..len, j \in len + 1..len + Len(front) :
                        old[i].real /\ t[j].real => Earlier(old[i], t[j])
    BY <1>9
  <2> QED
    <3>1. Continues(t, Len(front), old, len, resent, m)
      BY <2>1, <2>5, <2>6 DEF Continues
    <3> QED
      BY <2>2, <2>3, <2>4, <3>1, LongerTrail, Zenon
<1>12. Behind(t, len + Len(front), conn, w, n)
  <2>1. SUFFICES ASSUME NEW i \in 1..len + Len(front), t[i].real
                 PROVE  /\ t[i].conn <= conn
                        /\ \A k \in n + 1..Len(w) : Earlier(t[i], Spot(w[k]))
    BY DEF Behind
  <2>2. CASE i <= len
    <3>1. i \in 1..len /\ t[i] = old[i]
      BY <1>6, <1>10, <2>1, <2>2
    <3>2. /\ t[i].conn <= conn
          /\ \A k \in sent[d] + 1..Len(w) : Earlier(t[i], Spot(w[k]))
      BY <1>2, <2>1, <3>1 DEF Behind
    <3>3. \A k \in n + 1..Len(w) : k \in sent[d] + 1..Len(w)
      BY <1>1
    <3> QED
      BY <3>2, <3>3
  <2>3. CASE ~(i <= len)
    <3>1. i \in len + 1..len + Len(front)
      BY <1>3, <1>10, <2>1, <2>3
    <3>2. t[i] = Spot(w[base + (i - len)])
      BY <1>7, <3>1
    <3>3. base + (i - len) \in 1..Len(w) /\ base + (i - len) <= n
      BY <1>3, <1>4, <1>10, <3>1
    <3>4. ASSUME NEW k \in n + 1..Len(w)
          PROVE  Earlier(t[i], Spot(w[k]))
      <4>1. k \in 1..Len(w) /\ base + (i - len) < k
        BY <1>3, <3>3, <3>4
      <4> QED
        BY <1>1, <1>2, <3>2, <3>3, <4>1, ScriptOrder
    <3>5. t[i].conn = conn
      <4>1. w[base + (i - len)] \in Unit /\ w[base + (i - len)] \in Held
            /\ w[base + (i - len)].conn = conn
        BY <1>1, <1>2, <3>3 DEF Held
      <4> QED
        BY <3>2, <4>1, SpotType
    <3> QED
      BY <1>1, <3>4, <3>5
  <2> QED
    BY <2>2, <2>3
<1>13. /\ Len(o) + Len(all) \in Nat /\ Epochs(t, Len(o) + Len(all), m)
       /\ Behind(t, Len(o) + Len(all), conn, w, n)
  BY <1>3, <1>10, <1>11, <1>12
<1> QED
  BY <1>13 DEF o, b, all, w, t
\* Padding stands nowhere, and so behind and in front of all.
LEMMA TrailPadded ==
  ASSUME NEW d \in Dir, OInv
  PROVE  LET all == buf[d] \o <<Pad>>
             t   == Trail(out[d], all)
             len == Len(out[d]) + Len(all)
         IN  Epochs(t, len, resent) /\ Behind(t, len, conn, wire[d], sent[d])
<1> DEFINE o == out[d]
           b == buf[d]
           all == b \o <<Pad>>
           old == Trail(o, b)
           t == Trail(o, all)
           len == Len(o) + Len(b)
<1>1. /\ o \in Seq(Record) /\ b \in Seq(Held) /\ resent \in Nat
  BY TcpStreamAssumption DEF OInv, IInv, TypeOK, Held
<1>2. Epochs(old, len, resent) /\ Behind(old, len, conn, wire[d], sent[d])
  BY DEF OInv, OrderedAt
<1> HIDE DEF o, b
<1>3. /\ Len(o) \in Nat /\ Len(b) \in Nat /\ Len(all) = Len(b) + 1
      /\ \A i \in 1..Len(b) : all[i] = b[i]
      /\ all[Len(b) + 1] = Pad
  BY <1>1
<1> HIDE DEF all
<1>4. \A i \in 1..len : t[i] = old[i]
  <2>1. SUFFICES ASSUME NEW i \in 1..len
                 PROVE  t[i] = old[i]
    OBVIOUS
  <2>2. CASE i <= Len(o)
    BY <1>3, <2>1, <2>2 DEF Trail
  <2>3. CASE ~(i <= Len(o))
    <3>1. i - Len(o) \in 1..Len(b) /\ i \in 1..Len(o) + Len(all)
      BY <1>3, <2>1, <2>3
    <3> QED
      BY <1>3, <2>1, <2>3, <3>1 DEF Trail
  <2> QED
    BY <2>2, <2>3
<1>5. ~t[len + 1].real
  <2>1. ~(len + 1 <= Len(o)) /\ len + 1 \in 1..Len(o) + Len(all)
        /\ (len + 1) - Len(o) = Len(b) + 1
    BY <1>3
  <2>2. t[len + 1] = Spot(Pad)
    BY <1>3, <2>1 DEF Trail
  <2> QED
    BY <2>2 DEF Spot, Pad
<1>6. len \in Nat /\ len + 1 = Len(o) + Len(all)
  BY <1>3
<1> HIDE DEF t, old, len
<1>7. Epochs(t, len + 1, resent)
  <2>1. Continues(t, 1, old, len, resent, resent)
    BY <1>4, <1>5, <1>6 DEF Continues
  <2> QED
    BY <1>1, <1>2, <1>6, <2>1, LongerTrail
<1>8. Behind(t, len + 1, conn, wire[d], sent[d])
  <2>1. SUFFICES ASSUME NEW i \in 1..len + 1, t[i].real
                 PROVE  /\ t[i].conn <= conn
                        /\ \A k \in sent[d] + 1..Len(wire[d]) :
                             Earlier(t[i], Spot(wire[d][k]))
    BY DEF Behind
  <2>2. i \in 1..len
    BY <1>5, <1>6, <2>1
  <2> QED
    BY <1>2, <1>4, <2>1, <2>2 DEF Behind
<1>9. /\ Epochs(t, Len(o) + Len(all), resent)
      /\ Behind(t, Len(o) + Len(all), conn, wire[d], sent[d])
  BY <1>6, <1>7, <1>8
<1> QED
  BY <1>9 DEF o, b, all, t

LEMMA MoreEpochs ==
  ASSUME NEW t, NEW len, NEW n \in Nat, Epochs(t, len, n), NEW m \in Nat, n <= m
  PROVE  Epochs(t, len, m)
<1>1. PICK f \in [1..len -> 0..n] : InEpochs(f, t, len)
  BY DEF Epochs
<1>2. f \in [1..len -> 0..m]
  BY <1>1
<1> QED
  BY <1>1, <1>2 DEF Epochs

LEMMA BehindMore ==
  ASSUME NEW t, NEW len, NEW c, NEW s, NEW n \in Nat, Behind(t, len, c, s, n),
         NEW m \in Nat, n <= m
  PROVE  Behind(t, len, c, s, m)
BY DEF Behind

LEMMA OtherDirection ==
  ASSUME NEW d \in Dir, NEW e \in Dir, e # d, NEW seg, Receive(d, seg),
         out \in [Dir -> Seq(Record)], buf \in [Dir -> Seq(Held)]
  PROVE  out'[e] = out[e] /\ buf'[e] = buf[e]
<1>1. CASE \E b, o, side : Hello(d, b, o, side)
  BY <1>1 DEF Hello, Write
<1>2. CASE out' = out /\ \E b : buf' = [buf EXCEPT ![d] = b]
  BY <1>2
<1> QED
  BY <1>1, <1>2 DEF Receive

\* A packet of the stream, or padding, keeps the order of its direction.
LEMMA PacketOrder ==
  ASSUME OInv, IInv', NEW d \in Dir, NEW seg \in Seq(Held), Starts(seg), Receive(d, seg),
         NEW m \in Nat, NEW n \in Nat,
         LET all == buf[d] \o Front(seg, PktCap)
             t   == Trail(out[d], all)
             len == Len(out[d]) + Len(all)
         IN  Epochs(t, len, m) /\ Behind(t, len, conn, wire[d], n)
  PROVE  LET t   == Trail(out'[d], buf'[d])
             len == Len(out'[d]) + Len(buf'[d])
         IN  Starts(buf'[d]) /\ Epochs(t, len, m) /\ Behind(t, len, conn, wire[d], n)
<1> DEFINE all == buf[d] \o Front(seg, PktCap)
           t == Trail(out[d], all)
           len == Len(out[d]) + Len(all)
           u == Trail(out'[d], buf'[d])
           less == Len(out'[d]) + Len(buf'[d])
<1>1. /\ out \in [Dir -> Seq(Record)] /\ out' \in [Dir -> Seq(Record)]
      /\ buf \in [Dir -> Seq(Held)] /\ buf' \in [Dir -> Seq(Held)] /\ Starts(buf[d])
  BY DEF OInv, IInv, TypeOK, Held, OrderedAt
<1>2. IsPart(u, less, t, len) /\ Starts(buf'[d])
  BY <1>1, ReceiveOrder
<1>3. less \in Nat
  BY <1>1
<1>4. len \in Nat
  <2>1. Front(seg, PktCap) \in Seq(Held)
    BY FrontHeld, TcpStreamAssumption
  <2>2. all \in Seq(Held)
    BY <1>1, <2>1
  <2> HIDE DEF all
  <2> QED
    BY <1>1, <2>2
<1>5. Epochs(t, len, m) /\ Behind(t, len, conn, wire[d], n)
  OBVIOUS
<1> HIDE DEF u, less, t, len
<1>6. Epochs(u, less, m)
  BY <1>2, <1>3, <1>4, <1>5, PartEpochs
<1>7. Behind(u, less, conn, wire[d], n)
  BY <1>2, <1>3, <1>4, <1>5, PartBehind
<1> QED
  BY <1>2, <1>6, <1>7 DEF u, less

\* Seen as one: what a flow has, when all that happens in it keeps the order.
LEMMA OrderKept ==
  ASSUME OInv, IInv', conn' = conn, wire' = wire, NEW d \in Dir,
         resent' \in {resent, resent + 1}, sent'[d] \in Nat,
         \A e \in Dir : e # d =>
           out'[e] = out[e] /\ buf'[e] = buf[e] /\ sent'[e] = sent[e],
         LET t   == Trail(out'[d], buf'[d])
             len == Len(out'[d]) + Len(buf'[d])
         IN  /\ Starts(buf'[d]) /\ Epochs(t, len, resent')
             /\ Behind(t, len, conn, wire[d], sent'[d])
  PROVE  OInv'
<1>1. Said'
  BY DEF OInv, Said
<1>2. ASSUME NEW e \in Dir
      PROVE  OrderedAt(e)'
  <2>1. CASE e = d
    BY <2>1 DEF OrderedAt
  <2>2. CASE e # d
    <3>1. out'[e] = out[e] /\ buf'[e] = buf[e] /\ sent'[e] = sent[e]
      BY <2>2
    <3>2. OrderedAt(e) /\ resent \in Nat /\ resent' \in Nat /\ resent <= resent'
      BY TcpStreamAssumption DEF OInv, IInv, TypeOK
    <3>3. Epochs(Trail(out[e], buf[e]), Len(out[e]) + Len(buf[e]), resent')
      <4>1. Epochs(Trail(out[e], buf[e]), Len(out[e]) + Len(buf[e]), resent)
        BY <3>2 DEF OrderedAt
      <4> QED
        BY <3>2, <4>1, MoreEpochs
    <3> QED
      BY <3>1, <3>2, <3>3 DEF OrderedAt
  <2> QED
    BY <2>1, <2>2
<1> QED
  BY <1>1, <1>2 DEF OInv

LEMMA FrontIs ==
  ASSUME NEW w \in Seq(Unit), NEW i \in 1..Len(w), NEW j \in 1..Len(w), i <= j
  PROVE  LET seg == SubSeq(w, i, j)
             front == Front(seg, PktCap)
         IN  /\ seg \in Seq(Held) /\ Len(seg) = j - i + 1
             /\ \A k \in 1..Len(seg) : seg[k] = w[i - 1 + k]
             /\ front \in Seq(Held) /\ Len(front) = Lesser(PktCap, j - i + 1)
             /\ \A k \in 1..Len(front) : front[k] = w[i - 1 + k]
<1> DEFINE seg == SubSeq(w, i, j)
           front == Front(seg, PktCap)
<1>1. /\ seg \in Seq(Held) /\ Len(seg) = j - i + 1
      /\ \A k \in 1..Len(seg) : seg[k] = w[i - 1 + k]
  BY DEF Held
<1> HIDE DEF seg
<1>2. front \in Seq(Held)
  BY <1>1, FrontHeld, TcpStreamAssumption
<1>3. Lesser(PktCap, Len(seg)) \in 1..Len(seg)
  BY <1>1, TcpStreamAssumption DEF Lesser
<1>4. Len(front) = Lesser(PktCap, Len(seg)) /\ \A k \in 1..Len(front) : front[k] = seg[k]
  BY <1>1, <1>3 DEF Front
<1> HIDE DEF front
<1>5. ASSUME NEW k \in 1..Len(front)
      PROVE  front[k] = w[i - 1 + k]
  <2>1. Len(seg) \in Nat /\ Len(front) <= Len(seg) /\ Len(front) \in Nat
    BY <1>1, <1>3, <1>4
  <2>2. k \in 1..Len(seg)
    BY <2>1
  <2> QED
    BY <1>1, <1>4, <2>2
<1> QED
  BY <1>1, <1>2, <1>4, <1>5 DEF seg, front

LEMMA DeliverOrder ==
  ASSUME OInv, IInv', NEW d \in Dir, NEW j \in 1..Len(wire[d]), Deliver(d, j)
  PROVE  OInv'
<1> DEFINE w == wire[d]
           i == sent[d] + 1
           seg == SubSeq(w, i, j)
           front == Front(seg, PktCap)
<1>1. /\ w \in Seq(Unit) /\ Script(w) /\ sent[d] \in Nat /\ sent[d] < j /\ j \in Nat
      /\ sent' = [sent EXCEPT ![d] = j] /\ sent \in [Dir -> Nat] /\ resent \in Nat
      /\ Receive(d, seg) /\ UNCHANGED <<conn, wire, resent>>
      /\ out \in [Dir -> Seq(Record)] /\ buf \in [Dir -> Seq(Held)]
  BY TcpStreamAssumption DEF Deliver, Segment, OInv, IInv, TypeOK, Said, Held
<1>2. i \in 1..Len(w) /\ i <= j
  BY <1>1
<1>3. /\ seg \in Seq(Held) /\ Len(seg) = j - i + 1
      /\ \A k \in 1..Len(seg) : seg[k] = w[i - 1 + k]
      /\ front \in Seq(Held) /\ Len(front) = Lesser(PktCap, j - i + 1)
      /\ \A k \in 1..Len(front) : front[k] = w[i - 1 + k]
  BY <1>1, <1>2, FrontIs
<1>4. Starts(seg)
  <2>1. Starts(w)
    BY <1>1, ScriptStarts
  <2>2. i \in 1..Len(w) /\ j \in 1..Len(w) /\ Len(w) \in Nat /\ Len(seg) = j - i + 1
    BY <1>1, <1>2, <1>3
  <2> HIDE DEF seg, w, i
  <2>3. \A k \in 1..Len(seg) : i - 1 + k \in 1..Len(w)
    BY <2>2
  <2> QED
    BY <1>3, <2>1, <2>3 DEF Starts
<1>5. sent[d] + Len(front) <= j /\ i - 1 = sent[d]
  <2>1. /\ Len(front) = Lesser(PktCap, j - i + 1) /\ PktCap \in Nat
        /\ sent[d] \in Nat /\ j \in Nat /\ sent[d] < j
    BY <1>1, <1>3, TcpStreamAssumption
  <2> HIDE DEF front
  <2> QED
    BY <2>1 DEF Lesser
<1>6. LET all == buf[d] \o front
          t   == Trail(out[d], all)
          len == Len(out[d]) + Len(all)
      IN  len \in Nat /\ Epochs(t, len, resent) /\ Behind(t, len, conn, wire[d], j)
  <2> HIDE DEF front, i
  <2>1. /\ sent[d] + Len(front) <= Len(wire[d])
        /\ \A k \in 1..Len(front) : front[k] = wire[d][sent[d] + k]
        /\ j >= sent[d] /\ j >= sent[d] + Len(front)
    BY <1>1, <1>3, <1>5
  <2>2. resent \in {resent, resent + 1} /\ (resent = resent => sent[d] = sent[d])
    OBVIOUS
  <2> QED
    BY <1>1, <1>3, <2>1, <2>2, TrailGrows
<1>7. LET t   == Trail(out'[d], buf'[d])
          len == Len(out'[d]) + Len(buf'[d])
      IN  Starts(buf'[d]) /\ Epochs(t, len, resent) /\ Behind(t, len, conn, wire[d], j)
  <2> HIDE DEF seg
  <2> QED
    BY <1>1, <1>3, <1>4, <1>6, PacketOrder
<1>8. /\ sent'[d] = j /\ resent' = resent /\ conn' = conn /\ wire' = wire
      /\ \A e \in Dir : e # d =>
           out'[e] = out[e] /\ buf'[e] = buf[e] /\ sent'[e] = sent[e]
  BY <1>1, OtherDirection
<1> QED
  BY <1>1, <1>7, <1>8, OrderKept

LEMMA RetransmitOrder ==
  ASSUME OInv, IInv', NEW d \in Dir, NEW i \in 1..sent[d], NEW j \in 1..sent[d],
         Retransmit(d, i, j)
  PROVE  OInv'
<1> DEFINE w == wire[d]
           seg == SubSeq(w, i, j)
           front == Front(seg, PktCap)
<1>1. /\ w \in Seq(Unit) /\ Script(w) /\ sent[d] \in Nat /\ sent[d] <= Len(w) /\ i <= j
      /\ sent' = sent /\ sent \in [Dir -> Nat] /\ resent \in Nat
      /\ Receive(d, seg) /\ resent' = resent + 1 /\ UNCHANGED <<conn, wire>>
      /\ out \in [Dir -> Seq(Record)] /\ buf \in [Dir -> Seq(Held)]
  <2>1. IInv /\ Said
    BY DEF OInv
  <2>2. /\ wire[d] \in Seq(Unit) /\ sent[d] \in Nat /\ sent[d] <= Len(wire[d])
        /\ sent \in [Dir -> Nat] /\ out \in [Dir -> Seq(Record)]
        /\ buf \in [Dir -> Seq(Held)]
    BY <2>1 DEF IInv, TypeOK, Held
  <2>3. resent \in Nat
    BY <2>1, TcpStreamAssumption DEF IInv, TypeOK
  <2>4. Script(wire[d])
    BY <2>1 DEF Said
  <2>5. i <= j /\ Receive(d, seg) /\ resent' = resent + 1 /\ UNCHANGED <<conn, wire, sent>>
    BY DEF Retransmit
  <2> QED
    BY <2>2, <2>3, <2>4, <2>5
<1>2. i \in 1..Len(w) /\ j \in 1..Len(w)
  BY <1>1
<1>3. /\ seg \in Seq(Held) /\ Len(seg) = j - i + 1
      /\ \A k \in 1..Len(seg) : seg[k] = w[i - 1 + k]
      /\ front \in Seq(Held) /\ Len(front) = Lesser(PktCap, j - i + 1)
      /\ \A k \in 1..Len(front) : front[k] = w[i - 1 + k]
  BY <1>1, <1>2, FrontIs
<1>4. Starts(seg)
  <2>1. Starts(w)
    BY <1>1, ScriptStarts
  <2>2. i \in 1..Len(w) /\ j \in 1..Len(w) /\ Len(w) \in Nat /\ Len(seg) = j - i + 1
    BY <1>1, <1>2, <1>3
  <2> HIDE DEF seg, w
  <2>3. \A k \in 1..Len(seg) : i - 1 + k \in 1..Len(w)
    BY <2>2
  <2> QED
    BY <1>3, <2>1, <2>3 DEF Starts
<1>5. i - 1 + Len(front) <= j /\ i - 1 \in Nat
  BY <1>1, <1>3, TcpStreamAssumption DEF Lesser
<1>6. LET all == buf[d] \o front
          t   == Trail(out[d], all)
          len == Len(out[d]) + Len(all)
      IN  len \in Nat /\ Epochs(t, len, resent + 1) /\ Behind(t, len, conn, wire[d], sent[d])
  <2> HIDE DEF front
  <2> DEFINE base == i - 1
             m == resent + 1
  <2>1. /\ base \in Nat /\ base + Len(front) <= Len(wire[d])
        /\ \A k \in 1..Len(front) : front[k] = wire[d][base + k]
        /\ sent[d] >= sent[d] /\ sent[d] >= base + Len(front)
    <3>1. \A k \in 1..Len(front) : front[k] = wire[d][base + k]
      BY <1>3
    <3> DEFINE n == Len(front)
               l == Len(wire[d])
    <3>2. /\ base + n <= j /\ base \in Nat /\ n \in Nat /\ j \in 1..sent[d]
          /\ sent[d] <= l /\ sent[d] \in Nat /\ l \in Nat
      BY <1>1, <1>3, <1>5
    <3> HIDE DEF n, l, base
    <3>3. base + n <= l /\ sent[d] >= base + n /\ sent[d] >= sent[d]
      BY <3>2
    <3> QED
      BY <3>1, <3>2, <3>3 DEF n, l
  <2>2. m \in {resent, resent + 1} /\ (m = resent => base = sent[d])
    BY <1>1
  <2> HIDE DEF base, m
  <2>3. LET all == buf[d] \o front
            t   == Trail(out[d], all)
            len == Len(out[d]) + Len(all)
        IN  len \in Nat /\ Epochs(t, len, m) /\ Behind(t, len, conn, wire[d], sent[d])
    BY <1>1, <1>3, <2>1, <2>2, TrailGrows
  <2> QED
    BY <2>3 DEF m
<1>7. LET t   == Trail(out'[d], buf'[d])
          len == Len(out'[d]) + Len(buf'[d])
      IN  Starts(buf'[d]) /\ Epochs(t, len, resent + 1) /\ Behind(t, len, conn, wire[d], sent[d])
  <2> HIDE DEF seg
  <2> DEFINE m == resent + 1
  <2>1. m \in Nat
    BY <1>1
  <2>2. LET all == buf[d] \o Front(seg, PktCap)
            t   == Trail(out[d], all)
            len == Len(out[d]) + Len(all)
        IN  Epochs(t, len, m) /\ Behind(t, len, conn, wire[d], sent[d])
    BY <1>6
  <2> HIDE DEF m
  <2>3. LET t   == Trail(out'[d], buf'[d])
            len == Len(out'[d]) + Len(buf'[d])
        IN  Starts(buf'[d]) /\ Epochs(t, len, m) /\ Behind(t, len, conn, wire[d], sent[d])
    BY <1>1, <1>3, <1>4, <2>1, <2>2, PacketOrder
  <2> QED
    BY <2>3 DEF m
<1>8. /\ sent'[d] = sent[d] /\ conn' = conn /\ wire' = wire
      /\ \A e \in Dir : e # d =>
           out'[e] = out[e] /\ buf'[e] = buf[e] /\ sent'[e] = sent[e]
  BY <1>1, OtherDirection
<1> QED
  BY <1>1, <1>7, <1>8, OrderKept

LEMMA NatSum ==
  ASSUME NEW m \in Nat, NEW n \in Nat
  PROVE  m + n \in Nat /\ m <= m + n
OBVIOUS

LEMMA WholeSubSeq ==
  ASSUME NEW s \in Seq(Held)
  PROVE  SubSeq(s, 1, Len(s)) = s
OBVIOUS

LEMMA PaddedAckOrder ==
  ASSUME OInv, IInv', NEW d \in Dir, PaddedAck(d)
  PROVE  OInv'
<1>1. /\ sent \in [Dir -> Nat] /\ resent \in Nat /\ resent' = resent
      /\ Receive(d, <<Pad>>) /\ UNCHANGED <<conn, wire, sent>>
      /\ out \in [Dir -> Seq(Record)] /\ buf \in [Dir -> Seq(Held)]
  <2>1. IInv
    BY DEF OInv
  <2>2. /\ sent \in [Dir -> Nat] /\ out \in [Dir -> Seq(Record)]
        /\ buf \in [Dir -> Seq(Held)]
    BY <2>1 DEF IInv, TypeOK, Held
  <2>3. resent \in Nat
    BY <2>1, TcpStreamAssumption DEF IInv, TypeOK
  <2>4. Receive(d, <<Pad>>) /\ UNCHANGED <<conn, wire, sent, resent>>
    BY DEF PaddedAck
  <2> QED
    BY <2>2, <2>3, <2>4
<1>2. <<Pad>> \in Seq(Held) /\ Starts(<<Pad>>)
  BY DEF Held, Starts, Pad
<1>3. Front(<<Pad>>, PktCap) = <<Pad>>
  <2>1. Lesser(PktCap, 1) = 1
    BY TcpStreamAssumption DEF Lesser
  <2>2. Len(<<Pad>>) = 1
    OBVIOUS
  <2>3. SubSeq(<<Pad>>, 1, 1) = <<Pad>>
    BY <1>2, <2>2, WholeSubSeq
  <2> QED
    BY <2>1, <2>2, <2>3 DEF Front
<1>4. LET all == buf[d] \o Front(<<Pad>>, PktCap)
          t   == Trail(out[d], all)
          len == Len(out[d]) + Len(all)
      IN  Epochs(t, len, resent) /\ Behind(t, len, conn, wire[d], sent[d])
  BY <1>3, TrailPadded
<1>5. LET t   == Trail(out'[d], buf'[d])
          len == Len(out'[d]) + Len(buf'[d])
      IN  Starts(buf'[d]) /\ Epochs(t, len, resent) /\ Behind(t, len, conn, wire[d], sent[d])
  <2> DEFINE seg == <<Pad>>
  <2>1. /\ seg \in Seq(Held) /\ Starts(seg) /\ Receive(d, seg) /\ sent[d] \in Nat
        /\ LET all == buf[d] \o Front(seg, PktCap)
               t   == Trail(out[d], all)
               len == Len(out[d]) + Len(all)
           IN  Epochs(t, len, resent) /\ Behind(t, len, conn, wire[d], sent[d])
    BY <1>1, <1>2, <1>4
  <2> HIDE DEF seg
  <2> QED
    BY <1>1, <2>1, PacketOrder
<1>6. /\ sent'[d] = sent[d] /\ conn' = conn /\ wire' = wire
      /\ \A e \in Dir : e # d =>
           out'[e] = out[e] /\ buf'[e] = buf[e] /\ sent'[e] = sent[e]
  BY <1>1, OtherDirection
<1> QED
  BY <1>1, <1>5, <1>6, OrderKept
LEMMA LoseOrder ==
  ASSUME OInv, IInv', NEW d \in Dir, NEW j \in 1..Len(wire[d]), Lose(d, j)
  PROVE  OInv'
<1>1. IInv /\ OrderedAt(d)
  BY DEF OInv
<1>2. /\ sent \in [Dir -> Nat] /\ j \in Nat /\ wire[d] \in Seq(Unit)
  BY <1>1 DEF IInv, TypeOK
<1>3. /\ sent[d] < j /\ sent' = [sent EXCEPT ![d] = j]
      /\ UNCHANGED <<conn, wire, buf, out, resent>>
  BY DEF Lose, Segment, flow
<1>4. /\ Starts(buf[d]) /\ Epochs(Trail(out[d], buf[d]), Len(out[d]) + Len(buf[d]), resent)
      /\ Behind(Trail(out[d], buf[d]), Len(out[d]) + Len(buf[d]), conn, wire[d], sent[d])
  BY <1>1 DEF OrderedAt
<1>5. Behind(Trail(out[d], buf[d]), Len(out[d]) + Len(buf[d]), conn, wire[d], j)
  <2> DEFINE n == sent[d]
  <2>1. n \in Nat /\ n <= j
    BY <1>2, <1>3
  <2>2. Behind(Trail(out[d], buf[d]), Len(out[d]) + Len(buf[d]), conn, wire[d], n)
    BY <1>4
  <2> HIDE DEF n
  <2> QED
    BY <1>2, <2>1, <2>2, BehindMore
<1>6. /\ sent'[d] = j /\ resent' \in {resent, resent + 1}
      /\ \A e \in Dir : e # d =>
           out'[e] = out[e] /\ buf'[e] = buf[e] /\ sent'[e] = sent[e]
  BY <1>2, <1>3
<1>7. LET t   == Trail(out'[d], buf'[d])
          len == Len(out'[d]) + Len(buf'[d])
      IN  Starts(buf'[d]) /\ Epochs(t, len, resent') /\ Behind(t, len, conn, wire[d], j)
  BY <1>3, <1>4, <1>5
<1> QED
  BY <1>2, <1>3, <1>6, <1>7, OrderKept

\* A flow that is forgotten, or a message that is reported, leaves part of
\* what there was.
LEMMA PartOrder ==
  ASSUME OInv, IInv', NEW d \in Dir, UNCHANGED <<conn, wire, sent, resent>>,
         \A e \in Dir : e # d => out'[e] = out[e] /\ buf'[e] = buf[e],
         Starts(buf'[d]),
         IsPart(Trail(out'[d], buf'[d]), Len(out'[d]) + Len(buf'[d]),
                Trail(out[d], buf[d]), Len(out[d]) + Len(buf[d]))
  PROVE  OInv'
<1> DEFINE t == Trail(out[d], buf[d])
           len == Len(out[d]) + Len(buf[d])
           u == Trail(out'[d], buf'[d])
           less == Len(out'[d]) + Len(buf'[d])
<1>1. IInv /\ OrderedAt(d)
  BY DEF OInv
<1>2. /\ out[d] \in Seq(Record) /\ buf[d] \in Seq(Held)
      /\ out'[d] \in Seq(Record) /\ buf'[d] \in Seq(Held) /\ sent[d] \in Nat
  BY <1>1 DEF IInv, TypeOK, Held
<1>3. resent \in Nat
  BY <1>1, TcpStreamAssumption DEF IInv, TypeOK
<1>4. len \in Nat /\ less \in Nat
  <2>1. Len(out[d]) \in Nat /\ Len(buf[d]) \in Nat
    BY <1>2
  <2>2. Len(out'[d]) \in Nat /\ Len(buf'[d]) \in Nat
    BY <1>2
  <2> QED
    BY <2>1, <2>2, NatSum
<1>5. Epochs(t, len, resent) /\ Behind(t, len, conn, wire[d], sent[d])
  BY <1>1 DEF OrderedAt
<1>6. IsPart(u, less, t, len)
  OBVIOUS
<1> HIDE DEF t, len, u, less
<1>7. Epochs(u, less, resent)
  BY <1>3, <1>4, <1>5, <1>6, PartEpochs
<1>8. Behind(u, less, conn, wire[d], sent[d])
  BY <1>4, <1>5, <1>6, PartBehind
<1>9. LET v == Trail(out'[d], buf'[d])
          n == Len(out'[d]) + Len(buf'[d])
      IN  Starts(buf'[d]) /\ Epochs(v, n, resent') /\ Behind(v, n, conn, wire[d], sent'[d])
  BY <1>7, <1>8 DEF u, less
<1>10. /\ resent' \in {resent, resent + 1} /\ sent'[d] \in Nat
       /\ \A e \in Dir : e # d =>
            out'[e] = out[e] /\ buf'[e] = buf[e] /\ sent'[e] = sent[e]
  BY <1>2
<1> QED
  BY <1>9, <1>10, OrderKept

LEMMA ForgetOrder ==
  ASSUME OInv, IInv', NEW d \in Dir, Forget(d)
  PROVE  OInv'
<1>1. IInv
  BY DEF OInv
<1>2. out \in [Dir -> Seq(Record)] /\ buf \in [Dir -> Seq(Held)]
  BY <1>1 DEF IInv, TypeOK, Held
<1>3. buf' = [buf EXCEPT ![d] = <<>>] /\ UNCHANGED <<conn, wire, sent, out, resent>>
  BY DEF Forget
<1>4. /\ buf'[d] = <<>> /\ out'[d] = out[d]
      /\ \A e \in Dir : e # d => out'[e] = out[e] /\ buf'[e] = buf[e]
  BY <1>2, <1>3
<1>5. Starts(buf'[d])
  BY <1>4 DEF Starts
<1>6. IsPart(Trail(out[d], buf'[d]), Len(out[d]) + Len(buf'[d]),
             Trail(out[d], buf[d]), Len(out[d]) + Len(buf[d]))
  <2> DEFINE b == buf'[d]
             k == Len(buf[d])
  <2>1. /\ b \in Seq(Held) /\ k \in Nat /\ Len(b) + k <= Len(buf[d])
        /\ \A i \in 1..Len(b) : b[i] = buf[d][i + k]
    BY <1>2, <1>4
  <2> HIDE DEF b, k
  <2>2. IsPart(Trail(out[d], b), Len(out[d]) + Len(b),
               Trail(out[d], buf[d]), Len(out[d]) + Len(buf[d]))
    BY <1>2, <2>1, SuffixPart
  <2> QED
    BY <2>2 DEF b
<1> QED
  BY <1>3, <1>4, <1>5, <1>6, PartOrder

LEMMA ParseOneOrder ==
  ASSUME OInv, IInv', NEW d \in Dir, ParseOne(d)
  PROVE  OInv'
<1> DEFINE o == out[d]
           b == buf[d]
           n == Consumed(b)
           name == IF HostOf(b) # None THEN HostOf(b) ELSE Inherited(d)
           r == [id |-> <<b[1].conn, b[1].nth>>, proto |-> "http",
                 took |-> SubSeq(b, 1, n), kept |-> Kept(b), host |-> name]
           rest == Rest(b, n)
<1>1. IInv /\ Starts(b)
  BY DEF OInv, OrderedAt
<1>2. out \in [Dir -> Seq(Record)] /\ buf \in [Dir -> Seq(Held)] /\ out' \in [Dir -> Seq(Record)]
  BY <1>1 DEF IInv, TypeOK, Held
<1>3. o \in Seq(Record) /\ b \in Seq(Held)
  BY <1>2
<1>4. /\ out' = [out EXCEPT ![d] = Append(o, r)] /\ buf' = [buf EXCEPT ![d] = rest]
      /\ UNCHANGED <<conn, wire, sent, resent>> /\ Parses(b)
  BY DEF ParseOne, Write, net
<1>5. /\ out'[d] = Append(o, r) /\ buf'[d] = rest
      /\ \A e \in Dir : e # d => out'[e] = out[e] /\ buf'[e] = buf[e]
  BY <1>2, <1>4
<1>6. 1 \in 1..Len(b) /\ b[1].kind = "start" /\ b[1].at = 1
  BY <1>1, <1>3, <1>4 DEF Parses, StartsMessage, Starts
<1>7. Spot(b[1]) = StartOf(r)
  <2>1. Spot(b[1]) = [real |-> TRUE, conn |-> b[1].conn, nth |-> b[1].nth, at |-> 1]
    BY <1>6 DEF Spot
  <2> QED
    BY <2>1 DEF StartOf
<1>8. r \in Record
  <2>1. out'[d] \in Seq(Record) /\ Len(out'[d]) = Len(o) + 1 /\ Len(o) \in Nat
        /\ out'[d][Len(o) + 1] = r
    BY <1>2, <1>3, <1>5
  <2> QED
    BY <2>1
<1>9. n \in 1..Len(b)
  BY <1>1, <1>3, <1>4, ConsumedBound
<1>10. /\ rest \in Seq(Held) /\ (rest = <<>> \/ Len(rest) + n <= Len(b))
       /\ \A i \in 1..Len(rest) : rest[i] = b[i + n]
  <2> HIDE DEF n, b
  <2>1. CASE n >= Len(b)
    BY <1>3, <2>1 DEF Rest
  <2>2. CASE ~(n >= Len(b))
    <3>1. Rest(b, n) = SubSeq(b, n + 1, Len(b)) /\ n \in Nat /\ n < Len(b) /\ Len(b) \in Nat
      BY <1>3, <1>9, <2>2 DEF Rest
    <3>2. Len(Rest(b, n)) = Len(b) - n /\ Rest(b, n) \in Seq(Held)
      BY <1>3, <3>1
    <3>3. \A i \in 1..Len(b) - n : Rest(b, n)[i] = b[i + n]
      BY <1>3, <3>1
    <3>4. Len(Rest(b, n)) + n <= Len(b)
      BY <3>1, <3>2
    <3> QED
      BY <3>2, <3>3, <3>4
  <2> QED
    BY <2>1, <2>2
<1> HIDE DEF o, b, n, r, rest
<1>11. Starts(rest)
  <2>1. SUFFICES ASSUME NEW i \in 1..Len(rest), rest[i].kind \in {"start", "rec"}
                 PROVE  rest[i].at = 1
    BY DEF Starts
  <2>2. rest # <<>>
    BY <2>1
  <2>3. Len(rest) + n <= Len(b) /\ Len(rest) \in Nat /\ n \in Nat /\ Len(b) \in Nat
    BY <1>3, <1>9, <1>10, <2>2
  <2>4. i + n \in 1..Len(b)
    BY <2>1, <2>3
  <2>5. rest[i] = b[i + n]
    BY <1>10, <2>1
  <2> QED
    BY <1>1, <2>1, <2>4, <2>5 DEF Starts
<1>12. IsPart(Trail(Append(o, r), rest), Len(o) + 1 + Len(rest), Trail(o, b), Len(o) + Len(b))
  <2>1. n \in Nat /\ 1 <= n
    BY <1>9
  <2> QED
    BY <1>3, <1>6, <1>7, <1>8, <1>10, <2>1, RecordPart
<1>13. Len(Append(o, r)) = Len(o) + 1
  BY <1>3
<1>14. IsPart(Trail(out'[d], buf'[d]), Len(out'[d]) + Len(buf'[d]),
              Trail(out[d], buf[d]), Len(out[d]) + Len(buf[d]))
  <2>1. Len(out'[d]) + Len(buf'[d]) = Len(o) + 1 + Len(rest)
    BY <1>5, <1>13
  <2> QED
    BY <1>5, <1>12, <2>1 DEF o, b
<1> QED
  BY <1>4, <1>5, <1>11, <1>14, PartOrder

LEMMA OnConnectionScript ==
  ASSUME NEW s \in Seq(Unit), Script(s), NEW c \in Nat
  PROVE  /\ Script(OnConnection(c, s))
         /\ \A i \in 1..Len(OnConnection(c, s)) : OnConnection(c, s)[i].conn = c
<1> DEFINE t == OnConnection(c, s)
<1>1. Len(t) = Len(s) /\ Len(s) \in Nat
  BY DEF OnConnection
<1>2. \A i \in 1..Len(s) : t[i] = [s[i] EXCEPT !.conn = c] /\ s[i] \in Unit
  BY DEF OnConnection
<1> HIDE DEF t
<1>3. \A i \in 1..Len(s) : /\ t[i].conn = c /\ t[i].of = s[i].of /\ t[i].nth = s[i].nth
                           /\ t[i].at = s[i].at /\ t[i].kind = s[i].kind
  BY <1>2 DEF Unit
<1>4. ASSUME NEW i \in 1..Len(t) - 1
      PROVE  FollowsIn(t[i], t[i + 1])
  <2>1. i \in 1..Len(s) /\ i + 1 \in 1..Len(s) /\ i \in 1..Len(s) - 1
    BY <1>1
  <2>2. FollowsIn(s[i], s[i + 1])
    BY <2>1 DEF Script
  <2> QED
    BY <1>3, <2>1, <2>2 DEF FollowsIn, IsEnd
<1>5. \A i \in 1..Len(t) :
        t[i].at \in 1..UnitCount(t[i].of) /\ t[i].kind = Kind(t[i].of, t[i].at)
  BY <1>1, <1>3 DEF Script
<1>6. Len(t) > 0 => t[1].at = 1
  <2>1. Len(s) > 0 => s[1].at = 1 /\ 1 \in 1..Len(s)
    BY <1>1 DEF Script
  <2> QED
    BY <1>1, <1>3, <2>1
<1>7. Script(t) /\ \A i \in 1..Len(t) : t[i].conn = c
  BY <1>1, <1>3, <1>4, <1>5, <1>6 DEF Script
<1> QED
  BY <1>7 DEF t

LEMMA NewConnection ==
  ASSUME Scripted, NEW c \in Conversations, NEW n \in Nat, NEW w,
         w = [d \in Dir |-> OnConnection(n, c[d])], NEW d \in Dir
  PROVE  Script(w[d]) /\ \A i \in 1..Len(w[d]) : w[d][i].conn = n
<1>1. c[d] \in Seq(Unit) /\ Script(c[d])
  BY TcpStreamAssumption DEF Scripted
<1> QED
  BY <1>1, OnConnectionScript

LEMMA ReuseOrder ==
  ASSUME Scripted, OInv, IInv', Reuse
  PROVE  OInv'
<1>1. IInv
  BY DEF OInv
<1>2. /\ out \in [Dir -> Seq(Record)] /\ buf \in [Dir -> Seq(Held)]
      /\ conn \in Nat
  <2>1. out \in [Dir -> Seq(Record)] /\ buf \in [Dir -> Seq(Held)]
    BY <1>1 DEF IInv, TypeOK, Held
  <2>2. conn \in Nat
    BY <1>1, TcpStreamAssumption DEF IInv, TypeOK
  <2> QED
    BY <2>1, <2>2
<1>3. PICK c \in Conversations : wire' = [d \in Dir |-> OnConnection(conn + 1, c[d])]
  BY DEF Reuse
<1>4. /\ conn' = conn + 1 /\ sent' = [d \in Dir |-> 0]
      /\ UNCHANGED <<buf, out, resent>>
  BY DEF Reuse, flow
<1>5. \A d \in Dir : Script(wire'[d]) /\ \A i \in 1..Len(wire'[d]) : wire'[d][i].conn = conn + 1
  <2> DEFINE n == conn + 1
             w == wire'
  <2>1. n \in Nat /\ w = [d \in Dir |-> OnConnection(n, c[d])]
    BY <1>2, <1>3
  <2> HIDE DEF n, w
  <2>2. \A d \in Dir : Script(w[d]) /\ \A i \in 1..Len(w[d]) : w[d][i].conn = n
    BY <2>1, NewConnection
  <2> QED
    BY <2>2 DEF n, w
<1>6. Said'
  BY <1>4, <1>5 DEF Said
<1>7. ASSUME NEW d \in Dir
      PROVE  OrderedAt(d)'
  <2> DEFINE t == Trail(out[d], buf[d])
             len == Len(out[d]) + Len(buf[d])
  <2>1. Starts(buf[d]) /\ Epochs(t, len, resent) /\ Behind(t, len, conn, wire[d], sent[d])
    BY DEF OInv, OrderedAt
  <2>2. /\ out[d] \in Seq(Record) /\ buf[d] \in Seq(Held)
    BY <1>2
  <2>3. \A i \in 1..len : t[i] \in Spots
    BY <2>2, TrailType
  <2>4. wire'[d] \in Seq(Held)
    BY DEF IInv, TypeOK, Held
  <2> HIDE DEF t, len
  <2>5. ASSUME NEW i \in 1..len, t[i].real
        PROVE  /\ t[i].conn <= conn + 1
               /\ \A k \in 0 + 1..Len(wire'[d]) : Earlier(t[i], Spot(wire'[d][k]))
    <3>1. t[i].conn <= conn /\ t[i].conn \in Nat
      BY <2>1, <2>3, <2>5 DEF Behind, Spots
    <3>2. t[i].conn <= conn + 1 /\ t[i].conn < conn + 1
      BY <1>2, <3>1
    <3>3. ASSUME NEW k \in 1..Len(wire'[d])
          PROVE  Earlier(t[i], Spot(wire'[d][k]))
      <4>1. wire'[d][k] \in Unit /\ wire'[d][k] \in Held
        BY DEF IInv, TypeOK, Held
      <4>2. Spot(wire'[d][k]).conn = conn + 1
        BY <1>5, <4>1, SpotType
      <4> QED
        BY <3>2, <4>2 DEF Earlier
    <3> QED
      BY <3>2, <3>3
  <2>6. Behind(t, len, conn + 1, wire'[d], 0)
    BY <2>5 DEF Behind
  <2>7. sent'[d] = 0 /\ out'[d] = out[d] /\ buf'[d] = buf[d] /\ resent' = resent
    BY <1>4
  <2> QED
    BY <1>4, <2>1, <2>6, <2>7 DEF OrderedAt, t, len
<1> QED
  BY <1>6, <1>7 DEF OInv

LEMMA InitOrder == Scripted /\ Init => OInv
<1> SUFFICES ASSUME Scripted, Init PROVE OInv
  OBVIOUS
<1>1. IInv
  BY InitInv
<1>2. Said
  <2>1. PICK c \in Conversations : wire = [d \in Dir |-> OnConnection(1, c[d])]
    BY DEF Init
  <2> DEFINE n == 1
  <2>2. n \in Nat /\ wire = [d \in Dir |-> OnConnection(n, c[d])] /\ conn = n
    BY <2>1 DEF Init
  <2> HIDE DEF n
  <2> QED
    BY <2>2, NewConnection DEF Said
<1>3. ASSUME NEW d \in Dir
      PROVE  OrderedAt(d)
  <2>1. out[d] = <<>> /\ buf[d] = <<>> /\ Len(out[d]) + Len(buf[d]) = 0 /\ resent = 0
    BY DEF Init
  <2> DEFINE f == [i \in 1..0 |-> 0]
             t == Trail(out[d], buf[d])
  <2>2. f \in [1..0 -> 0..0] /\ InEpochs(f, t, 0)
    BY DEF InEpochs
  <2> HIDE DEF f, t
  <2>3. Epochs(t, 0, 0)
    BY <2>2 DEF Epochs
  <2>4. Behind(t, 0, conn, wire[d], sent[d])
    BY DEF Behind
  <2>5. Starts(buf[d])
    BY <2>1 DEF Starts
  <2> QED
    BY <2>1, <2>3, <2>4, <2>5 DEF OrderedAt, t
<1> QED
  BY <1>1, <1>2, <1>3 DEF OInv

LEMMA SameOrder ==
  ASSUME OInv, IInv', UNCHANGED <<conn, wire, sent, buf, out, resent>>
  PROVE  OInv'
BY DEF OInv, Said, OrderedAt

LEMMA StepOrder == Scripted /\ OInv /\ [Next]_vars => OInv'
<1> SUFFICES ASSUME Scripted, OInv, [Next]_vars PROVE OInv'
  OBVIOUS
<1>0. IInv'
  BY StepInv DEF OInv
<1>1. ASSUME NEW d \in Dir, NEW j \in 1..Len(wire[d]), Deliver(d, j) PROVE OInv'
  BY <1>0, <1>1, DeliverOrder
<1>2. ASSUME NEW d \in Dir, NEW j \in 1..Len(wire[d]), Lose(d, j) PROVE OInv'
  BY <1>0, <1>2, LoseOrder
<1>3. ASSUME NEW d \in Dir, NEW i \in 1..sent[d], NEW j \in 1..sent[d],
             Retransmit(d, i, j)
      PROVE  OInv'
  BY <1>0, <1>3, RetransmitOrder
<1>4. ASSUME NEW d \in Dir, PaddedAck(d) PROVE OInv'
  BY <1>0, <1>4, PaddedAckOrder
<1>5. ASSUME NEW d \in Dir, Forget(d) PROVE OInv'
  BY <1>0, <1>5, ForgetOrder
<1>6. CASE Reuse
  BY <1>0, <1>6, ReuseOrder
<1>7. ASSUME NEW d \in Dir, ParseOne(d) PROVE OInv'
  BY <1>0, <1>7, ParseOneOrder
<1>8. ASSUME NEW d \in Dir, Leave(d) PROVE OInv'
  BY <1>0, <1>8, SameOrder DEF Leave, net, flow
<1>9. CASE UNCHANGED vars
  BY <1>0, <1>9, SameOrder DEF vars, net, flow
<1> QED
  BY <1>1, <1>2, <1>3, <1>4, <1>5, <1>6, <1>7, <1>8, <1>9 DEF Next

LEMMA OrderShows == OInv => InOrder
<1> SUFFICES ASSUME OInv, NEW d \in Dir
             PROVE  Cardinality({i \in 1..Len(out[d]) - 1 :
                                   ~Before(out[d][i].id, out[d][i + 1].id)}) <= resent
  BY DEF InOrder
<1> DEFINE o == out[d]
           t == Trail(o, buf[d])
           len == Len(o) + Len(buf[d])
           u == [i \in 1..Len(o) |-> StartOf(o[i])]
<1>1. IInv /\ Epochs(t, len, resent)
  BY DEF OInv, OrderedAt
<1>2. o \in Seq(Record) /\ Len(o) \in Nat /\ buf[d] \in Seq(Held) /\ Len(buf[d]) \in Nat
  BY <1>1 DEF IInv, TypeOK, Held
<1>3. resent \in Nat
  BY <1>1, TcpStreamAssumption DEF IInv, TypeOK
<1>4. len \in Nat /\ Len(o) <= len
  BY <1>2, NatSum
<1>5. ASSUME NEW i \in 1..Len(o)
      PROVE  u[i] = t[i] /\ u[i] = StartOf(o[i])
  <2>1. i <= Len(o) /\ i \in 1..len
    <3> DEFINE n == Len(o)
    <3>1. n \in Nat /\ len \in Nat /\ n <= len /\ i \in 1..n
      BY <1>2, <1>4
    <3> HIDE DEF n, len
    <3>2. i <= n /\ i \in 1..len
      BY <3>1
    <3> QED
      BY <3>2 DEF n
  <2> HIDE DEF o
  <2> QED
    BY <2>1 DEF Trail
<1>6. \A i \in 1..Len(o) : u[i].real
  BY <1>5 DEF StartOf
<1>7. IsPart(u, Len(o), t, len)
  <2> DEFINE g == [i \in 1..Len(o) |-> i]
  <2> HIDE DEF t, len, u, o
  <2>1. g \in [1..Len(o) -> 1..len] /\ \A i, j \in 1..Len(o) : i < j => g[i] < g[j]
    BY <1>2, <1>4
  <2>2. \A i \in 1..Len(o) : u[i] = t[g[i]]
    BY <1>5
  <2> HIDE DEF g
  <2> QED
    BY <2>1, <2>2 DEF IsPart
<1> HIDE DEF u, t, len
<1>8. Epochs(u, Len(o), resent)
  BY <1>1, <1>2, <1>3, <1>4, <1>7, PartEpochs
<1>9. Cardinality({i \in 1..Len(o) - 1 : ~Earlier(u[i], u[i + 1])}) <= resent
  <2> HIDE DEF o
  <2> DEFINE n == Len(o)
  <2>1. n \in Nat /\ Epochs(u, n, resent) /\ \A i \in 1..n : u[i].real
    BY <1>2, <1>6, <1>8
  <2> HIDE DEF n
  <2>2. Cardinality({i \in 1..n - 1 : ~Earlier(u[i], u[i + 1])}) <= resent
    BY <1>3, <2>1, StepsBack
  <2> QED
    BY <2>2 DEF n
<1>10. \A i \in 1..Len(o) - 1 : Earlier(u[i], u[i + 1]) <=> Before(o[i].id, o[i + 1].id)
  <2>1. SUFFICES ASSUME NEW i \in 1..Len(o) - 1
                 PROVE  Earlier(u[i], u[i + 1]) <=> Before(o[i].id, o[i + 1].id)
    OBVIOUS
  <2>2. i \in 1..Len(o) /\ i + 1 \in 1..Len(o)
    BY <1>2, <2>1
  <2>3. u[i] = StartOf(o[i]) /\ u[i + 1] = StartOf(o[i + 1])
    BY <1>5, <2>2
  <2> QED
    BY <2>3 DEF Earlier, Before, StartOf
<1>11. {i \in 1..Len(o) - 1 : ~Earlier(u[i], u[i + 1])}
       = {i \in 1..Len(o) - 1 : ~Before(o[i].id, o[i + 1].id)}
  BY <1>10
<1> QED
  BY <1>9, <1>11

(* The records of a direction keep the order in which its messages were    *)
(* sent, and none comes twice, but for one step back for every             *)
(* retransmission: for all segments, losses, paddings, evictions and       *)
(* reused ports, and however small the buffers and the limits of the       *)
(* parsers are.                                                            *)
THEOREM ReportsInOrder ==
  ASSUME Scripted
  PROVE  Spec => []InOrder
<1>1. Init => OInv
  BY InitOrder
<1>2. OInv /\ [Next]_vars => OInv'
  BY StepOrder
<1> QED
  BY <1>1, <1>2, OrderShows, PTL DEF Spec

-----------------------------------------------------------------------------
(* Whole messages.                                                         *)
LEMMA ModSmall ==
  ASSUME NEW m \in Nat \ {0}, NEW x \in 0..m - 1
  PROVE  x % m = x
OBVIOUS

LEMMA LesserIs ==
  ASSUME NEW m \in Nat, NEW n \in Nat
  PROVE  /\ m <= n => Lesser(m, n) = m
         /\ n <= m => Lesser(m, n) = n
BY DEF Lesser

LEMMA AsIntSame ==
  ASSUME NEW n \in 0..IntMax
  PROVE  AsInt(n) = n
<1> DEFINE m == 2 * (IntMax + 1)
           x == n + IntMax + 1
<1>1. m \in Nat \ {0} /\ x \in 0..m - 1
  BY TcpStreamAssumption
<1> HIDE DEF m, x
<1>2. x % m = x
  BY <1>1, ModSmall
<1> QED
  BY <1>2, TcpStreamAssumption DEF AsInt, m, x

LEMMA UnitCountType ==
  ASSUME NEW m \in Message
  PROVE  /\ UnitCount(m) \in Nat \ {0} /\ m.size \in 0..MaxSize /\ m.size \in Nat
         /\ m.proto = "tls" => UnitCount(m) = m.size + 1
         /\ m.proto # "tls" => m.proto = "http" /\ UnitCount(m) >= 2
<1>1. /\ m.size \in 0..MaxSize /\ MaxSize \in Nat /\ m.proto \in {"http", "tls"}
      /\ m.body \in {"none", "length", "chunked", "close", "declared"}
  BY TcpStreamAssumption DEF Message
<1>2. m.size \in Nat
  BY <1>1
<1>3. CASE m.proto = "tls"
  <2>1. UnitCount(m) = m.size + 1
    BY <1>3 DEF UnitCount
  <2> QED
    BY <1>1, <1>2, <1>3, <2>1
<1>4. CASE m.proto # "tls"
  <2>1. UnitCount(m) \in {2, m.size + 2, m.size + 3}
    BY <1>1, <1>4 DEF UnitCount
  <2> QED
    BY <1>1, <1>2, <1>4, <2>1
<1> QED
  BY <1>3, <1>4

\* From where a message starts, a script goes through its units.
LEMMA MessageUnits ==
  ASSUME NEW w \in Seq(Unit), Script(w), NEW c, \A i \in 1..Len(w) : w[i].conn = c,
         NEW p \in 1..Len(w), w[p].at = 1,
         NEW k \in 1..UnitCount(w[p].of), p + k - 1 <= Len(w)
  PROVE  w[p + k - 1] = Units(c, w[p].nth, w[p].of)[k]
<1> DEFINE m == w[p].of
           T == {j \in Nat : j < UnitCount(m) /\ p + j <= Len(w) =>
                               /\ w[p + j].of = m /\ w[p + j].nth = w[p].nth
                               /\ w[p + j].at = j + 1}
<1>1. m \in Message /\ UnitCount(m) \in Nat
  <2>1. w[p] \in Unit
    OBVIOUS
  <2>2. m \in Message
    BY <2>1 DEF Unit
  <2> QED
    BY <2>2, UnitCountType
<1>2. 0 \in T
  OBVIOUS
<1>3. ASSUME NEW j \in Nat, j \in T
      PROVE  j + 1 \in T
  <2>1. SUFFICES ASSUME j + 1 < UnitCount(m), p + (j + 1) <= Len(w)
                 PROVE  /\ w[p + (j + 1)].of = m /\ w[p + (j + 1)].nth = w[p].nth
                        /\ w[p + (j + 1)].at = (j + 1) + 1
    OBVIOUS
  <2>2. /\ w[p + j].of = m /\ w[p + j].nth = w[p].nth /\ w[p + j].at = j + 1
    BY <1>1, <1>3, <2>1
  <2>3. ~IsEnd(w[p + j])
    BY <1>1, <2>1, <2>2 DEF IsEnd
  <2>4. p + j \in 1..Len(w) - 1 /\ (p + j) + 1 = p + (j + 1)
    BY <2>1
  <2>5. FollowsIn(w[p + j], w[(p + j) + 1])
    BY <2>4 DEF Script
  <2> QED
    BY <2>2, <2>3, <2>4, <2>5 DEF FollowsIn
<1> HIDE DEF T
<1>4. Nat \subseteq T
  BY <1>2, <1>3, Induction
<1>5. k - 1 \in T /\ k - 1 < UnitCount(m) /\ p + (k - 1) <= Len(w)
  BY <1>1, <1>4
<1>6. /\ w[p + (k - 1)].of = m /\ w[p + (k - 1)].nth = w[p].nth
      /\ w[p + (k - 1)].at = (k - 1) + 1
  BY <1>5 DEF T
<1>7. p + (k - 1) = p + k - 1 /\ (k - 1) + 1 = k /\ p + k - 1 \in 1..Len(w)
  OBVIOUS
<1> DEFINE u == w[p + k - 1]
<1>8. u \in Unit /\ u.kind = Kind(m, k) /\ u.of = m /\ u.conn = c /\ u.nth = w[p].nth
      /\ u.at = k
  <2>1. u.of = m /\ u.at = k /\ u.nth = w[p].nth
    BY <1>6, <1>7
  <2>2. u.kind = Kind(u.of, u.at)
    BY <1>7 DEF Script
  <2> QED
    BY <1>7, <2>1, <2>2
<1> HIDE DEF u
<1>9. u = [kind |-> Kind(m, k), of |-> m, conn |-> c, nth |-> w[p].nth, at |-> k]
  BY <1>8 DEF Unit
<1> HIDE DEF m
<1>10. Units(c, w[p].nth, m)[k] = [kind |-> Kind(m, k), of |-> m, conn |-> c,
                                   nth |-> w[p].nth, at |-> k]
  BY DEF Units, m
<1>11. u = Units(c, w[p].nth, m)[k]
  BY <1>9, <1>10
<1> QED
  BY <1>11 DEF m, u

\* A buffer that the units of w up to number n end in.
Run(b, w, n) ==
  /\ Len(b) <= n /\ n <= Len(w)
  /\ \A i \in 1..Len(b) : b[i] = w[n - Len(b) + i]

\* A stream of one connection.
OneStream(w, c) == Script(w) /\ \A i \in 1..Len(w) : w[i].conn = c

LEMMA BufferUnits ==
  ASSUME NEW w \in Seq(Unit), NEW c, OneStream(w, c), NEW n \in Nat,
         NEW b \in Seq(Held), Run(b, w, n),
         NEW o \in 1..Len(b), b[o].at = 1,
         NEW k \in 1..UnitCount(b[o].of), o + k - 1 <= Len(b)
  PROVE  b[o + k - 1] = Units(b[o].conn, b[o].nth, b[o].of)[k]
<1> DEFINE p == n - Len(b) + o
<1>1. Len(b) \in Nat /\ Len(w) \in Nat /\ Len(b) <= n /\ n <= Len(w)
  BY DEF Run
<1>2. p \in 1..Len(w) /\ b[o] = w[p]
  BY <1>1 DEF Run
<1>3. UnitCount(b[o].of) \in Nat
  <2>1. w[p] \in Unit
    BY <1>2
  <2> QED
    BY <1>2, <2>1, UnitCountType DEF Unit
<1>4. k \in Nat /\ k >= 1
  BY <1>3
<1>5. p + k - 1 <= Len(w) /\ o + k - 1 \in 1..Len(b) /\ n - Len(b) + (o + k - 1) = p + k - 1
  BY <1>1, <1>4
<1>6. b[o + k - 1] = w[p + k - 1]
  BY <1>5 DEF Run
<1> HIDE DEF p
<1>7. w[p + k - 1] = Units(c, w[p].nth, w[p].of)[k]
  <2>1. Script(w) /\ \A i \in 1..Len(w) : w[i].conn = c
    BY DEF OneStream
  <2>2. p \in 1..Len(w) /\ w[p].at = 1 /\ k \in 1..UnitCount(w[p].of)
    BY <1>2
  <2> QED
    BY <1>5, <2>1, <2>2, MessageUnits
<1>8. b[o].conn = c
  BY <1>2 DEF OneStream
<1> QED
  BY <1>2, <1>6, <1>7, <1>8

LEMMA TookWhole ==
  ASSUME NEW w \in Seq(Unit), NEW c, OneStream(w, c), NEW n \in Nat,
         NEW b \in Seq(Held), Run(b, w, n),
         NEW o \in 1..Len(b), b[o].at = 1, b[o].of \in Message,
         o + UnitCount(b[o].of) - 1 <= Len(b)
  PROVE  SubSeq(b, o, o + UnitCount(b[o].of) - 1) = Units(b[o].conn, b[o].nth, b[o].of)
<1> DEFINE m == b[o].of
           l == UnitCount(m)
           s == SubSeq(b, o, o + l - 1)
           u == Units(b[o].conn, b[o].nth, m)
<1>1. l \in Nat /\ l >= 1
  BY UnitCountType
<1>2. \A k \in 1..l : b[o + k - 1] = u[k]
  BY <1>1, BufferUnits
<1>3. u = [k \in 1..l |-> u[k]]
  BY DEF Units
<1>4. s = [k \in 1..l |-> b[o + k - 1]]
  <2> HIDE DEF l
  <2> QED
    BY <1>1
<1> HIDE DEF s, l, u, m
<1>5. s = u
  BY <1>2, <1>3, <1>4
<1> QED
  BY <1>5 DEF s, l, u, m

\* The lengths of all bodies are told.
Delimited(m) == m.proto = "http" => m.body \in {"none", "length", "chunked"}

\* What a buffer starts with when a message starts there.
LEMMA FirstUnits ==
  ASSUME NEW w \in Seq(Unit), NEW c, OneStream(w, c), NEW n \in Nat,
         NEW b \in Seq(Held), Run(b, w, n), StartsMessage(b)
  PROVE  /\ 1 \in 1..Len(b) /\ b[1].at = 1 /\ b[1].of \in Message
         /\ b[1].of.proto = "http"
         /\ \A k \in 1..Len(b) : k <= UnitCount(b[1].of) =>
              /\ b[k].of = b[1].of /\ b[k].kind = Kind(b[1].of, k)
<1> DEFINE m == b[1].of
<1>1. 1 \in 1..Len(b) /\ b[1].kind = "start" /\ Len(b) \in Nat
  BY DEF StartsMessage
<1>2. n - Len(b) + 1 \in 1..Len(w) /\ b[1] = w[n - Len(b) + 1]
  BY <1>1 DEF Run
<1>3. /\ b[1].kind = Kind(m, b[1].at) /\ b[1] \in Unit
  BY <1>2 DEF OneStream, Script
<1>4. m \in Message
  BY <1>3 DEF Unit
<1>5. m.proto # "tls" /\ b[1].at = 1
  BY <1>1, <1>3 DEF Kind
<1>6. m.proto = "http" /\ UnitCount(m) \in Nat
  BY <1>4, <1>5, UnitCountType
<1>7. ASSUME NEW k \in 1..Len(b), k <= UnitCount(m)
      PROVE  b[k].of = m /\ b[k].kind = Kind(m, k)
  <2>1. k \in 1..UnitCount(m)
    BY <1>6, <1>7
  <2>2. 1 + k - 1 <= Len(b) /\ 1 + k - 1 = k
    BY <1>7, <1>1
  <2>3. b[1 + k - 1] = Units(b[1].conn, b[1].nth, m)[k]
    BY <1>1, <1>5, <2>1, <2>2, BufferUnits
  <2> HIDE DEF m
  <2>4. b[k] = [kind |-> Kind(m, k), of |-> m, conn |-> b[1].conn,
                nth |-> b[1].nth, at |-> k]
    BY <2>1, <2>2, <2>3 DEF Units
  <2> QED
    BY <2>4
<1> QED
  BY <1>1, <1>4, <1>5, <1>6, <1>7

LEMMA HeaderEndsAt ==
  ASSUME NEW b \in Seq(Held), b[1].kind = "start", Len(b) >= 2, b[2].kind = "head"
  PROVE  HeaderEnd(b) = 2
<1> DEFINE blank == {i \in 1..Len(b) : b[i].kind \in {"head", "last"}}
<1>1. 2 \in blank /\ 1 \notin blank /\ blank \subseteq Nat \ {0}
  OBVIOUS
<1>2. \A i \in blank : 2 <= i
  BY <1>1
<1>3. HeaderEnd(b) = CHOOSE i \in blank : \A j \in blank : i <= j
  BY <1>1 DEF HeaderEnd
<1> HIDE DEF blank
<1>4. HeaderEnd(b) \in blank /\ \A j \in blank : HeaderEnd(b) <= j
  BY <1>1, <1>2, <1>3
<1>5. HeaderEnd(b) \in Nat /\ HeaderEnd(b) # 0 /\ HeaderEnd(b) # 1 /\ HeaderEnd(b) <= 2
  BY <1>1, <1>4
<1> QED
  BY <1>5

\* The last chunk ends the body.
LEMMA ChunksEndAt ==
  ASSUME NEW b \in Seq(Held), HeaderEnd(b) = 2, NEW m \in Message,
         m.proto = "http", m.body = "chunked",
         \A k \in 1..Len(b) : k <= UnitCount(m) => b[k].kind = Kind(m, k)
  PROVE  /\ m.size + 3 <= Len(b) => ChunksEnd(b) = m.size + 3
         /\ m.size + 3 > Len(b) => ChunksEnd(b) = 0
<1> DEFINE ends == {i \in 3..Len(b) :
                      b[i].kind = "last" /\ \A j \in 3..i - 1 : b[j].kind = "chunk"}
<1>1. m.size \in Nat /\ UnitCount(m) = m.size + 3 /\ Len(b) \in Nat
  <2>1. UnitCount(m) = m.size + 3
    BY DEF UnitCount
  <2> QED
    BY <2>1, UnitCountType
<1>2. ASSUME NEW k \in 3..Len(b), k <= m.size + 3
      PROVE  b[k].kind = IF k = m.size + 3 THEN "last" ELSE "chunk"
  <2>1. k \in 1..Len(b) /\ k <= UnitCount(m) /\ k # 1 /\ k # 2
    BY <1>1, <1>2
  <2>2. b[k].kind = Kind(m, k)
    BY <2>1
  <2> QED
    BY <2>1, <2>2 DEF Kind
<1>3. ChunksEnd(b) = IF ends = {} THEN 0 ELSE CHOOSE i \in ends : TRUE
  BY DEF ChunksEnd
<1>4. \A i \in ends : i = m.size + 3
  <2>1. SUFFICES ASSUME NEW i \in ends
                 PROVE  i = m.size + 3
    OBVIOUS
  <2>2. i \in 3..Len(b) /\ b[i].kind = "last" /\ \A j \in 3..i - 1 : b[j].kind = "chunk"
    BY <2>1
  <2>3. CASE i < m.size + 3
    <3>1. b[i].kind = "chunk"
      BY <1>1, <1>2, <2>2, <2>3
    <3> QED
      BY <2>2, <3>1
  <2>4. CASE i > m.size + 3
    <3>1. m.size + 3 \in 3..i - 1 /\ m.size + 3 \in 3..Len(b)
      BY <1>1, <2>2, <2>4
    <3>2. b[m.size + 3].kind = "last"
      BY <1>1, <1>2, <3>1
    <3> QED
      BY <2>2, <3>1, <3>2
  <2> QED
    BY <1>1, <2>2, <2>3, <2>4
<1>5. m.size + 3 <= Len(b) => m.size + 3 \in ends
  BY <1>1, <1>2
<1>6. m.size + 3 > Len(b) => ends = {}
  BY <1>1, <1>4
<1> HIDE DEF ends
<1> QED
  BY <1>3, <1>4, <1>5, <1>6

\* Without a limit, a message whose end can be told parses exactly when all
\* of it is there, and what is taken is that message.
LEMMA ParsesWhole ==
  ASSUME BodyLimit = 0, MaxSize <= IntMax,
         NEW w \in Seq(Unit), NEW c, OneStream(w, c), NEW n \in Nat,
         NEW b \in Seq(Held), Run(b, w, n), StartsMessage(b), Delimited(b[1].of)
  PROVE  /\ Parses(b) <=> UnitCount(b[1].of) <= Len(b)
         /\ Parses(b) => /\ Consumed(b) = UnitCount(b[1].of)
                         /\ Kept(b) = IF b[1].of.body = "none" THEN 0 ELSE b[1].of.size
<1> DEFINE m == b[1].of
           l == UnitCount(m)
<1>1. /\ m \in Message /\ m.proto = "http" /\ Len(b) \in Nat
      /\ \A k \in 1..Len(b) : k <= l => b[k].of = m /\ b[k].kind = Kind(m, k)
  BY FirstUnits
<1>2. l \in Nat /\ l >= 2 /\ m.size \in 0..MaxSize /\ m.size \in Nat
  BY <1>1, UnitCountType
<1>3. b[1].kind = "start"
  BY DEF StartsMessage
<1>4. CASE Len(b) < 2
  <2>1. ~(HeaderEnd(b) > 0)
    <3>1. HeaderEnd(b) \in 0..Len(b)
      BY HeaderEndBound
    <3>2. HeaderEnd(b) > 0 => b[HeaderEnd(b)].kind \in {"head", "last"}
      BY HeaderEndBound
    <3>3. HeaderEnd(b) > 0 => HeaderEnd(b) = 1
      BY <1>1, <1>4, <3>1
    <3> QED
      BY <1>3, <3>2, <3>3
  <2> QED
    BY <1>1, <1>2, <1>4, <2>1 DEF Parses
<1>5. CASE Len(b) >= 2
  <2>1. 2 \in 1..Len(b)
    BY <1>1, <1>5
  <2>2. b[2].of = m /\ b[2].kind = "head"
    <3>1. b[2].of = m /\ b[2].kind = Kind(m, 2)
      BY <1>1, <1>2, <2>1
    <3> QED
      BY <1>1, <3>1 DEF Kind
  <2>3. HeaderEnd(b) = 2
    BY <1>3, <1>5, <2>2, HeaderEndsAt
  <2>4. m.body \in {"none", "length", "chunked"}
    BY <1>1 DEF Delimited
  <2>5. \A form : Declares(b, form) <=> m.body \in form
    BY <2>2, <2>3 DEF Declares
  <2>6. NoBody(b) <=> m.body = "none"
    BY DEF NoBody
  <2>7. Available(b) = Len(b) - 2
    BY <2>3 DEF Available
  <2>8. CASE m.body = "none"
    <3>1. l = 2
      BY <1>1, <2>8 DEF UnitCount
    <3>2. Parses(b)
      BY <2>3, <2>6, <2>8 DEF Parses
    <3>3. Consumed(b) = 2
      <4>1. Consumed(b) = Lesser(Len(b), HeaderEnd(b))
        BY <2>6, <2>8 DEF Consumed
      <4>2. Len(b) \in Nat /\ HeaderEnd(b) = 2 /\ Len(b) >= 2
        BY <1>5, <2>3
      <4>3. Lesser(Len(b), HeaderEnd(b)) = 2
        BY <4>2, LesserIs
      <4> QED
        BY <4>1, <4>3
    <3>4. Kept(b) = 0
      BY <2>6, <2>8 DEF Kept
    <3> QED
      BY <1>5, <2>8, <3>1, <3>2, <3>3, <3>4
  <2>9. CASE m.body = "length"
    <3>1. l = m.size + 2
      BY <1>1, <2>9 DEF UnitCount
    <3>2. ContentLength(b) = m.size
      <4>1. ContentLength(b) = AsInt(m.size)
        BY <2>2, <2>3, <2>5, <2>9 DEF ContentLength
      <4>2. m.size \in 0..IntMax
        BY <1>2, TcpStreamAssumption
      <4> QED
        BY <4>1, <4>2, AsIntSame
    <3>3. ~Declares(b, {"chunked"}) /\ ~NoBody(b)
      BY <2>5, <2>6, <2>9
    <3>4. Parses(b) <=> Len(b) - 2 >= m.size
      BY <2>3, <2>7, <3>2, <3>3 DEF Parses, BodyReady
    <3>5. Kept(b) = m.size
      BY <1>2, <3>2, <3>3 DEF Kept
    <3>6. Consumed(b) = Lesser(Len(b), 2 + m.size)
      BY <1>2, <2>3, <3>2, <3>3 DEF Consumed
    <3> HIDE DEF l, m
    <3> QED
      BY <1>1, <1>2, <2>9, <3>1, <3>4, <3>5, <3>6 DEF Lesser, l, m
  <2>10. CASE m.body = "chunked"
    <3>1. l = m.size + 3
      BY <1>1, <2>10 DEF UnitCount
    <3>2. /\ m.size + 3 <= Len(b) => ChunksEnd(b) = m.size + 3
          /\ m.size + 3 > Len(b) => ChunksEnd(b) = 0
      BY <1>1, <2>3, <2>10, ChunksEndAt
    <3>3. Declares(b, {"chunked"}) /\ ~NoBody(b)
      BY <2>5, <2>6, <2>10
    <3>4. Parses(b) <=> ChunksEnd(b) > 0
      BY <2>3, <3>3 DEF Parses, BodyReady
    <3>5. Kept(b) = ChunksEnd(b) - 1 - 2
      BY <2>3, <3>3 DEF Kept
    <3>6. Consumed(b) = Lesser(Len(b), ChunksEnd(b))
      BY <3>3 DEF Consumed
    <3> HIDE DEF l, m
    <3> QED
      BY <1>1, <1>2, <2>10, <3>1, <3>2, <3>4, <3>5, <3>6 DEF Lesser, l, m
  <2> QED
    BY <2>4, <2>8, <2>9, <2>10
<1> QED
  BY <1>1, <1>4, <1>5

-----------------------------------------------------------------------------
(* The TLS search.                                                         *)

\* One round of the walk, the results from the next record on given.
Look(b, side, left, further) ==
  [i \in 1..Len(b) + 1 |->
    IF left = 0 \/ i > Len(b) THEN 0
    ELSE IF b[i].kind # "rec" THEN 0
    ELSE IF i + b[i].of.size > Len(b) THEN Incomplete
    ELSE IF b[i].of.side = side THEN i
    ELSE further[i + 1 + b[i].of.size]]

LEMMA WalkDefined ==
  ASSUME NEW b, NEW side
  PROVE  Walk(b, side) = [n \in 0..WalkMax |-> Look(b, side, n, Walk(b, side)[n - 1])]
<1> DEFINE Recurs(g, n) == g = [k \in 0..n |-> Look(b, side, k, g[k - 1])]
           T == {n \in Nat : \E g : Recurs(g, n)}
<1>1. 0 \in T
  <2> DEFINE none == [i \in 1..Len(b) + 1 |-> 0]
             g == [k \in 0..0 |-> none]
  <2>1. \A further : Look(b, side, 0, further) = none
    BY DEF Look
  <2> HIDE DEF none
  <2>2. Recurs(g, 0)
    <3>1. \A k \in 0..0 : g[k] = Look(b, side, k, g[k - 1])
      BY <2>1
    <3> QED
      BY <3>1
  <2> HIDE DEF g, Recurs
  <2> QED
    BY <2>2
<1>2. ASSUME NEW n \in Nat, n \in T
      PROVE  n + 1 \in T
  <2>1. PICK g : Recurs(g, n)
    BY <1>2
  <2> DEFINE h == [k \in 0..(n + 1) |->
                     IF k = n + 1 THEN Look(b, side, k, g[n]) ELSE g[k]]
  <2>2. ASSUME NEW k \in 0..(n + 1)
        PROVE  h[k] = Look(b, side, k, h[k - 1])
    <3>2. CASE k = n + 1
      <4>1. h[k] = Look(b, side, k, g[n]) /\ h[k - 1] = g[n]
        BY <3>2
      <4> QED
        BY <4>1
    <3>3. CASE k # n + 1 /\ k # 0
      <4>1. h[k] = g[k] /\ h[k - 1] = g[k - 1] /\ k \in 0..n
        BY <3>3
      <4> QED
        BY <2>1, <4>1
    <3>4. CASE k # n + 1 /\ k = 0
      <4>1. h[k] = g[k] /\ k \in 0..n
        BY <3>4
      <4>2. h[k] = Look(b, side, 0, g[k - 1])
        BY <2>1, <3>4, <4>1
      <4>3. \A p, q : Look(b, side, 0, p) = Look(b, side, 0, q)
        BY DEF Look
      <4> QED
        BY <3>4, <4>2, <4>3
    <3> QED
      BY <3>2, <3>3, <3>4
  <2>3. Recurs(h, n + 1)
    BY <2>2
  <2> HIDE DEF h, Recurs
  <2> QED
    BY <2>3
<1> HIDE DEF T
<1>3. Nat \subseteq T
  BY <1>1, <1>2, Induction
<1>4. \E g : Recurs(g, WalkMax)
  BY <1>3, TcpStreamAssumption DEF T
<1>5. Walk(b, side) = CHOOSE g : Recurs(g, WalkMax)
  BY DEF Walk, Look
<1> HIDE DEF Recurs
<1>6. Recurs(Walk(b, side), WalkMax)
  BY <1>4, <1>5
<1> QED
  BY <1>6 DEF Recurs

\* A record of the wanted handshake that is all in the buffer.
WholeRecord(b, side, o) ==
  o \in 1..Len(b) /\ b[o].kind = "rec" /\ b[o].of.side = side /\ o + b[o].of.size <= Len(b)

LEMMA WalkFinds ==
  ASSUME NEW b \in Seq(Held), NEW side, NEW o \in 1..Len(b)
  PROVE  \/ RecordsFrom(b, o, side) \in {0, Incomplete}
         \/ WholeRecord(b, side, RecordsFrom(b, o, side))
<1> DEFINE walk == Walk(b, side)
           Fine(v) == v \in {0, Incomplete} \/ WholeRecord(b, side, v)
           T == {n \in Nat : n \in 0..WalkMax => \A i \in 1..Len(b) + 1 : Fine(walk[n][i])}
<1>1. \A n \in 0..WalkMax : walk[n] = Look(b, side, n, walk[n - 1])
  <2>1. walk = [n \in 0..WalkMax |-> Look(b, side, n, walk[n - 1])]
    BY WalkDefined
  <2> HIDE DEF walk
  <2> QED
    BY <2>1
<1> HIDE DEF walk
<1>2. ASSUME NEW n \in 0..WalkMax, n = 0 \/ \A i \in 1..Len(b) + 1 : Fine(walk[n - 1][i]),
             NEW i \in 1..Len(b) + 1
      PROVE  Fine(walk[n][i])
  <2> DEFINE further == walk[n - 1]
  <2>1. walk[n][i] = Look(b, side, n, further)[i]
    BY <1>1
  <2>2. \A k \in 1..Len(b) : b[k].kind = "rec" => b[k].of.size \in Nat
    BY UnitFields
  <2>3. n = 0 \/ \A k \in 1..Len(b) + 1 : Fine(further[k])
    BY <1>2
  <2> HIDE DEF further
  <2>4. CASE n = 0 \/ i > Len(b) \/ b[i].kind # "rec"
    <3>1. walk[n][i] = 0
      BY <2>1, <2>4 DEF Look
    <3> QED
      BY <3>1
  <2>5. CASE ~(n = 0 \/ i > Len(b) \/ b[i].kind # "rec")
    <3>1. i \in 1..Len(b) /\ b[i].kind = "rec" /\ b[i].of.size \in Nat /\ n # 0
      BY <2>2, <2>5
    <3>2. CASE i + b[i].of.size > Len(b)
      <4>1. walk[n][i] = Incomplete
        BY <2>1, <3>1, <3>2, <2>5 DEF Look
      <4> QED
        BY <4>1
    <3>3. CASE ~(i + b[i].of.size > Len(b)) /\ b[i].of.side = side
      <4>1. walk[n][i] = i
        BY <2>1, <3>1, <3>3, <2>5 DEF Look
      <4>2. i + b[i].of.size <= Len(b)
        BY <3>1, <3>3
      <4> QED
        BY <3>1, <3>3, <4>1, <4>2 DEF WholeRecord
    <3>4. CASE ~(i + b[i].of.size > Len(b)) /\ b[i].of.side # side
      <4>1. walk[n][i] = further[i + 1 + b[i].of.size]
        BY <2>1, <3>1, <3>4, <2>5 DEF Look
      <4>2. i + 1 + b[i].of.size \in 1..Len(b) + 1
        BY <3>1, <3>4
      <4> QED
        BY <2>3, <3>1, <4>1, <4>2
    <3> QED
      BY <3>2, <3>3, <3>4
  <2> QED
    BY <2>4, <2>5
<1> HIDE DEF Fine
<1>3. 0 \in T
  BY <1>2, TcpStreamAssumption
<1>4. ASSUME NEW n \in Nat, n \in T
      PROVE  n + 1 \in T
  <2>1. SUFFICES ASSUME n + 1 \in 0..WalkMax
                 PROVE  \A i \in 1..Len(b) + 1 : Fine(walk[n + 1][i])
    OBVIOUS
  <2>2. n \in 0..WalkMax /\ (n + 1) - 1 = n
    BY <2>1, TcpStreamAssumption
  <2>3. \A i \in 1..Len(b) + 1 : Fine(walk[n][i])
    BY <1>4, <2>2
  <2> QED
    BY <1>2, <2>1, <2>2, <2>3
<1> HIDE DEF T
<1>5. Nat \subseteq T
  BY <1>3, <1>4, Induction
<1>6. WalkMax \in T /\ WalkMax \in 0..WalkMax /\ o \in 1..Len(b) + 1
  BY <1>5, TcpStreamAssumption
<1>7. Fine(walk[WalkMax][o])
  BY <1>6 DEF T
<1> QED
  BY <1>7 DEF RecordsFrom, Fine, walk

\* What is reported as a hello is one whole record.
LEMMA HelloWhole ==
  ASSUME NEW b \in Seq(Held), NEW side, NEW o \in FindHandshake(b, side)
  PROVE  WholeRecord(b, side, o)
<1> DEFINE hits == {p \in 1..Lesser(Len(b), ScanMax + 1) : RecordsFrom(b, p, side) # 0}
<1>1. o \in 1..Len(b) /\ Search(b, side) = o /\ o # 0 /\ o # Incomplete
  BY DEF FindHandshake, Incomplete
<1>2. hits # {} /\ Search(b, side) = RecordsFrom(b, CHOOSE p \in hits : \A q \in hits : p <= q, side)
  BY <1>1 DEF Search
<1>3. hits \subseteq 1..Len(b) /\ hits \in SUBSET Nat
  BY TcpStreamAssumption DEF Lesser
<1> HIDE DEF hits
<1>4. \E p \in hits : \A q \in hits : p <= q
  BY <1>2, <1>3, LeastExists
<1>5. PICK p \in hits : Search(b, side) = RecordsFrom(b, p, side)
  BY <1>2, <1>4
<1>6. p \in 1..Len(b)
  BY <1>3
<1>7. RecordsFrom(b, p, side) = o
  BY <1>1, <1>5
<1> QED
  BY <1>1, <1>6, <1>7, WalkFinds

-----------------------------------------------------------------------------
(* Runs of a stream.                                                       *)
LEMMA RunEmpty ==
  ASSUME NEW w \in Seq(Unit), NEW n \in Nat, n <= Len(w)
  PROVE  Run(<<>>, w, n)
BY DEF Run

LEMMA RunSuffix ==
  ASSUME NEW w \in Seq(Unit), NEW n \in Nat, NEW all \in Seq(Held), Run(all, w, n),
         NEW b \in Seq(Held), NEW k \in Nat, Len(b) + k = Len(all),
         \A i \in 1..Len(b) : b[i] = all[i + k]
  PROVE  Run(b, w, n)
<1>1. Len(all) \in Nat /\ Len(b) \in Nat /\ Len(all) <= n /\ n <= Len(w)
  BY DEF Run
<1>2. ASSUME NEW i \in 1..Len(b)
      PROVE  b[i] = w[n - Len(b) + i]
  <2>1. i + k \in 1..Len(all) /\ n - Len(all) + (i + k) = n - Len(b) + i
    <3> DEFINE la == Len(all)
               lb == Len(b)
    <3>1. la \in Nat /\ lb \in Nat /\ lb + k = la /\ i \in 1..lb
      BY <1>1
    <3> HIDE DEF la, lb
    <3>2. i + k \in 1..la /\ n - la + (i + k) = n - lb + i
      BY <3>1
    <3> QED
      BY <3>2 DEF la, lb
  <2>2. all[i + k] = w[n - Len(all) + (i + k)]
    BY <2>1 DEF Run
  <2> QED
    BY <2>1, <2>2
<1>3. Len(b) <= n
  BY <1>1
<1> QED
  BY <1>1, <1>2, <1>3 DEF Run

LEMMA RunGrows ==
  ASSUME NEW w \in Seq(Unit), NEW n \in Nat, NEW b \in Seq(Held), Run(b, w, n),
         NEW front \in Seq(Held), NEW j \in Nat, j = n + Len(front), j <= Len(w),
         \A k \in 1..Len(front) : front[k] = w[n + k]
  PROVE  Run(b \o front, w, j)
<1> DEFINE all == b \o front
<1>1. /\ Len(b) \in Nat /\ Len(front) \in Nat /\ Len(all) = Len(b) + Len(front)
      /\ Len(b) <= n
  BY DEF Run
<1>2. /\ \A i \in 1..Len(b) : all[i] = b[i]
      /\ \A i \in 1..Len(front) : all[Len(b) + i] = front[i]
  OBVIOUS
<1> HIDE DEF all
<1>3. ASSUME NEW i \in 1..Len(all)
      PROVE  all[i] = w[j - Len(all) + i]
  <2>1. j - Len(all) = n - Len(b)
    BY <1>1
  <2>2. CASE i <= Len(b)
    <3>1. i \in 1..Len(b)
      BY <1>1, <1>3, <2>2
    <3>2. b[i] = w[n - Len(b) + i]
      BY <3>1 DEF Run
    <3> QED
      BY <1>2, <2>1, <3>1, <3>2
  <2>3. CASE ~(i <= Len(b))
    <3> DEFINE k == i - Len(b)
    <3>1. k \in 1..Len(front) /\ i = Len(b) + k /\ j - Len(all) + i = n + k
      BY <1>1, <1>3, <2>1, <2>3
    <3> HIDE DEF k
    <3>2. all[i] = front[k] /\ front[k] = w[n + k]
      BY <1>2, <3>1
    <3> QED
      BY <3>1, <3>2
  <2> QED
    BY <2>2, <2>3
<1>4. Len(all) <= j
  BY <1>1
<1> QED
  BY <1>3, <1>4 DEF Run, all

LEMMA RunCapped ==
  ASSUME NEW w \in Seq(Unit), NEW n \in Nat, NEW b \in Seq(Held), Run(b, w, n),
         NEW front \in Seq(Held), NEW j \in Nat, j = n + Len(front), j <= Len(w),
         \A k \in 1..Len(front) : front[k] = w[n + k]
  PROVE  Run(Capped(b, front), w, j)
<1> DEFINE all == b \o front
           r == Capped(b, front)
<1>1. all \in Seq(Held) /\ Run(all, w, j)
  BY RunGrows
<1>2. r \in Seq(Held)
  BY CappedHeld
<1>3. PICK k \in Nat : Len(r) + k = Len(all) /\ \A i \in 1..Len(r) : r[i] = all[i + k]
  BY CappedSuffix
<1> HIDE DEF all, r
<1>4. Run(r, w, j)
  BY <1>1, <1>2, <1>3, RunSuffix
<1> QED
  BY <1>4 DEF r

\* What is left of a buffer of which some units, not none, are consumed.
LEMMA RestIs ==
  ASSUME NEW b \in Seq(Held), NEW n \in 1..Len(b)
  PROVE  /\ Rest(b, n) \in Seq(Held) /\ Len(Rest(b, n)) + n = Len(b)
         /\ \A i \in 1..Len(Rest(b, n)) : Rest(b, n)[i] = b[i + n]
<1>1. Len(b) \in Nat /\ n \in Nat
  OBVIOUS
<1>2. CASE n >= Len(b)
  <2>1. Rest(b, n) = <<>> /\ n = Len(b)
    BY <1>1, <1>2 DEF Rest
  <2> QED
    BY <1>1, <2>1
<1>3. CASE ~(n >= Len(b))
  <2>1. Rest(b, n) = SubSeq(b, n + 1, Len(b)) /\ n < Len(b)
    BY <1>1, <1>3 DEF Rest
  <2>2. Len(Rest(b, n)) = Len(b) - n /\ Rest(b, n) \in Seq(Held)
    BY <1>1, <2>1
  <2>3. \A i \in 1..Len(b) - n : Rest(b, n)[i] = b[i + n]
    BY <1>1, <2>1
  <2>4. Len(Rest(b, n)) + n = Len(b)
    BY <1>1, <2>2
  <2> QED
    BY <2>2, <2>3, <2>4
<1> QED
  BY <1>2, <1>3

-----------------------------------------------------------------------------
(* Every record is one whole message, as long as what is captured is what  *)
(* was sent: nothing is lost, repeated, padded or taken over by a          *)
(* connection on the same ports; flows may be forgotten at any time, and a *)
(* buffer may be too small.                                                *)
AllDelimited(w) == \A i \in 1..Len(w) : Delimited(w[i].of)

Undisturbed ==
  /\ Scripted /\ \A c \in Conversations : \A d \in Dir : AllDelimited(c[d])
  /\ Faults \subseteq {"pipeline", "forget"}
  /\ BodyLimit = 0 /\ MaxSize <= IntMax
  /\ MaxSeg <= PktCap

StreamAt(d) ==
  /\ OneStream(wire[d], conn) /\ AllDelimited(wire[d])
  /\ Run(buf[d], wire[d], sent[d])

RecordsAt(d) == \A i \in 1..Len(out[d]) : Whole(out[d][i])

WInv == IInv /\ \A d \in Dir : StreamAt(d) /\ RecordsAt(d)

LEMMA WholeShows == WInv => WholeRecords
BY DEF WInv, WholeRecords, Whole, RecordsAt, Records

LEMMA UnitsFirst ==
  ASSUME NEW m \in Message, NEW c, NEW n
  PROVE  /\ Units(c, n, m)[1].conn = c /\ Units(c, n, m)[1].nth = n
         /\ Units(c, n, m)[1].of = m
BY UnitCountType DEF Units

LEMMA TookIsWhole ==
  ASSUME NEW m \in Message, NEW c, NEW n, NEW r, r.took = Units(c, n, m),
         BodyLimit = 0 /\ r.proto = "http"
           => r.kept = IF m.body = "none" THEN 0 ELSE m.size
  PROVE  Whole(r)
BY UnitsFirst DEF Whole

LEMMA OneMore ==
  ASSUME NEW d \in Dir, out \in [Dir -> Seq(Record)], RecordsAt(d), NEW r, Whole(r),
         out'[d] = Append(out[d], r)
  PROVE  RecordsAt(d)'
<1>1. out[d] \in Seq(Record) /\ Len(out[d]) \in Nat
  OBVIOUS
<1>2. /\ Len(out'[d]) = Len(out[d]) + 1 /\ out'[d][Len(out[d]) + 1] = r
      /\ \A i \in 1..Len(out[d]) : out'[d][i] = out[d][i]
  BY <1>1
<1>3. ASSUME NEW i \in 1..Len(out'[d])
      PROVE  Whole(out'[d][i])
  <2>1. CASE i = Len(out[d]) + 1
    BY <1>2, <2>1
  <2>2. CASE i # Len(out[d]) + 1
    <3>1. i \in 1..Len(out[d])
      BY <1>1, <1>2, <1>3, <2>2
    <3> QED
      BY <1>2, <3>1 DEF RecordsAt
  <2> QED
    BY <2>1, <2>2
<1> QED
  BY <1>3 DEF RecordsAt, Whole

\* A hello that is found in a run of a stream is one of its records.
LEMMA HelloIsWhole ==
  ASSUME NEW w \in Seq(Unit), NEW c, OneStream(w, c), NEW n \in Nat,
         NEW b \in Seq(Held), Run(b, w, n), NEW side, NEW o \in FindHandshake(b, side)
  PROVE  /\ b[o].of \in Message
         /\ RecordAt(b, o) = Units(b[o].conn, b[o].nth, b[o].of)
<1> DEFINE m == b[o].of
<1>1. o \in 1..Len(b) /\ b[o].kind = "rec" /\ o + m.size <= Len(b) /\ Len(b) \in Nat
  BY HelloWhole DEF WholeRecord
<1>2. m \in Message /\ m.size \in Nat
  BY <1>1, UnitFields
<1>3. n - Len(b) + o \in 1..Len(w) /\ b[o] = w[n - Len(b) + o]
  BY <1>1 DEF Run
<1>4. b[o].kind = Kind(m, b[o].at)
  BY <1>3 DEF OneStream, Script
<1>5. m.proto = "tls" /\ b[o].at = 1
  BY <1>1, <1>4 DEF Kind
<1>6. UnitCount(m) = m.size + 1
  BY <1>2, <1>5, UnitCountType
<1>7. Lesser(Len(b), o + m.size) = o + m.size /\ o + UnitCount(m) - 1 = o + m.size
  <2>1. o + m.size \in Nat
    BY <1>1, <1>2
  <2>2. Lesser(Len(b), o + m.size) = o + m.size
    BY <1>1, <2>1, LesserIs
  <2> QED
    BY <1>1, <1>2, <1>6, <2>2
<1>8. SubSeq(b, o, o + UnitCount(m) - 1) = Units(b[o].conn, b[o].nth, m)
  <2>1. o + UnitCount(m) - 1 <= Len(b)
    BY <1>1, <1>7
  <2> QED
    BY <1>1, <1>2, <1>5, <2>1, TookWhole
<1> QED
  BY <1>2, <1>7, <1>8 DEF RecordAt

\* A hello leaves a whole record.
LEMMA HelloKeepsWhole ==
  ASSUME NEW d \in Dir, out \in [Dir -> Seq(Record)], RecordsAt(d),
         NEW w \in Seq(Unit), NEW c, OneStream(w, c), NEW n \in Nat,
         NEW b \in Seq(Held), Run(b, w, n), NEW side, NEW o \in FindHandshake(b, side),
         Hello(d, b, o, side)
  PROVE  RecordsAt(d)'
<1> DEFINE name == IF side = "request" THEN b[o].of.host ELSE Inherited(d)
           r == [id |-> <<b[o].conn, b[o].nth>>, proto |-> "tls",
                 took |-> RecordAt(b, o), kept |-> 0, host |-> name]
<1>1. out' = [out EXCEPT ![d] = Append(out[d], r)]
  BY DEF Hello, Write
<1>2. out'[d] = Append(out[d], r)
  BY <1>1
<1>3. b[o].of \in Message /\ RecordAt(b, o) = Units(b[o].conn, b[o].nth, b[o].of)
  BY HelloIsWhole
<1>4. Whole(r)
  <2>1. r.took = RecordAt(b, o) /\ r.proto = "tls"
    OBVIOUS
  <2> HIDE DEF r
  <2> QED
    BY <1>3, <2>1, TookIsWhole
<1> HIDE DEF r
<1> QED
  BY <1>2, <1>4, OneMore

LEMMA WholeKept ==
  ASSUME WInv, IInv', conn' = conn, wire' = wire, NEW d \in Dir,
         \A e \in Dir : e # d =>
           out'[e] = out[e] /\ buf'[e] = buf[e] /\ sent'[e] = sent[e],
         Run(buf'[d], wire[d], sent'[d]), RecordsAt(d)'
  PROVE  WInv'
<1>1. ASSUME NEW e \in Dir
      PROVE  StreamAt(e)' /\ RecordsAt(e)'
  <2>1. CASE e = d
    BY <2>1 DEF WInv, StreamAt
  <2>2. CASE e # d
    <3>1. out'[e] = out[e] /\ buf'[e] = buf[e] /\ sent'[e] = sent[e]
      BY <2>2
    <3>2. StreamAt(e) /\ RecordsAt(e)
      BY DEF WInv
    <3> QED
      BY <3>1, <3>2 DEF StreamAt, RecordsAt, Whole
  <2> QED
    BY <2>1, <2>2
<1> QED
  BY <1>1 DEF WInv

LEMMA WTypes ==
  ASSUME WInv
  PROVE  /\ out \in [Dir -> Seq(Record)] /\ buf \in [Dir -> Seq(Held)]
         /\ wire \in [Dir -> Seq(Unit)] /\ sent \in [Dir -> Nat]
         /\ \A d \in Dir : sent[d] <= Len(wire[d])
BY DEF WInv, IInv, TypeOK, Held

\* All of a segment reaches the buffer.
LEMMA WholeSegment ==
  ASSUME Undisturbed, WInv, NEW d \in Dir, NEW j \in 1..Len(wire[d]), Segment(d, j)
  PROVE  LET front == Front(SubSeq(wire[d], sent[d] + 1, j), PktCap)
         IN  /\ front \in Seq(Held) /\ j = sent[d] + Len(front)
             /\ \A k \in 1..Len(front) : front[k] = wire[d][sent[d] + k]
<1> DEFINE w == wire[d]
           i == sent[d] + 1
           seg == SubSeq(w, i, j)
           front == Front(seg, PktCap)
<1>1. w \in Seq(Unit) /\ sent[d] \in Nat /\ j \in Nat
  BY WTypes
<1>2. sent[d] < j /\ j <= sent[d] + MaxSeg
  BY DEF Segment
<1>3. i \in 1..Len(w) /\ i <= j
  BY <1>1, <1>2
<1>4. /\ front \in Seq(Held) /\ Len(front) = Lesser(PktCap, j - i + 1)
      /\ \A k \in 1..Len(front) : front[k] = w[i - 1 + k]
  BY <1>1, <1>3, FrontIs
<1>5. PktCap \in Nat /\ MaxSeg \in Nat /\ MaxSeg <= PktCap
  BY TcpStreamAssumption DEF Undisturbed
<1> DEFINE s == sent[d]
<1>6. s \in Nat /\ s < j /\ j <= s + MaxSeg /\ i = s + 1
  BY <1>1, <1>2
<1> HIDE DEF i, s, w
<1>7. j - i + 1 \in Nat /\ j - i + 1 <= PktCap /\ j - i + 1 = j - s /\ i - 1 = s
  BY <1>1, <1>5, <1>6
<1>8. Lesser(PktCap, j - i + 1) = j - s
  BY <1>5, <1>7, LesserIs
<1> HIDE DEF front
<1>9. j = s + Len(front)
  BY <1>1, <1>4, <1>6, <1>8
<1>10. \A k \in 1..Len(front) : front[k] = w[s + k]
  BY <1>4, <1>7
<1> QED
  BY <1>4, <1>9, <1>10 DEF front, s, w, i

LEMMA DeliverWhole ==
  ASSUME Undisturbed, WInv, IInv', NEW d \in Dir, NEW j \in 1..Len(wire[d]), Deliver(d, j)
  PROVE  WInv'
<1> DEFINE w == wire[d]
           front == Front(SubSeq(w, sent[d] + 1, j), PktCap)
           b == Capped(buf[d], front)
<1>1. /\ Segment(d, j) /\ Receive(d, SubSeq(w, sent[d] + 1, j)) /\ UNCHANGED <<conn, wire>>
      /\ sent' = [sent EXCEPT ![d] = j]
  BY DEF Deliver, Segment
<1>2. /\ out \in [Dir -> Seq(Record)] /\ buf \in [Dir -> Seq(Held)]
      /\ w \in Seq(Unit) /\ sent \in [Dir -> Nat]
  BY WTypes
<1>3. /\ front \in Seq(Held) /\ j = sent[d] + Len(front)
      /\ \A k \in 1..Len(front) : front[k] = w[sent[d] + k]
  BY <1>1, WholeSegment
<1>4. buf[d] \in Seq(Held) /\ sent[d] \in Nat /\ j \in Nat /\ j <= Len(w)
  BY <1>2
<1>5. Run(buf[d], w, sent[d]) /\ OneStream(w, conn) /\ RecordsAt(d)
  BY DEF WInv, StreamAt
<1> HIDE DEF front
<1>6. b \in Seq(Held)
  BY <1>3, <1>4, CappedHeld
<1>7. Run(b, w, j)
  <2> DEFINE n == sent[d]
  <2>1. n \in Nat /\ Run(buf[d], w, n) /\ j = n + Len(front)
        /\ \A k \in 1..Len(front) : front[k] = w[n + k]
    BY <1>3, <1>4, <1>5
  <2> HIDE DEF n, w
  <2> QED
    BY <1>2, <1>3, <1>4, <2>1, RunCapped DEF w
<1>8. /\ sent'[d] = j
      /\ \A e \in Dir : e # d => out'[e] = out[e] /\ buf'[e] = buf[e] /\ sent'[e] = sent[e]
  BY <1>1, <1>2, OtherDirection
<1>9. CASE \E side : \E o \in FindHandshake(b, side) : Hello(d, b, o, side)
  <2>1. PICK side : \E o \in FindHandshake(b, side) : Hello(d, b, o, side)
    BY <1>9
  <2>2. PICK o \in FindHandshake(b, side) : Hello(d, b, o, side)
    BY <2>1
  <2>3. buf'[d] = <<>>
    BY <1>2, <2>2 DEF Hello
  <2>4. Run(<<>>, w, j)
    BY <1>2, <1>4, RunEmpty
  <2> HIDE DEF b, w
  <2>5. w \in Seq(Unit) /\ j \in Nat
    BY <1>2, <1>4
  <2>6. RecordsAt(d)'
    BY <1>2, <1>5, <1>6, <1>7, <2>2, <2>5, HelloKeepsWhole
  <2>7. Run(buf'[d], w, sent'[d])
    BY <1>8, <2>3, <2>4
  <2> QED
    BY <1>1, <1>8, <2>6, <2>7, WholeKept DEF w
<1>10. CASE buf' = [buf EXCEPT ![d] = b] /\ out' = out
  <2>1. buf'[d] = b
    BY <1>2, <1>10
  <2>2. RecordsAt(d)'
    BY <1>5, <1>10 DEF RecordsAt, Whole
  <2>3. Run(buf'[d], wire[d], sent'[d])
    BY <1>7, <1>8, <2>1
  <2> QED
    BY <1>1, <1>8, <2>2, <2>3, WholeKept
<1>11. \/ \E side : \E o \in FindHandshake(b, side) : Hello(d, b, o, side)
       \/ buf' = [buf EXCEPT ![d] = b] /\ out' = out
  BY <1>1 DEF Receive, b, front
<1> QED
  BY <1>9, <1>10, <1>11

LEMMA ForgetWhole ==
  ASSUME WInv, IInv', NEW d \in Dir, Forget(d)
  PROVE  WInv'
<1>1. /\ buf \in [Dir -> Seq(Held)] /\ wire[d] \in Seq(Unit) /\ sent[d] \in Nat
      /\ sent[d] <= Len(wire[d])
  BY WTypes
<1>2. buf' = [buf EXCEPT ![d] = <<>>] /\ UNCHANGED <<conn, wire, sent, out>>
  BY DEF Forget
<1>3. buf'[d] = <<>> /\ \A e \in Dir : e # d => buf'[e] = buf[e]
  BY <1>1, <1>2
<1>4. Run(buf'[d], wire[d], sent'[d])
  BY <1>1, <1>2, <1>3, RunEmpty
<1>5. RecordsAt(d)'
  BY <1>2 DEF WInv, RecordsAt, Whole
<1> QED
  BY <1>2, <1>3, <1>4, <1>5, WholeKept

\* A message that parses starts the buffer, and is all there.
LEMMA FrontMessage ==
  ASSUME Undisturbed, WInv, NEW d \in Dir, StartsMessage(buf[d])
  PROVE  LET b == buf[d]
             m == b[1].of
         IN  /\ 1 \in 1..Len(b) /\ b[1].at = 1 /\ m \in Message /\ m.proto = "http"
             /\ Parses(b) <=> UnitCount(m) <= Len(b)
             /\ Parses(b) => /\ Consumed(b) = UnitCount(m)
                             /\ Kept(b) = IF m.body = "none" THEN 0 ELSE m.size
<1> DEFINE b == buf[d]
           w == wire[d]
           n == sent[d]
<1>1. b \in Seq(Held) /\ w \in Seq(Unit) /\ n \in Nat
  BY WTypes
<1>2. Run(b, w, n) /\ OneStream(w, conn) /\ AllDelimited(w) /\ StartsMessage(b)
  BY DEF WInv, StreamAt
<1>3. BodyLimit = 0 /\ MaxSize <= IntMax
  BY DEF Undisturbed
<1> HIDE DEF b, w, n
<1>4. /\ 1 \in 1..Len(b) /\ b[1].at = 1 /\ b[1].of \in Message
      /\ b[1].of.proto = "http"
  BY <1>1, <1>2, FirstUnits
<1>5. Delimited(b[1].of)
  <2>1. n - Len(b) + 1 \in 1..Len(w) /\ b[1] = w[n - Len(b) + 1]
    BY <1>1, <1>2, <1>4 DEF Run
  <2> QED
    BY <1>2, <2>1 DEF AllDelimited
<1>6. /\ Parses(b) <=> UnitCount(b[1].of) <= Len(b)
      /\ Parses(b) => /\ Consumed(b) = UnitCount(b[1].of)
                      /\ Kept(b) = IF b[1].of.body = "none" THEN 0 ELSE b[1].of.size
  BY <1>1, <1>2, <1>3, <1>5, ParsesWhole
<1> QED
  BY <1>4, <1>6 DEF b

LEMMA ParseOneWhole ==
  ASSUME Undisturbed, WInv, IInv', NEW d \in Dir, ParseOne(d)
  PROVE  WInv'
<1> DEFINE b == buf[d]
           w == wire[d]
           n == Consumed(b)
           name == IF HostOf(b) # None THEN HostOf(b) ELSE Inherited(d)
           r == [id |-> <<b[1].conn, b[1].nth>>, proto |-> "http",
                 took |-> SubSeq(b, 1, n), kept |-> Kept(b), host |-> name]
<1>1. /\ out' = [out EXCEPT ![d] = Append(out[d], r)]
      /\ buf' = [buf EXCEPT ![d] = Rest(b, n)] /\ Parses(b)
      /\ UNCHANGED <<conn, wire, sent>>
  BY DEF ParseOne, Write, net
<1>2. /\ out \in [Dir -> Seq(Record)] /\ buf \in [Dir -> Seq(Held)]
      /\ b \in Seq(Held) /\ w \in Seq(Unit) /\ sent[d] \in Nat
  BY WTypes
<1>3. /\ out'[d] = Append(out[d], r) /\ buf'[d] = Rest(b, n)
      /\ \A e \in Dir : e # d => out'[e] = out[e] /\ buf'[e] = buf[e]
  BY <1>1, <1>2
<1>4. Run(b, w, sent[d]) /\ OneStream(w, conn) /\ RecordsAt(d)
  BY DEF WInv, StreamAt
<1>5. /\ 1 \in 1..Len(b) /\ b[1].at = 1 /\ b[1].of \in Message
      /\ UnitCount(b[1].of) <= Len(b) /\ n = UnitCount(b[1].of)
      /\ Kept(b) = IF b[1].of.body = "none" THEN 0 ELSE b[1].of.size
  BY <1>1, FrontMessage DEF Parses
<1>6. n \in 1..Len(b)
  BY <1>1, <1>2, ConsumedBound
<1>7. Run(Rest(b, n), w, sent[d])
  <2> DEFINE s == sent[d]
             rest == Rest(b, n)
  <2>1. s \in Nat /\ Run(b, w, s) /\ n \in Nat
    BY <1>2, <1>4, <1>6
  <2>2. /\ rest \in Seq(Held) /\ Len(rest) + n = Len(b)
        /\ \A i \in 1..Len(rest) : rest[i] = b[i + n]
    BY <1>2, <1>6, RestIs
  <2> HIDE DEF s, rest, b, w, n
  <2>3. Run(rest, w, s)
    BY <1>2, <2>1, <2>2, RunSuffix
  <2> QED
    BY <2>3 DEF s, rest
<1>8. SubSeq(b, 1, n) = Units(b[1].conn, b[1].nth, b[1].of)
  <2> DEFINE l == UnitCount(b[1].of)
             s == sent[d]
  <2>1. 1 + l - 1 = l /\ l = n /\ 1 + l - 1 <= Len(b) /\ s \in Nat /\ Run(b, w, s)
    BY <1>2, <1>4, <1>5, <1>6
  <2> HIDE DEF b, w, n, s
  <2>2. SubSeq(b, 1, 1 + l - 1) = Units(b[1].conn, b[1].nth, b[1].of)
    BY <1>2, <1>4, <1>5, <2>1, TookWhole
  <2> QED
    BY <2>1, <2>2
<1>9. Whole(r)
  <2>1. /\ r.took = SubSeq(b, 1, n)
        /\ r.kept = IF b[1].of.body = "none" THEN 0 ELSE b[1].of.size
    BY <1>5
  <2> HIDE DEF r, b, n
  <2> QED
    BY <1>5, <1>8, <2>1, TookIsWhole
<1> HIDE DEF r, b, n
<1>10. RecordsAt(d)'
  BY <1>2, <1>3, <1>4, <1>9, OneMore
<1>11. Run(buf'[d], wire[d], sent'[d])
  BY <1>1, <1>3, <1>7
<1> QED
  BY <1>1, <1>3, <1>10, <1>11, WholeKept

LEMMA InitWhole == Undisturbed /\ Init => WInv
<1> SUFFICES ASSUME Undisturbed, Init PROVE WInv
  OBVIOUS
<1>1. IInv
  BY InitInv
<1>2. PICK c \in Conversations : wire = [d \in Dir |-> OnConnection(1, c[d])]
  BY DEF Init
<1>3. ASSUME NEW d \in Dir
      PROVE  StreamAt(d) /\ RecordsAt(d)
  <2>1. /\ sent[d] = 0 /\ buf[d] = <<>> /\ out[d] = <<>> /\ conn = 1
        /\ wire[d] \in Seq(Unit)
    BY <1>1 DEF Init, IInv, TypeOK
  <2>2. OneStream(wire[d], 1)
    <3> DEFINE n == 1
    <3>1. n \in Nat /\ wire = [e \in Dir |-> OnConnection(n, c[e])] /\ Scripted
      BY <1>2 DEF Undisturbed
    <3> HIDE DEF n
    <3>2. OneStream(wire[d], n)
      BY <3>1, NewConnection DEF OneStream
    <3> QED
      BY <3>2 DEF n
  <2>3. AllDelimited(wire[d])
    <3>1. c[d] \in Seq(Unit) /\ AllDelimited(c[d])
      BY TcpStreamAssumption DEF Undisturbed
    <3>2. wire[d] = OnConnection(1, c[d])
      BY <1>2
    <3>3. Len(wire[d]) = Len(c[d]) /\ \A i \in 1..Len(c[d]) : wire[d][i].of = c[d][i].of
      BY <3>1, <3>2 DEF OnConnection, Unit
    <3> QED
      BY <3>1, <3>3 DEF AllDelimited
  <2>4. Run(buf[d], wire[d], sent[d])
    BY <2>1, RunEmpty
  <2> QED
    BY <2>1, <2>2, <2>3, <2>4 DEF StreamAt, RecordsAt
<1> QED
  BY <1>1, <1>3 DEF WInv

LEMMA SameWhole ==
  ASSUME WInv, IInv', UNCHANGED <<conn, wire, sent, buf, out>>
  PROVE  WInv'
BY DEF WInv, StreamAt, RecordsAt, Whole

LEMMA StepWhole == Undisturbed /\ WInv /\ [Next]_vars => WInv'
<1> SUFFICES ASSUME Undisturbed, WInv, [Next]_vars PROVE WInv'
  OBVIOUS
<1>0. IInv'
  BY StepInv DEF WInv
<1>1. "loss" \notin Faults /\ "dup" \notin Faults /\ "pad" \notin Faults /\ "reuse" \notin Faults
  BY DEF Undisturbed
<1>2. ASSUME NEW d \in Dir, NEW j \in 1..Len(wire[d]), Deliver(d, j) PROVE WInv'
  BY <1>0, <1>2, DeliverWhole
<1>3. ASSUME NEW d \in Dir, Forget(d) PROVE WInv'
  BY <1>0, <1>3, ForgetWhole
<1>4. ASSUME NEW d \in Dir, ParseOne(d) PROVE WInv'
  BY <1>0, <1>4, ParseOneWhole
<1>5. ASSUME NEW d \in Dir, Leave(d) PROVE WInv'
  BY <1>0, <1>5, SameWhole DEF Leave, net, flow
<1>6. CASE UNCHANGED vars
  BY <1>0, <1>6, SameWhole DEF vars, net, flow
<1>7. /\ \A d \in Dir : ~PaddedAck(d) /\ \A j \in 1..Len(wire[d]) : ~Lose(d, j)
      /\ \A d \in Dir : \A i, j \in 1..sent[d] : ~Retransmit(d, i, j)
      /\ ~Reuse
  BY <1>1 DEF PaddedAck, Lose, Retransmit, Reuse, Fault
<1> QED
  BY <1>2, <1>3, <1>4, <1>5, <1>6, <1>7 DEF Next

(* Wherever the network cuts the streams, however deep the client          *)
(* pipelines, whenever flows are swept or evicted and however small their  *)
(* buffers are: a record is one whole message, with all of its body.  The  *)
(* hypotheses are those that parse_http_message needs: the stream arrives  *)
(* as it was sent, there is no limit on bodies, and each message tells its *)
(* length, in an int.                                                      *)
THEOREM RecordsAreWhole ==
  ASSUME Undisturbed
  PROVE  Spec => []WholeRecords
<1>1. Init => WInv
  BY InitWhole
<1>2. WInv /\ [Next]_vars => WInv'
  BY StepWhole
<1> QED
  BY <1>1, <1>2, WholeShows, PTL DEF Spec

-----------------------------------------------------------------------------
(* Nothing complete waits.                                                 *)
AllHttp(w) == \A i \in 1..Len(w) : w[i].of.proto = "http"

\* Messages are numbered from 1 in the order they are said.
Numbered(w) ==
  /\ Len(w) > 0 => w[1].nth = 1
  /\ \A i \in 1..Len(w) - 1 : IsEnd(w[i]) => w[i + 1].nth = w[i].nth + 1

\* The hello that a direction has.
Wanted(d) == IF d = "c2s" THEN "request" ELSE "response"

IsHello(u) == u.kind = "rec" /\ u.of.side # "other"

\* A direction that speaks TLS says one hello, among the records that a search
\* follows and in a buffer that has room for it and a segment.
Secured(w, d) ==
  /\ Numbered(w)
  /\ \A i \in 1..Len(w) : w[i].of.proto = "tls" /\ w[i].of.side \in {Wanted(d), "other"}
  /\ \A h \in 1..Len(w) : IsHello(w[h]) =>
       /\ w[h].nth <= WalkMax /\ h + w[h].of.size + MaxSeg <= BufCap
       /\ \A i \in 1..Len(w) : IsHello(w[i]) => i = h

SpeaksHttp(c) == \A d \in Dir : AllHttp(c[d])

SpeaksTls(c) == \A d \in Dir : Secured(c[d], d)

\* Moreover no flow is forgotten, the two ends speak HTTP or TLS, and a buffer
\* has room for a segment behind the largest message that is not complete.
Unforgotten ==
  /\ Undisturbed /\ "forget" \notin Faults
  /\ MaxSize + 2 + MaxSeg <= BufCap
  /\ \A c \in Conversations : SpeaksHttp(c) \/ SpeaksTls(c)

\* Where the buffer of d starts in its stream.
From(d) == sent[d] - Len(buf[d]) + 1

\* Always where a message starts; whatever ended before it is reported; and
\* the buffer holds no whole message unless it is being parsed.
PromptAt(d) ==
  /\ AllHttp(wire[d])
  /\ From(d) <= Len(wire[d]) => wire[d][From(d)].at = 1
  /\ \A i \in 1..From(d) - 1 :
       IsEnd(wire[d][i]) => \E k \in 1..Len(out[d]) : out[d][k].id = <<conn, wire[d][i].nth>>
  /\ loop # d => ~Parses(buf[d])

PInv == WInv /\ \A d \in Dir : PromptAt(d)

LEMMA PTypes ==
  ASSUME PInv, NEW d \in Dir
  PROVE  /\ WInv /\ PromptAt(d)
         /\ out[d] \in Seq(Record) /\ buf[d] \in Seq(Held) /\ wire[d] \in Seq(Unit)
         /\ sent[d] \in Nat /\ Len(buf[d]) \in Nat /\ Len(wire[d]) \in Nat
         /\ sent[d] <= Len(wire[d]) /\ Len(buf[d]) <= sent[d]
         /\ From(d) \in Nat \ {0} /\ From(d) + Len(buf[d]) = sent[d] + 1
         /\ OneStream(wire[d], conn) /\ Run(buf[d], wire[d], sent[d])
         /\ \A i \in 1..Len(buf[d]) :
              From(d) + i - 1 \in 1..sent[d] /\ buf[d][i] = wire[d][From(d) + i - 1]
<1>1. WInv /\ PromptAt(d)
  BY DEF PInv
<1>2. /\ out[d] \in Seq(Record) /\ buf[d] \in Seq(Held) /\ wire[d] \in Seq(Unit)
      /\ sent[d] \in Nat /\ sent[d] <= Len(wire[d])
  BY <1>1, WTypes
<1>3. Len(buf[d]) \in Nat /\ Len(wire[d]) \in Nat
  BY <1>2
<1>4. OneStream(wire[d], conn) /\ Run(buf[d], wire[d], sent[d])
  BY <1>1 DEF WInv, StreamAt
<1>5. Len(buf[d]) <= sent[d]
  BY <1>4 DEF Run
<1> DEFINE s == sent[d]
           l == Len(buf[d])
<1>6. s \in Nat /\ l \in Nat /\ l <= s /\ From(d) = s - l + 1
  BY <1>2, <1>3, <1>5 DEF From
<1>7. \A i \in 1..l : buf[d][i] = wire[d][s - l + i]
  BY <1>4 DEF Run
<1> HIDE DEF s, l
<1>8. From(d) \in Nat \ {0} /\ From(d) + l = s + 1
  BY <1>6
<1>9. ASSUME NEW i \in 1..l
      PROVE  From(d) + i - 1 \in 1..s /\ buf[d][i] = wire[d][From(d) + i - 1]
  <2>1. From(d) + i - 1 = s - l + i /\ s - l + i \in 1..s
    BY <1>6
  <2> QED
    BY <1>7, <2>1
<1> QED
  BY <1>1, <1>2, <1>3, <1>4, <1>5, <1>8, <1>9 DEF s, l

\* A buffer that is not empty starts a message.
LEMMA BufferStarts ==
  ASSUME PInv, NEW d \in Dir, Len(buf[d]) > 0
  PROVE  StartsMessage(buf[d]) /\ 1 \in 1..Len(buf[d])
<1> DEFINE u == buf[d][1]
           p == From(d)
<1>1. 1 \in 1..Len(buf[d])
  BY PTypes
<1>2. p \in 1..Len(wire[d]) /\ u = wire[d][p]
  <2>1. From(d) + 1 - 1 \in 1..sent[d] /\ buf[d][1] = wire[d][From(d) + 1 - 1]
        /\ From(d) \in Nat /\ sent[d] \in Nat /\ Len(wire[d]) \in Nat
        /\ sent[d] <= Len(wire[d])
    BY <1>1, PTypes
  <2>2. From(d) + 1 - 1 = From(d)
    BY <2>1
  <2> QED
    BY <2>1, <2>2
<1> HIDE DEF p
<1>3. PromptAt(d) /\ OneStream(wire[d], conn)
  BY PTypes
<1>4. u.at = 1 /\ u.of.proto = "http"
  BY <1>2, <1>3 DEF PromptAt, AllHttp, p
<1>5. u.kind = Kind(u.of, u.at)
  BY <1>2, <1>3 DEF OneStream, Script
<1>6. u.kind = "start"
  BY <1>4, <1>5 DEF Kind
<1> QED
  BY <1>1, <1>6 DEF StartsMessage

\* What lies in a buffer that does not parse is the beginning of one message.
LEMMA PartOnly ==
  ASSUME Undisturbed, PInv, NEW d \in Dir, ~Parses(buf[d]), NEW i \in 1..Len(buf[d])
  PROVE  /\ buf[d][i].at = i /\ ~IsEnd(buf[d][i])
         /\ Len(buf[d]) <= MaxSize + 2
<1> DEFINE b == buf[d]
           m == b[1].of
<1>1. Len(b) \in Nat /\ Len(b) > 0
  BY PTypes
<1>2. StartsMessage(b)
  BY <1>1, BufferStarts
<1>3. WInv
  BY DEF PInv
<1>4. /\ 1 \in 1..Len(b) /\ b[1].at = 1 /\ m \in Message /\ m.proto = "http"
      /\ ~(UnitCount(m) <= Len(b))
  BY <1>2, <1>3, FrontMessage
<1>5. UnitCount(m) \in Nat /\ UnitCount(m) <= MaxSize + 3
  <2>1. UnitCount(m) \in {2, m.size + 2, m.size + 3}
    BY <1>4 DEF UnitCount, Message
  <2>2. m.size \in 0..MaxSize /\ MaxSize \in Nat
    BY <1>4, UnitCountType, TcpStreamAssumption
  <2> DEFINE k == UnitCount(m)
             s == m.size
  <2>3. k \in {2, s + 2, s + 3} /\ s \in 0..MaxSize /\ MaxSize \in Nat
    BY <2>1, <2>2
  <2> HIDE DEF k, s
  <2>4. k \in Nat /\ k <= MaxSize + 3
    BY <2>3
  <2> QED
    BY <2>4 DEF k
<1>6. i \in 1..UnitCount(m) /\ i # UnitCount(m) /\ Len(b) <= MaxSize + 2
  <2> DEFINE l == Len(b)
             k == UnitCount(m)
  <2>1. l \in Nat /\ k \in Nat /\ ~(k <= l) /\ k <= MaxSize + 3 /\ i \in 1..l /\ MaxSize \in Nat
    BY <1>1, <1>4, <1>5, TcpStreamAssumption
  <2> HIDE DEF l, k
  <2>2. i \in 1..k /\ i # k /\ l <= MaxSize + 2
    BY <2>1
  <2> QED
    BY <2>2 DEF l, k
<1>7. b[i] = Units(b[1].conn, b[1].nth, m)[i]
  <2> DEFINE w == wire[d]
             n == sent[d]
  <2>1. /\ b \in Seq(Held) /\ w \in Seq(Unit) /\ n \in Nat
        /\ OneStream(w, conn) /\ Run(b, w, n)
    BY PTypes
  <2>2. 1 + i - 1 = i /\ 1 + i - 1 <= Len(b)
    BY <1>1
  <2> HIDE DEF w, n, b
  <2>3. b[1 + i - 1] = Units(b[1].conn, b[1].nth, b[1].of)[i]
    BY <1>4, <1>6, <2>1, <2>2, BufferUnits
  <2> QED
    BY <2>2, <2>3
<1>8. b[i].at = i /\ b[i].of = m
  <2> HIDE DEF b, m
  <2>1. Units(b[1].conn, b[1].nth, m)[i].at = i /\ Units(b[1].conn, b[1].nth, m)[i].of = m
    BY <1>6 DEF Units
  <2> QED
    BY <1>7, <2>1
<1>9. ~IsEnd(b[i])
  BY <1>6, <1>8 DEF IsEnd
<1> QED
  BY <1>6, <1>8, <1>9

LEMMA PromptShows == Undisturbed /\ PInv => Prompt
<1> SUFFICES ASSUME Undisturbed, PInv, loop = "idle", NEW d \in Dir, NEW i \in Ended(d)
             PROVE  <<conn, wire[d][i].nth>> \in Reported(d)
  BY DEF Prompt
<1>1. i \in 1..sent[d] /\ IsEnd(wire[d][i])
  BY DEF Ended
<1>2. PromptAt(d) /\ ~Parses(buf[d])
  BY PTypes DEF PromptAt, Dir
<1>3. i \in 1..From(d) - 1
  <2>1. SUFFICES ASSUME i >= From(d) PROVE FALSE
    BY <1>1, PTypes
  <2> DEFINE k == i - From(d) + 1
             l == Len(buf[d])
             s == sent[d]
  <2>2. From(d) \in Nat /\ l \in Nat /\ s \in Nat /\ From(d) + l = s + 1 /\ i \in 1..s
    BY <1>1, PTypes
  <2>3. k \in 1..Len(buf[d]) /\ From(d) + k - 1 = i
    <3> HIDE DEF l, s
    <3>1. k \in 1..l /\ From(d) + k - 1 = i
      BY <2>1, <2>2
    <3> QED
      BY <3>1 DEF l
  <2> HIDE DEF k
  <2>4. buf[d][k] = wire[d][i]
    BY <2>3, PTypes
  <2>5. ~IsEnd(buf[d][k])
    BY <1>2, <2>3, PartOnly
  <2> QED
    BY <1>1, <2>4, <2>5
<1>4. PICK k \in 1..Len(out[d]) : out[d][k].id = <<conn, wire[d][i].nth>>
  BY <1>1, <1>2, <1>3 DEF PromptAt
<1> QED
  BY <1>4 DEF Reported, Records

LEMMA DrainedShows == Undisturbed /\ PInv => Drained
<1> SUFFICES ASSUME Undisturbed, PInv, loop = "idle", NEW d \in Dir,
                    NEW i \in 1..Len(buf[d]), buf[d][i].kind \in {"start", "rec"},
                    i + UnitCount(buf[d][i].of) - 1 <= Len(buf[d])
             PROVE  FALSE
  BY DEF Drained
<1>1. ~Parses(buf[d])
  BY PTypes DEF PromptAt, Dir
<1>2. buf[d][i].at = i
  BY <1>1, PartOnly
<1>3. buf[d][i].at = 1
  <2>1. From(d) + i - 1 \in 1..sent[d] /\ buf[d][i] = wire[d][From(d) + i - 1]
        /\ sent[d] \in Nat /\ Len(wire[d]) \in Nat /\ sent[d] <= Len(wire[d])
        /\ OneStream(wire[d], conn) /\ wire[d] \in Seq(Unit)
    BY PTypes
  <2>2. Starts(wire[d])
    BY <2>1, ScriptStarts DEF OneStream
  <2>3. From(d) + i - 1 \in 1..Len(wire[d])
    BY <2>1
  <2> QED
    BY <2>1, <2>2, <2>3 DEF Starts
<1>4. i = 1 /\ StartsMessage(buf[d])
  BY <1>2, <1>3, BufferStarts, PTypes
<1>5. /\ UnitCount(buf[d][1].of) <= Len(buf[d]) => Parses(buf[d])
      /\ buf[d][1].of \in Message
  BY <1>4, FrontMessage DEF PInv
<1>6. UnitCount(buf[d][1].of) \in Nat
  BY <1>5, UnitCountType
<1> QED
  BY <1>1, <1>4, <1>5, <1>6

LEMMA PromptKept ==
  ASSUME PInv, WInv', conn' = conn, wire' = wire, NEW d \in Dir,
         \A e \in Dir : e # d =>
           out'[e] = out[e] /\ buf'[e] = buf[e] /\ sent'[e] = sent[e] /\ loop # e,
         PromptAt(d)'
  PROVE  PInv'
<1>1. ASSUME NEW e \in Dir
      PROVE  PromptAt(e)'
  <2>1. CASE e = d
    BY <2>1
  <2>2. CASE e # d
    <3>1. out'[e] = out[e] /\ buf'[e] = buf[e] /\ sent'[e] = sent[e] /\ loop # e
      BY <2>2
    <3>2. PromptAt(e)
      BY DEF PInv
    <3>3. From(e)' = From(e)
      BY <3>1 DEF From
    <3>4. Parses(buf'[e]) <=> Parses(buf[e])
      BY <3>1
    <3> QED
      BY <3>1, <3>2, <3>3, <3>4 DEF PromptAt
  <2> QED
    BY <2>1, <2>2
<1> QED
  BY <1>1 DEF PInv

\* There is no TLS record in a run of an HTTP stream.
LEMMA NoHandshake ==
  ASSUME NEW w \in Seq(Unit), NEW c, OneStream(w, c), AllHttp(w), NEW n \in Nat,
         NEW b \in Seq(Held), Run(b, w, n), NEW side
  PROVE  FindHandshake(b, side) = {}
<1>1. ASSUME NEW i \in 1..Len(b)
      PROVE  b[i].kind # "rec"
  <2>1. n - Len(b) + i \in 1..Len(w) /\ b[i] = w[n - Len(b) + i]
    BY DEF Run
  <2>2. b[i].kind = Kind(b[i].of, b[i].at) /\ b[i].of.proto = "http"
    BY <2>1 DEF OneStream, Script, AllHttp
  <2> QED
    BY <2>2 DEF Kind
<1> QED
  BY <1>1 DEF FindHandshake

\* What one segment does.
LEMMA OneDelivered ==
  ASSUME Unforgotten, PInv, NEW d \in Dir, NEW j \in 1..Len(wire[d]), Deliver(d, j)
  PROVE  /\ loop = "idle" /\ loop' = d /\ UNCHANGED <<conn, wire, out, domain>>
         /\ sent' = [sent EXCEPT ![d] = j] /\ j <= Len(wire[d])
         /\ \A i \in sent[d] + 1..j : MaySay(d, wire[d][i])
         /\ \A e \in Dir : From(e)' = From(e)
         /\ \A e \in Dir : e # d => /\ buf'[e] = buf[e] /\ sent'[e] = sent[e]
<1> DEFINE w == wire[d]
           front == Front(SubSeq(w, sent[d] + 1, j), PktCap)
           b == Capped(buf[d], front)
<1>0. Undisturbed /\ WInv
  BY DEF Unforgotten, PInv
<1>1. /\ Segment(d, j) /\ Receive(d, SubSeq(w, sent[d] + 1, j)) /\ UNCHANGED <<conn, wire>>
      /\ sent' = [sent EXCEPT ![d] = j] /\ j <= sent[d] + MaxSeg /\ loop = "idle"
  BY DEF Deliver, Segment
<1>2. /\ out \in [Dir -> Seq(Record)] /\ buf \in [Dir -> Seq(Held)]
      /\ w \in Seq(Unit) /\ sent \in [Dir -> Nat]
  BY <1>0, WTypes
<1>3. /\ front \in Seq(Held) /\ j = sent[d] + Len(front)
      /\ \A k \in 1..Len(front) : front[k] = w[sent[d] + k]
  BY <1>0, <1>1, WholeSegment
<1>4. buf[d] \in Seq(Held) /\ sent[d] \in Nat /\ j \in Nat /\ j <= Len(w)
  BY <1>2
<1>5. Run(buf[d], w, sent[d]) /\ OneStream(w, conn) /\ PromptAt(d)
  BY PTypes
<1> HIDE DEF front
<1>6. b = buf[d] \o front /\ Len(b) = Len(buf[d]) + Len(front)
  <2>1. Len(buf[d]) <= MaxSize + 2
    <3>1. CASE Len(buf[d]) > 0
      <4>1. 1 \in 1..Len(buf[d])
        BY <3>1, BufferStarts
      <4>2. ~Parses(buf[d])
        BY <1>1, <1>5 DEF PromptAt, Dir
      <4> QED
        BY <1>0, <4>1, <4>2, PartOnly
    <3>2. CASE ~(Len(buf[d]) > 0)
      BY <1>4, <3>2, TcpStreamAssumption
    <3> QED
      BY <3>1, <3>2
  <2> DEFINE l == Len(buf[d])
             f == Len(front)
             s == sent[d]
             all == buf[d] \o front
  <2>2. /\ l \in Nat /\ f \in Nat /\ s \in Nat /\ j = s + f /\ j <= s + MaxSeg
        /\ l <= MaxSize + 2 /\ MaxSize + 2 + MaxSeg <= BufCap /\ Len(all) = l + f
        /\ MaxSize \in Nat /\ MaxSeg \in Nat /\ BufCap \in Nat
    BY <1>1, <1>3, <1>4, <2>1, TcpStreamAssumption DEF Unforgotten
  <2> HIDE DEF l, f, s, all
  <2>3. Len(all) <= BufCap
    BY <2>2
  <2>4. b = all
    BY <2>3 DEF Capped, all
  <2> QED
    BY <2>2, <2>4 DEF all, l, f
<1>7. Run(b, w, j) /\ b \in Seq(Held)
  <2> DEFINE n == sent[d]
  <2>1. n \in Nat /\ Run(buf[d], w, n) /\ j = n + Len(front)
        /\ \A k \in 1..Len(front) : front[k] = w[n + k]
    BY <1>3, <1>4, <1>5
  <2> HIDE DEF n, w
  <2>2. Run(b, w, j)
    BY <1>2, <1>3, <1>4, <2>1, RunCapped DEF w
  <2> QED
    BY <1>3, <1>4, <2>2, CappedHeld
<1>8. \A side : FindHandshake(b, side) = {}
  <2>1. AllHttp(w) /\ w \in Seq(Unit) /\ j \in Nat
    BY <1>2, <1>4, <1>5 DEF PromptAt
  <2> HIDE DEF b, w
  <2> QED
    BY <1>5, <1>7, <2>1, NoHandshake
<1>9. /\ buf' = [buf EXCEPT ![d] = b] /\ loop' = d /\ out' = out /\ domain' = domain
  <2>1. \/ \E side : \E o \in FindHandshake(b, side) : Hello(d, b, o, side)
        \/ buf' = [buf EXCEPT ![d] = b] /\ loop' = d /\ out' = out /\ domain' = domain
    BY <1>1 DEF Receive, b, front
  <2> HIDE DEF b
  <2> QED
    BY <1>8, <2>1
<1>10. /\ buf'[d] = b /\ sent'[d] = j
       /\ \A e \in Dir : e # d => /\ out'[e] = out[e] /\ buf'[e] = buf[e]
                                  /\ sent'[e] = sent[e] /\ loop # e
  <2>1. \A e \in Dir : loop # e
    BY <1>1 DEF Dir
  <2> QED
    BY <1>1, <1>2, <1>9, <2>1
<1>11. From(d)' = From(d)
  <2> DEFINE l == Len(buf[d])
             f == Len(front)
             s == sent[d]
  <2>1. From(d)' = j - Len(b) + 1 /\ Len(b) = l + f /\ j = s + f /\ From(d) = s - l + 1
    BY <1>3, <1>6, <1>10 DEF From
  <2>2. l \in Nat /\ f \in Nat /\ s \in Nat
    BY <1>3, <1>4
  <2> HIDE DEF l, f, s, b
  <2>3. j - Len(b) + 1 = s - l + 1
    BY <2>1, <2>2
  <2> QED
    BY <2>1, <2>3
<1>12. ASSUME NEW e \in Dir
       PROVE  From(e)' = From(e)
  BY <1>10, <1>11 DEF From
<1>13. \A i \in sent[d] + 1..j : MaySay(d, wire[d][i])
  BY <1>1 DEF Segment
<1> QED
  BY <1>1, <1>4, <1>9, <1>10, <1>12, <1>13

LEMMA DeliverPrompt ==
  ASSUME Unforgotten, PInv, WInv', NEW d \in Dir, NEW j \in 1..Len(wire[d]), Deliver(d, j)
  PROVE  PInv'
<1>1. /\ loop = "idle" /\ loop' = d /\ UNCHANGED <<conn, wire, out>>
      /\ From(d)' = From(d)
      /\ \A e \in Dir : e # d => buf'[e] = buf[e] /\ sent'[e] = sent[e]
  BY OneDelivered
<1>2. PromptAt(d)
  BY DEF PInv
<1>3. PromptAt(d)'
  BY <1>1, <1>2 DEF PromptAt
<1>4. \A e \in Dir : e # d => /\ out'[e] = out[e] /\ buf'[e] = buf[e]
                              /\ sent'[e] = sent[e] /\ loop # e
  <2>1. \A e \in Dir : loop # e
    BY <1>1 DEF Dir
  <2> QED
    BY <1>1, <2>1
<1> QED
  BY <1>1, <1>3, <1>4, PromptKept

\* What one round of the loop writes.
ParsedRecord(d) ==
  [id |-> <<buf[d][1].conn, buf[d][1].nth>>, proto |-> "http",
   took |-> SubSeq(buf[d], 1, Consumed(buf[d])), kept |-> Kept(buf[d]),
   host |-> IF HostOf(buf[d]) # None THEN HostOf(buf[d]) ELSE Inherited(d)]

\* What one round of the loop does, in terms of the stream.
LEMMA OneParsed ==
  ASSUME Undisturbed, PInv, NEW d \in Dir, ParseOne(d)
  PROVE  LET p == From(d)
             n == Consumed(buf[d])
             w == wire[d]
             r == ParsedRecord(d)
         IN  /\ loop = d /\ UNCHANGED <<conn, wire, sent, loop>>
             /\ n \in Nat \ {0} /\ p \in Nat \ {0} /\ p + n - 1 <= sent[d]
             /\ From(d)' = p + n
             /\ Len(out'[d]) = Len(out[d]) + 1 /\ out'[d][Len(out[d]) + 1] = r
             /\ \A k \in 1..Len(out[d]) : out'[d][k] = out[d][k]
             /\ \A e \in Dir : e # d => out'[e] = out[e] /\ buf'[e] = buf[e]
             /\ \A i \in p..p + n - 1 : w[i].nth = w[p].nth /\ w[i].of = w[p].of
             /\ IsEnd(w[p + n - 1]) /\ w[p].at = 1
             /\ r.id = <<conn, w[p].nth>> /\ r.took[1] = w[p]
<1> DEFINE b == buf[d]
           w == wire[d]
           p == From(d)
           n == Consumed(b)
           m == b[1].of
           r == ParsedRecord(d)
<1>0. WInv
  BY DEF PInv
<1>1. /\ out' = [out EXCEPT ![d] = Append(out[d], r)]
      /\ buf' = [buf EXCEPT ![d] = Rest(b, n)] /\ Parses(b) /\ loop = d
      /\ UNCHANGED <<conn, wire, sent, loop>>
  BY DEF ParseOne, Write, net, ParsedRecord
<1>2. /\ out \in [Dir -> Seq(Record)] /\ buf \in [Dir -> Seq(Held)]
      /\ out[d] \in Seq(Record) /\ b \in Seq(Held) /\ w \in Seq(Unit)
      /\ sent \in [Dir -> Nat]
  BY <1>0, WTypes
<1>3. /\ out'[d] = Append(out[d], r) /\ buf'[d] = Rest(b, n)
      /\ \A e \in Dir : e # d => /\ out'[e] = out[e] /\ buf'[e] = buf[e]
                                 /\ sent'[e] = sent[e] /\ loop # e
  BY <1>1, <1>2
<1>4. /\ 1 \in 1..Len(b) /\ b[1].at = 1 /\ m \in Message
      /\ UnitCount(m) <= Len(b) /\ n = UnitCount(m)
  BY <1>0, <1>1, FrontMessage DEF Parses
<1>5. n \in 1..Len(b)
  BY <1>1, <1>2, ConsumedBound
<1>6. /\ p \in Nat \ {0} /\ p + Len(b) = sent[d] + 1 /\ sent[d] \in Nat
      /\ Len(w) \in Nat /\ sent[d] <= Len(w) /\ Len(b) \in Nat
      /\ OneStream(w, conn) /\ Run(b, w, sent[d]) /\ PromptAt(d)
      /\ \A i \in 1..Len(b) : p + i - 1 \in 1..sent[d] /\ b[i] = w[p + i - 1]
  BY PTypes
<1>7. \A k \in 1..n : b[k].at = k /\ b[k].of = m /\ b[k].nth = b[1].nth
  <2> DEFINE s == sent[d]
             v == wire[d]
  <2>1. s \in Nat /\ Run(b, v, s) /\ v \in Seq(Unit) /\ OneStream(v, conn)
    BY <1>2, <1>6
  <2>2. b \in Seq(Held) /\ 1 \in 1..Len(b) /\ b[1].at = 1 /\ n = UnitCount(b[1].of)
        /\ n \in 1..Len(b)
    BY <1>2, <1>4, <1>5
  <2>3. m = b[1].of
    OBVIOUS
  <2> HIDE DEF s, v, b, n, m
  <2>4. ASSUME NEW k \in 1..n
        PROVE  b[k].at = k /\ b[k].of = m /\ b[k].nth = b[1].nth
    <3>1. k \in 1..UnitCount(b[1].of)
      BY <2>2
    <3>2. 1 + k - 1 <= Len(b) /\ 1 + k - 1 = k
      BY <2>2
    <3>3. b \in Seq(Held) /\ 1 \in 1..Len(b) /\ b[1].at = 1
      BY <2>2
    <3>4. b[1 + k - 1] = Units(b[1].conn, b[1].nth, b[1].of)[k]
      BY <2>1, <3>1, <3>2, <3>3, BufferUnits
    <3>5. b[k] = Units(b[1].conn, b[1].nth, m)[k]
      BY <2>3, <3>2, <3>4
    <3>6. k \in 1..UnitCount(m)
      BY <2>3, <3>1
    <3> QED
      BY <3>5, <3>6 DEF Units
  <2> QED
    BY <2>4
<1>8. b[1].conn = conn
  <2>1. p + 1 - 1 \in 1..sent[d] /\ b[1] = w[p + 1 - 1]
    BY <1>4, <1>6
  <2>2. p + 1 - 1 \in 1..Len(w)
    BY <1>6, <2>1
  <2> QED
    BY <1>6, <2>1, <2>2 DEF OneStream
<1>9. From(d)' = p + n
  <2> DEFINE rest == Rest(b, n)
             s == sent[d]
             l == Len(b)
  <2>1. Len(rest) + n = l /\ rest \in Seq(Held)
    BY <1>2, <1>5, RestIs
  <2>2. From(d)' = s - Len(rest) + 1
    BY <1>1, <1>3 DEF From
  <2>3. /\ p + l = s + 1 /\ s \in Nat /\ l \in Nat /\ Len(rest) \in Nat
        /\ n \in Nat /\ p \in Nat
    BY <1>5, <1>6, <2>1
  <2> HIDE DEF rest, s, l, n, p
  <2>4. s - Len(rest) + 1 = p + n
    BY <2>1, <2>3
  <2> QED
    BY <2>2, <2>4
<1>10. ASSUME NEW i \in p..p + n - 1
       PROVE  w[i].nth = w[p].nth /\ w[i].of = w[p].of
  <2> DEFINE k == i - p + 1
  <2>0. n \in Nat \ {0} /\ p \in Nat \ {0} /\ i \in p..p + n - 1 /\ k = i - p + 1
    BY <1>5, <1>6
  <2>1. k \in 1..n /\ p + k - 1 = i /\ 1 \in 1..n /\ p + 1 - 1 = p
    <3> HIDE DEF k, p, n
    <3> QED
      BY <2>0
  <2> HIDE DEF k, b, w, p, n
  <2>2. k \in 1..Len(b) /\ 1 \in 1..Len(b)
    BY <1>5, <1>6, <2>1
  <2>3. b[k] = w[i] /\ b[1] = w[p]
    BY <1>6, <2>1, <2>2
  <2> QED
    BY <1>7, <2>1, <2>3
<1>11. w[p].at = 1 /\ b[1] = w[p] /\ IsEnd(w[p + n - 1]) /\ p + n - 1 <= sent[d]
  <2>1. n \in 1..Len(b) /\ n \in 1..n /\ p + 1 - 1 = p
    BY <1>5, <1>6
  <2> HIDE DEF b, w, p, n, m
  <2>2. b[1] = w[p] /\ b[n] = w[p + n - 1] /\ p + n - 1 \in 1..sent[d]
    BY <1>4, <1>6, <2>1
  <2>3. IsEnd(b[n])
    BY <1>4, <1>7, <2>1 DEF IsEnd
  <2> QED
    BY <1>4, <1>6, <2>2, <2>3
<1>12. /\ Len(out[d]) \in Nat /\ Len(out'[d]) = Len(out[d]) + 1
       /\ out'[d][Len(out[d]) + 1] = r
       /\ \A k \in 1..Len(out[d]) : out'[d][k] = out[d][k]
  <2> HIDE DEF r
  <2> QED
    BY <1>2, <1>3
<1>13. r.id = <<conn, w[p].nth>> /\ r.took[1] = w[p]
  <2>1. r.id = <<b[1].conn, b[1].nth>> /\ r.took = SubSeq(b, 1, n)
    BY DEF ParsedRecord
  <2> HIDE DEF r, w, p, n
  <2>2. r.took[1] = b[1]
    BY <1>2, <1>5, <2>1
  <2> QED
    BY <1>8, <1>11, <2>1, <2>2
<1> HIDE DEF r, w, p, n
<1>14. n \in Nat \ {0} /\ p \in Nat \ {0}
  BY <1>5, <1>6
<1> QED
  BY <1>1, <1>3, <1>9, <1>10, <1>11, <1>12, <1>13, <1>14 DEF r, w, p, n
LEMMA ParseOnePrompt ==
  ASSUME Unforgotten, PInv, WInv', NEW d \in Dir, ParseOne(d)
  PROVE  PInv'
<1> DEFINE w == wire[d]
           p == From(d)
           n == Consumed(buf[d])
           r == ParsedRecord(d)
           l == Len(out[d])
<1>1. /\ loop = d /\ UNCHANGED <<conn, wire, sent, loop>>
      /\ n \in Nat \ {0} /\ p \in Nat \ {0} /\ p + n - 1 <= sent[d]
      /\ From(d)' = p + n
      /\ Len(out'[d]) = l + 1 /\ out'[d][l + 1] = r
      /\ \A k \in 1..l : out'[d][k] = out[d][k]
      /\ \A e \in Dir : e # d => out'[e] = out[e] /\ buf'[e] = buf[e]
      /\ \A i \in p..p + n - 1 : w[i].nth = w[p].nth /\ w[i].of = w[p].of
      /\ IsEnd(w[p + n - 1]) /\ r.id = <<conn, w[p].nth>>
  BY OneParsed DEF Unforgotten
<1>2. /\ l \in Nat /\ sent[d] \in Nat /\ Len(w) \in Nat /\ sent[d] <= Len(w)
      /\ OneStream(w, conn) /\ PromptAt(d)
  BY PTypes
<1> HIDE DEF w, p, n, r, l
<1>3. ASSUME p + n <= Len(w)
      PROVE  w[p + n].at = 1
  <2>1. p + n - 1 \in 1..Len(w) - 1 /\ (p + n - 1) + 1 = p + n
    BY <1>1, <1>2, <1>3
  <2>2. FollowsIn(w[p + n - 1], w[(p + n - 1) + 1])
    BY <1>2, <2>1 DEF OneStream, Script
  <2> QED
    BY <1>1, <2>1, <2>2 DEF FollowsIn
<1>4. ASSUME NEW i \in 1..p + n - 1, IsEnd(w[i])
      PROVE  \E k \in 1..Len(out'[d]) : out'[d][k].id = <<conn, w[i].nth>>
  <2>1. CASE i < p
    <3>1. i \in 1..p - 1
      BY <1>1, <2>1
    <3>2. PICK k \in 1..l : out[d][k].id = <<conn, w[i].nth>>
      BY <1>2, <1>4, <3>1 DEF PromptAt, p, w, l
    <3>3. k \in 1..Len(out'[d])
      BY <1>1, <1>2
    <3> QED
      BY <1>1, <3>2, <3>3
  <2>2. CASE ~(i < p)
    <3>1. i \in p..p + n - 1
      BY <1>1, <2>2
    <3>2. w[i].nth = w[p].nth
      BY <1>1, <3>1
    <3>3. l + 1 \in 1..Len(out'[d])
      BY <1>1, <1>2
    <3> QED
      BY <1>1, <3>2, <3>3
  <2> QED
    BY <2>1, <2>2
<1>5. PromptAt(d)'
  <2>1. wire'[d] = w /\ conn' = conn /\ loop' = d /\ AllHttp(w)
    BY <1>1, <1>2 DEF PromptAt, w
  <2>2. From(d)' <= Len(wire'[d]) => wire'[d][From(d)'].at = 1
    BY <1>1, <1>3, <2>1
  <2>3. \A i \in 1..From(d)' - 1 :
          IsEnd(wire'[d][i]) => \E k \in 1..Len(out'[d]) : out'[d][k].id = <<conn', wire'[d][i].nth>>
    <3>1. From(d)' - 1 = p + n - 1
      BY <1>1
    <3> QED
      BY <1>4, <2>1, <3>1
  <2> QED
    BY <2>1, <2>2, <2>3 DEF PromptAt
<1>6. \A e \in Dir : e # d => /\ out'[e] = out[e] /\ buf'[e] = buf[e]
                              /\ sent'[e] = sent[e] /\ loop # e
  BY <1>1
<1> QED
  BY <1>1, <1>5, <1>6, PromptKept

LEMMA LeavePrompt ==
  ASSUME PInv, WInv', NEW d \in Dir, Leave(d)
  PROVE  PInv'
<1>1. /\ loop = d /\ ~Parses(buf[d]) /\ loop' = "idle"
      /\ UNCHANGED <<conn, wire, sent, buf, out>>
  BY DEF Leave, net, flow
<1>2. From(d)' = From(d)
  BY <1>1 DEF From
<1>3. PromptAt(d)
  BY DEF PInv
<1>4. PromptAt(d)'
  BY <1>1, <1>2, <1>3 DEF PromptAt
<1> QED
  BY <1>1, <1>4, PromptKept

LEMMA SamePrompt ==
  ASSUME PInv, WInv', UNCHANGED <<conn, wire, sent, buf, out, loop>>
  PROVE  PInv'
<1>1. ASSUME NEW d \in Dir
      PROVE  PromptAt(d)'
  <2>1. PromptAt(d) /\ From(d)' = From(d)
    BY DEF PInv, From
  <2> QED
    BY <2>1 DEF PromptAt
<1> QED
  BY <1>1 DEF PInv

\* A stream is what its conversation says.
LEMMA WireSays ==
  ASSUME NEW c \in Conversations, wire = [d \in Dir |-> OnConnection(1, c[d])], NEW d \in Dir
  PROVE  /\ Len(wire[d]) = Len(c[d]) /\ Len(c[d]) \in Nat
         /\ \A i \in 1..Len(c[d]) : /\ wire[d][i].of = c[d][i].of
                                   /\ wire[d][i].nth = c[d][i].nth
                                   /\ wire[d][i].at = c[d][i].at
                                   /\ wire[d][i].kind = c[d][i].kind
<1>1. wire[d] = OnConnection(1, c[d]) /\ c[d] \in Seq(Unit)
  BY TcpStreamAssumption
<1> QED
  BY <1>1 DEF OnConnection, Unit

LEMMA NumberedSays ==
  ASSUME NEW c \in Conversations, wire = [d \in Dir |-> OnConnection(1, c[d])], NEW d \in Dir,
         Numbered(c[d])
  PROVE  Numbered(wire[d])
<1>1. Len(wire[d]) > 0 => wire[d][1].nth = 1
  BY WireSays DEF Numbered
<1>2. ASSUME NEW i \in 1..Len(wire[d]) - 1, IsEnd(wire[d][i])
      PROVE  wire[d][i + 1].nth = wire[d][i].nth + 1
  <2>1. i \in 1..Len(c[d]) /\ i + 1 \in 1..Len(c[d]) /\ i \in 1..Len(c[d]) - 1
    BY WireSays
  <2>2. IsEnd(c[d][i])
    BY <1>2, <2>1, WireSays DEF IsEnd
  <2>3. c[d][i + 1].nth = c[d][i].nth + 1
    BY <2>1, <2>2 DEF Numbered
  <2> QED
    BY <2>1, <2>3, WireSays
<1> QED
  BY <1>1, <1>2 DEF Numbered

LEMMA InitPrompt ==
  ASSUME Undisturbed, Init, NEW c \in Conversations,
         wire = [d \in Dir |-> OnConnection(1, c[d])], SpeaksHttp(c)
  PROVE  PInv
<1>1. WInv
  BY InitWhole
<1>2. ASSUME NEW d \in Dir
      PROVE  PromptAt(d)
  <2>1. sent[d] = 0 /\ buf[d] = <<>> /\ wire[d] \in Seq(Unit)
    BY <1>1, WTypes DEF Init
  <2>2. From(d) = 1
    BY <2>1 DEF From
  <2>3. AllHttp(wire[d])
    BY WireSays DEF SpeaksHttp, AllHttp
  <2>4. From(d) <= Len(wire[d]) => wire[d][From(d)].at = 1
    BY <1>1, <2>1, <2>2 DEF WInv, StreamAt, OneStream, Script
  <2>5. ~Parses(buf[d])
    BY <2>1 DEF Parses, StartsMessage
  <2> QED
    BY <2>2, <2>3, <2>4, <2>5 DEF PromptAt
<1> QED
  BY <1>1, <1>2 DEF PInv

LEMMA StepPrompt == Unforgotten /\ PInv /\ [Next]_vars => PInv'
<1> SUFFICES ASSUME Unforgotten, PInv, [Next]_vars PROVE PInv'
  OBVIOUS
<1>0. Undisturbed /\ WInv'
  BY StepWhole DEF Unforgotten, PInv
<1>1. /\ "loss" \notin Faults /\ "dup" \notin Faults /\ "pad" \notin Faults
      /\ "reuse" \notin Faults /\ "forget" \notin Faults
  BY <1>0 DEF Undisturbed, Unforgotten
<1>2. ASSUME NEW d \in Dir, NEW j \in 1..Len(wire[d]), Deliver(d, j) PROVE PInv'
  BY <1>0, <1>2, DeliverPrompt
<1>3. ASSUME NEW d \in Dir, ParseOne(d) PROVE PInv'
  BY <1>0, <1>3, ParseOnePrompt
<1>4. ASSUME NEW d \in Dir, Leave(d) PROVE PInv'
  BY <1>0, <1>4, LeavePrompt
<1>5. CASE UNCHANGED vars
  BY <1>0, <1>5, SamePrompt DEF vars, net, flow
<1>6. /\ \A d \in Dir : ~PaddedAck(d) /\ ~Forget(d) /\ \A j \in 1..Len(wire[d]) : ~Lose(d, j)
      /\ \A d \in Dir : \A i, j \in 1..sent[d] : ~Retransmit(d, i, j)
      /\ ~Reuse
  BY <1>1 DEF PaddedAck, Lose, Retransmit, Reuse, Forget, Fault
<1> QED
  BY <1>2, <1>3, <1>4, <1>5, <1>6 DEF Next

-----------------------------------------------------------------------------
(* Responses and the names of their requests.                              *)

\* A client that pipelines names the host in every request; no response has a
\* header of that name.
NamesTold(c, s) ==
  /\ "pipeline" \in Faults => \A i \in 1..Len(c) : c[i].of.host # None
  /\ \A i \in 1..Len(s) : s[i].of.host = None

\* A client starts with its hello; no record of a server names a host.
HelloFirst(c, s) ==
  /\ Len(c) > 0 => IsHello(c[1])
  /\ \A i \in 1..Len(s) : s[i].of.host = None

Addressed ==
  /\ Unforgotten
  /\ \A c \in Conversations :
       \/ /\ SpeaksHttp(c) /\ NamesTold(c["c2s"], c["s2c"])
          /\ \A d \in Dir : Numbered(c[d])
       \/ SpeaksTls(c) /\ HelloFirst(c["c2s"], c["s2c"])

\* Record k of a direction is about its message k, and the next one is at the
\* front of the buffer or still to come.
CountedAt(d) ==
  /\ Numbered(wire[d])
  /\ \A k \in 1..Len(out[d]) : out[d][k].id = <<conn, k>>
  /\ From(d) <= Len(wire[d]) => wire[d][From(d)].nth = Len(out[d]) + 1

\* The name in request k.
Asked(k) == out["c2s"][k].took[1].of.host

\* What is on the way to the client has been asked for in a reported request,
\* and a client that does not pipeline has been answered.
AskedFor ==
  /\ \A i \in 1..sent["s2c"] : wire["s2c"][i].nth <= Len(out["c2s"])
  /\ "pipeline" \notin Faults =>
       /\ \A i \in 1..sent["c2s"] : wire["c2s"][i].nth <= Len(out["s2c"]) + 1
       /\ Len(out["c2s"]) <= Len(out["s2c"]) + 1

\* The flow of the client remembers the name in the last request.
Remembered ==
  Len(out["c2s"]) > 0 =>
    /\ "pipeline" \in Faults => Asked(Len(out["c2s"])) # None
    /\ Asked(Len(out["c2s"])) # None => domain["c2s"] = Asked(Len(out["c2s"]))

\* Response k has the name of request k or of a pipelined one behind it.
NamedAt(k) ==
  \E j \in k..Len(out["c2s"]) :
    /\ j = k \/ ("pipeline" \in Faults /\ Asked(j) # None)
    /\ Asked(j) # None => out["s2c"][k].host = Asked(j)

NInv ==
  /\ PInv
  /\ \A d \in Dir : CountedAt(d)
  /\ NamesTold(wire["c2s"], wire["s2c"])
  /\ AskedFor /\ Remembered
  /\ \A k \in 1..Len(out["s2c"]) : NamedAt(k)

LEMMA NTypes ==
  ASSUME NInv, NEW d \in Dir
  PROVE  /\ PInv /\ CountedAt(d) /\ out[d] \in Seq(Record) /\ wire[d] \in Seq(Unit)
         /\ sent[d] \in Nat /\ sent[d] <= Len(wire[d])
         /\ Len(out[d]) \in Nat /\ Len(wire[d]) \in Nat
<1>1. PInv /\ CountedAt(d)
  BY DEF NInv
<1>2. out[d] \in Seq(Record) /\ wire[d] \in Seq(Unit) /\ sent[d] \in Nat
      /\ sent[d] <= Len(wire[d])
  BY <1>1, PTypes
<1> QED
  BY <1>1, <1>2

\* Two messages of a stream do not have the same number.
LEMMA EndsDiffer ==
  ASSUME NEW w \in Seq(Unit), NEW c, OneStream(w, c), NEW i \in 1..Len(w), NEW j \in 1..Len(w),
         IsEnd(w[i]), i < j
  PROVE  w[i].nth # w[j].nth
<1>0. Script(w) /\ \A k \in 1..Len(w) : w[k].conn = c
  BY DEF OneStream
<1>1. Len(w) \in Nat /\ i \in 1..Len(w) - 1 /\ i + 1 \in 1..Len(w)
  OBVIOUS
<1>2. FollowsIn(w[i], w[i + 1])
  BY <1>0, <1>1 DEF Script
<1>3. w[i + 1].nth > w[i].nth
  BY <1>2 DEF FollowsIn
<1>4. w[i] \in Unit /\ w[j] \in Unit /\ w[i + 1] \in Unit
  BY <1>1
<1>5. w[i].nth \in Nat /\ w[j].nth \in Nat /\ w[i + 1].nth \in Nat
  BY <1>4 DEF Unit
<1>6. CASE j = i + 1
  BY <1>3, <1>5, <1>6
<1>7. CASE j # i + 1
  <2>1. i + 1 < j
    BY <1>1, <1>7
  <2>2. Earlier(Spot(w[i + 1]), Spot(w[j]))
    BY <1>0, <1>1, <2>1, ScriptOrder
  <2>3. w[i + 1].kind # "pad" /\ w[j].kind # "pad" /\ w[i + 1].conn = w[j].conn
        /\ w[i + 1].conn \in Nat
    BY <1>0, <1>1, <1>4 DEF Unit
  <2>4. w[i + 1].nth <= w[j].nth
    BY <1>5, <2>2, <2>3 DEF Earlier, Spot
  <2> QED
    BY <1>3, <1>5, <2>4
<1> QED
  BY <1>6, <1>7

\* Between packets there is a record for each message that has arrived.
LEMMA EndedReported ==
  ASSUME Undisturbed, NInv, NEW d \in Dir, loop = "idle"
  PROVE  Cardinality(Ended(d)) \in Nat /\ Cardinality(Ended(d)) <= Len(out[d])
<1> DEFINE w == wire[d]
           s == sent[d]
           l == Len(out[d])
           g == [i \in Ended(d) |-> w[i].nth]
<1>1. /\ PInv /\ CountedAt(d) /\ w \in Seq(Unit) /\ s \in Nat /\ s <= Len(w)
      /\ l \in Nat /\ Len(w) \in Nat
  BY NTypes
<1>2. OneStream(w, conn) /\ AllHttp(w) /\ Prompt
  BY <1>1, PTypes, PromptShows DEF PromptAt
<1>3. ASSUME NEW i \in Ended(d)
      PROVE  i \in 1..Len(w) /\ IsEnd(w[i]) /\ w[i].nth \in 1..l
  <2>1. i \in 1..s /\ i \in 1..Len(w) /\ IsEnd(w[i])
    BY <1>1 DEF Ended
  <2>2. Parsed(w[i])
    BY <1>2, <2>1 DEF AllHttp, Parsed
  <2>3. PICK k \in 1..l : out[d][k].id = <<conn, w[i].nth>>
    BY <1>2, <2>2 DEF Prompt, Reported, Records
  <2>4. out[d][k].id = <<conn, k>>
    BY <1>1 DEF CountedAt
  <2> QED
    BY <2>1, <2>3, <2>4
<1>4. ASSUME NEW i \in Ended(d), NEW j \in Ended(d), i # j
      PROVE  w[i].nth # w[j].nth
  <2>1. i \in 1..Len(w) /\ IsEnd(w[i]) /\ j \in 1..Len(w) /\ IsEnd(w[j])
    BY <1>3
  <2>2. i < j \/ j < i
    BY <1>4, <2>1
  <2> QED
    BY <1>1, <1>2, <2>1, <2>2, EndsDiffer
<1> HIDE DEF w, l
<1>5. g \in Injection(Ended(d), 1..l)
  BY <1>3, <1>4 DEF Injection, IsInjective
<1>6. IsFiniteSet(1..l) /\ Cardinality(1..l) = l
  <2>1. l \in Nat /\ l \in Int /\ 1 \in Int
    BY <1>1 DEF l
  <2>2. IsFiniteSet(1..l) /\ Cardinality(1..l) = IF 1 > l THEN 0 ELSE l - 1 + 1
    BY <2>1, FS_Interval
  <2> QED
    BY <2>1, <2>2
<1>7. IsFiniteSet(Ended(d)) /\ Cardinality(Ended(d)) <= l
  BY <1>5, <1>6, FS_Injection
<1> QED
  BY <1>7, FS_CardinalityType DEF l

LEMMA HostAtFront ==
  ASSUME Undisturbed, WInv, NEW d \in Dir, Parses(buf[d])
  PROVE  HostOf(buf[d]) = buf[d][1].of.host
<1> DEFINE b == buf[d]
           w == wire[d]
           n == sent[d]
           m == b[1].of
<1>1. b \in Seq(Held) /\ w \in Seq(Unit) /\ n \in Nat
  BY WTypes
<1>2. Run(b, w, n) /\ OneStream(w, conn) /\ StartsMessage(b) /\ UnitCount(m) <= Len(b)
  <2>1. StartsMessage(b)
    BY DEF Parses
  <2> QED
    BY <2>1, FrontMessage DEF WInv, StreamAt
<1> HIDE DEF b, w, n
<1>3. /\ 1 \in 1..Len(b) /\ m \in Message /\ m.proto = "http"
      /\ \A k \in 1..Len(b) : k <= UnitCount(m) => b[k].of = m /\ b[k].kind = Kind(m, k)
  BY <1>1, <1>2, FirstUnits
<1>4. UnitCount(m) \in Nat /\ UnitCount(m) >= 2 /\ Len(b) \in Nat
  BY <1>1, <1>3, UnitCountType
<1>5. 2 \in 1..Len(b) /\ 2 <= UnitCount(m) /\ Len(b) >= 2
  <2> DEFINE c == UnitCount(m)
             l == Len(b)
  <2>1. c \in Nat /\ l \in Nat /\ c >= 2 /\ c <= l
    BY <1>2, <1>4
  <2> HIDE DEF c, l
  <2>2. 2 \in 1..l /\ 2 <= c /\ l >= 2
    BY <2>1
  <2> QED
    BY <2>2 DEF c, l
<1>6. b[2].of = m /\ b[2].kind = "head"
  <2>1. Kind(m, 2) = "head"
    BY <1>3 DEF Kind
  <2> QED
    BY <1>3, <1>5, <2>1
<1>7. HeaderEnd(b) = 2
  BY <1>1, <1>2, <1>5, <1>6, HeaderEndsAt DEF StartsMessage
<1> QED
  BY <1>6, <1>7 DEF HostOf, b

LEMMA DeliverNamed ==
  ASSUME Unforgotten, NInv, PInv', NEW d \in Dir, NEW j \in 1..Len(wire[d]), Deliver(d, j)
  PROVE  NInv'
<1>0. PInv /\ Undisturbed
  BY DEF NInv, Unforgotten
<1>1. /\ loop = "idle" /\ UNCHANGED <<conn, wire, out, domain>>
      /\ sent' = [sent EXCEPT ![d] = j] /\ j <= Len(wire[d])
      /\ \A i \in sent[d] + 1..j : MaySay(d, wire[d][i])
      /\ \A e \in Dir : From(e)' = From(e)
  BY <1>0, OneDelivered
<1>2. \A e \in Dir : CountedAt(e)'
  <2>1. \A e \in Dir : CountedAt(e)
    BY DEF NInv
  <2> QED
    BY <1>1, <2>1 DEF CountedAt
<1>3. NamesTold(wire["c2s"], wire["s2c"])' /\ Remembered'
      /\ \A k \in 1..Len(out'["s2c"]) : NamedAt(k)'
  <2>1. NamesTold(wire["c2s"], wire["s2c"]) /\ Remembered
        /\ \A k \in 1..Len(out["s2c"]) : NamedAt(k)
    BY DEF NInv
  <2> QED
    BY <1>1, <2>1 DEF NamesTold, Remembered, NamedAt, Asked
<1>4. /\ "c2s" \in Dir /\ "s2c" \in Dir /\ sent \in [Dir -> Nat]
  BY <1>0, WTypes DEF Dir, PInv
<1>5. ASSUME NEW i \in 1..sent'[d]
      PROVE  i \in 1..sent[d] \/ MaySay(d, wire[d][i])
  <2> DEFINE s == sent[d]
  <2>1. sent'[d] = j /\ s \in Nat /\ j \in Nat
    BY <1>1, <1>4
  <2> HIDE DEF s
  <2>2. i \in 1..s \/ i \in s + 1..j
    BY <2>1
  <2> QED
    BY <1>1, <2>2 DEF s
<1>6. \A e \in Dir : e # d => sent'[e] = sent[e]
  BY <1>1, <1>4
<1>7. \A i \in 1..sent'[d] : i \in 1..Len(wire[d]) /\ wire[d][i] \in Unit
  <2>1. wire[d] \in Seq(Unit) /\ sent'[d] = j /\ j <= Len(wire[d])
    BY <1>1, <1>4, NTypes
  <2> QED
    BY <2>1
<1>8. ASSUME NEW i \in 1..sent'["s2c"]
      PROVE  wire["s2c"][i].nth <= Len(out["c2s"])
  <2>1. CASE i \in 1..sent["s2c"]
    BY <2>1 DEF NInv, AskedFor
  <2>2. CASE ~(i \in 1..sent["s2c"])
    <3>1. d = "s2c" /\ MaySay(d, wire[d][i]) /\ wire[d][i] \in Unit /\ i \in 1..Len(wire[d])
      BY <1>4, <1>5, <1>6, <1>7, <1>8, <2>2
    <3>2. wire[d][i].of.proto = "http"
      BY <1>0, <3>1 DEF PInv, PromptAt, AllHttp
    <3>3. Cardinality(Ended("c2s")) >= wire[d][i].nth
      BY <3>1, <3>2 DEF MaySay
    <3>4. Cardinality(Ended("c2s")) \in Nat /\ Cardinality(Ended("c2s")) <= Len(out["c2s"])
      BY <1>0, <1>1, <1>4, EndedReported
    <3>5. wire[d][i].nth \in Nat /\ Len(out["c2s"]) \in Nat
      BY <1>4, <3>1, NTypes DEF Unit
    <3> QED
      BY <3>1, <3>3, <3>4, <3>5
  <2> QED
    BY <2>1, <2>2
<1>9. ASSUME "pipeline" \notin Faults, NEW i \in 1..sent'["c2s"]
      PROVE  wire["c2s"][i].nth <= Len(out["s2c"]) + 1
  <2>1. CASE i \in 1..sent["c2s"]
    BY <1>9, <2>1 DEF NInv, AskedFor
  <2>2. CASE ~(i \in 1..sent["c2s"])
    <3>1. d = "c2s" /\ MaySay(d, wire[d][i]) /\ wire[d][i] \in Unit
      BY <1>4, <1>5, <1>6, <1>7, <1>9, <2>2
    <3>3. Cardinality(Ended("s2c")) >= wire[d][i].nth - 1
      BY <1>9, <3>1 DEF MaySay
    <3>4. Cardinality(Ended("s2c")) \in Nat /\ Cardinality(Ended("s2c")) <= Len(out["s2c"])
      BY <1>0, <1>1, <1>4, EndedReported
    <3>5. wire[d][i].nth \in Nat /\ Len(out["s2c"]) \in Nat
      BY <1>4, <3>1, NTypes DEF Unit
    <3> QED
      BY <3>1, <3>3, <3>4, <3>5
  <2> QED
    BY <2>1, <2>2
<1>10. AskedFor'
  <2>1. "pipeline" \notin Faults => Len(out["c2s"]) <= Len(out["s2c"]) + 1
    BY DEF NInv, AskedFor
  <2> QED
    BY <1>1, <1>8, <1>9, <2>1 DEF AskedFor
<1> QED
  BY <1>2, <1>3, <1>10 DEF NInv

\* A record more, the next one in number.
LEMMA ParseOneCounted ==
  ASSUME Undisturbed, NInv, NEW d \in Dir, ParseOne(d), NEW e \in Dir
  PROVE  CountedAt(e)'
<1> DEFINE p == From(d)
           n == Consumed(buf[d])
           w == wire[d]
           r == ParsedRecord(d)
           l == Len(out[d])
<1>1. /\ UNCHANGED <<conn, wire, sent, loop>>
      /\ n \in Nat \ {0} /\ p \in Nat \ {0} /\ p + n - 1 <= sent[d]
      /\ From(d)' = p + n
      /\ Len(out'[d]) = l + 1 /\ out'[d][l + 1] = r
      /\ \A k \in 1..l : out'[d][k] = out[d][k]
      /\ \A f \in Dir : f # d => out'[f] = out[f] /\ buf'[f] = buf[f]
      /\ \A i \in p..p + n - 1 : w[i].nth = w[p].nth /\ w[i].of = w[p].of
      /\ IsEnd(w[p + n - 1]) /\ r.id = <<conn, w[p].nth>>
  BY OneParsed DEF NInv
<1>2. /\ CountedAt(d) /\ CountedAt(e) /\ l \in Nat /\ Len(w) \in Nat
      /\ sent[d] \in Nat /\ sent[d] <= Len(w)
  BY NTypes
<1>3. CASE e # d
  <2>1. out'[e] = out[e] /\ From(e)' = From(e) /\ wire' = wire /\ conn' = conn
    BY <1>1, <1>3 DEF From
  <2> QED
    BY <1>2, <2>1 DEF CountedAt
<1>4. CASE e = d
  <2>1. p <= Len(w)
    <3> DEFINE s == sent[d]
               z == Len(w)
    <3>1. /\ n \in Nat \ {0} /\ p \in Nat \ {0} /\ p + n - 1 <= s
          /\ s \in Nat /\ z \in Nat /\ s <= z
      BY <1>1, <1>2
    <3> HIDE DEF n, p, s, z
    <3>2. p <= z
      BY <3>1
    <3> QED
      BY <3>2 DEF z
  <2>2. w[p].nth = l + 1
    BY <1>2, <2>1 DEF CountedAt
  <2>3. ASSUME NEW k \in 1..Len(out'[d])
        PROVE  out'[d][k].id = <<conn, k>>
    <3>1. CASE k = l + 1
      BY <1>1, <2>2, <3>1
    <3>2. CASE k # l + 1
      <4>1. k \in 1..l
        BY <1>1, <1>2, <3>2
      <4> QED
        BY <1>1, <1>2, <4>1 DEF CountedAt
    <3> QED
      BY <3>1, <3>2
  <2> HIDE DEF p, n, r
  <2>4. ASSUME p + n <= Len(w)
        PROVE  w[p + n].nth = l + 2
    <3>1. p + n - 1 \in 1..Len(w) - 1 /\ (p + n - 1) + 1 = p + n
      BY <1>1, <1>2, <2>4
    <3>2. w[(p + n - 1) + 1].nth = w[p + n - 1].nth + 1
      BY <1>1, <1>2, <3>1 DEF CountedAt, Numbered
    <3>3. p + n - 1 \in p..p + n - 1
      BY <1>1
    <3>4. w[p + n - 1].nth = l + 1
      BY <1>1, <2>2, <3>3
    <3> QED
      BY <1>2, <3>1, <3>2, <3>4
  <2>5. /\ wire'[d] = w /\ conn' = conn /\ Numbered(w) /\ From(d)' = p + n
        /\ Len(out'[d]) + 1 = l + 2
    BY <1>1, <1>2 DEF CountedAt
  <2>6. From(d)' <= Len(wire'[d]) => wire'[d][From(d)'].nth = Len(out'[d]) + 1
    BY <2>4, <2>5
  <2> QED
    BY <1>4, <2>3, <2>5, <2>6 DEF CountedAt
<1> QED
  BY <1>3, <1>4

\* Request l + 1 is reported: its name is remembered.
LEMMA RequestNamed ==
  ASSUME Undisturbed, NInv, PInv', ParseOne("c2s")
  PROVE  AskedFor' /\ Remembered' /\ \A k \in 1..Len(out'["s2c"]) : NamedAt(k)'
<1> DEFINE p == From("c2s")
           n == Consumed(buf["c2s"])
           w == wire["c2s"]
           r == ParsedRecord("c2s")
           l == Len(out["c2s"])
           a == Len(out["s2c"])
<1>0. "c2s" \in Dir /\ "s2c" \in Dir /\ "s2c" # "c2s" /\ PInv /\ WInv
  BY DEF Dir, NInv, PInv
<1>1. /\ UNCHANGED <<conn, wire, sent, loop>>
      /\ n \in Nat \ {0} /\ p \in Nat \ {0} /\ p + n - 1 <= sent["c2s"]
      /\ Len(out'["c2s"]) = l + 1 /\ out'["c2s"][l + 1] = r
      /\ \A k \in 1..l : out'["c2s"][k] = out["c2s"][k]
      /\ out'["s2c"] = out["s2c"]
      /\ r.took[1] = w[p]
  BY <1>0, OneParsed
<1>2. /\ CountedAt("c2s") /\ l \in Nat /\ a \in Nat /\ Len(w) \in Nat
      /\ sent["c2s"] \in Nat /\ sent["c2s"] <= Len(w) /\ w \in Seq(Unit)
      /\ sent["s2c"] \in Nat /\ sent["s2c"] <= Len(wire["s2c"])
      /\ wire["s2c"] \in Seq(Unit)
  BY <1>0, NTypes
<1>3. p \in 1..sent["c2s"] /\ p \in 1..Len(w)
  <2> DEFINE s == sent["c2s"]
             z == Len(w)
  <2>1. /\ n \in Nat \ {0} /\ p \in Nat \ {0} /\ p + n - 1 <= s
        /\ s \in Nat /\ z \in Nat /\ s <= z
    BY <1>1, <1>2
  <2> HIDE DEF n, p, s, z
  <2>2. p \in 1..s /\ p \in 1..z
    BY <2>1
  <2> QED
    BY <2>2 DEF z, s
<1>4. w[p].nth = l + 1
  BY <1>2, <1>3 DEF CountedAt
<1>5. out'["c2s"][l + 1].took[1].of.host = w[p].of.host
  BY <1>1
<1>6. AskedFor'
  <2>1. ASSUME NEW i \in 1..sent["s2c"]
        PROVE  wire["s2c"][i].nth <= l + 1
    <3>1. wire["s2c"][i].nth <= l
      BY DEF NInv, AskedFor
    <3>2. wire["s2c"][i] \in Unit
      BY <1>2
    <3>3. wire["s2c"][i].nth \in Nat
      BY <3>2 DEF Unit
    <3> QED
      BY <1>2, <3>1, <3>3
  <2>2. "pipeline" \notin Faults =>
          /\ \A i \in 1..sent["c2s"] : w[i].nth <= a + 1
          /\ l + 1 <= a + 1
    BY <1>3, <1>4 DEF NInv, AskedFor
  <2> QED
    BY <1>1, <2>1, <2>2 DEF AskedFor
<1>7. Remembered'
  <2>1. "pipeline" \in Faults => w[p].of.host # None
    BY <1>3 DEF NInv, NamesTold
  <2>2. ASSUME w[p].of.host # None
        PROVE  domain'["c2s"] = w[p].of.host
    <3>1. Parses(buf["c2s"])
      BY DEF ParseOne
    <3>2. HostOf(buf["c2s"]) = buf["c2s"][1].of.host
      BY <1>0, <3>1, HostAtFront
    <3>3. buf["c2s"][1] = w[p]
      <4>1. StartsMessage(buf["c2s"])
        BY <3>1 DEF Parses
      <4>2. 1 \in 1..Len(buf["c2s"])
        BY <1>0, <4>1, FrontMessage
      <4>3. buf["c2s"][1] = wire["c2s"][From("c2s") + 1 - 1]
        BY <1>0, <4>2, PTypes
      <4> QED
        BY <1>1, <4>3
    <3>4. HostOf(buf["c2s"]) # None
      BY <2>2, <3>2, <3>3
    <3>5. domain' = [domain EXCEPT !["c2s"] = HostOf(buf["c2s"])]
      BY <3>4 DEF ParseOne
    <3>6. domain \in [Dir -> Hosts \cup {None}]
      BY <1>0 DEF WInv, IInv, TypeOK
    <3> QED
      BY <1>0, <3>2, <3>3, <3>5, <3>6
  <2>3. Len(out'["c2s"]) = l + 1
    BY <1>1
  <2> QED
    BY <1>5, <2>1, <2>2, <2>3 DEF Remembered, Asked
<1>8. ASSUME NEW k \in 1..Len(out'["s2c"])
      PROVE  NamedAt(k)'
  <2>1. k \in 1..a /\ NamedAt(k)
    BY <1>1, <1>8 DEF NInv
  <2>2. PICK j \in k..l :
          /\ j = k \/ ("pipeline" \in Faults /\ Asked(j) # None)
          /\ Asked(j) # None => out["s2c"][k].host = Asked(j)
    BY <2>1 DEF NamedAt
  <2>3. j \in 1..l /\ j \in k..l + 1
    BY <1>2, <2>1, <2>2
  <2>4. Asked(j)' = Asked(j)
    BY <1>1, <2>3 DEF Asked
  <2> QED
    BY <1>1, <2>2, <2>3, <2>4 DEF NamedAt
<1> QED
  BY <1>6, <1>7, <1>8

\* Response a + 1 is reported, under the name of the last request.
LEMMA ResponseNamed ==
  ASSUME Undisturbed, NInv, PInv', ParseOne("s2c")
  PROVE  AskedFor' /\ Remembered' /\ \A k \in 1..Len(out'["s2c"]) : NamedAt(k)'
<1> DEFINE p == From("s2c")
           n == Consumed(buf["s2c"])
           w == wire["s2c"]
           r == ParsedRecord("s2c")
           l == Len(out["c2s"])
           a == Len(out["s2c"])
<1>0. "c2s" \in Dir /\ "s2c" \in Dir /\ "s2c" # "c2s" /\ PInv /\ WInv
  BY DEF Dir, NInv, PInv
<1>1. /\ UNCHANGED <<conn, wire, sent, loop>>
      /\ n \in Nat \ {0} /\ p \in Nat \ {0} /\ p + n - 1 <= sent["s2c"]
      /\ Len(out'["s2c"]) = a + 1 /\ out'["s2c"][a + 1] = r
      /\ \A k \in 1..a : out'["s2c"][k] = out["s2c"][k]
      /\ out'["c2s"] = out["c2s"]
      /\ r.took[1] = w[p]
  BY <1>0, OneParsed
<1>2. /\ CountedAt("s2c") /\ l \in Nat /\ a \in Nat /\ Len(w) \in Nat
      /\ sent["s2c"] \in Nat /\ sent["s2c"] <= Len(w) /\ w \in Seq(Unit)
      /\ sent["c2s"] \in Nat /\ sent["c2s"] <= Len(wire["c2s"])
      /\ wire["c2s"] \in Seq(Unit)
  BY <1>0, NTypes
<1>3. p \in 1..sent["s2c"] /\ p \in 1..Len(w)
  <2> DEFINE s == sent["s2c"]
             z == Len(w)
  <2>1. /\ n \in Nat \ {0} /\ p \in Nat \ {0} /\ p + n - 1 <= s
        /\ s \in Nat /\ z \in Nat /\ s <= z
    BY <1>1, <1>2
  <2> HIDE DEF n, p, s, z
  <2>2. p \in 1..s /\ p \in 1..z
    BY <2>1
  <2> QED
    BY <2>2 DEF z, s
<1>4. w[p].nth = a + 1
  BY <1>2, <1>3 DEF CountedAt
<1>5. a + 1 <= l
  BY <1>3, <1>4 DEF NInv, AskedFor
<1>6. domain'["c2s"] = domain["c2s"]
  <2>1. domain \in [Dir -> Hosts \cup {None}]
    BY <1>0 DEF WInv, IInv, TypeOK
  <2>2. \E name : domain' = [domain EXCEPT !["s2c"] = name] \/ domain' = domain
    BY DEF ParseOne
  <2> QED
    BY <1>0, <2>1, <2>2
<1>7. r.host = domain["c2s"]
  <2>1. Parses(buf["s2c"])
    BY DEF ParseOne
  <2>2. HostOf(buf["s2c"]) = buf["s2c"][1].of.host
    BY <1>0, <2>1, HostAtFront
  <2>3. buf["s2c"][1] = w[p]
    <3>1. StartsMessage(buf["s2c"])
      BY <2>1 DEF Parses
    <3>2. 1 \in 1..Len(buf["s2c"])
      BY <1>0, <3>1, FrontMessage
    <3>3. buf["s2c"][1] = wire["s2c"][From("s2c") + 1 - 1]
      BY <1>0, <3>2, PTypes
    <3> QED
      BY <1>1, <3>3
  <2>4. w[p].of.host = None
    BY <1>3 DEF NInv, NamesTold
  <2> QED
    BY <2>2, <2>3, <2>4 DEF ParsedRecord, Inherited, Peer
<1>8. AskedFor'
  <2>1. ASSUME "pipeline" \notin Faults, NEW i \in 1..sent["c2s"]
        PROVE  wire["c2s"][i].nth <= a + 1 + 1
    <3>1. wire["c2s"][i].nth <= a + 1
      BY <2>1 DEF NInv, AskedFor
    <3>2. wire["c2s"][i] \in Unit
      BY <1>2
    <3>3. wire["c2s"][i].nth \in Nat
      BY <3>2 DEF Unit
    <3> QED
      BY <1>2, <3>1, <3>3
  <2>2. ASSUME "pipeline" \notin Faults
        PROVE  l <= a + 1 + 1
    <3>1. l <= a + 1
      BY <2>2 DEF NInv, AskedFor
    <3> QED
      BY <1>2, <3>1
  <2>3. \A i \in 1..sent["s2c"] : w[i].nth <= l
    BY DEF NInv, AskedFor
  <2> QED
    BY <1>1, <2>1, <2>2, <2>3 DEF AskedFor
<1>9. Remembered'
  <2>1. Remembered
    BY DEF NInv
  <2> QED
    BY <1>1, <1>6, <2>1 DEF Remembered, Asked
<1>10. ASSUME NEW k \in 1..Len(out'["s2c"])
       PROVE  NamedAt(k)'
  <2>1. CASE k = a + 1
    <3>1. l \in k..l /\ l > 0
      BY <1>2, <1>5, <2>1
    <3>2. "pipeline" \notin Faults => l = k
      <4>1. "pipeline" \notin Faults => l <= a + 1
        BY DEF NInv, AskedFor
      <4> QED
        BY <1>2, <1>5, <2>1, <4>1
    <3>3. /\ "pipeline" \in Faults => Asked(l) # None
          /\ Asked(l) # None => domain["c2s"] = Asked(l)
      BY <3>1 DEF NInv, Remembered
    <3>4. Asked(l)' = Asked(l)
      BY <1>1 DEF Asked
    <3>5. out'["s2c"][k].host = domain["c2s"]
      BY <1>1, <1>7, <2>1
    <3> QED
      BY <1>1, <3>1, <3>2, <3>3, <3>4, <3>5 DEF NamedAt
  <2>2. CASE k # a + 1
    <3>1. k \in 1..a
      BY <1>1, <1>2, <2>2
    <3>2. NamedAt(k)
      BY <3>1 DEF NInv
    <3> QED
      BY <1>1, <3>1, <3>2 DEF NamedAt, Asked
  <2> QED
    BY <2>1, <2>2
<1> QED
  BY <1>8, <1>9, <1>10

LEMMA ParseOneNamed ==
  ASSUME Undisturbed, NInv, PInv', NEW d \in Dir, ParseOne(d)
  PROVE  NInv'
<1>1. \A e \in Dir : CountedAt(e)'
  BY ParseOneCounted
<1>2. NamesTold(wire["c2s"], wire["s2c"])'
  BY DEF NInv, ParseOne, net, NamesTold
<1>3. d = "c2s" \/ d = "s2c"
  BY DEF Dir
<1>4. AskedFor' /\ Remembered' /\ \A k \in 1..Len(out'["s2c"]) : NamedAt(k)'
  BY <1>3, RequestNamed, ResponseNamed
<1> QED
  BY <1>1, <1>2, <1>4 DEF NInv

LEMMA SameNamed ==
  ASSUME NInv, PInv', UNCHANGED <<conn, wire, sent, buf, domain, out>>
  PROVE  NInv'
<1>1. ASSUME NEW d \in Dir
      PROVE  CountedAt(d)'
  BY DEF NInv, CountedAt, From
<1>2. NamesTold(wire["c2s"], wire["s2c"])' /\ AskedFor' /\ Remembered'
  BY DEF NInv, NamesTold, AskedFor, Remembered, Asked
<1>3. \A k \in 1..Len(out'["s2c"]) : NamedAt(k)'
  BY DEF NInv, NamedAt, Asked
<1> QED
  BY <1>1, <1>2, <1>3 DEF NInv

LEMMA InitNamed ==
  ASSUME Undisturbed, Init, NEW c \in Conversations,
         wire = [d \in Dir |-> OnConnection(1, c[d])], SpeaksHttp(c),
         NamesTold(c["c2s"], c["s2c"]), \A d \in Dir : Numbered(c[d])
  PROVE  NInv
<1>1. PInv
  BY InitPrompt
<1>2. sent = [d \in Dir |-> 0] /\ buf = [d \in Dir |-> <<>>] /\ out = [d \in Dir |-> <<>>]
  BY DEF Init
<1>3. ASSUME NEW d \in Dir
      PROVE  CountedAt(d)
  <2>1. Numbered(wire[d])
    BY NumberedSays
  <2>2. From(d) = 1 /\ Len(out[d]) = 0
    BY <1>2 DEF From
  <2>3. From(d) <= Len(wire[d]) => wire[d][From(d)].nth = Len(out[d]) + 1
    BY <2>1, <2>2 DEF Numbered
  <2> QED
    BY <2>1, <2>2, <2>3 DEF CountedAt
<1>4. NamesTold(wire["c2s"], wire["s2c"])
  <2>1. "c2s" \in Dir /\ "s2c" \in Dir
    BY DEF Dir
  <2> QED
    BY <2>1, WireSays DEF NamesTold
<1>5. /\ Len(out["c2s"]) = 0 /\ Len(out["s2c"]) = 0
      /\ sent["c2s"] = 0 /\ sent["s2c"] = 0
  BY <1>2 DEF Dir
<1> QED
  BY <1>1, <1>3, <1>4, <1>5 DEF NInv, AskedFor, Remembered

LEMMA StepNamed == Unforgotten /\ NInv /\ [Next]_vars => NInv'
<1> SUFFICES ASSUME Unforgotten, NInv, [Next]_vars PROVE NInv'
  OBVIOUS
<1>0. Undisturbed /\ Unforgotten /\ PInv'
  BY StepPrompt DEF Unforgotten, NInv
<1>1. /\ "loss" \notin Faults /\ "dup" \notin Faults /\ "pad" \notin Faults
      /\ "reuse" \notin Faults /\ "forget" \notin Faults
  BY <1>0 DEF Undisturbed, Unforgotten
<1>2. ASSUME NEW d \in Dir, NEW j \in 1..Len(wire[d]), Deliver(d, j) PROVE NInv'
  BY <1>0, <1>2, DeliverNamed
<1>3. ASSUME NEW d \in Dir, ParseOne(d) PROVE NInv'
  BY <1>0, <1>3, ParseOneNamed
<1>4. ASSUME NEW d \in Dir, Leave(d) PROVE NInv'
  <2>1. UNCHANGED <<conn, wire, sent, buf, domain, out>>
    BY <1>4 DEF Leave, net, flow
  <2> QED
    BY <1>0, <2>1, SameNamed
<1>5. CASE UNCHANGED vars
  BY <1>0, <1>5, SameNamed DEF vars, net, flow
<1>6. /\ \A d \in Dir : ~PaddedAck(d) /\ ~Forget(d) /\ \A j \in 1..Len(wire[d]) : ~Lose(d, j)
      /\ \A d \in Dir : \A i, j \in 1..sent[d] : ~Retransmit(d, i, j)
      /\ ~Reuse
  BY <1>1 DEF PaddedAck, Lose, Retransmit, Reuse, Forget, Fault
<1> QED
  BY <1>2, <1>3, <1>4, <1>5, <1>6 DEF Next

LEMMA NamedShows == NInv => NamedAfterRequest
<1> SUFFICES ASSUME NInv, NEW k \in 1..Len(out["s2c"]), NEW h \in 1..Len(out["c2s"]),
                    out["c2s"][h].id = out["s2c"][k].id, Asked(h) # None
             PROVE  \E j \in 1..Len(out["c2s"]) :
                      /\ \/ j = h
                         \/ "pipeline" \in Faults /\ Before(out["c2s"][h].id, out["c2s"][j].id)
                      /\ Asked(j) = out["s2c"][k].host
  BY DEF NamedAfterRequest, Records, Asked
<1>1. /\ CountedAt("c2s") /\ CountedAt("s2c")
      /\ Len(out["c2s"]) \in Nat /\ Len(out["s2c"]) \in Nat
  BY NTypes DEF Dir
<1>2. h = k
  BY <1>1 DEF CountedAt
<1>3. PICK j \in k..Len(out["c2s"]) :
        /\ j = k \/ ("pipeline" \in Faults /\ Asked(j) # None)
        /\ Asked(j) # None => out["s2c"][k].host = Asked(j)
  BY DEF NInv, NamedAt
<1>4. j \in 1..Len(out["c2s"]) /\ (j = h \/ h < j)
  BY <1>1, <1>2, <1>3
<1>5. out["c2s"][h].id = <<conn, h>> /\ out["c2s"][j].id = <<conn, j>>
  BY <1>1, <1>4 DEF CountedAt
<1>6. h < j => Before(out["c2s"][h].id, out["c2s"][j].id)
  BY <1>5 DEF Before
<1> QED
  BY <1>2, <1>3, <1>4, <1>6

-----------------------------------------------------------------------------
\* The step-by-step refinement of ExchangeLog.  Arrived and Entries map the
\* streams and the records to the abstract variables; NInv tells how far each
\* stream has been parsed, so that the record a round appends is the one due.

\* The numbers of a stream grow from one message to the next.
LEMMA EndsOrdered ==
  ASSUME NEW w \in Seq(Unit), NEW c, OneStream(w, c), NEW i \in 1..Len(w), NEW j \in 1..Len(w),
         IsEnd(w[i]), i < j
  PROVE  w[i].nth \in Nat /\ w[j].nth \in Nat /\ w[i].nth < w[j].nth
<1>0. Script(w) /\ \A k \in 1..Len(w) : w[k].conn = c
  BY DEF OneStream
<1>1. w[i] \in Unit /\ w[j] \in Unit
  OBVIOUS
<1>2. w[i].nth \in Nat /\ w[j].nth \in Nat
  BY <1>1 DEF Unit
<1>3. Earlier(Spot(w[i]), Spot(w[j]))
  BY <1>0, ScriptOrder
<1>4. w[i].kind # "pad" /\ w[j].kind # "pad" /\ w[i].conn = w[j].conn
      /\ w[i].conn \in Nat
  BY <1>0, <1>1 DEF Unit
<1>5. w[i].nth <= w[j].nth
  BY <1>2, <1>3, <1>4 DEF Earlier, Spot
<1>6. w[i].nth # w[j].nth
  BY EndsDiffer
<1> QED
  BY <1>2, <1>5, <1>6

LEMMA NumbersPositive ==
  ASSUME NEW w \in Seq(Unit), NEW c, OneStream(w, c), Numbered(w), NEW i \in 1..Len(w)
  PROVE  w[i].nth \in Nat \ {0}
<1>0. Script(w) /\ \A k \in 1..Len(w) : w[k].conn = c
  BY DEF OneStream
<1>1. 1 \in 1..Len(w) /\ w[i] \in Unit /\ w[1] \in Unit /\ w[1].nth = 1
  BY DEF Numbered
<1>2. w[i].nth \in Nat /\ w[1].nth \in Nat
  BY <1>1 DEF Unit
<1>3. CASE i = 1
  BY <1>1, <1>3
<1>4. CASE i # 1
  <2>1. Earlier(Spot(w[1]), Spot(w[i]))
    BY <1>0, <1>1, <1>4, ScriptOrder
  <2>2. w[1].kind # "pad" /\ w[i].kind # "pad" /\ w[1].conn = w[i].conn
        /\ w[1].conn \in Nat
    BY <1>0, <1>1 DEF Unit
  <2>3. w[1].nth <= w[i].nth
    BY <1>2, <2>1, <2>2 DEF Earlier, Spot
  <2> QED
    BY <1>1, <1>2, <2>3
<1> QED
  BY <1>3, <1>4

\* What has arrived, in terms of the stream.
ArrivedAt(d) ==
  /\ Arrived[d] = {[nth |-> wire[d][i].nth, message |-> wire[d][i].of] : i \in Ended(d)}
  /\ \A i \in Ended(d) : /\ i \in 1..Len(wire[d]) /\ i \in 1..sent[d]
                         /\ IsEnd(wire[d][i]) /\ wire[d][i].nth \in Nat \ {0}

LEMMA ArrivedIs ==
  ASSUME NInv, NEW d \in Dir
  PROVE  ArrivedAt(d)
<1>1. /\ PInv /\ CountedAt(d) /\ wire[d] \in Seq(Unit) /\ sent[d] \in Nat
      /\ sent[d] <= Len(wire[d]) /\ Len(wire[d]) \in Nat
  BY NTypes
<1>2. OneStream(wire[d], conn) /\ AllHttp(wire[d]) /\ Numbered(wire[d])
  BY <1>1, PTypes DEF PromptAt, CountedAt
<1>3. ASSUME NEW i \in Ended(d)
      PROVE  /\ i \in 1..Len(wire[d]) /\ i \in 1..sent[d]
             /\ IsEnd(wire[d][i]) /\ wire[d][i].nth \in Nat \ {0}
             /\ Parsed(wire[d][i])
  <2>1. i \in 1..Len(wire[d]) /\ i \in 1..sent[d] /\ IsEnd(wire[d][i])
    BY <1>1 DEF Ended
  <2>2. Parsed(wire[d][i])
    BY <1>2, <2>1 DEF AllHttp, Parsed
  <2>3. wire[d][i].nth \in Nat \ {0}
    BY <1>1, <1>2, <2>1, NumbersPositive
  <2> QED
    BY <2>1, <2>2, <2>3
<1>4. {j \in Ended(d) : Parsed(wire[d][j])} = Ended(d)
  BY <1>3
<1> QED
  BY <1>3, <1>4 DEF ArrivedAt, Arrived

LEMMA ArrivedNext == NInv' => (\A d \in Dir : ArrivedAt(d))'
<1>1. NInv => \A d \in Dir : ArrivedAt(d)
  BY ArrivedIs
<1> QED
  BY <1>1, PTL

LEMMA PromptNext ==
  ASSUME Undisturbed
  PROVE  NInv' => Prompt'
<1>1. NInv => Prompt
  BY PromptShows DEF NInv
<1> QED
  BY <1>1, PTL

LEMMA LoggedIs ==
  ASSUME NInv, NEW d \in Dir
  PROVE  Log!Logged(d) = 1..Len(out[d])
<1>1. CountedAt(d) /\ Len(out[d]) \in Nat
  BY NTypes
<1> DEFINE lg == Entries[d]
<1>2. lg = [k \in 1..Len(out[d]) |-> Entry(out[d][k])]
  BY DEF Entries
<1>3. \A k \in 1..Len(out[d]) : lg[k].nth = k
  BY <1>1, <1>2 DEF CountedAt, Entry
<1>4. Len(lg) = Len(out[d])
  BY <1>1, <1>2
<1>5. Log!Logged(d) = {lg[k].nth : k \in 1..Len(lg)}
  BY DEF Log!Logged, Entries
<1> HIDE DEF lg
<1> QED
  BY <1>3, <1>4, <1>5

LEMMA InitLogged == Init => Log!Init
<1> SUFFICES ASSUME Init PROVE Log!Init
  OBVIOUS
<1>1. \A d \in Dir : Ended(d) = {}
  BY DEF Init, Ended
<1>2. Arrived = [d \in Dir |-> {}]
  BY <1>1 DEF Arrived
<1>3. \A d \in Dir : [k \in 1..Len(out[d]) |-> Entry(out[d][k])] = <<>>
  BY DEF Init
<1>4. Entries = [d \in Dir |-> <<>>]
  BY <1>3 DEF Entries
<1>5. loop = "idle" /\ Log!Dir = Dir
  BY DEF Init, Log!Dir, Dir
<1> QED
  BY <1>2, <1>4, <1>5 DEF Log!Init

\* Messages of a stream are told apart by their numbers.
LEMMA ArrivedCount ==
  ASSUME NInv, NEW d \in Dir, NEW l \in Nat,
         \A i \in Ended(d) : wire[d][i].nth <= l
  PROVE  Cardinality(Arrived[d]) <= l
<1> DEFINE w == wire[d]
           A == Arrived[d]
           g == [p \in A |-> p.nth]
<1>1. /\ PInv /\ w \in Seq(Unit) /\ Len(w) \in Nat
  BY NTypes
<1>2. OneStream(w, conn)
  BY <1>1, PTypes
<1>3. /\ A = {[nth |-> w[i].nth, message |-> w[i].of] : i \in Ended(d)}
      /\ \A i \in Ended(d) : i \in 1..Len(w) /\ IsEnd(w[i]) /\ w[i].nth \in Nat \ {0}
  BY ArrivedIs DEF ArrivedAt
<1> HIDE DEF A, w
<1>4. ASSUME NEW p \in A
      PROVE  p.nth \in 1..l
  BY <1>3 DEF w
<1>5. ASSUME NEW p \in A, NEW q \in A, p.nth = q.nth
      PROVE  p = q
  <2>1. PICK i \in Ended(d) : p = [nth |-> w[i].nth, message |-> w[i].of]
    BY <1>3
  <2>2. PICK j \in Ended(d) : q = [nth |-> w[j].nth, message |-> w[j].of]
    BY <1>3
  <2>3. w[i].nth = w[j].nth
    BY <1>5, <2>1, <2>2
  <2>4. /\ i \in 1..Len(w) /\ IsEnd(w[i]) /\ j \in 1..Len(w) /\ IsEnd(w[j])
    BY <1>3
  <2>5. ~(i < j)
    BY <1>1, <1>2, <2>3, <2>4, EndsDiffer
  <2>6. ~(j < i)
    BY <1>1, <1>2, <2>3, <2>4, EndsDiffer
  <2>7. i = j
    BY <1>1, <2>4, <2>5, <2>6
  <2> QED
    BY <2>1, <2>2, <2>7
<1>6. g \in Injection(A, 1..l)
  BY <1>4, <1>5 DEF Injection, IsInjective
<1>7. IsFiniteSet(1..l) /\ Cardinality(1..l) = l
  <2>1. l \in Int /\ 1 \in Int
    OBVIOUS
  <2>2. IsFiniteSet(1..l) /\ Cardinality(1..l) = IF 1 > l THEN 0 ELSE l - 1 + 1
    BY <2>1, FS_Interval
  <2> QED
    BY <2>2
<1>8. Cardinality(A) <= l
  BY <1>6, <1>7, FS_Injection
<1> QED
  BY <1>8 DEF A

\* The abstract specification has an instance of its own of FiniteSets.
LEMMA SameCardinality == \A S : Log!Cardinality(S) = Cardinality(S)
BY DEF Cardinality, Log!Cardinality

LEMMA AnswersNext == NInv' => (Cardinality(Arrived["s2c"]) <= Len(out["c2s"]))'
<1>1. NInv => Cardinality(Arrived["s2c"]) <= Len(out["c2s"])
  <2>0. SUFFICES ASSUME NInv PROVE Cardinality(Arrived["s2c"]) <= Len(out["c2s"])
    OBVIOUS
  <2>1. "s2c" \in Dir /\ "c2s" \in Dir
    BY DEF Dir
  <2>2. Len(out["c2s"]) \in Nat
    BY <2>0, <2>1, NTypes
  <2>3. ASSUME NEW i \in Ended("s2c")
        PROVE  wire["s2c"][i].nth <= Len(out["c2s"])
    <3>1. i \in 1..sent["s2c"]
      BY <2>0, <2>1, ArrivedIs DEF ArrivedAt
    <3> QED
      BY <2>0, <3>1 DEF NInv, AskedFor
  <2> QED
    BY <2>0, <2>1, <2>2, <2>3, ArrivedCount
<1> QED
  BY <1>1, PTL

\* A segment is a packet of the abstract specification.
LEMMA DeliverLogged ==
  ASSUME Unforgotten, NInv, NInv', NEW d \in Dir, NEW j \in 1..Len(wire[d]), Deliver(d, j)
  PROVE  Log!Packet(d)
<1> DEFINE w == wire[d]
<1>0. PInv /\ Undisturbed
  BY DEF NInv, Unforgotten
<1>1. /\ loop = "idle" /\ loop' = d /\ UNCHANGED <<conn, wire, out>>
      /\ sent' = [sent EXCEPT ![d] = j]
  BY <1>0, OneDelivered
<1>2. /\ sent \in [Dir -> Nat] /\ w \in Seq(Unit) /\ Len(w) \in Nat /\ sent[d] < j
      /\ OneStream(w, conn)
  <2>1. sent[d] < j
    BY DEF Deliver, Segment
  <2> QED
    BY <1>0, <2>1, WTypes, PTypes DEF PInv
<1>3. sent'[d] = j /\ \A e \in Dir : e # d => sent'[e] = sent[e]
  BY <1>1, <1>2
<1>4. /\ \A i \in Ended(d) : i \in Ended(d)'
      /\ \A i \in Ended(d)' : i \notin Ended(d) => i > sent[d]
  BY <1>1, <1>2, <1>3 DEF Ended
<1>5. /\ Arrived[d] = {[nth |-> w[i].nth, message |-> w[i].of] : i \in Ended(d)}
      /\ \A i \in Ended(d) : /\ i \in 1..Len(w) /\ i \in 1..sent[d] /\ IsEnd(w[i])
      /\ Arrived'[d] = {[nth |-> w[i].nth, message |-> w[i].of] : i \in Ended(d)'}
      /\ \A i \in Ended(d)' : i \in 1..Len(w)
  <2>1. /\ Arrived'[d] = {[nth |-> wire'[d][i].nth, message |-> wire'[d][i].of] : i \in Ended(d)'}
        /\ \A i \in Ended(d)' : i \in 1..Len(wire'[d])
    BY ArrivedNext DEF ArrivedAt
  <2> QED
    BY <1>1, <2>1, ArrivedIs DEF ArrivedAt
<1>6. Arrived[d] \subseteq Arrived'[d]
  BY <1>4, <1>5
<1>7. ASSUME NEW p \in Arrived[d], NEW q \in Arrived'[d] \ Arrived[d]
      PROVE  p.nth < q.nth
  <2>1. PICK i \in Ended(d) : p = [nth |-> w[i].nth, message |-> w[i].of]
    BY <1>5
  <2>2. PICK k \in Ended(d)' : q = [nth |-> w[k].nth, message |-> w[k].of]
    BY <1>5
  <2>3. k \notin Ended(d)
    BY <1>5, <1>7, <2>2
  <2>4. i \in 1..Len(w) /\ k \in 1..Len(w) /\ IsEnd(w[i]) /\ i < k
    BY <1>2, <1>4, <1>5, <2>3
  <2>5. w[i].nth < w[k].nth
    BY <1>2, <2>4, EndsOrdered
  <2> QED
    BY <2>1, <2>2, <2>5
<1>8. ASSUME NEW e \in Dir \ {d} PROVE Arrived'[e] = Arrived[e]
  <2>1. Ended(e)' = Ended(e)
    BY <1>1, <1>3 DEF Ended
  <2> QED
    BY <1>1, <2>1 DEF Arrived
<1>9. "s2c" \in Dir /\ "c2s" \in Dir /\ Log!Dir = Dir
  BY DEF Dir, Log!Dir
<1>10. Len(Entries["c2s"]) = Len(out["c2s"]) /\ Len(out["c2s"]) \in Nat
       /\ UNCHANGED Entries
  <2>1. Len(out["c2s"]) \in Nat
    BY <1>9, NTypes
  <2>2. Entries["c2s"] = [k \in 1..Len(out["c2s"]) |-> Entry(out["c2s"][k])]
    BY <1>9 DEF Entries
  <2>3. Len(Entries["c2s"]) = Len(out["c2s"])
    BY <2>1, <2>2
  <2>4. UNCHANGED Entries
    BY <1>1 DEF Entries
  <2> QED
    BY <2>1, <2>3, <2>4
<1>11. Cardinality(Arrived'["s2c"]) <= Len(out["c2s"])
  BY <1>1, AnswersNext
<1> HIDE DEF w
<1>12. Log!Cardinality(Arrived'["s2c"]) <= Len(Entries["c2s"])
  BY <1>10, <1>11, SameCardinality
<1>13. Log!Arrive(d)
  BY <1>1, <1>6, <1>7, <1>8, <1>9, <1>12 DEF Log!Arrive
<1> QED
  BY <1>1, <1>10, <1>13 DEF Log!Packet

\* When the handling of a packet ends nothing is due.
LEMMA LeaveLogged ==
  ASSUME Undisturbed, NInv, NInv', NEW d \in Dir, Leave(d)
  PROVE  Log!Leave(d)
<1>1. /\ loop = d /\ loop' = "idle" /\ UNCHANGED <<conn, wire, sent, out>>
  BY DEF Leave, net
<1>2. UNCHANGED <<Arrived, Entries>>
  BY <1>1 DEF Arrived, Entries, Ended
<1>3. Prompt'
  BY PromptNext
<1>4. ASSUME NEW p \in Arrived[d] PROVE p.nth \in Log!Logged(d)
  <2>1. PICK i \in Ended(d) : p = [nth |-> wire[d][i].nth, message |-> wire[d][i].of]
                              /\ Parsed(wire[d][i])
    BY DEF Arrived
  <2>2. <<conn, wire[d][i].nth>> \in Reported(d)
    <3>1. i \in Ended(d)' /\ loop' = "idle"
      BY <1>1 DEF Ended
    <3>2. <<conn', wire'[d][i].nth>> \in Reported(d)'
      BY <1>1, <1>3, <2>1, <3>1 DEF Prompt
    <3> QED
      BY <1>1, <3>2 DEF Reported, Records
  <2>3. PICK k \in 1..Len(out[d]) : out[d][k].id = <<conn, wire[d][i].nth>>
    BY <2>2 DEF Reported, Records
  <2>4. out[d][k].id = <<conn, k>>
    BY NTypes DEF CountedAt
  <2>5. p.nth = k
    BY <2>1, <2>3, <2>4
  <2> QED
    BY <2>5, LoggedIs
<1>5. Log!Due(d, Arrived[d]) = {}
  BY <1>4 DEF Log!Due
<1> QED
  BY <1>1, <1>2, <1>5 DEF Log!Leave

LEMMA RecordsNext ==
  ASSUME Undisturbed
  PROVE  NInv' => (\A d \in Dir : RecordsAt(d) /\ out[d] \in Seq(Record))'
<1>1. NInv => \A d \in Dir : RecordsAt(d) /\ out[d] \in Seq(Record)
  BY NTypes DEF NInv, PInv, WInv
<1> QED
  BY <1>1, PTL

LEMMA NamedNext == NInv' => (\A k \in 1..Len(out["s2c"]) : NamedAt(k))'
<1>1. NInv => \A k \in 1..Len(out["s2c"]) : NamedAt(k)
  BY DEF NInv
<1> QED
  BY <1>1, PTL

\* The record that this step appends to the answers, when the requests' log stays.
LEMMA NamedAppended ==
  ASSUME NInv', out'["c2s"] = out["c2s"], NEW k \in 1..Len(out'["s2c"])
  PROVE  \E j \in k..Len(out["c2s"]) :
           /\ j = k \/ "pipeline" \in Faults
           /\ Asked(j) # None => out'["s2c"][k].host = Asked(j)
<1>1. \A i \in 1..Len(out'["s2c"]) : \E j \in i..Len(out'["c2s"]) :
        /\ j = i \/ ("pipeline" \in Faults /\ out'["c2s"][j].took[1].of.host # None)
        /\ out'["c2s"][j].took[1].of.host # None
             => out'["s2c"][i].host = out'["c2s"][j].took[1].of.host
  BY NamedNext DEF NamedAt, Asked
<1>2. PICK j \in k..Len(out["c2s"]) :
        /\ j = k \/ "pipeline" \in Faults
        /\ out["c2s"][j].took[1].of.host # None
             => out'["s2c"][k].host = out["c2s"][j].took[1].of.host
  BY <1>1
<1> QED
  BY <1>2 DEF Asked

\* The name in an entry of the requests' log.
LEMMA AskedLogged ==
  ASSUME NInv, NEW j \in 1..Len(out["c2s"])
  PROVE  Entries["c2s"][j].message.host = Asked(j)
<1>1. "c2s" \in Dir
  BY DEF Dir
<1>2. Whole(out["c2s"][j])
  BY <1>1 DEF NInv, PInv, WInv, RecordsAt
<1>3. Entries["c2s"][j] = Entry(out["c2s"][j])
  BY <1>1 DEF Entries
<1> QED
  BY <1>2, <1>3 DEF Entry, Asked

LEMMA EntriesAppended ==
  ASSUME NEW d \in Dir, out[d] \in Seq(Record), NEW r,
         Len(out'[d]) = Len(out[d]) + 1, out'[d][Len(out[d]) + 1] = r,
         \A k \in 1..Len(out[d]) : out'[d][k] = out[d][k],
         \A e \in Dir : e # d => out'[e] = out[e]
  PROVE  Entries' = [Entries EXCEPT ![d] = Append(@, Entry(r))]
<1> DEFINE l == Len(out[d])
           f == Entries[d]
           g == Entries'[d]
<1>1. l \in Nat
  OBVIOUS
<1>2. f = [k \in 1..l |-> Entry(out[d][k])]
  BY DEF Entries
<1>3. g = [k \in 1..l + 1 |-> Entry(out'[d][k])]
  BY DEF Entries
<1>4. \A k \in 1..l : out'[d][k] = out[d][k]
  OBVIOUS
<1>5. out'[d][l + 1] = r
  OBVIOUS
<1> HIDE DEF l, f, g
<1>6. Append(f, Entry(r)) = [k \in 1..l + 1 |-> IF k = l + 1 THEN Entry(r) ELSE f[k]]
  BY <1>1, <1>2
<1>7. \A k \in 1..l + 1 : Entry(out'[d][k]) = IF k = l + 1 THEN Entry(r) ELSE f[k]
  BY <1>1, <1>2, <1>4, <1>5
<1>8. g = Append(f, Entry(r))
  BY <1>3, <1>6, <1>7
<1>9. ASSUME NEW e \in Dir, e # d PROVE Entries'[e] = Entries[e]
  BY <1>9 DEF Entries
<1>10. /\ Entries = [e \in Dir |-> Entries[e]] /\ Entries' = [e \in Dir |-> Entries'[e]]
  BY DEF Entries
<1> QED
  BY <1>8, <1>9, <1>10 DEF f, g

\* A round of the loop reports the first message that is due.
LEMMA ParseOneLogged ==
  ASSUME Undisturbed, NInv, NInv', NEW d \in Dir, ParseOne(d)
  PROVE  Log!Parse(d)
<1> DEFINE w == wire[d]
           p == From(d)
           n == Consumed(buf[d])
           r == ParsedRecord(d)
           l == Len(out[d])
           z == p + n - 1
           m == [nth |-> l + 1, message |-> w[p].of]
<1>0. PInv
  BY DEF NInv
<1>1. /\ loop = d /\ UNCHANGED <<conn, wire, sent, loop>>
      /\ n \in Nat \ {0} /\ p \in Nat \ {0} /\ z <= sent[d]
      /\ Len(out'[d]) = l + 1 /\ out'[d][l + 1] = r
      /\ \A k \in 1..l : out'[d][k] = out[d][k]
      /\ \A e \in Dir : e # d => out'[e] = out[e]
      /\ \A i \in p..z : w[i].nth = w[p].nth /\ w[i].of = w[p].of
      /\ IsEnd(w[z]) /\ r.id = <<conn, w[p].nth>> /\ r.took[1] = w[p]
  BY <1>0, OneParsed
<1>2. /\ CountedAt(d) /\ out[d] \in Seq(Record) /\ l \in Nat /\ w \in Seq(Unit)
      /\ Len(w) \in Nat /\ sent[d] \in Nat /\ sent[d] <= Len(w)
  BY NTypes
<1>3. p \in 1..sent[d] /\ p \in 1..Len(w) /\ z \in 1..sent[d] /\ z \in p..z
  <2> DEFINE s == sent[d]
             len == Len(w)
  <2>1. /\ n \in Nat \ {0} /\ p \in Nat \ {0} /\ z = p + n - 1 /\ z <= s
        /\ s \in Nat /\ len \in Nat /\ s <= len
    BY <1>1, <1>2
  <2> HIDE DEF n, p, s, len, z
  <2>2. p \in 1..s /\ p \in 1..len /\ z \in 1..s /\ z \in p..z
    BY <2>1
  <2> QED
    BY <2>2 DEF s, len
<1>4. w[p].nth = l + 1
  BY <1>2, <1>3 DEF CountedAt
<1>5. UNCHANGED Arrived
  BY <1>1 DEF Arrived, Ended
<1> HIDE DEF z, r, p, n
<1>6. z \in Ended(d) /\ w[z].nth = l + 1 /\ w[z].of = w[p].of
  BY <1>1, <1>3, <1>4 DEF Ended
<1>7. m \in Arrived[d]
  <2>1. Arrived[d] = {[nth |-> w[i].nth, message |-> w[i].of] : i \in Ended(d)}
    BY ArrivedIs DEF ArrivedAt
  <2>2. m = [nth |-> w[z].nth, message |-> w[z].of]
    BY <1>6
  <2> QED
    BY <1>6, <2>1, <2>2
<1>8. Log!Logged(d) = 1..l
  BY LoggedIs
<1>9. m \in Log!Due(d, Arrived[d])
  <2>1. l + 1 \notin 1..l
    BY <1>2
  <2> QED
    BY <1>7, <1>8, <2>1 DEF Log!Due
<1>10. ASSUME NEW q \in Log!Due(d, Arrived[d])
       PROVE  m.nth <= q.nth
  <2>1. q \in Arrived[d] /\ q.nth \notin 1..l
    BY <1>8 DEF Log!Due
  <2>2. q.nth \in Nat \ {0}
    BY <2>1, ArrivedIs DEF ArrivedAt
  <2>3. l + 1 <= q.nth
    BY <1>2, <2>1, <2>2
  <2> QED
    BY <2>3
<1>11. Whole(r) /\ r \in Record
  <2>1. (\A e \in Dir : RecordsAt(e) /\ out[e] \in Seq(Record))'
    BY RecordsNext
  <2>2. l + 1 \in 1..Len(out'[d])
    BY <1>1, <1>2
  <2> QED
    BY <1>1, <2>1, <2>2 DEF RecordsAt
<1>12. Entry(r) = [nth |-> m.nth, message |-> m.message, host |-> r.host]
  BY <1>1, <1>4, <1>11 DEF Entry
<1>13. r.host \in Hosts \cup {None}
  BY <1>11 DEF Record
<1>14. Entries' = [Entries EXCEPT ![d] = Append(@, Entry(r))]
  BY <1>1, <1>2, EntriesAppended
<1>15. Log!Fits(d, m.message, r.host)
  <2>1. m.message.host = w[p].of.host
    OBVIOUS
  <2>2. CASE w[p].of.host # None
    <3>1. r.host = w[p].of.host
      <4>1. Parses(buf[d])
        BY DEF ParseOne
      <4>2. HostOf(buf[d]) = buf[d][1].of.host
        BY <1>0, <4>1, HostAtFront DEF PInv
      <4>3. buf[d][1] = w[p]
        <5>1. StartsMessage(buf[d])
          BY <4>1 DEF Parses
        <5>2. 1 \in 1..Len(buf[d])
          BY <1>0, <5>1, FrontMessage DEF PInv
        <5>3. buf[d][1] = wire[d][From(d) + 1 - 1]
          BY <1>0, <5>2, PTypes
        <5>4. From(d) + 1 - 1 = p
          BY <1>1 DEF p
        <5> QED
          BY <5>3, <5>4
      <4> QED
        BY <2>2, <4>2, <4>3 DEF r, ParsedRecord
    <3> QED
      BY <2>1, <2>2, <3>1 DEF Log!Fits
  <2>3. CASE w[p].of.host = None /\ d = "c2s"
    BY <2>1, <2>3 DEF Log!Fits
  <2>4. CASE w[p].of.host = None /\ d = "s2c"
    <3>1. "c2s" \in Dir /\ "c2s" # "s2c" /\ out'["c2s"] = out["c2s"]
      BY <1>1, <2>4 DEF Dir
    <3>2. Len(Entries["s2c"]) = l /\ Len(Entries["c2s"]) = Len(out["c2s"])
      <4>1. Len(out["c2s"]) \in Nat
        BY <3>1, NTypes
      <4> QED
        BY <1>2, <2>4, <3>1, <4>1 DEF Entries
    <3>3. l + 1 \in 1..Len(out'["s2c"]) /\ out'["s2c"][l + 1] = r
      BY <1>1, <1>2, <2>4
    <3>4. PICK j \in l + 1..Len(out["c2s"]) :
            /\ j = l + 1 \/ "pipeline" \in Faults
            /\ Asked(j) # None => r.host = Asked(j)
      <4> HIDE DEF l
      <4> QED
        BY <3>1, <3>3, NamedAppended
    <3>5. j \in 1..Len(out["c2s"])
      BY <1>2, <3>1, <3>4, NTypes
    <3>6. Entries["c2s"][j].message.host = Asked(j)
      BY <3>5, AskedLogged
    <3>7. Entries["c2s"][j].message.host \in {None, r.host}
      BY <3>4, <3>6
    <3> QED
      BY <2>1, <2>4, <3>2, <3>4, <3>7 DEF Log!Fits
  <2> QED
    BY <2>2, <2>3, <2>4 DEF Dir
<1> HIDE DEF m
<1>16. Log!Report(d, Arrived[d])
  BY <1>9, <1>10, <1>12, <1>13, <1>14, <1>15 DEF Log!Report
<1> QED
  BY <1>1, <1>5, <1>16 DEF Log!Parse

LEMMA StepLogged ==
  ASSUME Unforgotten, NInv, NInv', [Next]_vars
  PROVE  [Log!Next]_(Log!vars)
<1>0. Undisturbed /\ Unforgotten /\ Log!Dir = Dir
  BY DEF Unforgotten, Log!Dir, Dir
<1>1. /\ "loss" \notin Faults /\ "dup" \notin Faults /\ "pad" \notin Faults
      /\ "reuse" \notin Faults /\ "forget" \notin Faults
  BY <1>0 DEF Undisturbed, Unforgotten
<1>2. ASSUME NEW d \in Dir, NEW j \in 1..Len(wire[d]), Deliver(d, j) PROVE Log!Packet(d)
  BY <1>0, <1>2, DeliverLogged
<1>3. ASSUME NEW d \in Dir, ParseOne(d) PROVE Log!Parse(d)
  BY <1>0, <1>3, ParseOneLogged
<1>4. ASSUME NEW d \in Dir, Leave(d) PROVE Log!Leave(d)
  BY <1>0, <1>4, LeaveLogged
<1>5. CASE UNCHANGED vars
  <2>1. UNCHANGED <<wire, sent, out, loop>>
    BY <1>5 DEF vars, net
  <2>2. UNCHANGED <<Arrived, Entries, loop>>
    BY <2>1 DEF Arrived, Entries, Ended
  <2> QED
    BY <2>2 DEF Log!vars
<1>6. /\ \A d \in Dir : ~PaddedAck(d) /\ ~Forget(d) /\ \A j \in 1..Len(wire[d]) : ~Lose(d, j)
      /\ \A d \in Dir : \A i, j \in 1..sent[d] : ~Retransmit(d, i, j)
      /\ ~Reuse
  BY <1>1 DEF PaddedAck, Lose, Retransmit, Reuse, Forget, Fault
<1> QED
  BY <1>0, <1>2, <1>3, <1>4, <1>5, <1>6 DEF Next, Log!Next

-----------------------------------------------------------------------------
(* TLS connections.  A direction has one hello; what must not happen is    *)
(* that it is overlooked, or reported before it is whole.                  *)

\* From one record to the next.
LEMMA NextRecord ==
  ASSUME NEW d, NEW w \in Seq(Unit), NEW c, OneStream(w, c), Secured(w, d),
         NEW i \in 1..Len(w), NEW h \in 1..Len(w), i < h,
         w[i].kind = "rec", w[h].kind = "rec"
  PROVE  LET x == i + 1 + w[i].of.size
         IN  /\ x \in 1..Len(w) /\ x <= h /\ w[i].of.size \in Nat
             /\ w[x].kind = "rec" /\ w[x].nth = w[i].nth + 1
<1> DEFINE m == w[i].of
           s == m.size
           l == Len(w)
<1>1. w[i] \in Unit /\ w[i].at = 1 /\ w[h].at = 1
  <2>1. Starts(w)
    BY ScriptStarts DEF OneStream
  <2> QED
    BY <2>1 DEF Starts
<1>2. m \in Message /\ m.proto = "tls"
  BY <1>1 DEF Unit, Secured
<1>3. s \in Nat /\ UnitCount(m) = s + 1
  BY <1>2, UnitCountType
<1>4. l \in Nat /\ i \in 1..l /\ h \in 1..l /\ i < h
  OBVIOUS
<1>5. Script(w) /\ \A k \in 1..Len(w) : w[k].conn = c
  BY DEF OneStream
<1>6. ASSUME NEW k \in 1..s + 1, i + k - 1 <= l
      PROVE  w[i + k - 1].of = m /\ w[i + k - 1].nth = w[i].nth /\ w[i + k - 1].at = k
  <2>1. k \in 1..UnitCount(w[i].of)
    BY <1>3
  <2>2. w[i + k - 1] = Units(c, w[i].nth, m)[k]
    BY <1>1, <1>5, <1>6, <2>1, MessageUnits
  <2> HIDE DEF m
  <2>3. k \in 1..UnitCount(m)
    BY <2>1 DEF m
  <2> QED
    BY <2>2, <2>3 DEF Units
<1> HIDE DEF s, l
<1>7. i + s < h
  <2>1. SUFFICES ASSUME h <= i + s PROVE FALSE
    BY <1>3, <1>4
  <2>2. h - i + 1 \in 1..s + 1 /\ i + (h - i + 1) - 1 = h /\ h <= l /\ h - i + 1 # 1
    BY <1>3, <1>4, <2>1
  <2>3. w[h].at = h - i + 1
    BY <1>6, <2>2
  <2> QED
    BY <1>1, <2>2, <2>3
<1>8. i + s \in 1..l - 1 /\ (i + s) + 1 = i + 1 + s /\ i + 1 + s \in 1..l /\ i + 1 + s <= h
      /\ s + 1 \in 1..s + 1 /\ i + (s + 1) - 1 = i + s /\ i + s <= l
  BY <1>3, <1>4, <1>7
<1>9. w[i + s].of = m /\ w[i + s].nth = w[i].nth /\ w[i + s].at = s + 1
  BY <1>6, <1>8
<1>10. IsEnd(w[i + s])
  BY <1>3, <1>9 DEF IsEnd
<1>11. w[(i + s) + 1].at = 1 /\ w[(i + s) + 1].nth = w[i + s].nth + 1
  <2>1. FollowsIn(w[i + s], w[(i + s) + 1])
    BY <1>5, <1>8 DEF Script, l
  <2> QED
    BY <1>8, <1>10, <2>1 DEF FollowsIn, Secured, Numbered, l
<1>12. w[i + 1 + s].kind = "rec"
  <2>1. /\ w[i + 1 + s].kind = Kind(w[i + 1 + s].of, w[i + 1 + s].at)
        /\ w[i + 1 + s].of.proto = "tls"
    BY <1>5, <1>8 DEF Script, Secured, l
  <2> QED
    BY <1>8, <1>11, <2>1 DEF Kind
<1> QED
  BY <1>3, <1>8, <1>9, <1>11, <1>12 DEF s, l, m

\* A hello that is all in the buffer is found from the first record on.
LEMMA WalkReaches ==
  ASSUME NEW d, NEW w \in Seq(Unit), NEW c, OneStream(w, c), Secured(w, d),
         NEW b \in Seq(Held), NEW h \in 1..Len(b), Len(b) <= Len(w),
         \A i \in 1..Len(b) : b[i] = w[i],
         IsHello(w[h]), h + w[h].of.size <= Len(b)
  PROVE  RecordsFrom(b, 1, w[h].of.side) = h
<1> DEFINE side == w[h].of.side
           walk == Walk(b, side)
           l == Len(b)
           T == {n \in Nat : n \in 0..WalkMax =>
                   \A i \in 1..h : w[i].kind = "rec" /\ w[h].nth < w[i].nth + n
                                     => walk[n][i] = h}
<1>0. walk = [n \in 0..WalkMax |-> Look(b, side, n, walk[n - 1])]
  <2> HIDE DEF side
  <2> QED
    BY WalkDefined
<1>1. l \in Nat /\ l <= Len(w) /\ Len(w) \in Nat /\ h \in 1..l /\ h \in 1..Len(w)
      /\ 1 \in 1..l /\ 1 \in 1..Len(w)
  OBVIOUS
<1>2. \A i \in 1..l : w[i] \in Unit /\ w[i].nth \in Nat
  <2>1. ASSUME NEW i \in 1..l PROVE w[i] \in Unit
    BY <1>1
  <2> QED
    BY <2>1 DEF Unit
<1>3. \A n \in 0..WalkMax : walk[n] = Look(b, side, n, walk[n - 1])
  <2> HIDE DEF walk, side
  <2> QED
    BY <1>0
<1> HIDE DEF walk, side
<1>4. w[h].kind = "rec" /\ side # "other" /\ side = w[h].of.side
  BY DEF IsHello, side
<1>5. Script(w) /\ \A k \in 1..Len(w) : w[k].conn = c
  BY DEF OneStream
<1>6. ASSUME NEW i \in 1..h, w[i].kind = "rec"
      PROVE  w[i].nth <= w[h].nth
  <2>1. CASE i = h
    BY <1>1, <1>2, <2>1
  <2>2. CASE i # h
    <3>1. i \in 1..Len(w) /\ i < h /\ i \in 1..l
      BY <1>1, <2>2
    <3>2. Earlier(Spot(w[i]), Spot(w[h]))
      BY <1>1, <1>5, <3>1, ScriptOrder
    <3>3. w[i].kind # "pad" /\ w[h].kind # "pad" /\ w[i].conn = w[h].conn
          /\ w[i].conn \in Nat
      BY <1>1, <1>2, <1>4, <1>5, <1>6, <3>1 DEF Unit
    <3>4. w[i].nth \in Nat /\ w[h].nth \in Nat
      BY <1>1, <1>2, <3>1
    <3> QED
      BY <3>2, <3>3, <3>4 DEF Earlier, Spot
  <2> QED
    BY <2>1, <2>2
<1>7. 0 \in T
  <2>1. SUFFICES ASSUME NEW i \in 1..h, w[i].kind = "rec", w[h].nth < w[i].nth + 0
                 PROVE  FALSE
    BY DEF T
  <2>2. w[i].nth \in Nat /\ w[h].nth \in Nat
    BY <1>1, <1>2
  <2> QED
    BY <1>6, <2>1, <2>2
<1>8. ASSUME NEW n \in Nat, n \in T
      PROVE  n + 1 \in T
  <2>1. SUFFICES ASSUME n + 1 \in 0..WalkMax, NEW i \in 1..h, w[i].kind = "rec",
                        w[h].nth < w[i].nth + (n + 1)
                 PROVE  walk[n + 1][i] = h
    BY DEF T
  <2>2. n \in 0..WalkMax /\ (n + 1) - 1 = n /\ n + 1 # 0
    BY <2>1, TcpStreamAssumption
  <2>3. i \in 1..l + 1 /\ i \in 1..l /\ ~(i > l) /\ i \in 1..Len(w) /\ b[i] = w[i]
    BY <1>1
  <2>4. walk[n + 1][i] = Look(b, side, n + 1, walk[n])[i]
    BY <1>3, <2>1, <2>2
  <2>5. b[i].kind = "rec"
    BY <2>1, <2>3
  <2>6. CASE i = h
    <3>1. ~(i + b[i].of.size > l)
      <4>1. w[h].of.size \in Nat
        <5>1. w[h] \in Unit
          BY <1>1, <1>2
        <5>2. w[h].of \in Message
          BY <5>1 DEF Unit
        <5> QED
          BY <5>2, UnitCountType
      <4>2. h + w[h].of.size <= l
        OBVIOUS
      <4> QED
        BY <1>1, <2>3, <2>6, <4>1, <4>2
    <3>2. b[i].of.side = side
      BY <1>4, <2>3, <2>6
    <3>3. walk[n + 1][i] = i
      BY <2>2, <2>3, <2>4, <2>5, <3>1, <3>2 DEF Look
    <3> QED
      BY <2>6, <3>3
  <2>7. CASE i # h
    <3> DEFINE s == w[i].of.size
               x == i + 1 + s
    <3>1. i < h
      BY <1>1, <2>7
    <3>2. /\ x \in 1..Len(w) /\ x <= h /\ s \in Nat
          /\ w[x].kind = "rec" /\ w[x].nth = w[i].nth + 1
      BY <1>1, <1>4, <2>1, <2>3, <3>1, NextRecord
    <3> HIDE DEF s
    <3>3. x \in 1..h /\ ~(i + s > l)
      BY <1>1, <2>3, <3>2
    <3>4. w[h].nth < w[x].nth + n
      <4>1. w[i].nth \in Nat /\ w[h].nth \in Nat
        BY <1>1, <1>2, <2>3
      <4> QED
        BY <2>1, <3>2, <4>1
    <3>5. walk[n][x] = h
      BY <1>8, <2>2, <3>2, <3>3, <3>4 DEF T
    <3>6. b[i].of.side # side
      <4>1. ~IsHello(w[i])
        BY <1>1, <2>3, <2>7 DEF Secured
      <4> QED
        BY <1>4, <2>1, <2>3, <4>1 DEF IsHello
    <3>7. walk[n + 1][i] = walk[n][i + 1 + b[i].of.size]
      BY <2>2, <2>3, <2>4, <2>5, <3>3, <3>6 DEF Look, s
    <3> QED
      BY <2>3, <3>5, <3>7 DEF s
  <2> QED
    BY <2>6, <2>7
<1>9. Nat \subseteq T
  <2> HIDE DEF T
  <2> QED
    BY <1>7, <1>8, Induction
<1>10. WalkMax \in 0..WalkMax /\ WalkMax \in Nat
  BY TcpStreamAssumption
<1>11. w[1].kind = "rec" /\ w[1].nth = 1
  <2>1. /\ w[1].kind = Kind(w[1].of, w[1].at) /\ w[1].at = 1 /\ w[1].of.proto = "tls"
    BY <1>1, <1>5 DEF Script, Secured
  <2>2. w[1].nth = 1
    BY <1>1 DEF Secured, Numbered
  <2> QED
    BY <2>1, <2>2 DEF Kind
<1>12. w[h].nth < w[1].nth + WalkMax
  <2>1. w[h].nth <= WalkMax
    BY <1>1 DEF Secured
  <2>2. w[h].nth \in Nat
    BY <1>1, <1>2
  <2> QED
    BY <1>10, <1>11, <2>1, <2>2
<1>13. walk[WalkMax][1] = h
  <2>1. WalkMax \in T /\ 1 \in 1..h
    BY <1>1, <1>9, <1>10
  <2> QED
    BY <1>10, <1>11, <1>12, <2>1 DEF T
<1> QED
  BY <1>13 DEF RecordsFrom, walk, side

LEMMA FindsHello ==
  ASSUME NEW d, NEW w \in Seq(Unit), NEW c, OneStream(w, c), Secured(w, d),
         NEW b \in Seq(Held), NEW h \in 1..Len(b), Len(b) <= Len(w),
         \A i \in 1..Len(b) : b[i] = w[i],
         IsHello(w[h]), h + w[h].of.size <= Len(b)
  PROVE  FindHandshake(b, w[h].of.side) = {h}
<1> DEFINE side == w[h].of.side
           hits == {p \in 1..Lesser(Len(b), ScanMax + 1) : RecordsFrom(b, p, side) # 0}
<1>1. RecordsFrom(b, 1, side) = h
  BY WalkReaches
<1>2. hits \subseteq Nat /\ 1 \in hits
  <2>1. Len(b) \in Nat /\ Len(b) >= 1 /\ ScanMax + 1 \in Nat /\ ScanMax + 1 >= 1 /\ h # 0
    BY TcpStreamAssumption
  <2>2. 1 \in 1..Lesser(Len(b), ScanMax + 1)
    BY <2>1 DEF Lesser
  <2> QED
    BY <1>1, <2>1, <2>2
<1>3. \A p \in hits : 1 <= p
  BY TcpStreamAssumption DEF Lesser
<1> HIDE DEF hits
<1>4. \A q \in hits : (\A p \in hits : q <= p) => q = 1
  BY <1>2, <1>3
<1>5. (CHOOSE o \in hits : \A p \in hits : o <= p) = 1
  BY <1>2, <1>3, <1>4
<1>6. Search(b, side) = h
  <2>1. Search(b, side) = IF hits = {} THEN 0
          ELSE RecordsFrom(b, CHOOSE o \in hits : \A p \in hits : o <= p, side)
    BY DEF Search, hits
  <2> QED
    BY <1>1, <1>2, <1>5, <2>1
<1>7. b[h].kind = "rec"
  BY DEF IsHello
<1> QED
  BY <1>6, <1>7 DEF FindHandshake

\* The record that a unit belongs to.
LEMMA RecordOf ==
  ASSUME NEW w \in Seq(Unit), NEW c, OneStream(w, c), NEW i \in 1..Len(w), IsEnd(w[i]),
         \A k \in 1..Len(w) : w[k].of.proto = "tls"
  PROVE  \E h \in 1..Len(w) : /\ w[h].kind = "rec" /\ w[h].of = w[i].of /\ w[h].nth = w[i].nth
                              /\ h + w[h].of.size = i
<1> DEFINE Behind1(k, n) == /\ k - n \in 1..Len(w) /\ w[k - n].at = 1
                            /\ w[k - n].of = w[k].of /\ w[k - n].nth = w[k].nth
           T == {n \in Nat : \A k \in 1..Len(w) : w[k].at = n + 1 => Behind1(k, n)}
<1>0. Script(w) /\ Len(w) \in Nat
  BY DEF OneStream
<1>1. 0 \in T
  <2>1. SUFFICES ASSUME NEW k \in 1..Len(w), w[k].at = 0 + 1 PROVE Behind1(k, 0)
    BY DEF T
  <2>2. k - 0 = k /\ 0 + 1 = 1
    BY <1>0
  <2> QED
    BY <2>1, <2>2
<1>2. ASSUME NEW n \in Nat, n \in T PROVE n + 1 \in T
  <2>1. SUFFICES ASSUME NEW k \in 1..Len(w), w[k].at = (n + 1) + 1 PROVE Behind1(k, n + 1)
    BY DEF T
  <2>2. k # 1
    BY <1>0, <2>1 DEF Script
  <2>3. k - 1 \in 1..Len(w) - 1 /\ (k - 1) + 1 = k /\ k - 1 \in 1..Len(w)
    BY <1>0, <2>2
  <2>4. FollowsIn(w[k - 1], w[k])
    BY <1>0, <2>3 DEF Script
  <2>5. w[k].at # 1 /\ w[k - 1].at \in Nat
    <3>1. w[k - 1] \in Unit
      BY <2>3
    <3>2. w[k - 1].at \in Nat
      BY <3>1 DEF Unit
    <3>3. w[k].at # 1
      BY <1>2, <2>1
    <3> QED
      BY <3>2, <3>3
  <2>6. w[k].of = w[k - 1].of /\ w[k].nth = w[k - 1].nth /\ w[k].at = w[k - 1].at + 1
    BY <2>4, <2>5 DEF FollowsIn
  <2>7. w[k - 1].at = n + 1
    BY <2>1, <2>5, <2>6
  <2>8. Behind1(k - 1, n)
    BY <1>2, <2>3, <2>7 DEF T
  <2>9. (k - 1) - n = k - (n + 1)
    BY <2>3
  <2> QED
    BY <2>6, <2>8, <2>9
<1>3. w[i] \in Unit /\ w[i].of.proto = "tls"
  OBVIOUS
<1>4. w[i].of \in Message
  BY <1>3 DEF Unit
<1>5. w[i].of.size \in Nat /\ w[i].at = w[i].of.size + 1
  BY <1>3, <1>4, UnitCountType DEF IsEnd
<1> DEFINE s == w[i].of.size
           h == i - s
<1>6. Behind1(i, s)
  <2> HIDE DEF T
  <2>1. Nat \subseteq T
    BY <1>1, <1>2, Induction
  <2>2. s \in T
    BY <1>5, <2>1
  <2> QED
    BY <1>5, <2>2 DEF T
<1>7. h \in 1..Len(w) /\ w[h].at = 1 /\ w[h].of = w[i].of /\ w[h].nth = w[i].nth
  BY <1>6
<1>8. w[h].kind = "rec"
  BY <1>0, <1>3, <1>7 DEF Script, Kind
<1>9. h + w[h].of.size = i
  <2>1. i \in Int /\ s \in Int /\ w[h].of.size = s
    BY <1>0, <1>5, <1>7
  <2> HIDE DEF s
  <2> QED
    BY <2>1
<1> QED
  BY <1>7, <1>8, <1>9

-----------------------------------------------------------------------------
\* What has been made of a direction that speaks TLS: once its hello has been
\* reported the buffer starts behind it; before that the buffer holds all that
\* came, and not the whole hello.
SecuredAt(d) ==
  LET w == wire[d]
  IN  /\ Secured(w, d)
      /\ tls[d] => \E h \in 1..Len(w) :
           /\ IsHello(w[h]) /\ h + w[h].of.size < From(d)
           /\ Len(out[d]) = 1 /\ out[d][1].id = <<conn, w[h].nth>>
           /\ out[d][1].took[1].of = w[h].of
      /\ ~tls[d] => /\ out[d] = <<>>
                    /\ \A h \in 1..Len(w) : IsHello(w[h]) =>
                         Len(buf[d]) = sent[d] /\ sent[d] < h + w[h].of.size

TInv == WInv /\ \A d \in Dir : SecuredAt(d)

LEMMA TTypes ==
  ASSUME TInv, NEW d \in Dir
  PROVE  /\ WInv /\ SecuredAt(d) /\ tls \in [Dir -> BOOLEAN] /\ domain \in [Dir -> Hosts \cup {None}]
         /\ out \in [Dir -> Seq(Record)] /\ buf \in [Dir -> Seq(Held)]
         /\ sent \in [Dir -> Nat] /\ wire[d] \in Seq(Unit)
         /\ buf[d] \in Seq(Held) /\ sent[d] \in Nat /\ Len(buf[d]) \in Nat
         /\ Len(wire[d]) \in Nat /\ sent[d] <= Len(wire[d]) /\ Len(buf[d]) <= sent[d]
         /\ OneStream(wire[d], conn) /\ Run(buf[d], wire[d], sent[d])
<1>1. WInv /\ SecuredAt(d)
  BY DEF TInv
<1>2. tls \in [Dir -> BOOLEAN] /\ domain \in [Dir -> Hosts \cup {None}]
  BY <1>1 DEF WInv, IInv, TypeOK
<1>3. OneStream(wire[d], conn) /\ Run(buf[d], wire[d], sent[d])
  BY <1>1 DEF WInv, StreamAt
<1>4. Len(buf[d]) <= sent[d]
  BY <1>3 DEF Run
<1>5. /\ out \in [Dir -> Seq(Record)] /\ buf \in [Dir -> Seq(Held)]
      /\ sent \in [Dir -> Nat] /\ wire \in [Dir -> Seq(Unit)] /\ sent[d] <= Len(wire[d])
  BY <1>1, WTypes
<1>6. buf[d] \in Seq(Held) /\ sent[d] \in Nat /\ wire[d] \in Seq(Unit)
  BY <1>5
<1>7. Len(buf[d]) \in Nat /\ Len(wire[d]) \in Nat
  BY <1>6
<1> QED
  BY <1>1, <1>2, <1>3, <1>4, <1>5, <1>6, <1>7

\* Nothing of such a stream starts an HTTP message.
LEMMA NeverParses ==
  ASSUME Undisturbed, TInv, NEW d \in Dir
  PROVE  ~Parses(buf[d])
<1>1. SUFFICES ASSUME StartsMessage(buf[d]) PROVE FALSE
  BY DEF Parses
<1>2. 1 \in 1..Len(buf[d]) /\ buf[d][1].of.proto = "http"
  BY <1>1, FrontMessage DEF TInv
<1> DEFINE b == buf[d]
           w == wire[d]
           n == sent[d]
<1>3. n - Len(b) + 1 \in 1..Len(w) /\ b[1] = w[n - Len(b) + 1]
  BY <1>2, TTypes DEF Run
<1>4. Secured(w, d)
  BY TTypes DEF SecuredAt
<1> QED
  BY <1>2, <1>3, <1>4 DEF Secured

\* A hello that has wholly arrived has been reported.
LEMMA EndedHello ==
  ASSUME TInv, NEW d \in Dir, NEW i \in Ended(d), Parsed(wire[d][i])
  PROVE  /\ tls[d]
         /\ \E h \in 1..Len(wire[d]) :
              /\ IsHello(wire[d][h])
              /\ wire[d][h].of = wire[d][i].of /\ wire[d][h].nth = wire[d][i].nth
<1> DEFINE w == wire[d]
<1>1. /\ w \in Seq(Unit) /\ OneStream(w, conn) /\ SecuredAt(d) /\ Secured(w, d)
      /\ sent[d] \in Nat /\ Len(w) \in Nat /\ sent[d] <= Len(w)
  BY TTypes DEF SecuredAt
<1>2. i \in 1..Len(w) /\ i <= sent[d] /\ IsEnd(w[i])
  BY <1>1 DEF Ended
<1>3. \A k \in 1..Len(w) : w[k].of.proto = "tls"
  BY <1>1 DEF Secured
<1> HIDE DEF w
<1>4. PICK h \in 1..Len(w) : /\ w[h].kind = "rec" /\ w[h].of = w[i].of /\ w[h].nth = w[i].nth
                             /\ h + w[h].of.size = i
  BY <1>1, <1>2, <1>3, RecordOf
<1>5. IsHello(w[h])
  <2>1. w[i].of.proto # "http" /\ Parsed(w[i])
    BY <1>2, <1>3 DEF w
  <2> QED
    BY <1>4, <2>1 DEF Parsed, IsHello
<1>6. tls[d]
  <2>1. SUFFICES ASSUME ~tls[d] PROVE FALSE
    OBVIOUS
  <2>2. sent[d] < h + w[h].of.size
    BY <1>1, <1>5, <2>1 DEF SecuredAt, w
  <2> QED
    BY <1>1, <1>2, <1>4, <2>2
<1> QED
  BY <1>4, <1>5, <1>6 DEF w

LEMMA SecuredPrompt == TInv => Prompt
<1> SUFFICES ASSUME TInv, NEW d \in Dir, NEW i \in Ended(d), Parsed(wire[d][i])
             PROVE  <<conn, wire[d][i].nth>> \in Reported(d)
  BY DEF Prompt
<1> DEFINE w == wire[d]
<1>1. SecuredAt(d) /\ Secured(w, d)
  BY TTypes DEF SecuredAt
<1>2. tls[d]
  BY EndedHello
<1>3. PICK h \in 1..Len(w) : IsHello(w[h]) /\ w[h].nth = w[i].nth
  BY EndedHello
<1>4. PICK g \in 1..Len(w) : IsHello(w[g]) /\ Len(out[d]) = 1 /\ out[d][1].id = <<conn, w[g].nth>>
  BY <1>1, <1>2 DEF SecuredAt
<1>5. g = h
  BY <1>1, <1>3, <1>4 DEF Secured
<1>6. out[d][1].id = <<conn, w[i].nth>> /\ 1 \in 1..Len(out[d])
  BY <1>3, <1>4, <1>5
<1> QED
  BY <1>6 DEF Reported, Records

LEMMA SecuredDrained == TInv => Drained
<1> SUFFICES ASSUME TInv, NEW d \in Dir, NEW i \in 1..Len(buf[d]),
                    buf[d][i].kind \in {"start", "rec"}, Parsed(buf[d][i]),
                    i + UnitCount(buf[d][i].of) - 1 <= Len(buf[d])
             PROVE  FALSE
  BY DEF Drained
<1> DEFINE w == wire[d]
           b == buf[d]
           s == sent[d]
           l == Len(b)
           h == s - l + i
<1>1. /\ w \in Seq(Unit) /\ OneStream(w, conn) /\ SecuredAt(d) /\ Secured(w, d)
      /\ s \in Nat /\ l \in Nat /\ l <= s /\ Run(b, w, s) /\ s <= Len(w) /\ Len(w) \in Nat
  BY TTypes DEF SecuredAt
<1>2. b[i] = w[h] /\ h \in 1..Len(w) /\ i \in 1..l
  <2>1. b[i] = w[h] /\ i \in 1..l
    BY <1>1 DEF Run
  <2> HIDE DEF s, l, w
  <2>2. h \in 1..Len(w)
    BY <1>1, <2>1
  <2> QED
    BY <2>1, <2>2
<1>3. w[h] \in Unit /\ w[h].of.proto = "tls" /\ w[h].kind = Kind(w[h].of, w[h].at)
  BY <1>1, <1>2 DEF Secured, OneStream, Script
<1>4. IsHello(w[h])
  BY <1>2, <1>3 DEF Kind, Parsed, IsHello
<1>5. w[h].of.size \in Nat /\ UnitCount(b[i].of) = w[h].of.size + 1
  <2>1. w[h].of \in Message
    BY <1>3 DEF Unit
  <2> QED
    BY <1>2, <1>3, <2>1, UnitCountType
<1>6. i + w[h].of.size <= l
  <2> DEFINE n == w[h].of.size
             u == UnitCount(b[i].of)
  <2>1. n \in Nat /\ u = n + 1 /\ i + u - 1 <= l /\ i \in 1..l
    BY <1>2, <1>5
  <2> HIDE DEF n, u, l
  <2>2. i + n <= l
    BY <2>1
  <2> QED
    BY <2>2 DEF n
<1>7. CASE tls[d]
  <2>1. PICK g \in 1..Len(w) : IsHello(w[g]) /\ g + w[g].of.size < From(d)
    BY <1>1, <1>7 DEF SecuredAt
  <2>2. g = h
    BY <1>1, <1>2, <1>4, <2>1 DEF Secured
  <2>3. h + w[h].of.size < s - l + 1
    BY <2>1, <2>2 DEF From
  <2> DEFINE n == w[h].of.size
  <2>4. n \in Nat /\ s - l + i + n < s - l + 1 /\ i >= 1
    BY <1>2, <1>5, <2>3
  <2> HIDE DEF n, s, l
  <2> QED
    BY <1>1, <1>2, <2>4
<1>8. CASE ~tls[d]
  <2>1. l = s /\ s < h + w[h].of.size
    BY <1>1, <1>2, <1>4, <1>8 DEF SecuredAt
  <2> DEFINE n == w[h].of.size
  <2>2. n \in Nat /\ l = s /\ s < s - l + i + n /\ i + n <= l
    BY <1>5, <1>6, <2>1
  <2> HIDE DEF n, s, l
  <2> QED
    BY <1>1, <1>2, <2>2
<1> QED
  BY <1>1, <1>7, <1>8, TTypes

LEMMA SecuredKept ==
  ASSUME TInv, WInv', conn' = conn, wire' = wire, NEW d \in Dir,
         \A e \in Dir : e # d =>
           out'[e] = out[e] /\ buf'[e] = buf[e] /\ sent'[e] = sent[e] /\ tls'[e] = tls[e],
         SecuredAt(d)'
  PROVE  TInv'
<1>1. ASSUME NEW e \in Dir, e # d
      PROVE  SecuredAt(e)'
  <2>1. out'[e] = out[e] /\ buf'[e] = buf[e] /\ sent'[e] = sent[e] /\ tls'[e] = tls[e]
    BY <1>1
  <2>2. SecuredAt(e) /\ From(e)' = From(e)
    BY <2>1 DEF TInv, From
  <2> QED
    BY <2>1, <2>2 DEF SecuredAt
<1> QED
  BY <1>1 DEF TInv

\* The buffer that a segment leaves, before anything is looked for in it.
LEMMA SecuredBuffer ==
  ASSUME Undisturbed, TInv, NEW d \in Dir, NEW j \in 1..Len(wire[d]), Segment(d, j)
  PROVE  LET b == Capped(buf[d], Front(SubSeq(wire[d], sent[d] + 1, j), PktCap))
         IN  /\ b \in Seq(Held) /\ Run(b, wire[d], j) /\ j \in Nat
             /\ Len(b) \in Nat /\ Len(b) <= j /\ sent[d] < j
             /\ Len(b) - Len(buf[d]) <= j - sent[d]
             /\ \A h \in 1..Len(wire[d]) :
                  IsHello(wire[d][h]) /\ ~tls[d] => Len(b) = j
<1> DEFINE w == wire[d]
           front == Front(SubSeq(w, sent[d] + 1, j), PktCap)
           b == Capped(buf[d], front)
           all == buf[d] \o front
           s == sent[d]
           l == Len(buf[d])
<1>1. /\ WInv /\ SecuredAt(d) /\ w \in Seq(Unit) /\ buf[d] \in Seq(Held) /\ s \in Nat
      /\ l \in Nat /\ l <= s /\ Run(buf[d], w, s) /\ Secured(w, d) /\ Len(w) \in Nat
  BY TTypes DEF SecuredAt
<1>2. /\ front \in Seq(Held) /\ j = s + Len(front)
      /\ \A k \in 1..Len(front) : front[k] = w[s + k]
  BY <1>1, WholeSegment
<1>3. s < j /\ j <= s + MaxSeg /\ j \in Nat /\ j <= Len(w)
  BY <1>1 DEF Segment
<1> HIDE DEF front
<1>4. b \in Seq(Held) /\ all \in Seq(Held) /\ Len(all) = l + Len(front)
  BY <1>1, <1>2, CappedHeld
<1>5. Run(b, w, j)
  <2> HIDE DEF w, s
  <2> QED
    BY <1>1, <1>2, <1>3, RunCapped
<1>6. PICK k \in Nat : Len(b) + k = Len(all)
  <2> HIDE DEF w, s, l
  <2> QED
    BY <1>1, <1>2, CappedSuffix
<1>7. Len(b) \in Nat /\ Len(b) <= j
  BY <1>4, <1>5 DEF Run
<1>8. ASSUME NEW h \in 1..Len(w), IsHello(w[h]), ~tls[d]
      PROVE  Len(b) = j
  <2> DEFINE z == w[h].of.size
             f == Len(front)
  <2>1. l = s /\ s < h + z /\ h + z + MaxSeg <= BufCap
    BY <1>1, <1>8 DEF SecuredAt, Secured
  <2>2. f \in Nat /\ z \in Nat /\ h \in Nat
    <3>1. w[h] \in Unit
      BY <1>1
    <3>2. w[h].of \in Message
      BY <3>1 DEF Unit
    <3> QED
      BY <1>2, <3>2, UnitCountType
  <2>3. Len(all) = j /\ j <= BufCap
    <3>1. Len(all) = l + f /\ j = s + f /\ MaxSeg \in Nat /\ BufCap \in Nat
      BY <1>2, <1>4, TcpStreamAssumption
    <3> HIDE DEF l, s, z, f, all
    <3> QED
      BY <1>1, <1>3, <2>1, <2>2, <3>1
  <2>4. b = all
    BY <2>3 DEF Capped
  <2> QED
    BY <2>3, <2>4
<1>9. Len(b) - l <= j - s
  <2> DEFINE f == Len(front)
             lb == Len(b)
             la == Len(all)
  <2>1. f \in Nat /\ lb \in Nat /\ la = l + f /\ lb + k = la /\ j = s + f /\ k \in Nat
    BY <1>2, <1>4, <1>6, <1>7
  <2> HIDE DEF f, lb, la, l, s
  <2>2. lb - l <= j - s
    BY <1>1, <2>1
  <2> QED
    BY <2>2 DEF lb
<1> QED
  BY <1>3, <1>4, <1>5, <1>7, <1>8, <1>9 DEF front

\* A hello that is found is one that the direction has.
LEMMA HelloSaid ==
  ASSUME NEW d \in Dir, NEW w \in Seq(Unit), NEW c, OneStream(w, c), Secured(w, d), NEW n \in Nat,
         NEW b \in Seq(Held), Run(b, w, n), NEW side \in {"request", "response"},
         NEW o \in FindHandshake(b, side)
  PROVE  LET h == n - Len(b) + o
         IN  /\ h \in 1..Len(w) /\ b[o] = w[h] /\ IsHello(w[h]) /\ side = Wanted(d)
             /\ w[h].of.side = side /\ w[h].of.size \in Nat
             /\ w[h] \in Unit /\ h + w[h].of.size <= n
<1> DEFINE l == Len(b)
           h == n - l + o
<1>1. o \in 1..l /\ b[o].kind = "rec" /\ b[o].of.side = side /\ o + b[o].of.size <= l
  BY HelloWhole DEF WholeRecord
<1>2. b[o] = w[h] /\ l \in Nat /\ l <= n /\ n <= Len(w) /\ Len(w) \in Nat
  BY <1>1 DEF Run
<1>3. h \in 1..Len(w)
  <2> HIDE DEF l
  <2> QED
    BY <1>1, <1>2
<1>4. w[h] \in Unit
  BY <1>3
<1>5. w[h].of.size \in Nat
  <2>1. w[h].of \in Message
    BY <1>4 DEF Unit
  <2> QED
    BY <2>1, UnitCountType
<1>6. h + w[h].of.size <= n
  <2> DEFINE z == w[h].of.size
  <2>1. z \in Nat /\ o + z <= l /\ o \in Nat
    BY <1>1, <1>2, <1>5
  <2> HIDE DEF z, l
  <2>2. h + z <= n
    BY <1>2, <2>1
  <2> QED
    BY <2>2 DEF z
<1>7. IsHello(w[h]) /\ side = Wanted(d)
  <2>1. w[h].of.side \in {Wanted(d), "other"}
    BY <1>3 DEF Secured
  <2> QED
    BY <1>1, <1>2, <2>1 DEF IsHello
<1> QED
  BY <1>1, <1>2, <1>3, <1>4, <1>5, <1>6, <1>7

\* What a segment up to unit j does when it makes the hello, record h, whole.
Greets(d, j, h) ==
  LET w == wire[d]
  IN  /\ ~tls[d] /\ out[d] = <<>> /\ IsHello(w[h]) /\ w[h].of.side = Wanted(d)
      /\ w[h].of.size \in Nat /\ w[h] \in Unit /\ h + w[h].of.size <= j
      /\ buf' = [buf EXCEPT ![d] = <<>>] /\ tls' = [tls EXCEPT ![d] = TRUE]
      /\ loop' = loop
      /\ \E r : /\ out' = [out EXCEPT ![d] = <<r>>]
                /\ r.id = <<conn, w[h].nth>> /\ r.took[1].of = w[h].of
                /\ r.host = IF d = "c2s" THEN w[h].of.host ELSE Inherited(d)
                /\ domain' = IF d = "c2s" /\ w[h].of.host # None
                             THEN [domain EXCEPT ![d] = w[h].of.host] ELSE domain

\* What it does otherwise.
Passes(d, j) ==
  LET w == wire[d]
  IN  /\ loop' = d /\ UNCHANGED <<tls, domain, out>>
      /\ \E b \in Seq(Held) : /\ buf' = [buf EXCEPT ![d] = b] /\ Len(b) \in Nat
                              /\ Len(b) - Len(buf[d]) <= j - sent[d]
                              /\ ~tls[d] => \A h \in 1..Len(w) : IsHello(w[h]) =>
                                              Len(b) = j /\ j < h + w[h].of.size

LEMMA HelloGreets ==
  ASSUME Undisturbed, TInv, NEW d \in Dir, NEW j \in 1..Len(wire[d]), ~tls[d],
         NEW b \in Seq(Held), Run(b, wire[d], j),
         NEW side \in {"request", "response"}, NEW o \in FindHandshake(b, side),
         Hello(d, b, o, side)
  PROVE  \E h \in 1..Len(wire[d]) : Greets(d, j, h)
<1> DEFINE w == wire[d]
           h == j - Len(b) + o
           name == IF side = "request" THEN b[o].of.host ELSE Inherited(d)
           r == [id |-> <<b[o].conn, b[o].nth>>, proto |-> "tls",
                 took |-> RecordAt(b, o), kept |-> 0, host |-> name]
<1>1. /\ w \in Seq(Unit) /\ OneStream(w, conn) /\ SecuredAt(d) /\ Secured(w, d) /\ j \in Nat
      /\ out \in [Dir -> Seq(Record)]
  BY TTypes DEF SecuredAt
<1> HIDE DEF w
<1>2. /\ h \in 1..Len(w) /\ b[o] = w[h] /\ IsHello(w[h]) /\ side = Wanted(d)
      /\ w[h].of.side = side /\ w[h].of.size \in Nat
      /\ w[h] \in Unit /\ h + w[h].of.size <= j
  <2>1. Run(b, w, j)
    BY DEF w
  <2> QED
    BY <1>1, <2>1, HelloSaid
<1>3. out[d] = <<>>
  BY <1>1 DEF SecuredAt
<1>4. b[o].of \in Message /\ RecordAt(b, o) = Units(b[o].conn, b[o].nth, b[o].of)
  <2>1. Run(b, w, j)
    BY DEF w
  <2> QED
    BY <1>1, <2>1, HelloIsWhole
<1>5. RecordAt(b, o)[1].of = b[o].of
  BY <1>4, UnitsFirst
<1>6. /\ out' = [out EXCEPT ![d] = Append(out[d], r)]
      /\ buf' = [buf EXCEPT ![d] = <<>>] /\ tls' = [tls EXCEPT ![d] = TRUE]
      /\ loop' = loop
      /\ domain' = IF side = "request" /\ name # None
                   THEN [domain EXCEPT ![d] = name] ELSE domain
  BY DEF Hello, Write
<1>7. side = "request" <=> d = "c2s"
  BY <1>2 DEF Wanted
<1>8. b[o].conn = conn
  BY <1>1, <1>2 DEF OneStream
<1>9. /\ r.id = <<conn, w[h].nth>> /\ r.took[1].of = w[h].of
      /\ r.host = IF d = "c2s" THEN w[h].of.host ELSE Inherited(d)
      /\ domain' = IF d = "c2s" /\ w[h].of.host # None
                   THEN [domain EXCEPT ![d] = w[h].of.host] ELSE domain
  BY <1>2, <1>5, <1>6, <1>7, <1>8
<1> HIDE DEF r, h
<1>10. out' = [out EXCEPT ![d] = <<r>>]
  BY <1>3, <1>6
<1>11. Greets(d, j, h)
  BY <1>2, <1>3, <1>6, <1>9, <1>10 DEF Greets, w
<1> QED
  BY <1>2, <1>11 DEF w

LEMMA SegmentGreets ==
  ASSUME Undisturbed, TInv, NEW d \in Dir, NEW j \in 1..Len(wire[d]), Deliver(d, j)
  PROVE  /\ loop = "idle" /\ UNCHANGED <<conn, wire>> /\ sent' = [sent EXCEPT ![d] = j]
         /\ sent[d] < j /\ j \in Nat /\ \A i \in sent[d] + 1..j : MaySay(d, wire[d][i])
         /\ Passes(d, j) \/ \E h \in 1..Len(wire[d]) : Greets(d, j, h)
<1> DEFINE w == wire[d]
           b == Capped(buf[d], Front(SubSeq(w, sent[d] + 1, j), PktCap))
<1>1. /\ Segment(d, j) /\ Receive(d, SubSeq(w, sent[d] + 1, j)) /\ UNCHANGED <<conn, wire>>
      /\ loop = "idle" /\ sent' = [sent EXCEPT ![d] = j]
      /\ \A i \in sent[d] + 1..j : MaySay(d, wire[d][i])
  BY DEF Deliver, Segment
<1>2. /\ b \in Seq(Held) /\ Run(b, w, j) /\ j \in Nat
      /\ Len(b) \in Nat /\ Len(b) <= j /\ sent[d] < j
      /\ Len(b) - Len(buf[d]) <= j - sent[d]
      /\ \A h \in 1..Len(w) : IsHello(w[h]) /\ ~tls[d] => Len(b) = j
  BY <1>1, SecuredBuffer
<1>3. /\ w \in Seq(Unit) /\ OneStream(w, conn) /\ Secured(w, d) /\ Len(w) \in Nat
  BY TTypes DEF SecuredAt
<1>4. \/ \E side \in {"request", "response"} : \E o \in FindHandshake(b, side) :
           ~tls[d] /\ Hello(d, b, o, side)
      \/ /\ buf' = [buf EXCEPT ![d] = b] /\ loop' = d /\ UNCHANGED <<tls, domain, out>>
         /\ ~tls[d] => \A side \in {"request", "response"} :
                         \A o \in FindHandshake(b, side) : ~Intact(b, o)
  BY <1>1 DEF Receive, LooksForHello
<1> HIDE DEF b
<1>5. CASE \E side \in {"request", "response"} : \E o \in FindHandshake(b, side) :
             ~tls[d] /\ Hello(d, b, o, side)
  <2>1. \E h \in 1..Len(w) : Greets(d, j, h)
    BY <1>2, <1>5, HelloGreets
  <2> QED
    BY <1>1, <1>2, <2>1
<1>6. CASE /\ buf' = [buf EXCEPT ![d] = b] /\ loop' = d /\ UNCHANGED <<tls, domain, out>>
           /\ ~tls[d] => \A side \in {"request", "response"} :
                           \A o \in FindHandshake(b, side) : ~Intact(b, o)
  <2>1. ASSUME ~tls[d], NEW h \in 1..Len(w), IsHello(w[h])
        PROVE  Len(b) = j /\ j < h + w[h].of.size
    <3> HIDE DEF w
    <3>1. Len(b) = j
      BY <1>2, <2>1
    <3>2. w[h].of.side \in {"request", "response"}
      BY <1>3, <2>1 DEF Secured, IsHello, Wanted
    <3>3. w[h].of.size \in Nat
      <4>1. w[h] \in Unit
        BY <1>3
      <4>2. w[h].of \in Message
        BY <4>1 DEF Unit
      <4> QED
        BY <4>2, UnitCountType
    <3>4. ASSUME h + w[h].of.size <= j PROVE FALSE
      <4> DEFINE z == w[h].of.size
      <4>1. h \in 1..Len(b) /\ Len(b) <= Len(w)
        <5>1. z \in Nat /\ h + z <= j /\ h \in Nat /\ h >= 1 /\ j <= Len(w)
          BY <1>3, <3>3, <3>4 DEF w
        <5> HIDE DEF z
        <5> QED
          BY <1>2, <1>3, <3>1, <5>1
      <4>2. \A i \in 1..Len(b) : b[i] = w[i]
        <5>1. ASSUME NEW i \in 1..Len(b) PROVE b[i] = w[i]
          <6>1. j - Len(b) + i = i
            BY <1>2, <3>1
          <6>2. b[i] = w[j - Len(b) + i]
            BY <1>2 DEF Run
          <6> QED
            BY <6>1, <6>2
        <5> QED
          BY <5>1
      <4>3. h + w[h].of.size <= Len(b)
        BY <3>1, <3>4
      <4>4. FindHandshake(b, w[h].of.side) = {h}
        BY <1>2, <1>3, <2>1, <4>1, <4>2, <4>3, FindsHello
      <4>5. h \in FindHandshake(b, w[h].of.side)
        BY <4>4
      <4>6. RecordAt(b, h) = Units(b[h].conn, b[h].nth, b[h].of)
        <5> DEFINE side == w[h].of.side
        <5>1. h \in FindHandshake(b, side)
          BY <4>5
        <5> HIDE DEF side
        <5> QED
          BY <1>2, <1>3, <5>1, HelloIsWhole
      <4>7. Intact(b, h)
        BY <4>6 DEF Intact
      <4> QED
        BY <1>6, <2>1, <3>2, <4>5, <4>7
    <3>5. j < h + w[h].of.size
      <4> DEFINE z == w[h].of.size
      <4>1. z \in Nat /\ ~(h + z <= j) /\ h \in Nat
        BY <1>3, <3>3, <3>4
      <4> HIDE DEF z
      <4>2. j < h + z
        BY <1>2, <4>1
      <4> QED
        BY <4>2 DEF z
    <3> QED
      BY <3>1, <3>5
  <2>2. Passes(d, j)
    BY <1>2, <1>6, <2>1 DEF Passes
  <2> QED
    BY <1>1, <1>2, <2>2
<1> QED
  BY <1>4, <1>5, <1>6

LEMMA DeliverSecured ==
  ASSUME Undisturbed, TInv, WInv', NEW d \in Dir, NEW j \in 1..Len(wire[d]), Deliver(d, j)
  PROVE  TInv'
<1> DEFINE w == wire[d]
<1>1. /\ loop = "idle" /\ UNCHANGED <<conn, wire>> /\ sent' = [sent EXCEPT ![d] = j]
      /\ sent[d] < j /\ j \in Nat
      /\ Passes(d, j) \/ \E h \in 1..Len(wire[d]) : Greets(d, j, h)
  BY SegmentGreets
<1>2. /\ tls \in [Dir -> BOOLEAN] /\ out \in [Dir -> Seq(Record)] /\ buf \in [Dir -> Seq(Held)]
      /\ sent \in [Dir -> Nat] /\ sent[d] \in Nat /\ Len(buf[d]) \in Nat
      /\ Len(buf[d]) <= sent[d] /\ SecuredAt(d) /\ Secured(w, d)
      /\ w \in Seq(Unit) /\ Len(w) \in Nat
  BY TTypes DEF SecuredAt
<1>3. sent'[d] = j /\ \A e \in Dir : e # d => sent'[e] = sent[e]
  BY <1>1, <1>2
<1>4. CASE Passes(d, j)
  <2>1. PICK b \in Seq(Held) :
          /\ buf' = [buf EXCEPT ![d] = b] /\ Len(b) \in Nat
          /\ Len(b) - Len(buf[d]) <= j - sent[d]
          /\ ~tls[d] => \A h \in 1..Len(w) : IsHello(w[h]) =>
                          Len(b) = j /\ j < h + w[h].of.size
    BY <1>4 DEF Passes
  <2>2. buf'[d] = b /\ \A e \in Dir : e # d => buf'[e] = buf[e]
    BY <1>2, <2>1
  <2>3. UNCHANGED <<tls, domain, out>>
    BY <1>4 DEF Passes
  <2>4. From(d)' = j - Len(b) + 1 /\ From(d) = sent[d] - Len(buf[d]) + 1
    BY <1>3, <2>2 DEF From
  <2>5. ASSUME NEW h \in 1..Len(w), h + w[h].of.size < From(d)
        PROVE  h + w[h].of.size < From(d)'
    <3>1. w[h].of.size \in Nat
      <4>1. w[h] \in Unit
        BY <1>2
      <4>2. w[h].of \in Message
        BY <4>1 DEF Unit
      <4> QED
        BY <4>2, UnitCountType
    <3> DEFINE z == w[h].of.size
               s == sent[d]
               l == Len(buf[d])
               k == Len(b)
    <3>2. z \in Nat /\ s \in Nat /\ l \in Nat /\ k \in Nat /\ k - l <= j - s /\ h \in Nat
          /\ h + z < s - l + 1
      BY <1>2, <2>1, <2>4, <2>5, <3>1
    <3> HIDE DEF z, s, l, k
    <3>3. h + z < j - k + 1
      BY <1>1, <3>2
    <3> QED
      BY <2>4, <3>3 DEF z, k
  <2>6. SecuredAt(d)'
    <3>1. tls'[d] => \E h \in 1..Len(w) :
            /\ IsHello(w[h]) /\ h + w[h].of.size < From(d)'
            /\ Len(out'[d]) = 1 /\ out'[d][1].id = <<conn', w[h].nth>>
            /\ out'[d][1].took[1].of = w[h].of
      BY <1>1, <1>2, <2>3, <2>5 DEF SecuredAt
    <3>2. ~tls'[d] => /\ out'[d] = <<>>
                      /\ \A h \in 1..Len(w) : IsHello(w[h]) =>
                           Len(buf'[d]) = sent'[d] /\ sent'[d] < h + w[h].of.size
      BY <1>2, <1>3, <2>1, <2>2, <2>3 DEF SecuredAt
    <3> QED
      BY <1>1, <1>2, <3>1, <3>2 DEF SecuredAt
  <2> QED
    BY <1>1, <1>3, <2>2, <2>3, <2>6, SecuredKept
<1>5. CASE \E h \in 1..Len(w) : Greets(d, j, h)
  <2>1. PICK h \in 1..Len(w) : Greets(d, j, h)
    BY <1>5
  <2>2. PICK r : /\ out' = [out EXCEPT ![d] = <<r>>]
                 /\ r.id = <<conn, w[h].nth>> /\ r.took[1].of = w[h].of
    BY <2>1 DEF Greets
  <2>3. /\ IsHello(w[h]) /\ w[h].of.size \in Nat /\ h + w[h].of.size <= j
        /\ buf' = [buf EXCEPT ![d] = <<>>] /\ tls' = [tls EXCEPT ![d] = TRUE]
    BY <2>1 DEF Greets
  <2>4. /\ buf'[d] = <<>> /\ tls'[d] /\ out'[d] = <<r>>
        /\ \A e \in Dir : e # d => buf'[e] = buf[e] /\ tls'[e] = tls[e] /\ out'[e] = out[e]
    BY <1>2, <2>2, <2>3
  <2>5. From(d)' = j + 1
    BY <1>1, <1>3, <2>4 DEF From
  <2>6. h + w[h].of.size < From(d)'
    <3> DEFINE z == w[h].of.size
    <3>1. z \in Nat /\ h + z <= j
      BY <2>3
    <3> HIDE DEF z
    <3>2. h + z < j + 1
      BY <1>1, <3>1
    <3> QED
      BY <2>5, <3>2 DEF z
  <2>7. Len(out'[d]) = 1 /\ out'[d][1] = r
    BY <2>4
  <2>8. SecuredAt(d)'
    <3>1. /\ IsHello(w[h]) /\ h + w[h].of.size < From(d)'
          /\ Len(out'[d]) = 1 /\ out'[d][1].id = <<conn', w[h].nth>>
          /\ out'[d][1].took[1].of = w[h].of
      BY <1>1, <2>2, <2>3, <2>6, <2>7
    <3>2. tls'[d] /\ wire'[d] = w
      BY <1>1, <2>4
    <3> HIDE DEF w
    <3> QED
      BY <1>2, <3>1, <3>2 DEF SecuredAt
  <2> QED
    BY <1>1, <1>3, <2>4, <2>8, SecuredKept
<1> QED
  BY <1>1, <1>4, <1>5

LEMMA SameSecured ==
  ASSUME TInv, WInv', UNCHANGED <<conn, wire, sent, buf, tls, out>>
  PROVE  TInv'
<1>1. ASSUME NEW d \in Dir
      PROVE  SecuredAt(d)'
  <2>1. SecuredAt(d) /\ From(d)' = From(d)
    BY DEF TInv, From
  <2> QED
    BY <2>1 DEF SecuredAt
<1> QED
  BY <1>1 DEF TInv

\* Such a connection takes only these steps.
LEMMA SecuredSteps ==
  ASSUME Undisturbed, "forget" \notin Faults, TInv, [Next]_vars
  PROVE  \/ \E d \in Dir : \E j \in 1..Len(wire[d]) : Deliver(d, j)
         \/ \E d \in Dir : Leave(d)
         \/ UNCHANGED vars
<1>1. /\ "loss" \notin Faults /\ "dup" \notin Faults /\ "pad" \notin Faults /\ "reuse" \notin Faults
  BY DEF Undisturbed
<1>2. \A d \in Dir : ~ParseOne(d)
  BY NeverParses DEF ParseOne
<1>3. /\ \A d \in Dir : ~PaddedAck(d) /\ ~Forget(d) /\ \A j \in 1..Len(wire[d]) : ~Lose(d, j)
      /\ \A d \in Dir : \A i, j \in 1..sent[d] : ~Retransmit(d, i, j)
      /\ ~Reuse
  BY <1>1 DEF PaddedAck, Lose, Retransmit, Reuse, Forget, Fault
<1> QED
  BY <1>2, <1>3 DEF Next

LEMMA StepSecured ==
  ASSUME Undisturbed, "forget" \notin Faults, TInv, [Next]_vars
  PROVE  TInv'
<1>1. WInv'
  BY StepWhole DEF TInv
<1>2. ASSUME NEW d \in Dir, NEW j \in 1..Len(wire[d]), Deliver(d, j) PROVE TInv'
  BY <1>1, <1>2, DeliverSecured
<1>3. ASSUME NEW d \in Dir, Leave(d) PROVE TInv'
  <2>1. UNCHANGED <<conn, wire, sent, buf, tls, out>>
    BY <1>3 DEF Leave, net, flow
  <2> QED
    BY <1>1, <2>1, SameSecured
<1>4. CASE UNCHANGED vars
  BY <1>1, <1>4, SameSecured DEF vars, net, flow
<1> QED
  BY <1>2, <1>3, <1>4, SecuredSteps

LEMMA SecuredSays ==
  ASSUME NEW c \in Conversations, wire = [d \in Dir |-> OnConnection(1, c[d])], NEW d \in Dir,
         Secured(c[d], d)
  PROVE  Secured(wire[d], d)
<1> DEFINE w == wire[d]
           v == c[d]
<1>1. Len(w) = Len(v) /\ \A i \in 1..Len(v) : w[i].of = v[i].of /\ w[i].nth = v[i].nth
                                              /\ w[i].kind = v[i].kind
  BY WireSays
<1>2. Numbered(w)
  BY NumberedSays DEF Secured
<1>3. \A i \in 1..Len(v) : IsHello(w[i]) <=> IsHello(v[i])
  BY <1>1 DEF IsHello
<1>4. Secured(v, d)
  OBVIOUS
<1> HIDE DEF w, v
<1>5. Secured(w, d)
  BY <1>1, <1>2, <1>3, <1>4 DEF Secured
<1> QED
  BY <1>5 DEF w

LEMMA InitSecured ==
  ASSUME Undisturbed, Init, NEW c \in Conversations,
         wire = [d \in Dir |-> OnConnection(1, c[d])], \A d \in Dir : Secured(c[d], d)
  PROVE  TInv
<1>1. WInv
  BY InitWhole
<1>2. ASSUME NEW d \in Dir
      PROVE  SecuredAt(d)
  <2>1. sent[d] = 0 /\ buf[d] = <<>> /\ out[d] = <<>> /\ ~tls[d]
        /\ wire[d] \in Seq(Unit)
    BY <1>1, WTypes DEF Init
  <2>2. Secured(wire[d], d)
    BY SecuredSays
  <2>3. ASSUME NEW h \in 1..Len(wire[d])
        PROVE  Len(buf[d]) = sent[d] /\ sent[d] < h + wire[d][h].of.size
    <3>1. wire[d][h] \in Unit
      BY <2>1
    <3>2. wire[d][h].of \in Message
      BY <3>1 DEF Unit
    <3>3. wire[d][h].of.size \in Nat
      BY <3>2, UnitCountType
    <3> QED
      BY <2>1, <3>3
  <2> QED
    BY <2>1, <2>2, <2>3 DEF SecuredAt
<1> QED
  BY <1>1, <1>2 DEF TInv

-----------------------------------------------------------------------------
\* The names of TLS connections.

\* The flow of the client remembers the name in its hello, and the server's
\* hello was reported under it.
Greeted ==
  LET name == wire["c2s"][1].of.host
  IN  /\ HelloFirst(wire["c2s"], wire["s2c"])
      /\ tls["c2s"] /\ name # None => domain["c2s"] = name
      /\ tls["s2c"] => tls["c2s"] /\ (name # None => out["s2c"][1].host = name)

GInv == TInv /\ Greeted

\* The report of a client is about the hello it starts with.
LEMMA ClientHello ==
  ASSUME GInv, tls["c2s"]
  PROVE  /\ Len(out["c2s"]) = 1 /\ out["c2s"][1].took[1].of = wire["c2s"][1].of
<1> DEFINE w == wire["c2s"]
<1>1. TInv /\ "c2s" \in Dir /\ HelloFirst(w, wire["s2c"])
  BY DEF GInv, Dir, Greeted
<1>2. SecuredAt("c2s") /\ Secured(w, "c2s") /\ Len(w) \in Nat
  BY <1>1, TTypes DEF SecuredAt
<1>3. PICK h \in 1..Len(w) : /\ IsHello(w[h]) /\ Len(out["c2s"]) = 1
                             /\ out["c2s"][1].took[1].of = w[h].of
  BY <1>2 DEF SecuredAt
<1>4. 1 \in 1..Len(w) /\ IsHello(w[1])
  BY <1>1, <1>2, <1>3 DEF HelloFirst
<1>5. h = 1
  BY <1>2, <1>3, <1>4 DEF Secured
<1> QED
  BY <1>3, <1>5

\* The first thing that a client has wholly said is its hello.
LEMMA ClientEnded ==
  ASSUME GInv, Ended("c2s") # {}
  PROVE  tls["c2s"]
<1> DEFINE w == wire["c2s"]
           n == sent["c2s"]
<1>1. TInv /\ "c2s" \in Dir /\ HelloFirst(w, wire["s2c"])
  BY DEF GInv, Dir, Greeted
<1>2. /\ SecuredAt("c2s") /\ Secured(w, "c2s") /\ Len(w) \in Nat /\ w \in Seq(Unit)
      /\ OneStream(w, conn) /\ n \in Nat /\ n <= Len(w)
  BY <1>1, TTypes DEF SecuredAt
<1>3. PICK i \in 1..n : IsEnd(w[i])
  BY DEF Ended
<1>4. 1 \in 1..Len(w) /\ IsHello(w[1]) /\ i \in 1..Len(w)
  BY <1>1, <1>2, <1>3 DEF HelloFirst
<1>5. w[1] \in Unit /\ w[1].of.proto = "tls" /\ w[1].at = 1
  BY <1>2, <1>4 DEF Secured, OneStream, Script
<1> DEFINE m == w[1].of
           s == m.size
<1>6. m \in Message
  BY <1>5 DEF Unit
<1>7. s \in Nat /\ UnitCount(m) = s + 1
  BY <1>5, <1>6, UnitCountType
<1>8. ASSUME ~tls["c2s"] PROVE FALSE
  <2>1. n < 1 + s
    BY <1>2, <1>4, <1>8 DEF SecuredAt
  <2>2. i \in 1..UnitCount(m) /\ 1 + i - 1 = i /\ 1 + i - 1 <= Len(w) /\ i # s + 1
    <3> HIDE DEF s, m, n, w
    <3> QED
      BY <1>2, <1>3, <1>4, <1>7, <2>1
  <2>3. w[1 + i - 1] = Units(conn, w[1].nth, w[1].of)[i]
    <3>1. Script(w) /\ \A k \in 1..Len(w) : w[k].conn = conn
      BY <1>2 DEF OneStream
    <3> HIDE DEF w, n
    <3> QED
      BY <1>2, <1>4, <1>5, <2>2, <3>1, MessageUnits DEF m
  <2>4. w[i].at = i /\ w[i].of = m
    <3> HIDE DEF m
    <3>1. Units(conn, w[1].nth, m)[i].at = i /\ Units(conn, w[1].nth, m)[i].of = m
      BY <2>2 DEF Units
    <3>2. w[i] = Units(conn, w[1].nth, m)[i]
      BY <2>2, <2>3 DEF m
    <3> QED
      BY <3>1, <3>2
  <2> QED
    BY <1>3, <1>7, <2>2, <2>4 DEF IsEnd
<1> QED
  BY <1>8

\* A server says nothing before the client has said something.
LEMMA ServerFollows ==
  ASSUME Undisturbed, TInv, NEW j \in 1..Len(wire["s2c"]), Deliver("s2c", j)
  PROVE  Ended("c2s") # {}
<1> DEFINE E == Ended("c2s")
<1>1. "s2c" \in Dir
  BY DEF Dir
<1>2. /\ sent["s2c"] < j /\ j \in Nat
      /\ \A i \in sent["s2c"] + 1..j : MaySay("s2c", wire["s2c"][i])
  BY <1>1, SegmentGreets
<1>3. sent["s2c"] \in Nat /\ Secured(wire["s2c"], "s2c")
  BY <1>1, TTypes DEF SecuredAt
<1>4. j \in sent["s2c"] + 1..j
  BY <1>2, <1>3
<1>5. wire["s2c"][j].of.proto = "tls"
  BY <1>3 DEF Secured
<1>6. Cardinality(E) >= 1
  BY <1>2, <1>4, <1>5 DEF MaySay
<1>7. Cardinality({}) = 0
  BY FS_EmptySet
<1> HIDE DEF E
<1>8. ASSUME E = {} PROVE FALSE
  <2>1. Cardinality(E) = 0
    BY <1>7, <1>8, Zenon
  <2> QED
    BY <1>6, <2>1
<1> QED
  BY <1>8 DEF E

LEMMA DeliverGreeted ==
  ASSUME Undisturbed, GInv, TInv', NEW d \in Dir, NEW j \in 1..Len(wire[d]), Deliver(d, j)
  PROVE  GInv'
<1> DEFINE w == wire["c2s"]
           name == w[1].of.host
<1>1. /\ TInv /\ HelloFirst(w, wire["s2c"]) /\ "c2s" \in Dir /\ "s2c" \in Dir
      /\ tls["c2s"] /\ name # None => domain["c2s"] = name
      /\ tls["s2c"] => tls["c2s"] /\ (name # None => out["s2c"][1].host = name)
  BY DEF GInv, Dir, Greeted
<1>2. /\ UNCHANGED <<conn, wire>> /\ j \in Nat /\ sent[d] < j
      /\ Passes(d, j) \/ \E h \in 1..Len(wire[d]) : Greets(d, j, h)
  BY <1>1, SegmentGreets
<1>3. /\ tls \in [Dir -> BOOLEAN] /\ domain \in [Dir -> Hosts \cup {None}]
      /\ out \in [Dir -> Seq(Record)] /\ sent[d] \in Nat
      /\ Secured(wire[d], d) /\ Len(w) \in Nat
  BY <1>1, TTypes DEF SecuredAt
<1>4. CASE Passes(d, j)
  <2>1. UNCHANGED <<tls, domain, out>>
    BY <1>4 DEF Passes
  <2> QED
    BY <1>1, <1>2, <2>1 DEF GInv, Greeted
<1>5. CASE d = "c2s" /\ \E h \in 1..Len(wire[d]) : Greets(d, j, h)
  <2>1. PICK h \in 1..Len(w) : Greets("c2s", j, h)
    BY <1>5
  <2>2. /\ IsHello(w[h]) /\ ~tls["c2s"] /\ tls' = [tls EXCEPT !["c2s"] = TRUE]
        /\ domain' = IF w[h].of.host # None
                     THEN [domain EXCEPT !["c2s"] = w[h].of.host] ELSE domain
    BY <2>1 DEF Greets
  <2>3. 1 \in 1..Len(w) /\ IsHello(w[1])
    BY <1>1, <1>3 DEF HelloFirst
  <2>4. h = 1
    BY <1>3, <1>5, <2>2, <2>3 DEF Secured
  <2>5. name # None => domain'["c2s"] = name
    BY <1>1, <1>3, <2>2, <2>4
  <2>6. ~tls["s2c"] /\ tls'["s2c"] = tls["s2c"]
    BY <1>1, <1>3, <2>2
  <2> QED
    BY <1>1, <1>2, <2>5, <2>6 DEF GInv, Greeted
<1>6. CASE d = "s2c" /\ \E h \in 1..Len(wire[d]) : Greets(d, j, h)
  <2>1. PICK h \in 1..Len(wire[d]) : Greets("s2c", j, h)
    BY <1>6
  <2>2. PICK r : /\ out' = [out EXCEPT !["s2c"] = <<r>>] /\ r.host = Inherited("s2c")
    BY <2>1 DEF Greets
  <2>3. domain' = domain /\ tls' = [tls EXCEPT !["s2c"] = TRUE]
    BY <2>1 DEF Greets
  <2>4. tls["c2s"]
    <3>1. Ended("c2s") # {}
      BY <1>1, <1>6, ServerFollows
    <3> QED
      BY <3>1, ClientEnded
  <2>5. tls'["c2s"]
    BY <1>3, <2>3, <2>4
  <2>6. out'["s2c"] = <<r>>
    BY <1>1, <1>3, <2>2
  <2>7. r.host = domain["c2s"]
    BY <2>2 DEF Inherited, Peer
  <2>8. name # None => out'["s2c"][1].host = name
    BY <1>1, <2>4, <2>6, <2>7
  <2> QED
    BY <1>1, <1>2, <2>3, <2>4, <2>5, <2>8 DEF GInv, Greeted
<1> QED
  BY <1>2, <1>4, <1>5, <1>6 DEF Dir

LEMMA StepGreeted ==
  ASSUME Undisturbed, "forget" \notin Faults, GInv, [Next]_vars
  PROVE  GInv'
<1>1. TInv /\ TInv'
  BY StepSecured DEF GInv
<1>2. ASSUME NEW d \in Dir, NEW j \in 1..Len(wire[d]), Deliver(d, j) PROVE GInv'
  BY <1>1, <1>2, DeliverGreeted
<1>3. ASSUME UNCHANGED <<wire, tls, domain, out>> PROVE GInv'
  BY <1>1, <1>3 DEF GInv, Greeted
<1>4. ASSUME NEW d \in Dir, Leave(d) PROVE GInv'
  BY <1>3, <1>4 DEF Leave, net, flow
<1>5. CASE UNCHANGED vars
  BY <1>3, <1>5 DEF vars, net, flow
<1> QED
  BY <1>1, <1>2, <1>4, <1>5, SecuredSteps

LEMMA InitGreeted ==
  ASSUME Undisturbed, Init, NEW c \in Conversations,
         wire = [d \in Dir |-> OnConnection(1, c[d])], \A d \in Dir : Secured(c[d], d),
         HelloFirst(c["c2s"], c["s2c"])
  PROVE  GInv
<1>1. TInv
  BY InitSecured
<1>2. "c2s" \in Dir /\ "s2c" \in Dir
  BY DEF Dir
<1>3. HelloFirst(wire["c2s"], wire["s2c"])
  BY <1>2, WireSays DEF HelloFirst, IsHello
<1>4. ~tls["c2s"] /\ ~tls["s2c"]
  BY <1>2 DEF Init
<1> QED
  BY <1>1, <1>3, <1>4 DEF GInv, Greeted

LEMMA GreetedShows == GInv => NamedAfterRequest
<1> SUFFICES ASSUME GInv, NEW r \in Records("s2c"), NEW q \in Records("c2s"),
                    q.took[1].of.host # None
             PROVE  q.took[1].of.host = r.host
  BY DEF NamedAfterRequest
<1>1. TInv /\ "c2s" \in Dir /\ "s2c" \in Dir
  BY DEF GInv, Dir
<1>2. SecuredAt("c2s") /\ SecuredAt("s2c")
  BY <1>1, TTypes
<1>3. out["c2s"] # <<>> /\ out["s2c"] # <<>>
  BY DEF Records
<1>4. tls["c2s"] /\ tls["s2c"]
  BY <1>2, <1>3 DEF SecuredAt
<1>5. Len(out["c2s"]) = 1 /\ out["c2s"][1].took[1].of = wire["c2s"][1].of
  BY <1>4, ClientHello
<1>6. Len(out["s2c"]) = 1
  BY <1>2, <1>4 DEF SecuredAt
<1>7. r = out["s2c"][1] /\ q = out["c2s"][1]
  BY <1>5, <1>6 DEF Records
<1> QED
  BY <1>4, <1>5, <1>7 DEF GInv, Greeted

-----------------------------------------------------------------------------
\* The refinement on TLS connections.

\* Of such a direction the hello is all that there is to report.
ArrivedHello(d) ==
  Arrived[d] = IF tls[d]
               THEN {[nth |-> out[d][1].id[2], message |-> out[d][1].took[1].of]}
               ELSE {}

LEMMA HelloArrived ==
  ASSUME TInv, NEW d \in Dir
  PROVE  ArrivedHello(d)
<1> DEFINE w == wire[d]
           S == {i \in Ended(d) : Parsed(w[i])}
<1>0. Arrived[d] = {[nth |-> w[i].nth, message |-> w[i].of] : i \in S}
  BY DEF Arrived
<1>1. /\ SecuredAt(d) /\ Secured(w, d) /\ w \in Seq(Unit) /\ Len(w) \in Nat
      /\ OneStream(w, conn) /\ sent[d] \in Nat /\ sent[d] <= Len(w)
      /\ Len(buf[d]) \in Nat
  BY TTypes DEF SecuredAt
<1>2. CASE ~tls[d]
  <2>1. S = {}
    BY <1>2, EndedHello
  <2> QED
    BY <1>0, <1>2, <2>1 DEF ArrivedHello
<1>3. CASE tls[d]
  <2>1. PICK h \in 1..Len(w) :
          /\ IsHello(w[h]) /\ h + w[h].of.size < From(d)
          /\ Len(out[d]) = 1 /\ out[d][1].id = <<conn, w[h].nth>>
          /\ out[d][1].took[1].of = w[h].of
    BY <1>1, <1>3 DEF SecuredAt
  <2> DEFINE m == w[h].of
             s == m.size
             z == h + s
             e == [nth |-> w[h].nth, message |-> m]
  <2>2. \A i \in S : [nth |-> w[i].nth, message |-> w[i].of] = e
    <3>1. SUFFICES ASSUME NEW i \in S PROVE [nth |-> w[i].nth, message |-> w[i].of] = e
      OBVIOUS
    <3>2. PICK g \in 1..Len(w) : IsHello(w[g]) /\ w[g].of = w[i].of /\ w[g].nth = w[i].nth
      BY EndedHello
    <3>3. g = h
      BY <1>1, <2>1, <3>2 DEF Secured
    <3> QED
      BY <3>2, <3>3
  <2>3. w[h] \in Unit /\ m.proto = "tls" /\ w[h].kind = "rec"
    BY <1>1, <2>1 DEF Secured, IsHello
  <2>4. m \in Message
    BY <2>3 DEF Unit
  <2>5. s \in Nat /\ UnitCount(m) = s + 1
    BY <2>3, <2>4, UnitCountType
  <2>6. z \in 1..sent[d] /\ z \in 1..Len(w) /\ s + 1 \in 1..UnitCount(m) /\ h + (s + 1) - 1 = z
    <3> DEFINE n == sent[d]
               l == Len(buf[d])
    <3>1. n \in Nat /\ l \in Nat /\ z < n - l + 1 /\ n <= Len(w)
      BY <1>1, <2>1 DEF From
    <3> HIDE DEF n, l, s, m
    <3>2. z \in 1..n /\ z \in 1..Len(w) /\ s + 1 \in 1..UnitCount(m) /\ h + (s + 1) - 1 = z
      BY <1>1, <2>5, <3>1
    <3> QED
      BY <3>2 DEF n
  <2>7. w[h].at = 1
    <3>1. Starts(w)
      BY <1>1, ScriptStarts DEF OneStream
    <3> QED
      BY <2>3, <3>1 DEF Starts
  <2>8. w[z] = Units(conn, w[h].nth, m)[s + 1]
    <3>1. Script(w) /\ \A k \in 1..Len(w) : w[k].conn = conn
      BY <1>1 DEF OneStream
    <3> DEFINE k == s + 1
    <3>2. k \in 1..UnitCount(w[h].of) /\ h + k - 1 = z /\ h + k - 1 <= Len(w)
      BY <1>1, <2>6
    <3> HIDE DEF k, w, z
    <3>3. w[h + k - 1] = Units(conn, w[h].nth, w[h].of)[k]
      BY <1>1, <2>7, <3>1, <3>2, MessageUnits
    <3> QED
      BY <3>2, <3>3 DEF k
  <2>9. w[z].at = s + 1 /\ w[z].of = m
    <3> DEFINE k == s + 1
    <3> HIDE DEF m
    <3>1. k \in 1..UnitCount(m) /\ w[z] = Units(conn, w[h].nth, m)[k]
      BY <2>6, <2>8
    <3> HIDE DEF k, z
    <3>2. w[z].at = k /\ w[z].of = m
      BY <3>1 DEF Units
    <3> QED
      BY <3>2 DEF k
  <2>10. z \in S
    <3>1. IsEnd(w[z])
      BY <2>5, <2>9 DEF IsEnd
    <3>2. Parsed(w[z])
      BY <2>1, <2>9 DEF Parsed, IsHello
    <3> QED
      BY <2>6, <3>1, <3>2 DEF Ended
  <2> HIDE DEF S, z, e
  <2>11. Arrived[d] = {e}
    BY <1>0, <2>2, <2>10
  <2>12. e = [nth |-> out[d][1].id[2], message |-> out[d][1].took[1].of]
    BY <2>1 DEF e
  <2> QED
    BY <1>3, <2>11, <2>12 DEF ArrivedHello
<1> QED
  BY <1>1, <1>2, <1>3, TTypes

LEMMA HelloArrivedNext ==
  GInv' => /\ (\A d \in Dir : ArrivedHello(d) /\ RecordsAt(d) /\ out[d] \in Seq(Record))'
           /\ Greeted'
<1>1. GInv => /\ \A d \in Dir : ArrivedHello(d) /\ RecordsAt(d) /\ out[d] \in Seq(Record)
              /\ Greeted
  <2>1. ASSUME GInv, NEW d \in Dir
        PROVE  ArrivedHello(d) /\ RecordsAt(d) /\ out[d] \in Seq(Record)
    <3>1. TInv
      BY <2>1 DEF GInv
    <3>2. WInv
      BY <3>1 DEF TInv
    <3>3. out \in [Dir -> Seq(Record)]
      BY <3>2, WTypes
    <3>4. ArrivedHello(d)
      BY <3>1, HelloArrived
    <3> QED
      BY <3>2, <3>3, <3>4 DEF WInv
  <2> QED
    BY <2>1 DEF GInv
<1> QED
  BY <1>1, PTL

\* A server's records follow a request that has been reported.
LEMMA AnswersArrived ==
  ASSUME GInv
  PROVE  tls["s2c"] => Len(out["c2s"]) = 1
BY ClientHello DEF GInv, Greeted

LEMMA PassesLogged ==
  ASSUME GInv, GInv', NEW d \in Dir, NEW j \in Nat, Passes(d, j),
         loop = "idle", UNCHANGED <<conn, wire>>
  PROVE  Log!Packet(d)
<1>1. UNCHANGED <<tls, out>> /\ loop' = d
  BY DEF Passes
<1>2. \A e \in Dir : ArrivedHello(e)
  BY HelloArrived DEF GInv
<1>3. \A e \in Dir : ArrivedHello(e)'
  BY HelloArrivedNext
<1>4. \A e \in Dir : Arrived'[e] = Arrived[e]
  BY <1>1, <1>2, <1>3 DEF ArrivedHello
<1>5. "s2c" \in Dir /\ "c2s" \in Dir /\ Log!Dir = Dir
  BY DEF Dir, Log!Dir
<1>6. UNCHANGED Entries
  BY <1>1 DEF Entries
<1>7. out["c2s"] \in Seq(Record)
  BY <1>5, TTypes DEF GInv
<1>8. Len(Entries["c2s"]) = Len(out["c2s"]) /\ Len(out["c2s"]) \in Nat
  <2>1. Len(out["c2s"]) \in Nat
    BY <1>7
  <2>2. Entries["c2s"] = [k \in 1..Len(out["c2s"]) |-> Entry(out["c2s"][k])]
    BY <1>5 DEF Entries
  <2> QED
    BY <2>1, <2>2
<1>9. Cardinality(Arrived["s2c"]) <= Len(out["c2s"])
  <2>1. CASE tls["s2c"]
    <3>1. Len(out["c2s"]) = 1
      BY <2>1, AnswersArrived
    <3>2. \E p : Arrived["s2c"] = {p}
      BY <1>2, <1>5, <2>1 DEF ArrivedHello
    <3>3. Cardinality(Arrived["s2c"]) = 1
      BY <3>2, FS_Singleton
    <3> QED
      BY <3>1, <3>3
  <2>2. CASE ~tls["s2c"]
    <3>1. Arrived["s2c"] = {}
      BY <1>2, <1>5, <2>2 DEF ArrivedHello
    <3>2. Cardinality(Arrived["s2c"]) = 0
      BY <3>1, FS_EmptySet
    <3> QED
      BY <1>8, <3>2
  <2> QED
    BY <2>1, <2>2
<1>10. Log!Cardinality(Arrived'["s2c"]) <= Len(Entries["c2s"])
  BY <1>4, <1>5, <1>8, <1>9, SameCardinality
<1>11. Log!Arrive(d)
  BY <1>4, <1>5, <1>10 DEF Log!Arrive
<1> QED
  BY <1>1, <1>6, <1>11 DEF Log!Packet

LEMMA GreetsLogged ==
  ASSUME Undisturbed, GInv, GInv', NEW d \in Dir, NEW j \in 1..Len(wire[d]),
         NEW h \in 1..Len(wire[d]), Greets(d, j, h), loop = "idle",
         UNCHANGED <<conn, wire>>, Ended("c2s") # {} \/ d = "c2s",
         \A e \in Dir : e # d => sent'[e] = sent[e]
  PROVE  Log!Hello(d)
<1> DEFINE w == wire[d]
<1>1. /\ ~tls[d] /\ out[d] = <<>> /\ w[h] \in Unit
      /\ tls' = [tls EXCEPT ![d] = TRUE] /\ loop' = loop
  BY DEF Greets
<1>2. PICK r : /\ out' = [out EXCEPT ![d] = <<r>>]
               /\ r.id = <<conn, w[h].nth>> /\ r.took[1].of = w[h].of
               /\ r.host = IF d = "c2s" THEN w[h].of.host ELSE Inherited(d)
               /\ domain' = IF d = "c2s" /\ w[h].of.host # None
                             THEN [domain EXCEPT ![d] = w[h].of.host] ELSE domain
  BY DEF Greets
<1>3. /\ TInv /\ Greeted /\ "s2c" \in Dir /\ "c2s" \in Dir /\ Log!Dir = Dir
      /\ tls \in [Dir -> BOOLEAN] /\ out \in [Dir -> Seq(Record)]
  BY TTypes DEF GInv, Dir, Log!Dir
<1> DEFINE m == [nth |-> w[h].nth, message |-> w[h].of]
<1>4. tls'[d] /\ out'[d] = <<r>> /\ \A e \in Dir : e # d => tls'[e] = tls[e] /\ out'[e] = out[e]
  BY <1>1, <1>2, <1>3
<1>5. Arrived[d] = {}
  BY <1>1, <1>3, HelloArrived DEF ArrivedHello
<1>6. Arrived'[d] = {m}
  <2>1. Arrived'[d] = {[nth |-> out'[d][1].id[2], message |-> out'[d][1].took[1].of]}
    BY <1>4, HelloArrivedNext DEF ArrivedHello
  <2> QED
    BY <1>2, <1>4, <2>1
<1>7. \A e \in Dir \ {d} : Arrived'[e] = Arrived[e]
  <2>1. ASSUME NEW e \in Dir, e # d PROVE Arrived'[e] = Arrived[e]
    <3>1. Ended(e)' = Ended(e)
      BY <2>1 DEF Ended
    <3> QED
      BY <3>1 DEF Arrived
  <2> QED
    BY <2>1
<1>8. Entries[d] = <<>>
  BY <1>1 DEF Entries
<1>9. /\ Whole(r) /\ r \in Record
  <2>1. RecordsAt(d)' /\ out'[d] \in Seq(Record)
    BY HelloArrivedNext
  <2>2. 1 \in 1..Len(out'[d]) /\ out'[d][1] = r
    BY <1>4
  <2> QED
    BY <2>1, <2>2 DEF RecordsAt
<1>10. Entry(r) = [nth |-> m.nth, message |-> m.message, host |-> r.host]
  BY <1>2, <1>9 DEF Entry
<1>11. r.host \in Hosts \cup {None}
  BY <1>9 DEF Record
<1>12. Entries' = [Entries EXCEPT ![d] = Append(@, Entry(r))]
  <2>1. /\ Len(out'[d]) = Len(out[d]) + 1 /\ out'[d][Len(out[d]) + 1] = r
        /\ \A k \in 1..Len(out[d]) : out'[d][k] = out[d][k]
        /\ \A e \in Dir : e # d => out'[e] = out[e]
        /\ out[d] \in Seq(Record)
    BY <1>1, <1>3, <1>4
  <2> QED
    BY <2>1, EntriesAppended
<1>13. m.nth \in Nat
  BY <1>1 DEF Unit
<1>14. d = "s2c" => tls["c2s"]
  BY <1>3, ClientEnded
<1>15. d = "s2c" => Len(out["c2s"]) = 1 /\ Len(Entries["c2s"]) = 1
                     /\ Entries["c2s"][1].message.host = wire["c2s"][1].of.host
  <2>1. SUFFICES ASSUME d = "s2c"
                 PROVE  Len(out["c2s"]) = 1 /\ Len(Entries["c2s"]) = 1
                        /\ Entries["c2s"][1].message.host = wire["c2s"][1].of.host
    OBVIOUS
  <2>2. Len(out["c2s"]) = 1 /\ out["c2s"][1].took[1].of = wire["c2s"][1].of
    BY <1>14, <2>1, ClientHello
  <2>3. Whole(out["c2s"][1])
    <3>1. WInv
      BY <1>3 DEF TInv
    <3> QED
      BY <1>3, <2>2, <3>1 DEF WInv, RecordsAt
  <2>4. Entries["c2s"] = [k \in 1..1 |-> Entry(out["c2s"][k])]
    BY <1>3, <2>2 DEF Entries
  <2>5. Len(Entries["c2s"]) = 1 /\ Entries["c2s"][1] = Entry(out["c2s"][1])
    BY <2>4
  <2> QED
    BY <2>2, <2>3, <2>5 DEF Entry
<1>16. Log!Fits(d, m.message, r.host)
  <2>1. CASE d = "c2s"
    BY <1>2, <2>1 DEF Log!Fits
  <2>2. CASE d = "s2c"
    <3>1. w[h].of.host = None
      BY <1>3, <2>2 DEF Greeted, HelloFirst
    <3>2. wire["c2s"][1].of.host # None => r.host = wire["c2s"][1].of.host
      <4>1. tls'["s2c"] /\ out'["s2c"][1] = r
        BY <1>4, <2>2
      <4>2. Greeted'
        BY HelloArrivedNext
      <4> QED
        BY <4>1, <4>2 DEF Greeted
    <3>3. Len(Entries["s2c"]) + 1 = 1 /\ 1 \in 1..Len(Entries["c2s"])
      BY <1>8, <1>15, <2>2
    <3>4. Entries["c2s"][1].message.host \in {None, r.host}
      BY <1>15, <2>2, <3>2
    <3> QED
      BY <2>2, <3>1, <3>3, <3>4 DEF Log!Fits
  <2> QED
    BY <2>1, <2>2 DEF Dir
<1> HIDE DEF m
<1>17. Log!Due(d, Arrived'[d]) = {m}
  <2>1. Log!Logged(d) = {}
    BY <1>8 DEF Log!Logged
  <2> QED
    BY <1>6, <2>1 DEF Log!Due
<1>18. Log!Report(d, Arrived'[d])
  <2>1. m \in Log!Due(d, Arrived'[d])
    BY <1>17
  <2>2. ASSUME NEW q \in Log!Due(d, Arrived'[d]) PROVE m.nth <= q.nth
    <3>1. q = m
      BY <1>17
    <3> QED
      BY <1>13, <3>1
  <2>3. Entries' = [Entries EXCEPT ![d] =
                     Append(@, [nth |-> m.nth, message |-> m.message, host |-> r.host])]
    BY <1>10, <1>12
  <2> QED
    BY <1>11, <1>16, <2>1, <2>2, <2>3 DEF Log!Report
<1>19. Log!Cardinality(Log!Due(d, Arrived'[d])) = 1
  BY <1>17, FS_Singleton, SameCardinality
<1>20. Log!Cardinality(Arrived'["s2c"]) <= Len(Entries["c2s"])
  <2>1. CASE d = "s2c"
    <3>1. Cardinality(Arrived'["s2c"]) = 1
      BY <1>6, <2>1, FS_Singleton
    <3> QED
      BY <1>15, <2>1, <3>1, SameCardinality
  <2>2. CASE d = "c2s"
    <3>1. ~tls["s2c"]
      BY <1>1, <1>3, <2>2 DEF Greeted
    <3>2. Arrived["s2c"] = {}
      BY <1>3, <3>1, HelloArrived DEF ArrivedHello
    <3>3. Arrived'["s2c"] = {}
      BY <1>3, <1>7, <2>2, <3>2
    <3>4. Cardinality(Arrived'["s2c"]) = 0
      BY <3>3, FS_EmptySet
    <3>5. Len(Entries["c2s"]) = 0
      BY <1>8, <2>2
    <3> QED
      BY <3>4, <3>5, SameCardinality
  <2> QED
    BY <2>1, <2>2 DEF Dir
<1>21. Log!Arrive(d)
  BY <1>3, <1>5, <1>7, <1>20 DEF Log!Arrive
<1> QED
  BY <1>1, <1>18, <1>19, <1>21 DEF Log!Hello

LEMMA GreetedLogged ==
  ASSUME Undisturbed, "forget" \notin Faults, GInv, GInv', [Next]_vars
  PROVE  [Log!Next]_(Log!vars)
<1>1. TInv /\ Log!Dir = Dir
  BY DEF GInv, Dir, Log!Dir
<1>2. ASSUME NEW d \in Dir, NEW j \in 1..Len(wire[d]), Deliver(d, j)
      PROVE  Log!Packet(d) \/ Log!Hello(d)
  <2>1. /\ loop = "idle" /\ UNCHANGED <<conn, wire>> /\ sent' = [sent EXCEPT ![d] = j]
        /\ sent[d] < j /\ j \in Nat /\ \A i \in sent[d] + 1..j : MaySay(d, wire[d][i])
        /\ Passes(d, j) \/ \E h \in 1..Len(wire[d]) : Greets(d, j, h)
    BY <1>1, <1>2, SegmentGreets
  <2>2. CASE Passes(d, j)
    BY <2>1, <2>2, PassesLogged
  <2>3. CASE \E h \in 1..Len(wire[d]) : Greets(d, j, h)
    <3>1. PICK h \in 1..Len(wire[d]) : Greets(d, j, h)
      BY <2>3
    <3>2. sent \in [Dir -> Nat]
      BY <1>1, TTypes
    <3>3. \A e \in Dir : e # d => sent'[e] = sent[e]
      BY <2>1, <3>2
    <3>4. d = "s2c" => Ended("c2s") # {}
      BY <1>1, <1>2, ServerFollows
    <3>5. Ended("c2s") # {} \/ d = "c2s"
      BY <3>4 DEF Dir
    <3> QED
      BY <2>1, <3>1, <3>3, <3>5, GreetsLogged
  <2> QED
    BY <2>1, <2>2, <2>3
<1>3. ASSUME NEW d \in Dir, Leave(d) PROVE Log!Leave(d)
  <2>1. /\ loop = d /\ loop' = "idle" /\ UNCHANGED <<conn, wire, sent, out>>
    BY <1>3 DEF Leave, net
  <2>2. UNCHANGED <<Arrived, Entries>>
    BY <2>1 DEF Arrived, Entries, Ended
  <2>3. ArrivedHello(d) /\ SecuredAt(d)
    BY <1>1, HelloArrived, TTypes
  <2>4. ASSUME NEW p \in Arrived[d] PROVE p.nth \in Log!Logged(d)
    <3>1. tls[d] /\ p.nth = out[d][1].id[2]
      BY <2>3, <2>4 DEF ArrivedHello
    <3>2. Len(out[d]) = 1
      BY <2>3, <3>1 DEF SecuredAt
    <3>3. Entries[d] = [k \in 1..1 |-> Entry(out[d][k])]
      BY <3>2 DEF Entries
    <3>4. 1 \in 1..Len(Entries[d]) /\ Entries[d][1] = Entry(out[d][1])
      BY <3>3
    <3>5. Entries[d][1].nth = p.nth
      BY <3>1, <3>4 DEF Entry
    <3> QED
      BY <3>4, <3>5 DEF Log!Logged
  <2>5. Log!Due(d, Arrived[d]) = {}
    BY <2>4 DEF Log!Due
  <2> QED
    BY <2>1, <2>2, <2>5 DEF Log!Leave
<1>4. CASE UNCHANGED vars
  <2>1. UNCHANGED <<wire, sent, out, loop>>
    BY <1>4 DEF vars, net
  <2>2. UNCHANGED <<Arrived, Entries, loop>>
    BY <2>1 DEF Arrived, Entries, Ended
  <2> QED
    BY <2>2 DEF Log!vars
<1> QED
  BY <1>1, <1>2, <1>3, <1>4, SecuredSteps DEF Log!Next

-----------------------------------------------------------------------------
(* HTTP and TLS together.                                                  *)
Timely == PInv \/ TInv

LEMMA InitTimely == Unforgotten /\ Init => Timely
<1> SUFFICES ASSUME Unforgotten, Init PROVE Timely
  OBVIOUS
<1>1. PICK c \in Conversations : wire = [d \in Dir |-> OnConnection(1, c[d])]
  BY DEF Init
<1>2. Undisturbed
  BY DEF Unforgotten
<1>3. CASE SpeaksHttp(c)
  BY <1>1, <1>2, <1>3, InitPrompt DEF Timely
<1>4. CASE SpeaksTls(c)
  BY <1>1, <1>2, <1>4, InitSecured DEF Timely, SpeaksTls
<1> QED
  BY <1>3, <1>4 DEF Unforgotten

LEMMA StepTimely == Unforgotten /\ Timely /\ [Next]_vars => Timely'
<1>1. Unforgotten /\ TInv /\ [Next]_vars => TInv'
  BY StepSecured DEF Unforgotten
<1> QED
  BY <1>1, StepPrompt DEF Timely

(* When nothing goes wrong on the way and no flow is forgotten: once a     *)
(* packet has been handled, each HTTP message and each TLS hello that has  *)
(* wholly arrived has been reported, however the streams are cut and       *)
(* pipelined.  The buffer must have room for a segment behind an           *)
(* unfinished message (MCTcpOverflow shows what happens otherwise), and a  *)
(* hello must be among the records that the search follows.                *)
THEOREM ReportsAreInTime ==
  ASSUME Unforgotten
  PROVE  Spec => []Prompt
<1>1. Init => Timely
  BY InitTimely
<1>2. Timely /\ [Next]_vars => Timely'
  BY StepTimely
<1>3. Timely => Prompt
  BY PromptShows, SecuredPrompt DEF Timely, Unforgotten
<1> QED
  BY <1>1, <1>2, <1>3, PTL DEF Spec

(* The same for what lies in the buffers: no whole message is left behind  *)
(* when the loop of process_tcp_flow ends.                                 *)
THEOREM NothingLeftBehind ==
  ASSUME Unforgotten
  PROVE  Spec => []Drained
<1>1. Init => Timely
  BY InitTimely
<1>2. Timely /\ [Next]_vars => Timely'
  BY StepTimely
<1>3. Timely => Drained
  BY DrainedShows, SecuredDrained DEF Timely, Unforgotten
<1> QED
  BY <1>1, <1>2, <1>3, PTL DEF Spec

Courteous == NInv \/ GInv

LEMMA InitCourteous == Addressed /\ Init => Courteous
<1> SUFFICES ASSUME Addressed, Init PROVE Courteous
  OBVIOUS
<1>1. PICK c \in Conversations : wire = [d \in Dir |-> OnConnection(1, c[d])]
  BY DEF Init
<1>2. Undisturbed
  BY DEF Addressed, Unforgotten
<1>3. CASE /\ SpeaksHttp(c) /\ NamesTold(c["c2s"], c["s2c"])
           /\ \A d \in Dir : Numbered(c[d])
  BY <1>1, <1>2, <1>3, InitNamed DEF Courteous
<1>4. CASE SpeaksTls(c) /\ HelloFirst(c["c2s"], c["s2c"])
  BY <1>1, <1>2, <1>4, InitGreeted DEF Courteous, SpeaksTls
<1> QED
  BY <1>3, <1>4 DEF Addressed

LEMMA StepCourteous == Addressed /\ Courteous /\ [Next]_vars => Courteous'
<1>1. Addressed /\ GInv /\ [Next]_vars => GInv'
  BY StepGreeted DEF Addressed, Unforgotten
<1> QED
  BY <1>1, StepNamed DEF Courteous, Addressed

(* On such a connection, when no response and no record of a server names  *)
(* a host, a client that pipelines does in every request, and a client     *)
(* that speaks TLS starts with its hello: no response is reported under    *)
(* the name of an earlier exchange.  What process_tcp_flow finds in the    *)
(* flow of the client is the name of the response's own request or, with   *)
(* pipelining, of one behind it.                                           *)
THEOREM ResponsesNamed ==
  ASSUME Addressed
  PROVE  Spec => []NamedAfterRequest
<1>1. Init => Courteous
  BY InitCourteous
<1>2. Courteous /\ [Next]_vars => Courteous'
  BY StepCourteous
<1>3. Courteous => NamedAfterRequest
  BY NamedShows, GreetedShows DEF Courteous
<1> QED
  BY <1>1, <1>2, <1>3, PTL DEF Spec

LEMMA StepReported ==
  ASSUME Addressed, Courteous, [Next]_vars
  PROVE  [Log!Next]_(Log!vars)
<1>1. Unforgotten /\ Undisturbed /\ "forget" \notin Faults
  BY DEF Addressed, Unforgotten
<1>2. CASE NInv
  BY <1>1, <1>2, StepNamed, StepLogged
<1>3. CASE GInv
  BY <1>1, <1>3, StepGreeted, GreetedLogged
<1> QED
  BY <1>2, <1>3 DEF Courteous

\* REFINEMENT.  Under Addressed, where nothing is lost, doubled or padded, each
\* socket carries one connection and a pipelining client always names its host,
\* what process_tcp_flow writes implements ExchangeLog: a packet is reported whole
\* before the next one is taken, a report is the first message of its stream that
\* is due, with its body and the name of the request it belongs to, and nothing
\* is written that did not arrive.
THEOREM StreamsImplementLog ==
  ASSUME Addressed
  PROVE  Spec => ImplementsLog
<1>1. Init => Courteous /\ Log!Init
  BY InitCourteous, InitLogged
<1>2. Courteous /\ [Next]_vars => Courteous'
  BY StepCourteous
<1>3. Courteous /\ [Next]_vars => [Log!Next]_(Log!vars)
  BY StepReported
<1> QED
  BY <1>1, <1>2, <1>3, PTL DEF Spec, ImplementsLog, Log!Spec
=============================================================================
