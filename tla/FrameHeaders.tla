----------------------------- MODULE FrameHeaders -----------------------------
(***************************************************************************)
(* The two places that take the headers off a frame: capture_prog in the   *)
(* kernel (ebpf/ebpf_capture.c), which decides whether the program sees    *)
(* the frame, and parse_packet (ebpf/zwbee.c), which hands its payload to  *)
(* the parsers.  A payload's start is given as a set: {} if the frame has  *)
(* none that the code can find.                                            *)
(***************************************************************************)
EXTENDS Integers, Sequences
Seqs == INSTANCE SequencesExt

CONSTANT Ends  \* addresses with a port

\* A frame: its size, how many VLAN tags it has, the headers that follow, the
\* ends of its conversation, the signatures in its payload, each with the
\* number of bytes in front of it, and its bytes, which only the rules look at.
ExtKinds  == {"hop", "dst", "route", "frag", "ah"}
Signature == [kind : {"http", "tls", "quic"}, at : Nat]

Header ==
  [size : Nat, ifindex : Nat, tags : Nat, net : {"ip4", "ip6", "other"},
   ihl : 0..15, exts : Seq([kind : ExtKinds, hdrlen : 0..255]),
   l4 : {"tcp", "udp", "other"}, doff : 0..15,
   src : Ends, dst : Ends, signatures : SUBSET Signature, bytes : Seq(Nat)]

EthLen == 14
TagLen == 4

-----------------------------------------------------------------------------
(* What both do.                                                           *)
Fixed(f) == IF f.net = "ip4" THEN 20 ELSE 40

Total(lengths) == Seqs!FoldLeft(+, 0, lengths)

\* The IP header and, of IPv6, the extension headers, of these lengths.
NetLen(f, lengths) == IF f.net = "ip4" THEN 4 * f.ihl ELSE 40 + Total(lengths)

NetSound(f, o) == o + Fixed(f) <= f.size /\ (f.net = "ip4" => f.ihl >= 5)

L4Len(f) == IF f.l4 = "tcp" THEN 4 * f.doff ELSE 8

L4Sound(f, o) ==
  /\ f.l4 # "other"
  /\ f.l4 = "tcp" => o + 20 <= f.size /\ f.doff >= 5
  /\ o + L4Len(f) <= f.size

\* The payload's start, for code that takes the frame's VLAN tags and its
\* extension headers if tags and exts say so, and these to be of lengths.
Payload(f, tags, exts, lengths) ==
  LET net  == EthLen + TagLen * f.tags
      trnp == net + NetLen(f, lengths)
  IN  IF /\ tags /\ net <= f.size
         /\ f.net # "other" /\ NetSound(f, net)
         /\ f.net = "ip6" => exts
         /\ trnp <= f.size /\ L4Sound(f, trnp)
      THEN {trnp + L4Len(f)} ELSE {}

-----------------------------------------------------------------------------
(* capture_prog: pull_vlan_once is called twice at most, and                *)
(* skip_ipv6_extension_headers skips three headers of four kinds.           *)
MaxVlanDepth == 2
MaxExtHeaders == 3

KernelExtLen(ext) == IF ext.kind = "frag" THEN 8 ELSE 8 * (ext.hdrlen + 1)

KernelSkips(exts) ==
  /\ Len(exts) <= MaxExtHeaders
  /\ \A i \in DOMAIN exts : exts[i].kind # "ah"

KernelPayload(f) ==
  Payload(f, f.tags <= MaxVlanDepth, KernelSkips(f.exts),
          [i \in DOMAIN f.exts |-> KernelExtLen(f.exts[i])])

-----------------------------------------------------------------------------
(* parse_packet takes off one tag, and every extension header as if it had  *)
(* the common form.                                                         *)
MutParserExtLen(ext) == 8 * ext.hdrlen

ParserExtLen(ext) == 8 * (ext.hdrlen + 1)

ParsedPayload(f) ==
  Payload(f, f.tags <= 1, TRUE, [i \in DOMAIN f.exts |-> ParserExtLen(f.exts[i])])

-----------------------------------------------------------------------------
(* payload_has_l7_signature looks for a signature at a few offsets of a     *)
(* window, which is a fixed size of at most 64 bytes.                       *)
Windows(bytes) == {n \in {5, 8, 16, 32, 64} : n <= bytes}

SignatureLen(s) == CASE s.kind = "http" -> 4 [] s.kind = "tls" -> 5 [] s.kind = "quic" -> 1

ScanOffsets(s) == IF s.kind = "http" THEN 12 ELSE 24

HasSignature(f, start) ==
  \E window \in Windows(f.size - start), s \in f.signatures :
    /\ s.at < ScanOffsets(s)
    /\ s.at + SignatureLen(s) <= window
    /\ s.kind = "quic" => f.l4 = "udp"
=============================================================================
