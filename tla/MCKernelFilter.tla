---------------------------- MODULE MCKernelFilter ----------------------------
(* Instance of KernelFilter with two-bit bytes and eight-bit words.         *)
EXTENDS KernelFilter

MCEnds == {"web", "b", "c"}
MCWellKnown == {"web"}

-----------------------------------------------------------------------------
(* Programs as tcpdump prints them.                                         *)
I(op, size, k) == [op |-> op, size |-> size, jt |-> 0, jf |-> 0, k |-> k]
J(op, k, jt, jf) == [op |-> op, size |-> 1, jt |-> jt, jf |-> jf, k |-> k]

Ddd(prog) ==
  <<[count |-> Len(prog)]>> \o [i \in 1..Len(prog) |-> [insn |-> prog[i]]]

\* Byte 0 is 1 and the byte behind a header, of the length that byte 1 has in
\* its low nibble, is 2: how "tcp port 2" is compiled.
PortText == Ddd(<<I("ldabs", 1, 0), J("jeq", 1, 0, 3), I("ldxmsh", 1, 1),
                    I("ldind", 1, 2), J("jeq", 2, 1, 0), I("ret", 1, 0),
                    I("ret", 1, 255)>>)

\* The byte at an offset that is beyond every frame, and wraps.
FarText == Ddd(<<I("ldxmsh", 1, 0), I("ldind", 1, Word - 4), J("ja", 0, 0, 0),
                   I("ret", 1, 255)>>)

\* The half word at 1, of which some bits are wanted.
BitsText == Ddd(<<I("ldabs", 2, 1), I("and", 1, 6), J("jset", 4, 0, 1),
                    J("ja", 1, 0, 0), J("jgt", 1, 0, 1), I("ret", 1, 255),
                    I("ret", 1, 0)>>)

\* The word at 0 is at least 100.
WordText == Ddd(<<I("ldabs", 4, 0), J("jge", 100, 0, 1), I("ret", 1, 255),
                    I("ret", 1, 0)>>)

\* More instructions than pcap_insns holds, and a line that is none.
LongText == Ddd([i \in 1..MaxInsns + 1 |-> I("ret", 1, 0)])
BadText  == <<[count |-> 2], [insn |-> I("ret", 1, 0)], [bad |-> TRUE]>>

\* With an expression that tcpdump cannot compile it prints nothing.
MCTexts == {PortText, FarText, BitsText, WordText, LongText, BadText, <<>>}

\* An instruction of arithmetic: byte 0, shifted right by one, is 1.
ShiftText == Ddd(<<I("ldabs", 1, 0), I("other", 1, 1), J("jeq", 1, 0, 1),
                     I("ret", 1, 255), I("ret", 1, 0)>>)
MCShiftTexts == {ShiftText}

\* What the expressions mean, said of bytes without a machine.
MCMatches(t, f) ==
  LET Has(o) == o + 1 \in DOMAIN f.bytes
      Byte(o) == f.bytes[o + 1]
  IN  CASE t = PortText  -> /\ Has(1) /\ Byte(0) = 1
                            /\ LET o == 4 * (Byte(1) % 2) + 2
                               IN  Has(o) /\ Byte(o) = 2
        [] t = FarText   -> FALSE
        [] t = BitsText  -> Has(2) /\ (Byte(1) % 2 = 1 \/ Byte(2) >= 2)
        [] t = WordText  -> Has(3) /\ 64 * Byte(0) + 16 * Byte(1)
                                       + 4 * Byte(2) + Byte(3) >= 100
        [] t = ShiftText -> Has(0) /\ Byte(0) \in {2, 3}

-----------------------------------------------------------------------------
(* Frames for the rules, and frames for the built-in judgement.             *)
Plain == [size |-> 0, ifindex |-> 1, tags |-> 0, net |-> "other", ihl |-> 5,
          exts |-> <<>>, l4 |-> "tcp", doff |-> 5, src |-> "b", dst |-> "c",
          signatures |-> {}, bytes |-> <<>>]

Raw(bytes) == [Plain EXCEPT !.size = Len(bytes), !.bytes = bytes]

Ext(kind, hdrlen) == [kind |-> kind, hdrlen |-> hdrlen]

MCRuleFrames ==
  {Raw(<<1, 0, 2, 0>>), Raw(<<1, 1, 0, 0, 0, 0, 2>>), Raw(<<1, 1, 2>>),
   Raw(<<3, 2, 1, 0>>), Raw(<<2, 2, 0>>)}

Ip4 == [Plain EXCEPT !.net = "ip4"]
Ip6 == [Plain EXCEPT !.net = "ip6"]

MCHeaderFrames ==
  { \* a port of HTTP, two tags and IP options; then from another interface
   [Ip4 EXCEPT !.size = 66, !.tags = 2, !.ihl = 6, !.dst = "web"],
   [Ip4 EXCEPT !.size = 54, !.ifindex = 2, !.dst = "web"],
   \* TLS behind a tag, an extension header and TCP options, and its answer
   [Ip6 EXCEPT !.size = 105, !.tags = 1, !.exts = <<Ext("hop", 0)>>, !.doff = 8,
               !.signatures = {[kind |-> "tls", at |-> 0]}],
   [Ip6 EXCEPT !.size = 82, !.src = "c", !.dst = "b", !.exts = <<Ext("frag", 0)>>],
   \* QUIC in a window of 16 bytes, and the same ends without a signature
   [Ip4 EXCEPT !.size = 58, !.l4 = "udp", !.src = "c", !.dst = "b",
               !.signatures = {[kind |-> "quic", at |-> 15]}],
   [Ip4 EXCEPT !.size = 58, !.l4 = "udp"],
   \* a signature cut off
   [Ip4 EXCEPT !.size = 70, !.signatures = {[kind |-> "http", at |-> 13]}],
   \* headers that the kernel does not skip, and a frame cut off
   [Ip6 EXCEPT !.size = 90, !.exts = <<Ext("ah", 1)>>, !.dst = "web"],
   [Ip4 EXCEPT !.size = 50, !.doff = 6, !.dst = "web"]}

MCFrames == MCRuleFrames \cup MCHeaderFrames
=============================================================================
