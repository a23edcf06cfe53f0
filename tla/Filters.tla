------------------------------- MODULE Filters -------------------------------
(***************************************************************************)
(* The user-space filters of zwbee (ebpf/zwbee.c): parse_args collects     *)
(* them from the command line, packet_matches_filters judges a packet with *)
(* the metadata that was found for it.                                     *)
(*                                                                         *)
(* An address is a sequence of bytes, as in struct event_t; the number of  *)
(* bits of a byte and of bytes of an address are parameters, so that a     *)
(* prefix ends inside and between bytes in a small instance too.           *)
(***************************************************************************)
EXTENDS Integers, Sequences, FiniteSets

CONSTANTS
  ByteBits,   \* bits of a byte (8)
  Bytes,      \* bytes of an address of each family (4 and 16)
  PrefixMod,  \* values of prefix_len, a uint8_t (256)
  PidMod,     \* values of pid_t and of uint32_t, bit for bit (2^32)
  None,       \* an option that is not given, an address that does not parse
  Args,       \* the arguments the command line may hold
  Packets,    \* the packets that may arrive, with their metadata
  MaxArgs     \* bound of the model: arguments of a command line

Family == {"v4", "v6"}
Side   == {"src", "dst"}
ProcField == {"pid", "cpid", "crid", "comm"}

Width(f)   == ByteBits * Bytes[f]
Address(f) == [1..Bytes[f] -> 0..2^ByteBits - 1]

\* A token of -src or -dst; prefix is what follows the slash, read as a
\* number (anything that is not one reads as 0), None without a slash.
TokenOf(f) ==
  [deny : BOOLEAN, family : {f}, prefix : Nat \cup {None},
   addr : Address(f) \cup {None}]

Token == TokenOf("v4") \cup TokenOf("v6")

Arg ==
  [opt : Side, list : Seq(Token)]
    \cup [opt : {"direction"}, value : {"ingress", "egress", None}]
    \cup [opt : {"sport", "dport"}, value : Nat \cup {None}]
    \cup [opt : ProcField, value : Nat \cup {None}]

\* meta holds 0 (for comm: no name) where nothing was found.
PacketOf(f) ==
  [family : {f}, src : Address(f), dst : Address(f), sport : Nat, dport : Nat,
   direction : {"ingress", "egress"}, meta : [ProcField -> Nat]]

Packet == PacketOf("v4") \cup PacketOf("v6")

NoMeta == [f \in ProcField |-> 0]

ASSUME FiltersAssumption ==
  /\ ByteBits \in Nat \ {0} /\ Bytes \in [Family -> Nat \ {0}]
  /\ PidMod \in Nat \ {0}
  /\ PrefixMod \in Nat /\ \A f \in Family : Width(f) < PrefixMod
  /\ None \notin Nat /\ None \notin {"ingress", "egress"}
  /\ \A f \in Family : None \notin Address(f)
  /\ MaxArgs \in Nat

ASSUME InputsAssumption == Args \subseteq Arg /\ Packets \subseteq Packet

VARIABLES
  cfg,     \* struct zwbee_config
  given,   \* arguments read
  stage,   \* "args", "run" or "refused"
  verdict  \* the last packet and whether it passed, None before the first

vars == <<cfg, given, stage, verdict>>

-----------------------------------------------------------------------------
Lesser(a, b) == IF a <= b THEN a ELSE b

RuleOf(f) ==
  [deny : BOOLEAN, family : {f}, prefix : 0..Width(f), addr : Address(f)]

Rule == RuleOf("v4") \cup RuleOf("v6")

MutUnclamped(t) == IF t.prefix = None THEN Width(t.family) ELSE t.prefix % PrefixMod

\* prefix_len: the cast to uint8_t comes before the clamp.
PrefixLen(t) ==
  IF t.prefix = None THEN Width(t.family)
  ELSE Lesser(t.prefix % PrefixMod, Width(t.family))

\* parse_cidr_rule, for a token whose address parses.
ParsedRule(t) ==
  [deny |-> t.deny, family |-> t.family, prefix |-> PrefixLen(t), addr |-> t.addr]

\* parse_cidr_list pushes rules up to the first token that does not parse.
Readable(list) == \A i \in 1..Len(list) : list[i].addr # None

Pushed(rules, list) ==
  rules \o [i \in 1..Len(list) |-> ParsedRule(list[i])]

-----------------------------------------------------------------------------
(* Matching.                                                               *)
Word(addr) ==
  LET word[i \in 0..Len(addr)] ==
        IF i = 0 THEN 0 ELSE word[i - 1] * 2^ByteBits + addr[i]
  IN  word[Len(addr)]

\* cidr_match_v4 compares what the mask leaves of two words.
MatchV4(rule, addr) ==
  LET hostBits == Width("v4") - rule.prefix
  IN  Word(rule.addr) \div 2^hostBits = Word(addr) \div 2^hostBits

MutWholeBytes(rule, addr) ==
  \A i \in 0..Len(addr) - 1 :
    rule.prefix - i * ByteBits > 0 => rule.addr[i + 1] = addr[i + 1]

\* cidr_match_v6 compares byte by byte while bits of the prefix remain.
MatchV6(rule, addr) ==
  \A i \in 0..Len(addr) - 1 :
    LET remain  == rule.prefix - i * ByteBits
        dropped == IF remain >= ByteBits THEN 0 ELSE ByteBits - remain
    IN  remain > 0
          => rule.addr[i + 1] \div 2^dropped = addr[i + 1] \div 2^dropped

Hits(rule, family, addr) ==
  /\ rule.family = family
  /\ IF family = "v4" THEN MatchV4(rule, addr) ELSE MatchV6(rule, addr)

MutFirstHitDecides(rules, family, addr) ==
  LET hits == {i \in 1..Len(rules) : Hits(rules[i], family, addr)}
  IN  hits = {} \/ ~rules[CHOOSE i \in hits : \A j \in hits : i <= j].deny

\* cidr_set_accepts: has_allow and allow_hit are both set by the same hit.
Accepts(rules, family, addr) ==
  LET hits     == {i \in 1..Len(rules) : Hits(rules[i], family, addr)}
      hasAllow == \E i \in hits : ~rules[i].deny
      allowHit == \E i \in hits : ~rules[i].deny
  IN  /\ ~\E i \in hits : rules[i].deny
      /\ ~hasAllow \/ allowHit

ProcFiltered == \E f \in ProcField : cfg.proc[f] # None

\* packet_matches_filters.  Its caller always passes the address of a meta,
\* so the test for a missing one never fires.
Matches(p) ==
  /\ cfg.direction \in {None, p.direction}
  /\ p.direction = "ingress" => cfg.sport \in {None, p.sport}
  /\ p.direction = "egress" => cfg.dport \in {None, p.dport}
  /\ Accepts(cfg.src, p.family, p.src)
  /\ Accepts(cfg.dst, p.family, p.dst)
  /\ \A f \in ProcField : cfg.proc[f] \in {None, p.meta[f]}

-----------------------------------------------------------------------------
Init ==
  /\ cfg = [src |-> <<>>, dst |-> <<>>, direction |-> None, sport |-> None,
            dport |-> None, proc |-> [f \in ProcField |-> None]]
  /\ given = 0
  /\ stage = "args"
  /\ verdict = None

Reading ==
  /\ stage = "args" /\ given < MaxArgs
  /\ given' = given + 1
  /\ UNCHANGED verdict

AddRules(arg) ==
  /\ Reading
  /\ arg.opt \in Side /\ Readable(arg.list)
  /\ cfg' = [cfg EXCEPT ![arg.opt] = Pushed(@, arg.list)]
  /\ UNCHANGED stage

SetFilter(arg) ==
  /\ Reading
  /\ arg.opt \in {"direction", "sport", "dport"} /\ arg.value # None
  /\ cfg' = [cfg EXCEPT ![arg.opt] = arg.value]
  /\ UNCHANGED stage

\* The value of -pid is cast to pid_t and that of -cpid to uint32_t, without
\* a check; -crid keeps all of its bits.
Cast(opt, value) == IF opt \in {"pid", "cpid"} THEN value % PidMod ELSE value

SetProcFilter(arg) ==
  /\ Reading
  /\ arg.opt \in ProcField /\ arg.value # None
  /\ cfg' = [cfg EXCEPT !.proc[arg.opt] = Cast(arg.opt, arg.value)]
  /\ UNCHANGED stage

\* A value that does not parse: main returns.
Refuse(arg) ==
  /\ Reading
  /\ IF arg.opt \in Side THEN ~Readable(arg.list) ELSE arg.value = None
  /\ stage' = "refused"
  /\ UNCHANGED cfg

Begin ==
  /\ stage = "args"
  /\ stage' = "run"
  /\ UNCHANGED <<cfg, given, verdict>>

HandlePacket(p) ==
  /\ stage = "run"
  /\ verdict' = [packet |-> p, passed |-> Matches(p)]
  /\ UNCHANGED <<cfg, given, stage>>

Next ==
  \/ \E arg \in Args :
       AddRules(arg) \/ SetFilter(arg) \/ SetProcFilter(arg) \/ Refuse(arg)
  \/ Begin
  \/ \E p \in Packets : HandlePacket(p)

Spec == Init /\ [][Next]_vars

-----------------------------------------------------------------------------
(* Properties.                                                             *)
TypeOK ==
  /\ cfg \in [src : Seq(Rule), dst : Seq(Rule),
              direction : {"ingress", "egress", None},
              sport : Nat \cup {None}, dport : Nat \cup {None},
              proc : [ProcField -> Nat \cup {None}]]
  /\ given \in 0..MaxArgs
  /\ stage \in {"args", "run", "refused"}
  /\ verdict \in [packet : Packets, passed : BOOLEAN] \cup {None}

Judged == verdict # None

Bit(addr, k) ==
  (addr[(k \div ByteBits) + 1] \div 2^(ByteBits - 1 - (k % ByteBits))) % 2

\* The address agrees with the rule's in every bit of the prefix.
Within(rule, addr) ==
  \A k \in 0..rule.prefix - 1 : Bit(rule.addr, k) = Bit(addr, k)

RulesOf(side) == {cfg[side][i] : i \in 1..Len(cfg[side])}

(* "deny wins": no packet passes whose source or destination lies in a     *)
(* denied network of its family, wherever the rule stands in the list and  *)
(* whatever else it lists.                                                 *)
DenyWins ==
  Judged /\ verdict.passed =>
    \A side \in Side : \A rule \in RulesOf(side) :
      rule.deny /\ rule.family = verdict.packet.family
        => ~Within(rule, verdict.packet[side])

(* The word compare of IPv4 and the byte loop of IPv6 both decide whether  *)
(* an address lies in a network, for every prefix, those that end inside a *)
(* byte, 0 and the whole address included.                                 *)
MatchIsPrefix ==
  Judged =>
    \A side \in Side : \A rule \in RulesOf(side) :
      rule.family = verdict.packet.family =>
        (Hits(rule, rule.family, verdict.packet[side])
           <=> Within(rule, verdict.packet[side]))

(* With an allow rule for its family, a packet passes only if an allowed   *)
(* network holds its address.                                              *)
AllowListHolds ==
  Judged /\ verdict.passed =>
    \A side \in Side :
      LET allowed == {rule \in RulesOf(side) :
                        ~rule.deny /\ rule.family = verdict.packet.family}
      IN  allowed # {} => \E rule \in allowed : Within(rule, verdict.packet[side])

(* With a process filter, no packet passes whose owner is not known.       *)
OwnerKnown ==
  Judged /\ verdict.passed /\ ProcFiltered => verdict.packet.meta # NoMeta
=============================================================================
