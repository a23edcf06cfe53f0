----------------------------- MODULE KernelFilter -----------------------------
(***************************************************************************)
(* The filter in the kernel, from -pcap-rules to the verdict on a frame:   *)
(* configure_capture_program (ebpf/zwbee.c) compiles the rules (the module *)
(* RuleCompiler) and writes them into capture_prog's maps, then the program*)
(* is attached, and every CPU that receives a frame runs it                *)
(* (ebpf/ebpf_capture.c).  With rules, capture_prog interprets them (the   *)
(* module PcapVM); without, it reads the headers (the module FrameHeaders) *)
(* and passes the conversations that look like HTTP, TLS or QUIC.          *)
(*                                                                         *)
(* The rules look at a frame's bytes and the built-in judgement at its     *)
(* headers: a frame of the model has both.  What the socket queues before  *)
(* the program is attached is the subject of CaptureProcess.               *)
(***************************************************************************)
EXTENDS RuleCompiler, FrameHeaders, FiniteSets

CONSTANTS
  Frames,            \* frames that arrive, of Header
  WellKnown,         \* the ends whose port is_http_https_port knows
  CPUs,
  IfIndex,           \* config.ifindex, 0 for every interface
  MaxTracked,        \* max_entries of tracked_flow_map
  NoFrame,           \* what a CPU handles when it handles none
  Matches(_, _)      \* whether the rules that tcpdump turned into a text mean a frame

ASSUME KernelFilterAssumption ==
  /\ IfIndex \in Nat /\ MaxTracked \in Nat \ {0, 1}
  /\ WellKnown \subseteq Ends
  /\ NoFrame \notin Frames /\ Frames \subseteq Header
  /\ \A f \in Frames :
       f.bytes \in Seq(0..ByteMod - 1) /\ KernelPayload(f) \subseteq Nat

VARIABLES
  stage,    \* "load", "configured", "attached" or "refused"
  insns,    \* the map pcap_insns, as far as it is written
  pcapLen,  \* config.pcap_len
  tracked,  \* the keys of tracked_flow_map
  storing,  \* per CPU, the frame whose conversation it is storing
  lost,     \* whether the map has dropped a key, or not taken one
  passed    \* the frames that the program has seen

mapVars    == <<insns, pcapLen>>
kernelVars == <<tracked, storing, lost, passed>>
filterVars == <<stage, mapVars, kernelVars>>
vars       == <<ruleVars, filterVars>>

-----------------------------------------------------------------------------
(* configure_capture_program and what open_and_attach_bpf does after it.   *)
Refuse == stage' = "refused" /\ UNCHANGED <<mapVars, kernelVars>>

ConfigureFails ==
  /\ step = "compiled" /\ stage \in {"load", "configured"}
  /\ Refuse /\ UNCHANGED ruleVars

WriteInsn ==
  /\ step = "compiled" /\ ok /\ stage = "load"
  /\ Len(insns) < Len(Compiled)
  /\ insns' = Append(insns, Compiled[Len(insns) + 1])
  /\ UNCHANGED <<ruleVars, stage, pcapLen, kernelVars>>

WriteConfig ==
  /\ step = "compiled" /\ ok /\ stage = "load"
  /\ Len(insns) = Len(Compiled)
  /\ pcapLen' = Len(Compiled)
  /\ stage' = "configured"
  /\ UNCHANGED <<ruleVars, insns, kernelVars>>

Attach ==
  /\ stage = "configured"
  /\ stage' = "attached"
  /\ UNCHANGED <<ruleVars, mapVars, kernelVars>>

-----------------------------------------------------------------------------
(* tracked_flow_map.  A key is a direction of a conversation.              *)
MutKey(f) == [net |-> f.net, l4 |-> "other", src |-> f.src, dst |-> f.dst]

Key(f) == [net |-> f.net, l4 |-> f.l4, src |-> f.src, dst |-> f.dst]

MutReverse(key) == key

Reverse(key) == [net |-> key.net, l4 |-> key.l4, src |-> key.dst, dst |-> key.src]

\* bpf_map_update_elem: a new key may push out another when the map is full,
\* and the call may fail, which nobody looks at.
Update(key) ==
  \/ /\ key \in tracked \/ Cardinality(tracked) < MaxTracked
     /\ tracked' = tracked \cup {key} /\ UNCHANGED lost
  \/ /\ key \notin tracked /\ Cardinality(tracked) >= MaxTracked
     /\ \E victim \in tracked : tracked' = (tracked \ {victim}) \cup {key}
     /\ lost' = TRUE
  \/ /\ key \notin tracked
     /\ lost' = TRUE /\ UNCHANGED tracked

-----------------------------------------------------------------------------
(* capture_prog.                                                           *)
OnInterface(f) == IfIndex = 0 \/ f.ifindex = IfIndex

\* What run_pcap_rules returns with the instructions that config counts.
RulesPass(f) == RunPcapRules(SubSeq(insns, 1, pcapLen), f.bytes) # 0

WellKnownPort(f) == {f.src, f.dst} \cap WellKnown # {}

Pass(f) == passed' = passed \cup {f} /\ UNCHANGED storing

Drop == UNCHANGED <<passed, storing>>

\* The rules, when there are some, have the only word.
JudgeByRules(f) ==
  /\ pcapLen > 0
  /\ IF RulesPass(f) THEN Pass(f) ELSE Drop
  /\ UNCHANGED <<tracked, lost>>

Tracked(f) == Key(f) \in tracked

PassTracked(f) ==
  /\ pcapLen = 0
  /\ KernelPayload(f) # {} /\ Tracked(f)
  /\ Pass(f)
  /\ UNCHANGED <<tracked, lost>>

Confirms(f) ==
  WellKnownPort(f) \/ \E start \in KernelPayload(f) : HasSignature(f, start)

\* A new conversation: tracked_flow_store writes its two directions one after
\* the other.  Another CPU may come between the lookup and the write, which
\* makes no difference: it can only write the same.
StoreFirst(cpu, f) ==
  /\ pcapLen = 0
  /\ KernelPayload(f) # {} /\ ~Tracked(f)
  /\ Confirms(f)
  /\ Update(Key(f))
  /\ storing' = [storing EXCEPT ![cpu] = f]
  /\ UNCHANGED passed

StoreReverse(cpu) ==
  /\ storing[cpu] # NoFrame
  /\ Update(Reverse(Key(storing[cpu])))
  /\ storing' = [storing EXCEPT ![cpu] = NoFrame]
  /\ passed' = passed \cup {storing[cpu]}
  /\ UNCHANGED <<ruleVars, stage, mapVars>>

DropOther(f) ==
  /\ pcapLen = 0
  /\ KernelPayload(f) = {} \/ (~Tracked(f) /\ ~Confirms(f))
  /\ Drop /\ UNCHANGED <<tracked, lost>>

Capture(cpu, f) ==
  /\ stage = "attached" /\ storing[cpu] = NoFrame
  /\ \/ ~OnInterface(f) /\ Drop /\ UNCHANGED <<tracked, lost>>
     \/ /\ OnInterface(f)
        /\ JudgeByRules(f) \/ PassTracked(f) \/ StoreFirst(cpu, f) \/ DropOther(f)
  /\ UNCHANGED <<ruleVars, stage, mapVars>>

-----------------------------------------------------------------------------
FilterInit ==
  /\ RuleInit
  /\ stage = "load"
  /\ insns = <<>> /\ pcapLen = 0
  /\ tracked = {} /\ lost = FALSE /\ passed = {}
  /\ storing = [cpu \in CPUs |-> NoFrame]

Configure == ConfigureFails \/ WriteInsn \/ WriteConfig \/ Attach

FilterNext ==
  \/ (RuleNext /\ UNCHANGED filterVars)
  \/ Configure
  \/ \E cpu \in CPUs : StoreReverse(cpu) \/ (\E f \in Frames : Capture(cpu, f))

FilterSpec == FilterInit /\ [][FilterNext]_vars

\* The program and tcpdump are scheduled.
FairFilterSpec == FilterSpec /\ RuleFairness /\ WF_vars(Configure)

-----------------------------------------------------------------------------
TypeOK ==
  /\ stage \in {"load", "configured", "attached", "refused"}
  /\ read \in Seq(Line) /\ pipe \in Seq(Line) /\ insns \in Seq(Insn)
  /\ pcapLen \in 0..MaxInsns
  /\ Cardinality(tracked) <= MaxTracked
  /\ storing \in [CPUs -> Frames \cup {NoFrame}]
  /\ passed \subseteq Frames

(* The frames that pass are those that the rules mean: whatever way the    *)
(* expression took through tcpdump, the pipe, the maps and the interpreter,*)
(* capture_prog's verdict on a frame is what the rules say of its bytes.   *)
RulesAgree ==
  stage = "attached" /\ pcapLen > 0 =>
    \A f \in Frames : RulesPass(f) <=> Matches(text, f)

\* The same conversation, in one direction or the other.
SameConversation(f, g) ==
  /\ f.net = g.net /\ f.l4 = g.l4
  /\ {f.src, f.dst} = {g.src, g.dst}

\* A frame that speaks for its conversation: it is readable, and has a port
\* of HTTP or, in its payload, a whole signature.
Speaks(f) ==
  \E start \in KernelPayload(f) :
    \/ WellKnownPort(f)
    \/ \E s \in f.signatures : start + s.at + SignatureLen(s) <= f.size

BuiltIn == stage = "attached" /\ pcapLen = 0

(* Without rules a frame only reaches the program if some frame of the     *)
(* same conversation has spoken for it, and only from the interface wanted:*)
(* conversations never borrow each other's confirmation.                   *)
PassesForCause ==
  BuiltIn =>
    \A f \in passed :
      /\ OnInterface(f)
      /\ \E g \in passed \cup ({storing[cpu] : cpu \in CPUs} \ {NoFrame}) :
           Speaks(g) /\ SameConversation(f, g)

(* Once a frame of a conversation has passed, both its directions pass: as *)
(* long as the LRU map has not dropped anything and no CPU is between its  *)
(* two writes, no half of a conversation is missing.                       *)
WholeConversation ==
  BuiltIn /\ ~lost /\ (\A cpu \in CPUs : storing[cpu] = NoFrame) =>
    \A g \in passed, f \in Frames :
      SameConversation(f, g) /\ KernelPayload(f) # {} => Tracked(f)

\* The reserved byte of a fragment header is zero, as the RFC has it.
Compliant(f) ==
  \A i \in DOMAIN f.exts : f.exts[i].kind = "frag" => f.exts[i].hdrlen = 0

(* What the kernel lets through the program can read: parse_packet finds   *)
(* the same payload in a frame with at most one VLAN tag, though the two   *)
(* walk the headers with different code.                                   *)
PassedParses ==
  BuiltIn =>
    \A f \in passed :
      f.tags <= 1 /\ Compliant(f) => ParsedPayload(f) = KernelPayload(f)

(* The start is decided: neither zwbee nor tcpdump waits for the other for *)
(* ever, not when the output is larger than the pipe, not when the reader  *)
(* gives up early and not when tcpdump dies.                               *)
StartDecided == <>(stage \in {"attached", "refused"})
=============================================================================
