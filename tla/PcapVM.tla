-------------------------------- MODULE PcapVM --------------------------------
(***************************************************************************)
(* The interpreter of classic BPF in capture_prog (ebpf/ebpf_capture.c,    *)
(* run_pcap_rules): what a program of -pcap-rules makes of a frame.        *)
(*                                                                         *)
(* Registers, offsets and the program counter are __u32 and wrap.  The     *)
(* widths are parameters: a byte is two nibbles and a word four bytes, so  *)
(* that sums wrap in a small instance too.  A frame is its bytes.          *)
(***************************************************************************)
EXTENDS Integers, Sequences

CONSTANTS
  NibbleBits,  \* bits of a nibble (4)
  MaxInsns     \* PCAP_RULES_MAX_INSNS

ASSUME PcapVMAssumption == NibbleBits \in Nat \ {0} /\ MaxInsns \in Nat \ {0}

ByteMod  == 2^(2 * NibbleBits)
WordBits == 8 * NibbleBits
Word     == 2^WordBits

\* The instructions that the interpreter knows; size is the bytes of a load.
\* Any other opcode is one "other".
Insn ==
  [op : {"ldabs", "ldind", "ldxmsh", "and", "ja", "jeq", "jge", "jgt", "jset",
         "ret", "other"},
   size : {1, 2, 4}, jt : 0..ByteMod - 1, jf : 0..ByteMod - 1, k : 0..Word - 1]

-----------------------------------------------------------------------------
(* Arithmetic of __u32.                                                    *)
Plus(a, b) == (a + b) % Word

Bit(a, n) == (a \div 2^n) % 2

BitAnd(a, b) ==
  LET low[n \in 0..WordBits] ==
        IF n = 0 THEN 0 ELSE low[n - 1] + 2^(n - 1) * Bit(a, n - 1) * Bit(b, n - 1)
  IN  low[WordBits]

\* load_byte, load_half and load_word: n bytes from offset, in network order.
\* The comparison is made in 64 bits and does not wrap.
InFrame(frame, offset, n) == offset + n <= Len(frame)

Loaded(frame, offset, n) ==
  LET value[i \in 0..n] ==
        IF i = 0 THEN 0 ELSE value[i - 1] * ByteMod + frame[offset + i]
  IN  value[n]

-----------------------------------------------------------------------------
(* The machine: the program counter, the two registers, and what the       *)
(* program has returned, Running while it has not.                         *)
Running == -1

Start == [pc |-> 0, a |-> 0, x |-> 0, returned |-> Running]

Return(m, value) == [m EXCEPT !.returned = value]

Advance(m) == [m EXCEPT !.pc = @ + 1]

\* A jump that does not go forward, because the sum wrapped, ends the program.
Jump(m, distance) ==
  LET next == Plus(m.pc + 1, distance)
  IN  IF next <= m.pc THEN Return(m, 0) ELSE [m EXCEPT !.pc = next]

MutOffset(m, insn) == IF insn.op = "ldind" THEN {Plus(m.x, insn.k)} ELSE {insn.k}

\* Where a load reads, nowhere if the sum wraps: a set of at most one offset.
Offset(m, insn) ==
  IF insn.op = "ldind"
  THEN {o \in {Plus(m.x, insn.k)} : o >= m.x}
  ELSE {insn.k}

Load(m, insn, frame) ==
  IF \E o \in Offset(m, insn) : InFrame(frame, o, insn.size)
  THEN Advance([m EXCEPT !.a = Loaded(frame, CHOOSE o \in Offset(m, insn) : TRUE,
                                      insn.size)])
  ELSE Return(m, 0)

\* BPF_LDX|BPF_B|BPF_MSH: four times the low nibble, the length of an IP header.
LoadHeaderLength(m, insn, frame) ==
  IF InFrame(frame, insn.k, 1)
  THEN Advance([m EXCEPT !.x = 4 * (Loaded(frame, insn.k, 1) % 2^NibbleBits)])
  ELSE Return(m, 0)

Holds(m, insn) ==
  CASE insn.op = "jeq"  -> m.a = insn.k
    [] insn.op = "jge"  -> m.a >= insn.k
    [] insn.op = "jgt"  -> m.a > insn.k
    [] insn.op = "jset" -> BitAnd(m.a, insn.k) # 0

Execute(m, insn, frame) ==
  CASE insn.op \in {"ldabs", "ldind"} -> Load(m, insn, frame)
    [] insn.op = "ldxmsh" -> LoadHeaderLength(m, insn, frame)
    [] insn.op = "and"    -> Advance([m EXCEPT !.a = BitAnd(@, insn.k)])
    [] insn.op = "ja"     -> Jump(m, insn.k)
    [] insn.op = "ret"    -> Return(m, insn.k)
    [] insn.op = "other"  -> Return(m, 0)
    [] OTHER -> Jump(m, IF Holds(m, insn) THEN insn.jt ELSE insn.jf)

\* It rests when it has returned, and when it runs past the program's end.
Halted(m, prog) == m.returned # Running \/ m.pc >= Len(prog)

Step(m, prog, frame) ==
  IF Halted(m, prog) THEN m ELSE Execute(m, prog[m.pc + 1], frame)

\* The machine after each of the at most MaxInsns steps of the loop.
Machine(prog, frame) ==
  LET run[n \in 0..MaxInsns] ==
        IF n = 0 THEN Start ELSE Step(run[n - 1], prog, frame)
  IN  run

\* A program that runs past its end returns 0.
RunPcapRules(prog, frame) ==
  LET value == Machine(prog, frame)[MaxInsns].returned
  IN  IF Len(prog) > MaxInsns \/ value = Running THEN 0 ELSE value
=============================================================================
