-------------------------- MODULE KernelFilterProofs --------------------------
(***************************************************************************)
(* Proofs about KernelFilter: what the compiler accepts, and what the      *)
(* built-in judgement lets through, for every output of tcpdump, every set *)
(* of frames, any number of CPUs and any size of tracked_flow_map.         *)
(***************************************************************************)
EXTENDS KernelFilter, FiniteSetTheorems, WellFoundedInduction, TLAPS

-----------------------------------------------------------------------------
(* The compiler.                                                           *)
Early == {"pipe", "fork"}
Late  == {"close", "wait", "compiled"}

RuleTypes ==
  /\ step \in Early \cup {"open", "read"} \cup Late
  /\ ok \in BOOLEAN
  /\ read \in Seq(Line) /\ pipe \in Seq(Line) /\ text \in Seq(Line)
  /\ printed \in Nat
  /\ child \in {"none", "forked", "prints"} \cup Dead

\* Before tcpdump runs there is nothing, and it runs from the fork on.
NothingYet ==
  /\ child = "none" => step \in Early \cup {"compiled"}
  /\ step \in Early => child = "none"
  /\ child \in {"none", "forked"} => text = <<>> /\ printed = 0
  /\ step \in Early \cup {"open"} => read = <<>>

\* What was read, and then what is in the pipe, is what was printed.
Copied ==
  ok =>
    /\ Len(read) + Len(pipe) = printed /\ printed <= Len(text)
    /\ \A i \in 1..Len(read) : read[i] = text[i]
    /\ \A i \in 1..Len(pipe) : pipe[i] = text[Len(read) + i]

\* The reader stops at the number of instructions that was announced.
AsDeclared ==
  /\ read # <<>> => /\ Declared(read) \in 1..MaxInsns
                    /\ Len(read) <= Declared(read) + 1
  /\ ok /\ step \in Late /\ child # "none" =>
       read # <<>> /\ Len(read) = Declared(read) + 1

\* A program that was accepted has an end of which tcpdump is sure.
Accepted == step = "compiled" /\ ok => child \in {"none", "exited"}

RInv == RuleTypes /\ NothingYet /\ Copied /\ AsDeclared /\ Accepted

-----------------------------------------------------------------------------
(* The filter.                                                             *)
\* The frames that have passed, and those that a CPU is about to pass.
Stored == {storing[cpu] : cpu \in CPUs} \ {NoFrame}

Handled == passed \cup Stored

FilterTypes ==
  /\ storing \in [CPUs -> Frames \cup {NoFrame}]
  /\ passed \subseteq Frames
  /\ lost \in BOOLEAN

\* Nothing is judged before the program is attached.
Idle == stage # "attached" => passed = {} /\ tracked = {} /\ Stored = {}

\* Every key in the map was written for a frame that spoke.
Spoken ==
  pcapLen = 0 =>
    /\ \A f \in Handled : OnInterface(f) /\ KernelPayload(f) # {}
    /\ \A f \in Stored : Speaks(f)
    /\ \A key \in tracked :
         \E g \in Handled : Speaks(g) /\ key \in {Key(g), Reverse(Key(g))}
    /\ \A f \in passed : \E g \in Handled : Speaks(g) /\ SameConversation(f, g)

\* As long as the map forgets nothing, a key is there with its reverse, or a
\* CPU is about to write it.
Paired ==
  pcapLen = 0 /\ ~lost =>
    /\ \A f \in Handled : Key(f) \in tracked
    /\ \A key \in tracked :
         Reverse(key) \in tracked \/ \E f \in Stored : Key(f) = key

FInv == FilterTypes /\ Idle /\ Spoken /\ Paired

IInv == RInv /\ FInv

-----------------------------------------------------------------------------
(* Each step of zwbee and of tcpdump keeps the compiler's invariant.       *)
USE DEF Early, Late, Dead

LEMMA NoRulesKeeps ==
  ASSUME RInv, NoRules
  PROVE  RInv'
<1> USE DEF RInv, RuleTypes, NoRules, Follows, compilerVars, childVars
<1>1. RuleTypes'
  OBVIOUS
<1>2. NothingYet'
  BY DEF NothingYet
<1>3. Copied'
  BY DEF Copied, NothingYet
<1>4. AsDeclared'
  BY DEF AsDeclared, NothingYet
<1>5. Accepted'
  BY DEF Accepted, NothingYet
<1> QED
  BY <1>1, <1>2, <1>3, <1>4, <1>5

LEMMA NoChildKeeps ==
  ASSUME RInv, NoChild
  PROVE  RInv'
<1> USE DEF RInv, RuleTypes, NoChild, Follows, compilerVars, childVars
<1>1. RuleTypes'
  OBVIOUS
<1>2. NothingYet'
  BY DEF NothingYet
<1>3. Copied'
  BY DEF Copied, NothingYet
<1>4. AsDeclared'
  BY DEF AsDeclared, NothingYet
<1>5. Accepted'
  BY DEF Accepted, NothingYet
<1> QED
  BY <1>1, <1>2, <1>3, <1>4, <1>5

LEMMA MakePipeKeeps ==
  ASSUME RInv, MakePipe
  PROVE  RInv'
<1> USE DEF RInv, RuleTypes, MakePipe, Follows, compilerVars, childVars
<1>1. RuleTypes'
  OBVIOUS
<1>2. NothingYet'
  BY DEF NothingYet
<1>3. Copied'
  BY DEF Copied, NothingYet
<1>4. AsDeclared'
  BY DEF AsDeclared, NothingYet
<1>5. Accepted'
  BY DEF Accepted, NothingYet
<1> QED
  BY <1>1, <1>2, <1>3, <1>4, <1>5

LEMMA ForkTcpdumpKeeps ==
  ASSUME RInv, ForkTcpdump
  PROVE  RInv'
<1> USE DEF RInv, RuleTypes, ForkTcpdump, Follows, compilerVars, childVars
<1>1. RuleTypes'
  OBVIOUS
<1>2. NothingYet'
  BY DEF NothingYet
<1>3. Copied'
  BY DEF Copied, NothingYet
<1>4. AsDeclared'
  BY DEF AsDeclared, NothingYet
<1>5. Accepted'
  BY DEF Accepted, NothingYet
<1> QED
  BY <1>1, <1>2, <1>3, <1>4, <1>5

LEMMA OpenPipeKeeps ==
  ASSUME RInv, OpenPipe
  PROVE  RInv'
<1> USE DEF RInv, RuleTypes, OpenPipe, Follows, compilerVars, childVars
<1>1. RuleTypes'
  OBVIOUS
<1>2. NothingYet'
  BY DEF NothingYet
<1>3. Copied'
  BY DEF Copied, NothingYet
<1>4. AsDeclared'
  BY DEF AsDeclared, NothingYet
<1>5. Accepted'
  BY DEF Accepted, NothingYet
<1> QED
  BY <1>1, <1>2, <1>3, <1>4, <1>5

LEMMA ReadLineKeeps ==
  ASSUME RInv, ReadLine
  PROVE  RInv'
<1> USE DEF RInv, ReadLine, Follows, childVars
<1>0. /\ pipe \in Seq(Line) /\ pipe # <<>> /\ read \in Seq(Line)
      /\ pipe' = Tail(pipe) /\ text' = text /\ printed' = printed
  BY DEF RuleTypes
<1>a. /\ Head(pipe) \in Line /\ Head(pipe) = pipe[1]
      /\ pipe' \in Seq(Line) /\ Len(pipe') = Len(pipe) - 1
      /\ \A i \in 1..Len(pipe') : pipe'[i] = pipe[i + 1]
      /\ Len(pipe) \in Nat \ {0} /\ Len(read) \in Nat
  BY <1>0
<1>b. ASSUME Good(Head(pipe), read)
      PROVE  /\ read' = Append(read, Head(pipe))
             /\ read' \in Seq(Line) /\ Len(read') = Len(read) + 1
             /\ \A i \in 1..Len(read) : read'[i] = read[i]
             /\ read'[Len(read) + 1] = pipe[1]
             /\ step' = step /\ ok' = ok /\ read' # <<>>
  BY <1>0, <1>a, <1>b
<1>1. RuleTypes'
  <2>1. read' \in Seq(Line)
    BY <1>0, <1>b
  <2> QED
    BY <2>1, <1>0, <1>a DEF RuleTypes
<1>2. NothingYet'
  BY DEF NothingYet, RuleTypes
<1>3. Copied'
  <2>1. CASE Good(Head(pipe), read)
    <3>1. SUFFICES ASSUME ok
                   PROVE  Copied'
      BY <2>1, <1>b DEF Copied
    <3>2. /\ Len(read) + Len(pipe) = printed /\ printed <= Len(text)
          /\ \A i \in 1..Len(read) : read[i] = text[i]
          /\ \A i \in 1..Len(pipe) : pipe[i] = text[Len(read) + i]
      BY <3>1 DEF Copied
    <3> HIDE DEF ReadLine, RInv
    <3>a. Len(read') = Len(read) + 1 /\ Len(pipe') = Len(pipe) - 1
      BY <2>1, <1>a, <1>b
    <3>3. Len(read') + Len(pipe') = printed'
      BY <3>a, <3>2, <1>0, <1>a
    <3>4. pipe[1] = text[Len(read) + 1]
      BY <3>2, <1>a
    <3>b. /\ \A i \in 1..Len(read) : read'[i] = read[i]
          /\ read'[Len(read) + 1] = pipe[1]
      BY <2>1, <1>b
    <3>5. \A i \in 1..Len(read') : read'[i] = text[i]
      <4>1. SUFFICES ASSUME NEW i \in 1..Len(read) + 1
                     PROVE  read'[i] = text[i]
        BY <3>a
      <4>2. CASE i \in 1..Len(read)
        BY <4>2, <3>2, <3>b
      <4>3. CASE i = Len(read) + 1
        BY <4>3, <3>4, <3>b
      <4> QED
        BY <4>2, <4>3, <1>a
    <3>6. \A i \in 1..Len(pipe') : pipe'[i] = text[Len(read') + i]
      BY <2>1, <3>2, <1>a, <1>b
    <3> QED
      BY <3>2, <3>3, <3>5, <3>6, <1>0 DEF Copied
  <2>2. CASE ~Good(Head(pipe), read)
    BY <2>2 DEF Copied
  <2> QED
    BY <2>1, <2>2
<1>4. AsDeclared'
  <2>1. CASE Good(Head(pipe), read) /\ read = <<>>
    <3>1. read'[1] = Head(pipe) /\ Len(read') = 1
      BY <2>1, <1>a, <1>b
    <3>2. Head(pipe).count \in 1..MaxInsns
      BY <2>1 DEF Good
    <3> QED
      BY <2>1, <3>1, <3>2, <1>b, PcapVMAssumption DEF AsDeclared, Declared
  <2>2. CASE Good(Head(pipe), read) /\ read # <<>>
    <3>1. read'[1] = read[1] /\ Len(read') = Len(read) + 1
      BY <2>2, <1>0, <1>b
    <3>2. Len(read) <= Declared(read) /\ Declared(read) \in 1..MaxInsns
      BY <2>2 DEF ReadsOn, AsDeclared
    <3>3. Declared(read') = Declared(read)
      BY <3>1 DEF Declared
    <3> QED
      BY <2>2, <3>1, <3>2, <3>3, <1>a, <1>b, PcapVMAssumption DEF AsDeclared
  <2>3. CASE ~Good(Head(pipe), read)
    <3>1. read' = read /\ ok' = FALSE
      BY <2>3
    <3> QED
      BY <3>1 DEF AsDeclared, Declared
  <2> QED
    BY <2>1, <2>2, <2>3
<1>5. Accepted'
  BY DEF Accepted
<1> QED
  BY <1>1, <1>2, <1>3, <1>4, <1>5

LEMMA ReadEofKeeps ==
  ASSUME RInv, ReadEof
  PROVE  RInv'
<1> USE DEF RInv, RuleTypes, ReadEof, Follows, compilerVars, childVars
<1>1. RuleTypes'
  OBVIOUS
<1>2. NothingYet'
  BY DEF NothingYet
<1>3. Copied'
  BY DEF Copied, NothingYet
<1>4. AsDeclared'
  BY DEF AsDeclared, NothingYet
<1>5. Accepted'
  BY DEF Accepted, NothingYet
<1> QED
  BY <1>1, <1>2, <1>3, <1>4, <1>5

LEMMA ReadAllKeeps ==
  ASSUME RInv, ReadAll
  PROVE  RInv'
<1> USE DEF RInv, RuleTypes, ReadAll, Follows, compilerVars, childVars, ReadsOn
<1>1. RuleTypes'
  OBVIOUS
<1>2. NothingYet'
  BY DEF NothingYet
<1>3. Copied'
  BY DEF Copied, NothingYet
<1>4. AsDeclared'
  BY DEF AsDeclared, NothingYet
<1>5. Accepted'
  BY DEF Accepted, NothingYet
<1> QED
  BY <1>1, <1>2, <1>3, <1>4, <1>5

LEMMA ClosePipeKeeps ==
  ASSUME RInv, ClosePipe
  PROVE  RInv'
<1> USE DEF RInv, RuleTypes, ClosePipe, Follows, compilerVars, childVars
<1>1. RuleTypes'
  OBVIOUS
<1>2. NothingYet'
  BY DEF NothingYet
<1>3. Copied'
  BY DEF Copied, NothingYet
<1>4. AsDeclared'
  BY DEF AsDeclared, NothingYet
<1>5. Accepted'
  BY DEF Accepted, NothingYet
<1> QED
  BY <1>1, <1>2, <1>3, <1>4, <1>5

LEMMA WaitForChildKeeps ==
  ASSUME RInv, WaitForChild
  PROVE  RInv'
<1> USE DEF RInv, RuleTypes, WaitForChild, Follows, compilerVars, childVars, Succeeded
<1>1. RuleTypes'
  OBVIOUS
<1>2. NothingYet'
  BY DEF NothingYet
<1>3. Copied'
  BY DEF Copied, NothingYet
<1>4. AsDeclared'
  BY DEF AsDeclared, NothingYet
<1>5. Accepted'
  BY DEF Accepted, NothingYet
<1> QED
  BY <1>1, <1>2, <1>3, <1>4, <1>5

LEMMA ExecKeeps ==
  ASSUME RInv, Exec
  PROVE  RInv'
<1> USE DEF RInv, RuleTypes, Exec, compilerVars
<1>1. RuleTypes'
  BY RuleCompilerAssumption
<1>2. NothingYet'
  BY DEF NothingYet
<1>3. Copied'
  BY RuleCompilerAssumption DEF Copied, NothingYet
<1>4. AsDeclared'
  BY DEF AsDeclared, NothingYet, Declared
<1>5. Accepted'
  BY DEF Accepted, NothingYet
<1> QED
  BY <1>1, <1>2, <1>3, <1>4, <1>5

LEMMA PrintLineKeeps ==
  ASSUME RInv, PrintLine
  PROVE  RInv'
<1> USE DEF RInv, PrintLine, compilerVars
<1>0. /\ text \in Seq(Line) /\ pipe \in Seq(Line) /\ read \in Seq(Line)
      /\ printed \in Nat /\ printed < Len(text)
  BY DEF RuleTypes
<1>a. text[printed + 1] \in Line
  BY <1>0
<1>b. /\ pipe' \in Seq(Line) /\ Len(pipe') = Len(pipe) + 1
      /\ \A i \in 1..Len(pipe) : pipe'[i] = pipe[i]
      /\ pipe'[Len(pipe) + 1] = text[printed + 1]
      /\ Len(pipe) \in Nat /\ Len(read) \in Nat
  BY <1>0, <1>a
<1>1. RuleTypes'
  BY <1>0, <1>b DEF RuleTypes
<1>2. NothingYet'
  BY DEF NothingYet
<1>3. Copied'
  <2>1. SUFFICES ASSUME ok
                 PROVE  Copied'
    BY DEF Copied
  <2>2. /\ Len(read) + Len(pipe) = printed /\ printed <= Len(text)
        /\ \A i \in 1..Len(read) : read[i] = text[i]
        /\ \A i \in 1..Len(pipe) : pipe[i] = text[Len(read) + i]
    BY <2>1 DEF Copied
  <2>3. \A i \in 1..Len(pipe') : pipe'[i] = text[Len(read) + i]
    <3>1. Len(read) + (Len(pipe) + 1) = printed + 1
      BY <2>2, <1>0, <1>b
    <3>2. pipe'[Len(pipe) + 1] = text[Len(read) + (Len(pipe) + 1)]
      BY <3>1, <1>b
    <3> QED
      BY <3>2, <2>2, <1>b
  <2>4. Len(read) + Len(pipe') = printed + 1 /\ printed + 1 <= Len(text)
    BY <2>2, <1>0, <1>b
  <2> QED
    BY <2>2, <2>3, <2>4 DEF Copied
<1>4. AsDeclared'
  BY DEF AsDeclared, Declared
<1>5. Accepted'
  BY DEF Accepted
<1> QED
  BY <1>1, <1>2, <1>3, <1>4, <1>5

LEMMA PipeBreaksKeeps ==
  ASSUME RInv, PipeBreaks
  PROVE  RInv'
<1> USE DEF RInv, RuleTypes, PipeBreaks, Follows, compilerVars, childVars
<1>1. RuleTypes'
  OBVIOUS
<1>2. NothingYet'
  BY DEF NothingYet
<1>3. Copied'
  BY DEF Copied, NothingYet
<1>4. AsDeclared'
  BY DEF AsDeclared, NothingYet
<1>5. Accepted'
  BY DEF Accepted, NothingYet
<1> QED
  BY <1>1, <1>2, <1>3, <1>4, <1>5

LEMMA ExitsKeeps ==
  ASSUME RInv, Exits
  PROVE  RInv'
<1> USE DEF RInv, RuleTypes, Exits, Follows, compilerVars, childVars
<1>1. RuleTypes'
  OBVIOUS
<1>2. NothingYet'
  BY DEF NothingYet
<1>3. Copied'
  BY DEF Copied, NothingYet
<1>4. AsDeclared'
  BY DEF AsDeclared, NothingYet
<1>5. Accepted'
  BY DEF Accepted, NothingYet
<1> QED
  BY <1>1, <1>2, <1>3, <1>4, <1>5

LEMMA KilledKeeps ==
  ASSUME RInv, Killed
  PROVE  RInv'
<1> USE DEF RInv, RuleTypes, Killed, Follows, compilerVars, childVars
<1>1. RuleTypes'
  OBVIOUS
<1>2. NothingYet'
  BY DEF NothingYet
<1>3. Copied'
  BY DEF Copied, NothingYet
<1>4. AsDeclared'
  BY DEF AsDeclared, NothingYet
<1>5. Accepted'
  BY DEF Accepted, NothingYet
<1> QED
  BY <1>1, <1>2, <1>3, <1>4, <1>5

LEMMA RuleStepKeeps ==
  ASSUME RInv, RuleNext
  PROVE  RInv'
BY NoRulesKeeps, NoChildKeeps, MakePipeKeeps, ForkTcpdumpKeeps, OpenPipeKeeps,
   ReadLineKeeps, ReadEofKeeps, ReadAllKeeps, ClosePipeKeeps, WaitForChildKeeps,
   ExecKeeps, PrintLineKeeps, PipeBreaksKeeps, ExitsKeeps, KilledKeeps
   DEF RuleNext, Parent, Tcpdump

-----------------------------------------------------------------------------
(* What the keys and the map do.                                           *)
LEMMA Keys ==
  ASSUME NEW f \in Frames
  PROVE  /\ Reverse(Key(f)) = [net |-> f.net, l4 |-> f.l4, src |-> f.dst, dst |-> f.src]
         /\ Reverse(Reverse(Key(f))) = Key(f)
BY DEF Key, Reverse

\* A conversation has two keys.
LEMMA SameKeys ==
  ASSUME NEW f \in Frames, NEW g \in Frames
  PROVE  SameConversation(f, g) <=> Key(f) \in {Key(g), Reverse(Key(g))}
<1>1. ASSUME SameConversation(f, g)
      PROVE  Key(f) \in {Key(g), Reverse(Key(g))}
  <2>1. (f.src = g.src /\ f.dst = g.dst) \/ (f.src = g.dst /\ f.dst = g.src)
    BY <1>1 DEF SameConversation
  <2> QED
    BY <1>1, <2>1, Keys DEF SameConversation, Key
<1>2. ASSUME Key(f) \in {Key(g), Reverse(Key(g))}
      PROVE  SameConversation(f, g)
  <2>1. CASE Key(f) = Key(g)
    <3>1. Key(f).net = f.net /\ Key(f).l4 = f.l4 /\ Key(f).src = f.src /\ Key(f).dst = f.dst
      BY DEF Key
    <3>2. Key(g).net = g.net /\ Key(g).l4 = g.l4 /\ Key(g).src = g.src /\ Key(g).dst = g.dst
      BY DEF Key
    <3> QED
      BY <2>1, <3>1, <3>2 DEF SameConversation
  <2>2. CASE Key(f) = Reverse(Key(g))
    <3>1. Key(f).net = f.net /\ Key(f).l4 = f.l4 /\ Key(f).src = f.src /\ Key(f).dst = f.dst
      BY DEF Key
    <3>2. /\ Reverse(Key(g)).net = g.net /\ Reverse(Key(g)).l4 = g.l4
          /\ Reverse(Key(g)).src = g.dst /\ Reverse(Key(g)).dst = g.src
      BY Keys
    <3> QED
      BY <2>2, <3>1, <3>2 DEF SameConversation
  <2> QED
    BY <1>2, <2>1, <2>2
<1> QED
  BY <1>1, <1>2

\* A write adds its key or loses something, and says so.
LEMMA Updates ==
  ASSUME NEW key, Update(key), lost \in BOOLEAN
  PROVE  /\ lost' \in BOOLEAN
         /\ tracked' \subseteq tracked \cup {key}
         /\ ~lost' => ~lost /\ tracked' = tracked \cup {key}
<1>1. CASE tracked' = tracked \cup {key} /\ UNCHANGED lost
  BY <1>1
<1>2. CASE lost' = TRUE /\ tracked' \subseteq tracked \cup {key}
  BY <1>2
<1>3. ASSUME NEW victim \in tracked, tracked' = (tracked \ {victim}) \cup {key}
      PROVE  tracked' \subseteq tracked \cup {key}
  BY <1>3
<1> QED
  BY <1>1, <1>2, <1>3 DEF Update

\* A frame whose signature the window shows has the signature.
LEMMA ConfirmedSpeaks ==
  ASSUME NEW f \in Frames, KernelPayload(f) # {}, Confirms(f)
  PROVE  Speaks(f)
<1>1. f.size \in Nat /\ KernelPayload(f) \subseteq Nat
  BY KernelFilterAssumption DEF Header
<1>2. CASE WellKnownPort(f)
  BY <1>2 DEF Speaks
<1>3. CASE ~WellKnownPort(f)
  <2>1. PICK start \in KernelPayload(f) : HasSignature(f, start)
    BY <1>3 DEF Confirms
  <2>2. PICK window \in Windows(f.size - start), s \in f.signatures :
          s.at + SignatureLen(s) <= window
    BY <2>1 DEF HasSignature
  <2>3. window \in Nat /\ window <= f.size - start
    BY <2>2 DEF Windows
  <2>4. s \in Signature
    BY <2>2, KernelFilterAssumption DEF Header
  <2>5. s.at \in Nat /\ SignatureLen(s) \in Nat
    BY <2>4 DEF Signature, SignatureLen
  <2>6. start + s.at + SignatureLen(s) <= f.size
    BY <1>1, <2>1, <2>2, <2>3, <2>5
  <2> QED
    BY <2>1, <2>2, <2>6 DEF Speaks
<1> QED
  BY <1>2, <1>3

-----------------------------------------------------------------------------
(* Each step keeps the filter's invariant.                                 *)
LEMMA NothingJudged ==
  ASSUME FInv, UNCHANGED <<stage, pcapLen, kernelVars>>
  PROVE  FInv'
BY DEF FInv, FilterTypes, Idle, Spoken, Paired, kernelVars, Stored, Handled

\* Before it is attached the program has judged nothing.
LEMMA ConfigureKeeps ==
  ASSUME FInv, Configure
  PROVE  FInv'
<1>1. stage # "attached" /\ UNCHANGED kernelVars
  BY DEF Configure, ConfigureFails, Refuse, WriteInsn, WriteConfig, Attach
<1>2. passed' = {} /\ tracked' = {} /\ Stored' = {} /\ UNCHANGED kernelVars
  BY <1>1 DEF FInv, Idle, kernelVars, Stored
<1>3. FilterTypes'
  BY <1>2 DEF FInv, FilterTypes, kernelVars
<1>4. Handled' = {}
  BY <1>2 DEF Handled
<1> QED
  BY <1>2, <1>3, <1>4 DEF FInv, Idle, Spoken, Paired

LEMMA RulesKeep ==
  ASSUME FInv, NEW f \in Frames, stage = "attached",
         JudgeByRules(f), UNCHANGED <<stage, mapVars>>
  PROVE  FInv'
<1>1. pcapLen' > 0 /\ pcapLen' # 0 /\ stage' = "attached" /\ UNCHANGED <<tracked, lost, storing>>
  <2>1. pcapLen > 0 /\ pcapLen' = pcapLen
    BY DEF JudgeByRules, mapVars
  <2> QED
    BY <2>1 DEF JudgeByRules, Pass, Drop
<1>2. passed' \subseteq Frames
  BY DEF JudgeByRules, Pass, Drop, FInv, FilterTypes
<1>3. FilterTypes'
  BY <1>1, <1>2 DEF FInv, FilterTypes
<1> QED
  BY <1>1, <1>3 DEF FInv, Idle, Spoken, Paired

LEMMA PassTrackedKeeps ==
  ASSUME FInv, NEW f \in Frames, stage = "attached", OnInterface(f),
         PassTracked(f), UNCHANGED <<stage, mapVars>>
  PROVE  FInv'
<1>1. /\ pcapLen' = 0 /\ pcapLen = 0 /\ stage' = "attached"
      /\ UNCHANGED <<tracked, lost, storing>> /\ passed' = passed \cup {f}
      /\ KernelPayload(f) # {} /\ Key(f) \in tracked
  BY DEF PassTracked, Pass, Tracked, mapVars
<1>2. Stored' = Stored /\ Handled' = Handled \cup {f}
  BY <1>1 DEF Stored, Handled
<1>3. FilterTypes'
  BY <1>1 DEF FInv, FilterTypes
<1>4. PICK g \in Handled : Speaks(g) /\ Key(f) \in {Key(g), Reverse(Key(g))}
  BY <1>1 DEF FInv, Spoken
<1>5. g \in Frames
  BY <1>4 DEF FInv, FilterTypes, Handled, Stored
<1>6. SameConversation(f, g)
  BY <1>4, <1>5, SameKeys
<1>7. Spoken'
  BY <1>1, <1>2, <1>4, <1>6 DEF FInv, Spoken
<1>8. Paired'
  BY <1>1, <1>2 DEF FInv, Paired
<1> QED
  BY <1>1, <1>3, <1>7, <1>8 DEF FInv, Idle

LEMMA StoreFirstKeeps ==
  ASSUME FInv, NEW cpu \in CPUs, NEW f \in Frames, stage = "attached",
         storing[cpu] = NoFrame, OnInterface(f),
         StoreFirst(cpu, f), UNCHANGED <<stage, mapVars>>
  PROVE  FInv'
<1>1. /\ pcapLen' = 0 /\ pcapLen = 0 /\ stage' = "attached" /\ passed' = passed
      /\ storing' = [storing EXCEPT ![cpu] = f]
      /\ KernelPayload(f) # {} /\ Confirms(f) /\ Update(Key(f))
  BY DEF StoreFirst, mapVars
<1>2. Speaks(f)
  BY <1>1, ConfirmedSpeaks
<1>3. storing \in [CPUs -> Frames \cup {NoFrame}] /\ f # NoFrame /\ lost \in BOOLEAN
  BY KernelFilterAssumption DEF FInv, FilterTypes
<1>4. Stored' = Stored \cup {f}
  BY <1>1, <1>3 DEF Stored
<1>5. Handled' = Handled \cup {f}
  BY <1>1, <1>4 DEF Handled
<1>6. /\ lost' \in BOOLEAN /\ tracked' \subseteq tracked \cup {Key(f)}
      /\ ~lost' => ~lost /\ tracked' = tracked \cup {Key(f)}
  BY <1>1, <1>3, Updates
<1>7. FilterTypes'
  BY <1>1, <1>3, <1>6 DEF FInv, FilterTypes
<1>8. Spoken'
  BY <1>1, <1>2, <1>4, <1>5, <1>6 DEF FInv, Spoken
<1>9. Paired'
  BY <1>1, <1>4, <1>5, <1>6 DEF FInv, Paired
<1> QED
  BY <1>1, <1>7, <1>8, <1>9 DEF FInv, Idle

LEMMA StoreReverseKeeps ==
  ASSUME FInv, NEW cpu \in CPUs, StoreReverse(cpu)
  PROVE  FInv'
<1> DEFINE f == storing[cpu]
<1>1. /\ f # NoFrame /\ Update(Reverse(Key(f))) /\ passed' = passed \cup {f}
      /\ storing' = [storing EXCEPT ![cpu] = NoFrame]
      /\ stage' = stage /\ pcapLen' = pcapLen
  BY DEF StoreReverse, mapVars
<1>2. storing \in [CPUs -> Frames \cup {NoFrame}] /\ lost \in BOOLEAN
  BY DEF FInv, FilterTypes
<1>3. f \in Frames /\ f \in Stored
  BY <1>1, <1>2 DEF Stored
<1>4. Stored' \subseteq Stored /\ Stored \subseteq Stored' \cup {f}
  BY <1>1, <1>2 DEF Stored
<1>5. Handled' = Handled
  BY <1>1, <1>3, <1>4 DEF Handled
<1>6. /\ lost' \in BOOLEAN /\ tracked' \subseteq tracked \cup {Reverse(Key(f))}
      /\ ~lost' => ~lost /\ tracked' = tracked \cup {Reverse(Key(f))}
  BY <1>1, <1>2, Updates
<1>7. Reverse(Reverse(Key(f))) = Key(f)
  BY <1>3, Keys
<1>8. stage = "attached"
  BY <1>3 DEF FInv, Idle
<1>9. FilterTypes'
  BY <1>1, <1>2, <1>3, <1>6 DEF FInv, FilterTypes
<1>10. f \in Handled /\ (pcapLen = 0 => Speaks(f)) /\ SameConversation(f, f)
  BY <1>3 DEF FInv, Spoken, Handled, SameConversation
<1> HIDE DEF f
<1>11. Spoken'
  BY <1>1, <1>4, <1>5, <1>6, <1>10 DEF FInv, Spoken
<1>12. Paired'
  <2>1. SUFFICES ASSUME pcapLen = 0, ~lost'
                 PROVE  Paired'
    BY <1>1 DEF Paired
  <2>2. ~lost /\ tracked' = tracked \cup {Reverse(Key(f))}
    BY <1>6, <2>1
  <2>3. /\ \A h \in Handled : Key(h) \in tracked
        /\ \A key \in tracked :
             Reverse(key) \in tracked \/ \E h \in Stored : Key(h) = key
    BY <2>1, <2>2 DEF FInv, Paired
  <2>4. Key(f) \in tracked
    BY <2>3, <1>10
  <2>5. ASSUME NEW key \in tracked'
        PROVE  Reverse(key) \in tracked' \/ \E h \in Stored' : Key(h) = key
    <3>1. CASE key = Reverse(Key(f))
      BY <3>1, <2>2, <2>4, <1>7
    <3>2. CASE key = Key(f)
      BY <3>2, <2>2
    <3>3. CASE key \in tracked /\ key # Key(f)
      BY <3>3, <2>2, <2>3, <1>4
    <3> QED
      BY <2>2, <3>1, <3>2, <3>3
  <2> QED
    BY <2>2, <2>3, <2>5, <1>5 DEF Paired
<1> QED
  BY <1>1, <1>8, <1>9, <1>11, <1>12 DEF FInv, Idle

LEMMA CaptureKeeps ==
  ASSUME FInv, NEW cpu \in CPUs, NEW f \in Frames, Capture(cpu, f)
  PROVE  FInv'
<1>1. stage = "attached" /\ storing[cpu] = NoFrame /\ UNCHANGED <<stage, mapVars>>
  BY DEF Capture
<1>2. CASE ~OnInterface(f)
  <2>1. UNCHANGED <<passed, storing, tracked, lost>>
    BY <1>2 DEF Capture, Drop
  <2> QED
    BY <2>1, <1>1, NothingJudged DEF mapVars, kernelVars
<1>3. CASE OnInterface(f) /\ DropOther(f)
  BY <1>1, <1>3, NothingJudged DEF DropOther, Drop, mapVars, kernelVars
<1>4. CASE OnInterface(f) /\ ~DropOther(f)
  <2>1. JudgeByRules(f) \/ PassTracked(f) \/ StoreFirst(cpu, f)
    BY <1>4 DEF Capture
  <2> QED
    BY <2>1, <1>1, <1>4, RulesKeep, PassTrackedKeeps, StoreFirstKeeps
<1> QED
  BY <1>2, <1>3, <1>4

-----------------------------------------------------------------------------
(* The invariant of the whole.                                             *)
LEMMA Starts ==
  ASSUME FilterInit
  PROVE  IInv
<1> USE DEF FilterInit, RuleInit
<1>1. RInv
  BY DEF RInv, RuleTypes, NothingYet, Copied, AsDeclared, Accepted
<1>2. FilterTypes /\ Stored = {} /\ Handled = {}
  BY DEF FilterTypes, Stored, Handled
<1>3. Idle /\ Spoken /\ Paired
  BY <1>2 DEF Idle, Spoken, Paired
<1> QED
  BY <1>1, <1>2, <1>3 DEF IInv, FInv

LEMMA RulesRest ==
  ASSUME RInv, UNCHANGED ruleVars
  PROVE  RInv'
BY DEF RInv, RuleTypes, NothingYet, Copied, AsDeclared, Accepted, Declared,
       ruleVars, compilerVars, childVars

LEMMA StepKeeps ==
  ASSUME IInv, [FilterNext]_vars
  PROVE  IInv'
<1> USE DEF IInv
<1>1. CASE RuleNext /\ UNCHANGED filterVars
  BY <1>1, RuleStepKeeps, NothingJudged DEF filterVars, mapVars
<1>2. CASE Configure
  <2>1. UNCHANGED ruleVars
    BY <1>2 DEF Configure, ConfigureFails, WriteInsn, WriteConfig, Attach
  <2> QED
    BY <1>2, <2>1, RulesRest, ConfigureKeeps
<1>3. ASSUME NEW cpu \in CPUs, StoreReverse(cpu)
      PROVE  IInv'
  <2>1. UNCHANGED ruleVars
    BY <1>3 DEF StoreReverse
  <2> QED
    BY <1>3, <2>1, RulesRest, StoreReverseKeeps
<1>4. ASSUME NEW cpu \in CPUs, NEW f \in Frames, Capture(cpu, f)
      PROVE  IInv'
  <2>1. UNCHANGED ruleVars
    BY <1>4 DEF Capture
  <2> QED
    BY <1>4, <2>1, RulesRest, CaptureKeeps
<1>5. CASE UNCHANGED vars
  BY <1>5, RulesRest, NothingJudged DEF vars, filterVars, mapVars
<1> QED
  BY <1>1, <1>2, <1>3, <1>4, <1>5 DEF FilterNext

LEMMA Invariant == FilterSpec => []IInv
BY Starts, StepKeeps, PTL DEF FilterSpec

-----------------------------------------------------------------------------
(* A program that is accepted is what tcpdump printed, whole, and tcpdump  *)
(* was content with it (compile_pcap_rules).                               *)
THEOREM WholePrograms == FilterSpec => []ProgramWhole
<1>1. ASSUME IInv
      PROVE  ProgramWhole
  <2>1. SUFFICES ASSUME step = "compiled", ok
                 PROVE  Compiled = Printed
    BY <1>1 DEF ProgramWhole, IInv, RInv, Accepted
  <2>2. /\ read \in Seq(Line) /\ pipe \in Seq(Line) /\ text \in Seq(Line)
        /\ Len(read) + Len(pipe) = printed /\ printed <= Len(text)
        /\ \A i \in 1..Len(read) : read[i] = text[i]
    BY <1>1, <2>1 DEF IInv, RInv, RuleTypes, Copied
  <2>3. CASE child = "none"
    <3>1. text = <<>> /\ printed = 0
      BY <1>1, <2>3 DEF IInv, RInv, NothingYet
    <3>2. Len(read) = 0
      BY <2>2, <3>1
    <3>3. read = <<>>
      BY <2>2, <3>2
    <3> QED
      BY <3>1, <3>3 DEF Compiled, Printed
  <2>4. CASE child # "none"
    <3>1. read # <<>> /\ Len(read) = Declared(read) + 1 /\ Declared(read) \in 1..MaxInsns
      BY <1>1, <2>1, <2>4 DEF IInv, RInv, AsDeclared
    <3>2. /\ Len(read) \in Nat /\ Len(pipe) \in Nat /\ Len(text) \in Nat
          /\ Len(read) # 0 /\ Len(read) <= Len(text)
      BY <2>2, <3>1
    <3>3. text # <<>>
      BY <2>2, <3>2
    <3>4. read[1] = text[1]
      BY <2>2, <3>2
    <3>5. Declared(text) = Len(read) - 1
      BY <3>1, <3>2, <3>4, PcapVMAssumption DEF Declared
    <3>6. \A i \in 1..Len(read) - 1 : read[i + 1].insn = text[i + 1].insn
      BY <2>2, <3>2
    <3> QED
      BY <3>1, <3>3, <3>5, <3>6 DEF Compiled, Printed
  <2> QED
    BY <2>3, <2>4
<1> QED
  BY <1>1, Invariant, PTL

(* Without rules, what reaches the program belongs to a conversation that  *)
(* has spoken, on the interface wanted (capture_prog).                     *)
THEOREM PassesOnlyForCause == FilterSpec => []PassesForCause
<1>1. ASSUME IInv
      PROVE  PassesForCause
  <2>1. SUFFICES ASSUME pcapLen = 0, NEW f \in passed
                 PROVE  /\ OnInterface(f)
                        /\ \E g \in Handled : Speaks(g) /\ SameConversation(f, g)
    BY DEF PassesForCause, BuiltIn, Handled, Stored
  <2> QED
    BY <1>1, <2>1 DEF IInv, FInv, Spoken, Handled
<1> QED
  BY <1>1, Invariant, PTL

(* Without rules, and without a loss, no half of a conversation is missing *)
(* in tracked_flow_map (tracked_flow_store).                               *)
THEOREM BothDirections == FilterSpec => []WholeConversation
<1>1. ASSUME IInv
      PROVE  WholeConversation
  <2>1. SUFFICES ASSUME pcapLen = 0, ~lost, \A cpu \in CPUs : storing[cpu] = NoFrame,
                        NEW g \in passed, NEW f \in Frames, SameConversation(f, g)
                 PROVE  Key(f) \in tracked
    BY DEF WholeConversation, BuiltIn, Tracked
  <2>2. Stored = {} /\ g \in Handled /\ g \in Frames
    BY <1>1, <2>1 DEF Stored, Handled, IInv, FInv, FilterTypes
  <2>3. Key(g) \in tracked /\ Reverse(Key(g)) \in tracked
    BY <1>1, <2>1, <2>2 DEF IInv, FInv, Paired
  <2> QED
    BY <2>1, <2>2, <2>3, SameKeys
<1> QED
  BY <1>1, Invariant, PTL

(* What the kernel passes without rules, parse_packet reads at the same    *)
(* place.                                                                  *)
THEOREM KernelAndParserAgree == FilterSpec => []PassedParses
<1>1. ASSUME IInv
      PROVE  PassedParses
  <2>1. SUFFICES ASSUME pcapLen = 0, NEW f \in passed, f.tags <= 1, Compliant(f)
                 PROVE  ParsedPayload(f) = KernelPayload(f)
    BY DEF PassedParses, BuiltIn
  <2>2. KernelPayload(f) # {} /\ f \in Header
    BY <1>1, <2>1, KernelFilterAssumption
       DEF IInv, FInv, FilterTypes, Spoken, Handled
  <2>3. f.tags <= MaxVlanDepth /\ f.tags \in Nat
    BY <2>1, <2>2 DEF Header, MaxVlanDepth
  <2>4. ASSUME NEW i \in DOMAIN f.exts
        PROVE  KernelExtLen(f.exts[i]) = ParserExtLen(f.exts[i])
    <3>1. f.exts[i].kind = "frag" => f.exts[i].hdrlen = 0
      BY <2>1, <2>4 DEF Compliant
    <3> QED
      BY <3>1 DEF KernelExtLen, ParserExtLen
  <2>5. [i \in DOMAIN f.exts |-> KernelExtLen(f.exts[i])]
          = [i \in DOMAIN f.exts |-> ParserExtLen(f.exts[i])]
    BY <2>4
  <2>6. CASE f.net # "ip6" \/ KernelSkips(f.exts)
    BY <2>1, <2>3, <2>5, <2>6 DEF KernelPayload, ParsedPayload, Payload
  <2>7. CASE ~(f.net # "ip6" \/ KernelSkips(f.exts))
    BY <2>2, <2>7 DEF KernelPayload, Payload
  <2> QED
    BY <2>6, <2>7
<1> QED
  BY <1>1, Invariant, PTL
-----------------------------------------------------------------------------
(* From the pipe to the maps: what the loader has written is what the      *)
(* compiler left, and it only writes what was accepted.                    *)
ReadGood ==
  /\ read # <<>> => "count" \in DOMAIN read[1]
  /\ \A i \in 2..Len(read) : "insn" \in DOMAIN read[i]
  /\ child \in {"prints", "exited"} => text \in Texts

\* An accepted program does not change any more: the loader can copy it.
Written ==
  /\ stage \in {"load", "configured", "attached", "refused"}
  /\ insns \in Seq(Insn) /\ pcapLen \in 0..MaxInsns
  /\ insns # <<>> \/ stage \in {"configured", "attached"} => step = "compiled" /\ ok
  /\ Len(insns) <= Len(Compiled)
  /\ \A i \in 1..Len(insns) : insns[i] = Compiled[i]
  /\ stage \in {"configured", "attached"} =>
       pcapLen = Len(Compiled) /\ Len(insns) = Len(Compiled)

Fits == IsFiniteSet(tracked) /\ Cardinality(tracked) <= MaxTracked

MInv == ReadGood /\ Written /\ Fits

LEMMA InsnLine ==
  ASSUME NEW line \in Line, "insn" \in DOMAIN line
  PROVE  line.insn \in Insn
<1>1. CASE line \in [count : Nat]
  <2>1. DOMAIN line = {"count"}
    BY <1>1
  <2> QED
    BY <2>1
<1>2. CASE line \in [insn : Insn]
  BY <1>2
<1>3. CASE line \in {[bad |-> TRUE]}
  <2>1. DOMAIN line = {"bad"}
    BY <1>3
  <2> QED
    BY <2>1
<1> QED
  BY <1>1, <1>2, <1>3 DEF Line

LEMMA CompiledTyped ==
  ASSUME RInv, ReadGood
  PROVE  /\ Compiled \in Seq(Insn) /\ Len(Compiled) \in 0..MaxInsns
         /\ read # <<>> => Len(Compiled) = Len(read) - 1
<1>1. read \in Seq(Line) /\ MaxInsns \in Nat
  BY PcapVMAssumption DEF RInv, RuleTypes
<1>2. CASE read = <<>>
  BY <1>1, <1>2 DEF Compiled
<1>3. CASE read # <<>>
  <2>1. /\ Len(read) \in Nat \ {0} /\ Declared(read) \in 1..MaxInsns
        /\ Len(read) <= Declared(read) + 1
    BY <1>1, <1>3 DEF RInv, AsDeclared
  <2>2. Compiled = [i \in 1..Len(read) - 1 |-> read[i + 1].insn]
    BY <1>3 DEF Compiled
  <2>3. \A i \in 1..Len(read) - 1 : read[i + 1].insn \in Insn
    <3>1. SUFFICES ASSUME NEW i \in 1..Len(read) - 1
                   PROVE  read[i + 1].insn \in Insn
      OBVIOUS
    <3>2. i + 1 \in 2..Len(read)
      BY <2>1
    <3>3. read[i + 1] \in Line /\ "insn" \in DOMAIN read[i + 1]
      BY <1>1, <3>2 DEF ReadGood
    <3> QED
      BY <3>3, InsnLine
  <2>4. Len(read) - 1 \in Nat /\ Len(read) - 1 <= MaxInsns
    BY <1>1, <2>1
  <2>5. Compiled \in Seq(Insn)
    BY <2>2, <2>3, <2>4
  <2>6. Len(Compiled) = Len(read) - 1
    BY <2>2, <2>4
  <2> QED
    BY <2>4, <2>5, <2>6, <1>1
<1> QED
  BY <1>2, <1>3

\* What is read next is an instruction, behind the first line.
LEMMA ReadGoodKeeps ==
  ASSUME RInv, ReadGood, RuleNext
  PROVE  ReadGood'
<1>1. child' \in {"prints", "exited"} => text' \in Texts
  BY DEF ReadGood, RuleNext, Parent, Tcpdump, NoRules, NoChild, MakePipe, ForkTcpdump,
     OpenPipe, ReadLine, ReadEof, ReadAll, ClosePipe, WaitForChild, Exec,
     PrintLine, PipeBreaks, Exits, Killed, childVars
<1>2. CASE ReadLine /\ Good(Head(pipe), read)
  <2>1. /\ read' = Append(read, Head(pipe)) /\ read \in Seq(Line)
        /\ Head(pipe) \in Line
    BY <1>2 DEF ReadLine, RInv, RuleTypes
  <2>2. read = <<>> => "count" \in DOMAIN Head(pipe)
    BY <1>2 DEF Good
  <2>3. read # <<>> => "insn" \in DOMAIN Head(pipe)
    BY <1>2 DEF Good
  <2>4. "count" \in DOMAIN read'[1]
    BY <2>1, <2>2 DEF ReadGood
  <2>5. ASSUME NEW i \in 2..Len(read')
        PROVE  "insn" \in DOMAIN read'[i]
    <3>1. CASE i \in 2..Len(read)
      BY <2>1, <3>1 DEF ReadGood
    <3>2. CASE i = Len(read) + 1
      BY <2>1, <2>3, <2>5, <3>2
    <3> QED
      BY <2>1, <2>5, <3>1, <3>2
  <2> QED
    BY <1>1, <2>4, <2>5 DEF ReadGood
<1>3. CASE ~(ReadLine /\ Good(Head(pipe), read))
  <2>1. read' = read
    BY <1>3 DEF RuleNext, Parent, Tcpdump, NoRules, NoChild, MakePipe, ForkTcpdump,
         OpenPipe, ReadLine, ReadEof, ReadAll, ClosePipe, WaitForChild, Exec,
         PrintLine, PipeBreaks, Exits, Killed, compilerVars
  <2> QED
    BY <1>1, <2>1 DEF ReadGood
<1> QED
  BY <1>2, <1>3

\* Once a program is accepted neither process has anything left to do.
LEMMA AcceptedRests ==
  ASSUME RInv, step = "compiled", ok
  PROVE  ~RuleNext
<1>1. child \in {"none", "exited"}
  BY DEF RInv, Accepted
<1> QED
  BY <1>1 DEF RuleNext, Parent, Tcpdump, NoRules, NoChild, MakePipe, ForkTcpdump,
     OpenPipe, ReadLine, ReadEof, ReadAll, ClosePipe, WaitForChild, Exec,
     PrintLine, PipeBreaks, Exits, Killed

LEMMA RuleStepWrites ==
  ASSUME RInv, MInv, RuleNext, UNCHANGED filterVars
  PROVE  MInv'
<1>1. ReadGood'
  BY ReadGoodKeeps DEF MInv
<1>2. insns = <<>> /\ stage \in {"load", "refused"}
  BY AcceptedRests DEF MInv, Written
<1>3. /\ stage' = stage /\ insns' = insns /\ pcapLen' = pcapLen /\ tracked' = tracked
  BY DEF filterVars, mapVars, kernelVars
<1>4. RInv'
  BY RuleStepKeeps
<1>5. Len(Compiled') \in Nat
  <2>1. read' \in Seq(Line)
    BY <1>4 DEF RInv, RuleTypes
  <2> QED
    BY <2>1 DEF Compiled
<1>6. Written'
  BY <1>2, <1>3, <1>5, PcapVMAssumption DEF MInv, Written
<1>7. Fits'
  BY <1>3 DEF MInv, Fits
<1> QED
  BY <1>1, <1>6, <1>7 DEF MInv

LEMMA ConfigureWrites ==
  ASSUME RInv, MInv, Configure
  PROVE  MInv'
<1>1. /\ read' = read /\ step' = step /\ ok' = ok /\ tracked' = tracked
      /\ child' = child /\ text' = text
  BY DEF Configure, ConfigureFails, Refuse, WriteInsn, WriteConfig, Attach,
         ruleVars, compilerVars, childVars, kernelVars
<1>2. Compiled' = Compiled
  BY <1>1 DEF Compiled
<1>3. /\ Compiled \in Seq(Insn) /\ Len(Compiled) \in 0..MaxInsns
  BY CompiledTyped DEF MInv
<1>4. ReadGood' /\ Fits'
  BY <1>1 DEF MInv, ReadGood, Fits
<1>5. /\ insns \in Seq(Insn) /\ pcapLen \in 0..MaxInsns /\ MaxInsns \in Nat
      /\ Len(insns) <= Len(Compiled)
      /\ \A i \in 1..Len(insns) : insns[i] = Compiled[i]
  BY PcapVMAssumption DEF MInv, Written
<1> HIDE DEF Compiled
<1>6. CASE WriteInsn
  <2>1. /\ step = "compiled" /\ ok /\ stage = "load" /\ Len(insns) < Len(Compiled)
        /\ insns' = Append(insns, Compiled[Len(insns) + 1])
        /\ stage' = stage /\ pcapLen' = pcapLen
    BY <1>6 DEF WriteInsn
  <2>2. Compiled[Len(insns) + 1] \in Insn /\ Len(insns) \in Nat
    BY <1>3, <1>5, <2>1
  <2>3. /\ insns' \in Seq(Insn) /\ Len(insns') = Len(insns) + 1
        /\ \A i \in 1..Len(insns) : insns'[i] = insns[i]
        /\ insns'[Len(insns) + 1] = Compiled[Len(insns) + 1]
    BY <1>5, <2>1, <2>2
  <2>4. \A i \in 1..Len(insns') : insns'[i] = Compiled[i]
    BY <1>5, <2>2, <2>3
  <2>5. Len(insns') <= Len(Compiled)
    BY <1>3, <2>1, <2>2, <2>3
  <2>6. Written'
    BY <1>1, <1>2, <1>5, <2>1, <2>3, <2>4, <2>5 DEF Written
  <2> QED
    BY <1>4, <2>6 DEF MInv
<1>7. CASE WriteConfig
  BY <1>1, <1>2, <1>3, <1>4, <1>5, <1>7 DEF WriteConfig, MInv, Written
<1>8. CASE ConfigureFails
  BY <1>1, <1>2, <1>4, <1>5, <1>8 DEF ConfigureFails, Refuse, MInv, Written, mapVars
<1>9. CASE Attach
  BY <1>1, <1>2, <1>4, <1>5, <1>9 DEF Attach, MInv, Written, mapVars
<1> QED
  BY <1>6, <1>7, <1>8, <1>9 DEF Configure

\* The map never holds more than it was made for.
LEMMA UpdateFits ==
  ASSUME NEW key, Update(key), Fits
  PROVE  Fits'
<1>1. IsFiniteSet(tracked) /\ Cardinality(tracked) <= MaxTracked
  BY DEF Fits
<1>2. Cardinality(tracked) \in Nat /\ MaxTracked \in Nat \ {0, 1}
  BY <1>1, FS_CardinalityType, KernelFilterAssumption
<1>3. CASE /\ key \in tracked \/ Cardinality(tracked) < MaxTracked
           /\ tracked' = tracked \cup {key}
  <2>1. /\ IsFiniteSet(tracked \cup {key})
        /\ Cardinality(tracked \cup {key}) =
             IF key \in tracked THEN Cardinality(tracked) ELSE Cardinality(tracked) + 1
    BY <1>1, FS_AddElement, Zenon
  <2>2. Cardinality(tracked \cup {key}) <= MaxTracked
    BY <1>1, <1>2, <1>3, <2>1
  <2> QED
    BY <1>3, <2>1, <2>2 DEF Fits
<1>4. ASSUME key \notin tracked, NEW victim \in tracked,
             tracked' = (tracked \ {victim}) \cup {key}
      PROVE  Fits'
  <2> DEFINE rest == tracked \ {victim}
  <2>1. IsFiniteSet(rest) /\ Cardinality(rest) = Cardinality(tracked) - 1
    BY <1>1, <1>4, FS_RemoveElement
  <2>2. key \notin rest
    BY <1>4
  <2> HIDE DEF rest
  <2>3. /\ IsFiniteSet(rest \cup {key})
        /\ Cardinality(rest \cup {key}) = Cardinality(rest) + 1
    BY <2>1, <2>2, FS_AddElement
  <2>4. Cardinality(rest \cup {key}) <= MaxTracked
    BY <1>1, <1>2, <2>1, <2>3
  <2>5. tracked' = rest \cup {key}
    BY <1>4 DEF rest
  <2> QED
    BY <2>3, <2>4, <2>5 DEF Fits
<1>5. CASE tracked' = tracked
  BY <1>5 DEF Fits
<1> QED
  BY <1>3, <1>4, <1>5 DEF Update

\* A program that runs leaves its instructions alone.
LEMMA MapsRest ==
  ASSUME MInv, UNCHANGED <<ruleVars, stage, mapVars>>, Fits'
  PROVE  MInv'
<1>1. /\ read' = read /\ step' = step /\ ok' = ok
      /\ child' = child /\ text' = text
      /\ stage' = stage /\ insns' = insns /\ pcapLen' = pcapLen
  BY DEF ruleVars, compilerVars, childVars, mapVars
<1>2. Compiled' = Compiled
  BY <1>1 DEF Compiled
<1>3. ReadGood'
  BY <1>1 DEF MInv, ReadGood
<1>4. Written'
  BY <1>1, <1>2 DEF MInv, Written
<1> QED
  BY <1>3, <1>4 DEF MInv

LEMMA KernelWrites ==
  ASSUME MInv, NEW cpu \in CPUs,
         StoreReverse(cpu) \/ \E f \in Frames : Capture(cpu, f)
  PROVE  MInv'
<1>1. UNCHANGED <<ruleVars, stage, mapVars>>
  BY DEF StoreReverse, Capture
<1>2. tracked' = tracked \/ \E key : Update(key)
  BY DEF StoreReverse, Capture, JudgeByRules, PassTracked, StoreFirst, DropOther
<1>3. Fits'
  <2>1. CASE tracked' = tracked
    BY <2>1 DEF MInv, Fits
  <2>2. ASSUME NEW key, Update(key)
        PROVE  Fits'
    BY <2>2, UpdateFits DEF MInv
  <2> QED
    BY <1>2, <2>1, <2>2
<1> QED
  BY <1>1, <1>3, MapsRest

LEMMA MapsInvariant == FilterSpec => [](IInv /\ MInv)
<1>1. ASSUME FilterInit
      PROVE  MInv
  <2>1. read = <<>> /\ insns = <<>> /\ tracked = {} /\ pcapLen = 0 /\ stage = "load"
    BY <1>1 DEF FilterInit, RuleInit
  <2>2. Fits
    BY <2>1, FS_EmptySet, KernelFilterAssumption DEF Fits
  <2>3. Compiled = <<>>
    BY <2>1 DEF Compiled
  <2>4. ReadGood
    BY <1>1, <2>1 DEF ReadGood, FilterInit, RuleInit
  <2>5. Written
    BY <2>1, <2>3, PcapVMAssumption DEF Written
  <2> QED
    BY <2>2, <2>4, <2>5 DEF MInv
<1>2. ASSUME IInv, MInv, [FilterNext]_vars
      PROVE  MInv'
  <2>1. CASE RuleNext /\ UNCHANGED filterVars
    BY <1>2, <2>1, RuleStepWrites DEF IInv
  <2>2. CASE Configure
    BY <1>2, <2>2, ConfigureWrites DEF IInv
  <2>3. CASE \E cpu \in CPUs : StoreReverse(cpu) \/ (\E f \in Frames : Capture(cpu, f))
    BY <1>2, <2>3, KernelWrites
  <2>4. CASE UNCHANGED vars
    <3>1. UNCHANGED <<ruleVars, stage, mapVars>> /\ tracked' = tracked
      BY <2>4 DEF vars, filterVars, kernelVars
    <3>2. Fits'
      BY <1>2, <3>1 DEF MInv, Fits
    <3> QED
      BY <1>2, <3>1, <3>2, MapsRest
  <2> QED
    BY <1>2, <2>1, <2>2, <2>3, <2>4 DEF FilterNext
<1> QED
  BY <1>1, <1>2, Starts, StepKeeps, PTL DEF FilterSpec

(* What zwbee, tcpdump, the loader and the CPUs write has its type: the    *)
(* program in the maps has instructions that the interpreter knows, no     *)
(* more than they hold, and tracked_flow_map never outgrows its entries    *)
(* (parse_tcpdump_bpf_output, configure_capture_program).                  *)
THEOREM TypeCorrect == FilterSpec => []TypeOK
<1>1. ASSUME IInv, MInv
      PROVE  TypeOK
  BY <1>1 DEF IInv, RInv, RuleTypes, FInv, FilterTypes, MInv, Written, Fits, TypeOK
<1> QED
  BY <1>1, MapsInvariant, PTL

\* A text that tcpdump announces and prints whole, as the compiler wants it.
Sound(t) ==
  /\ t # <<>> /\ "count" \in DOMAIN t[1]
  /\ Declared(t) \in 1..MaxInsns /\ Declared(t) < Len(t)
  /\ \A i \in 2..Declared(t) + 1 : "insn" \in DOMAIN t[i]

Program(t) == [i \in 1..Declared(t) |-> t[i + 1].insn]

\* What the interpreter is given is the program of one sound text.
LEMMA AttachedProgram ==
  ASSUME IInv, MInv, stage = "attached", pcapLen > 0
  PROVE  SubSeq(insns, 1, pcapLen) = Program(text) /\ text \in Texts /\ Sound(text)
<1>1. /\ step = "compiled" /\ ok /\ pcapLen = Len(Compiled) /\ Len(insns) = Len(Compiled)
      /\ insns \in Seq(Insn) /\ \A i \in 1..Len(insns) : insns[i] = Compiled[i]
  BY DEF MInv, Written
<1>2. /\ Compiled \in Seq(Insn) /\ Len(Compiled) \in 0..MaxInsns /\ MaxInsns \in Nat
      /\ read # <<>> => Len(Compiled) = Len(read) - 1
  BY CompiledTyped, PcapVMAssumption DEF IInv, MInv
<1>3. read # <<>>
  BY <1>1, <1>2 DEF Compiled
<1>4. /\ read \in Seq(Line) /\ pipe \in Seq(Line) /\ text \in Seq(Line)
      /\ Len(read) + Len(pipe) = printed /\ printed <= Len(text)
      /\ \A i \in 1..Len(read) : read[i] = text[i]
  BY <1>1 DEF IInv, RInv, RuleTypes, Copied
<1>5. Len(read) \in Nat /\ Len(pipe) \in Nat /\ Len(text) \in Nat /\ Len(read) # 0
  BY <1>3, <1>4
<1>6. child = "exited"
  <2>1. child = "none" => printed = 0
    BY DEF IInv, RInv, NothingYet
  <2>2. child \in {"none", "exited"}
    BY <1>1 DEF IInv, RInv, Accepted
  <2> QED
    BY <2>1, <2>2, <1>4, <1>5
<1>7. text \in Texts
  BY <1>6 DEF MInv, ReadGood
<1>8. Len(read) = Declared(read) + 1 /\ Declared(read) \in 1..MaxInsns
  BY <1>1, <1>6 DEF IInv, RInv, AsDeclared
<1>9. text # <<>> /\ read[1] = text[1] /\ Declared(text) = Declared(read)
  BY <1>4, <1>5 DEF Declared
<1>10. Sound(text)
  <2>1. "count" \in DOMAIN text[1] /\ \A i \in 2..Len(read) : "insn" \in DOMAIN text[i]
    BY <1>3, <1>4, <1>5, <1>9 DEF MInv, ReadGood
  <2> QED
    BY <2>1, <1>2, <1>4, <1>5, <1>8, <1>9 DEF Sound
<1>11. Compiled = Program(text)
  <2>1. Compiled = [i \in 1..Len(read) - 1 |-> read[i + 1].insn]
    BY <1>3 DEF Compiled
  <2>2. Len(read) - 1 = Declared(text)
    BY <1>2, <1>8, <1>9
  <2>3. \A i \in 1..Len(read) - 1 : read[i + 1].insn = text[i + 1].insn
    BY <1>4, <1>5
  <2> QED
    BY <2>1, <2>2, <2>3 DEF Program
<1>12. SubSeq(insns, 1, pcapLen) = Compiled
  <2> HIDE DEF Compiled
  <2>1. SubSeq(insns, 1, pcapLen) = insns
    BY <1>1, <1>2
  <2>2. insns = Compiled
    BY <1>1, <1>2
  <2> QED
    BY <2>1, <2>2
<1> QED
  BY <1>7, <1>10, <1>11, <1>12

(* From the text to the verdict nothing is lost: if each text that tcpdump *)
(* prints whole means, run on the bytes of a frame, what the rules say of  *)
(* the frame, then so do the maps that capture_prog reads once it is       *)
(* attached, however tcpdump's lines came through the pipe and whichever   *)
(* text it was (parse_tcpdump_bpf_output, configure_capture_program).      *)
THEOREM VerdictsAgree ==
  ASSUME \A t \in Texts : Sound(t) =>
           \A f \in Frames :
             RunPcapRules(Program(t), f.bytes) # 0 <=> Matches(t, f)
  PROVE  FilterSpec => []RulesAgree
<1>1. ASSUME IInv, MInv
      PROVE  RulesAgree
  <2>1. SUFFICES ASSUME stage = "attached", pcapLen > 0, NEW f \in Frames
                 PROVE  RulesPass(f) <=> Matches(text, f)
    BY DEF RulesAgree
  <2>2. SubSeq(insns, 1, pcapLen) = Program(text) /\ text \in Texts /\ Sound(text)
    BY <1>1, <2>1, AttachedProgram
  <2> QED
    BY <2>2 DEF RulesPass
<1> QED
  BY <1>1, MapsInvariant, PTL

-----------------------------------------------------------------------------
(* Induction over the natural numbers, for a set instead of a predicate.   *)
LEMMA NatOrder ==
  \E R : IsWellFoundedOn(R, Nat) /\ \A x, y \in Nat : x < y => <<x, y>> \in R
<1>1. IsWellFoundedOn(OpToRel(<, Nat), Nat)
  BY NatLessThanWellFounded
<1>2. \A x, y \in Nat : x < y => <<x, y>> \in OpToRel(<, Nat)
  BY DEF OpToRel
<1> QED
  BY <1>1, <1>2

LEMMA Least ==
  ASSUME NEW T, T \subseteq Nat, T # {}
  PROVE  \E x \in T : \A y \in T : x <= y
<1>1. PICK R : IsWellFoundedOn(R, Nat) /\ \A x, y \in Nat : x < y => <<x, y>> \in R
  BY NatOrder
<1>2. IsWellFoundedOn(R, Nat)
  BY <1>1
<1>3. \E x \in T : \A y \in T : ~ (<<y, x>> \in R)
  BY <1>2, WFMin, Zenon
<1>4. PICK x \in T : \A y \in T : ~ (<<y, x>> \in R)
  BY <1>3
<1>5. \A y \in T : ~(y < x)
  BY <1>1, <1>4, Zenon
<1> QED
  BY <1>5

LEMMA Induction ==
  ASSUME NEW T, 0 \in T, \A n \in Nat : n \in T => n + 1 \in T
  PROVE  Nat \subseteq T
<1>1. SUFFICES ASSUME Nat \ T # {}
               PROVE  FALSE
  OBVIOUS
<1>2. PICK x \in Nat \ T : \A y \in Nat \ T : x <= y
  BY <1>1, Least
<1>3. x # 0 /\ x - 1 \in Nat /\ ~(x <= x - 1)
  BY <1>2
<1>4. x - 1 \in T
  BY <1>2, <1>3
<1> QED
  BY <1>2, <1>3, <1>4

-----------------------------------------------------------------------------
(* The interpreter.                                                        *)
LEMMA WordPositive == Word \in Nat /\ Word > 0
<1>1. WordBits \in Nat
  BY PcapVMAssumption DEF WordBits
<1> DEFINE S == 1..WordBits
<1>2. IsFiniteSet(S) /\ Cardinality(S) = WordBits
  <2>1. Cardinality(S) = IF 1 > WordBits THEN 0 ELSE WordBits - 1 + 1
    BY <1>1, FS_Interval
  <2> QED
    BY <1>1, <2>1, FS_Interval
<1> HIDE DEF S
<1>3. IsFiniteSet(SUBSET S) /\ Cardinality(SUBSET S) = 2^Cardinality(S)
  BY <1>2, FS_SUBSET
<1>4. Cardinality(SUBSET S) \in Nat
  BY <1>3, FS_CardinalityType
<1>5. SUBSET S # {}
  OBVIOUS
<1>6. Cardinality(SUBSET S) # 0
  BY <1>3, <1>5, FS_EmptySet
<1> QED
  BY <1>2, <1>3, <1>4, <1>6 DEF Word

IsMachine(m) ==
  /\ m = [pc |-> m.pc, a |-> m.a, x |-> m.x, returned |-> m.returned]
  /\ m.pc \in Nat /\ m.returned \in Int

\* A step goes on to a later instruction or returns.
Further(s, m) == IsMachine(s) /\ (s.returned # Running \/ s.pc > m.pc)

LEMMA ReturnEnds ==
  ASSUME NEW m, IsMachine(m), NEW value \in Nat
  PROVE  Further(Return(m, value), m)
<1>1. Return(m, value) = [pc |-> m.pc, a |-> m.a, x |-> m.x, returned |-> value]
  BY DEF Return, IsMachine
<1> QED
  BY <1>1 DEF IsMachine, Further, Running

LEMMA AdvanceFurther ==
  ASSUME NEW m, IsMachine(m), NEW a, NEW x
  PROVE  /\ Further(Advance([m EXCEPT !.a = a]), m)
         /\ Further(Advance([m EXCEPT !.x = x]), m)
<1>1. ASSUME NEW b, NEW y
      PROVE  Further(Advance([pc |-> m.pc, a |-> b, x |-> y, returned |-> m.returned]), m)
  <2>1. Advance([pc |-> m.pc, a |-> b, x |-> y, returned |-> m.returned])
          = [pc |-> m.pc + 1, a |-> b, x |-> y, returned |-> m.returned]
    BY DEF Advance
  <2> QED
    BY <2>1 DEF IsMachine, Further
<1>2. [m EXCEPT !.a = a] = [pc |-> m.pc, a |-> a, x |-> m.x, returned |-> m.returned]
  BY DEF IsMachine
<1>3. [m EXCEPT !.x = x] = [pc |-> m.pc, a |-> m.a, x |-> x, returned |-> m.returned]
  BY DEF IsMachine
<1> QED
  BY <1>1, <1>2, <1>3

\* Also when the sum wraps: then the jump is refused.
LEMMA JumpFurther ==
  ASSUME NEW m, IsMachine(m), NEW distance \in Nat
  PROVE  Further(Jump(m, distance), m)
<1> DEFINE next == Plus(m.pc + 1, distance)
<1>1. next \in Nat
  <2>1. m.pc + 1 + distance \in Nat
    BY DEF IsMachine
  <2> QED
    BY <2>1, WordPositive DEF Plus
<1>2. Jump(m, distance) = IF next <= m.pc THEN Return(m, 0) ELSE [m EXCEPT !.pc = next]
  BY DEF Jump
<1> HIDE DEF next
<1>3. CASE next <= m.pc
  BY <1>2, <1>3, ReturnEnds
<1>4. CASE ~(next <= m.pc)
  <2>1. [m EXCEPT !.pc = next]
          = [pc |-> next, a |-> m.a, x |-> m.x, returned |-> m.returned]
    BY DEF IsMachine
  <2> QED
    BY <1>1, <1>2, <1>4, <2>1 DEF IsMachine, Further
<1> QED
  BY <1>3, <1>4

LEMMA ExecuteFurther ==
  ASSUME NEW m, IsMachine(m), NEW insn \in Insn, NEW frame
  PROVE  Further(Execute(m, insn, frame), m)
<1>1. /\ insn.k \in Nat /\ insn.jt \in Nat /\ insn.jf \in Nat
      /\ insn.op \in {"ldabs", "ldind", "ldxmsh", "and", "ja", "jeq", "jge", "jgt",
                      "jset", "ret", "other"}
  BY DEF Insn
<1>2. Further(Load(m, insn, frame), m)
  BY ReturnEnds, AdvanceFurther DEF Load
<1>3. Further(LoadHeaderLength(m, insn, frame), m)
  BY ReturnEnds, AdvanceFurther DEF LoadHeaderLength
<1>4. Further(Advance([m EXCEPT !.a = BitAnd(@, insn.k)]), m)
  BY AdvanceFurther
<1>5. Further(Jump(m, IF Holds(m, insn) THEN insn.jt ELSE insn.jf), m)
  BY <1>1, JumpFurther
<1>6. Further(Jump(m, insn.k), m) /\ Further(Return(m, insn.k), m) /\ Further(Return(m, 0), m)
  BY <1>1, JumpFurther, ReturnEnds
<1> QED
  BY <1>1, <1>2, <1>3, <1>4, <1>5, <1>6 DEF Execute

LEMMA MachineDefined ==
  ASSUME NEW prog, NEW frame
  PROVE  Machine(prog, frame) =
           [n \in 0..MaxInsns |->
              IF n = 0 THEN Start ELSE Step(Machine(prog, frame)[n - 1], prog, frame)]
<1> DEFINE Recurs(g, n) ==
             g = [i \in 0..n |-> IF i = 0 THEN Start ELSE Step(g[i - 1], prog, frame)]
           T == {n \in Nat : \E g : Recurs(g, n)}
<1>1. 0 \in T
  <2>1. Recurs([i \in 0..0 |-> Start], 0)
    OBVIOUS
  <2> QED
    BY <2>1
<1>2. ASSUME NEW n \in Nat, n \in T
      PROVE  n + 1 \in T
  <2>1. PICK g : Recurs(g, n)
    BY <1>2
  <2> DEFINE h == [i \in 0..(n + 1) |->
                     IF i = n + 1 THEN Step(g[n], prog, frame) ELSE g[i]]
  <2>2. \A i \in 0..(n + 1) :
          h[i] = IF i = 0 THEN Start ELSE Step(h[i - 1], prog, frame)
    <3>1. SUFFICES ASSUME NEW i \in 0..(n + 1)
                   PROVE  h[i] = IF i = 0 THEN Start ELSE Step(h[i - 1], prog, frame)
      OBVIOUS
    <3>2. CASE i = n + 1
      <4>1. h[i] = Step(g[n], prog, frame) /\ h[i - 1] = g[n] /\ i # 0
        BY <3>2
      <4> QED
        BY <4>1
    <3>3. CASE i # n + 1 /\ i # 0
      <4>1. h[i] = g[i] /\ h[i - 1] = g[i - 1] /\ i \in 0..n
        BY <3>3
      <4> QED
        BY <2>1, <3>3, <4>1
    <3>4. CASE i # n + 1 /\ i = 0
      BY <2>1, <3>4
    <3> QED
      BY <3>2, <3>3, <3>4
  <2>3. Recurs(h, n + 1)
    BY <2>2
  <2> HIDE DEF h, Recurs
  <2> QED
    BY <2>3
<1> HIDE DEF T
<1>3. Nat \subseteq T
  BY <1>1, <1>2, Induction
<1>4. \E g : Recurs(g, MaxInsns)
  BY <1>3, PcapVMAssumption DEF T
<1>5. Machine(prog, frame) = CHOOSE g : Recurs(g, MaxInsns)
  BY DEF Machine
<1> HIDE DEF Recurs
<1>6. Recurs(Machine(prog, frame), MaxInsns)
  BY <1>4, <1>5
<1> QED
  BY <1>6 DEF Recurs

(* The loop's fixed bound, which the verifier wants, never cuts a program  *)
(* short: whatever the instructions and the frame, after MaxInsns steps it *)
(* has returned or run past its end, because a jump whose sum wraps is     *)
(* refused (run_pcap_rules).                                               *)
THEOREM StepsSuffice ==
  ASSUME NEW prog \in Seq(Insn), NEW frame, Len(prog) <= MaxInsns
  PROVE  Halted(Machine(prog, frame)[MaxInsns], prog)
<1> DEFINE run == Machine(prog, frame)
           T == {n \in Nat : n \in 0..MaxInsns =>
                   IsMachine(run[n]) /\ (Halted(run[n], prog) \/ run[n].pc >= n)}
<1>1. /\ run[0] = Start
      /\ \A n \in Nat : n + 1 \in 0..MaxInsns => run[n + 1] = Step(run[n], prog, frame)
  <2>1. run = [n \in 0..MaxInsns |->
                 IF n = 0 THEN Start ELSE Step(run[n - 1], prog, frame)]
    BY MachineDefined
  <2> HIDE DEF run
  <2>2. 0 \in 0..MaxInsns
    BY PcapVMAssumption
  <2>3. ASSUME NEW n \in Nat, n + 1 \in 0..MaxInsns
        PROVE  run[n + 1] = Step(run[n], prog, frame)
    <3>1. n + 1 # 0 /\ (n + 1) - 1 = n
      BY <2>3
    <3> QED
      BY <2>1, <2>3, <3>1
  <2> QED
    BY <2>1, <2>2, <2>3
<1> HIDE DEF run
<1>2. 0 \in T
  BY <1>1 DEF Start, IsMachine, Running
<1>3. ASSUME NEW n \in Nat, n \in T
      PROVE  n + 1 \in T
  <2>1. SUFFICES ASSUME n + 1 \in 0..MaxInsns
                 PROVE  /\ IsMachine(run[n + 1])
                        /\ Halted(run[n + 1], prog) \/ run[n + 1].pc >= n + 1
    BY <1>3
  <2>2. n \in 0..MaxInsns /\ run[n + 1] = Step(run[n], prog, frame)
    BY <2>1, <1>1, PcapVMAssumption
  <2>3. IsMachine(run[n]) /\ (Halted(run[n], prog) \/ run[n].pc >= n)
    BY <1>3, <2>2
  <2>4. CASE Halted(run[n], prog)
    BY <2>2, <2>3, <2>4 DEF Step
  <2>5. CASE ~Halted(run[n], prog)
    <3>1. prog[run[n].pc + 1] \in Insn
      BY <2>3, <2>5 DEF Halted, IsMachine
    <3>2. Further(run[n + 1], run[n])
      BY <2>2, <2>3, <2>5, <3>1, ExecuteFurther DEF Step
    <3> QED
      BY <2>3, <2>5, <3>2 DEF Further, IsMachine, Halted
  <2> QED
    BY <2>4, <2>5
<1> HIDE DEF T
<1>4. Nat \subseteq T
  BY <1>2, <1>3, Induction
<1>5. MaxInsns \in T
  BY <1>4, PcapVMAssumption
<1>6. IsMachine(run[MaxInsns]) /\ (Halted(run[MaxInsns], prog) \/ run[MaxInsns].pc >= MaxInsns)
  BY <1>5, PcapVMAssumption DEF T
<1> QED
  BY <1>6, PcapVMAssumption DEF Halted, IsMachine, run
=============================================================================
