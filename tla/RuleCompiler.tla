----------------------------- MODULE RuleCompiler -----------------------------
(***************************************************************************)
(* How -pcap-rules becomes a program (ebpf/zwbee.c): compile_pcap_rules    *)
(* starts tcpdump with its output in a pipe, parse_tcpdump_bpf_output      *)
(* reads the program from it, one line per instruction behind a line with  *)
(* their number, and the exit status has the last word.                    *)
(*                                                                         *)
(* The two processes share the pipe, which holds PipeLines lines: writing  *)
(* to a full one and reading from an empty one block, as long as the other *)
(* end is open somewhere.                                                  *)
(***************************************************************************)
EXTENDS PcapVM

CONSTANTS
  Texts,      \* what tcpdump may print, of Seq(Line)
  PipeLines   \* lines that the pipe holds

\* The number of instructions, an instruction, or neither.
Line == [count : Nat] \cup [insn : Insn] \cup {[bad |-> TRUE]}

ASSUME RuleCompilerAssumption ==
  /\ Texts \subseteq Seq(Line)
  /\ PipeLines \in Nat \ {0}

VARIABLES
  step,     \* where compile_pcap_rules is
  ok,       \* its ok, what it returns at "compiled"
  writeEnd, \* whether zwbee has the pipe's write end open
  readEnd,  \* whether it has the read end open
  read,     \* the lines it has read
  pipe,     \* the lines in the pipe
  child,    \* tcpdump: "none", "forked", "prints", "exited", "failed" or "killed"
  text,     \* what tcpdump prints
  printed   \* how many lines of it it has written

compilerVars == <<step, ok, writeEnd, readEnd, read>>
childVars    == <<child, text, printed>>
ruleVars     == <<compilerVars, childVars, pipe>>

Dead == {"exited", "failed", "killed"}

\* The end of the file: nothing is left and nobody can write.
AtEof == pipe = <<>> /\ ~writeEnd /\ child \in {"none"} \cup Dead

-----------------------------------------------------------------------------
(* compile_pcap_rules.                                                     *)
MutWaitFirst(s) ==
  CASE s = "pipe" -> "fork" [] s = "fork" -> "open" [] s = "open" -> "wait"
    [] s = "read" -> "close" [] s = "close" -> "compiled" [] s = "wait" -> "read"

Follows(s) ==
  CASE s = "pipe" -> "fork" [] s = "fork" -> "open" [] s = "open" -> "read"
    [] s = "read" -> "close" [] s = "close" -> "wait" [] s = "wait" -> "compiled"

\* No expression was given: no program, and no tcpdump.
NoRules ==
  /\ step = "pipe"
  /\ step' = "compiled"
  /\ UNCHANGED <<ok, writeEnd, readEnd, read, pipe, childVars>>

\* pipe() or fork() fails; what was opened is closed.
NoChild ==
  /\ step \in {"pipe", "fork"}
  /\ step' = "compiled" /\ ok' = FALSE
  /\ writeEnd' = FALSE /\ readEnd' = FALSE
  /\ UNCHANGED <<read, pipe, childVars>>

MakePipe ==
  /\ step = "pipe"
  /\ step' = Follows(step)
  /\ writeEnd' = TRUE /\ readEnd' = TRUE
  /\ UNCHANGED <<ok, read, pipe, childVars>>

ForkTcpdump ==
  /\ step = "fork"
  /\ step' = Follows(step)
  /\ child' = "forked"
  /\ UNCHANGED <<ok, writeEnd, readEnd, read, pipe, text, printed>>

\* The write end is closed and the read end becomes a FILE, unless fdopen fails.
OpenPipe ==
  /\ step = "open"
  /\ writeEnd' = FALSE
  /\ \/ step' = Follows(step) /\ UNCHANGED <<ok, readEnd>>
     \/ step' = "wait" /\ ok' = FALSE /\ readEnd' = FALSE
  /\ UNCHANGED <<read, pipe, childVars>>

\* parse_tcpdump_bpf_output wants count and then as many instructions.
Declared(lines) == lines[1].count

MutGood(line, lines) ==
  IF lines = <<>> THEN "count" \in DOMAIN line /\ line.count \in 1..MaxInsns + 1
  ELSE "insn" \in DOMAIN line

Good(line, lines) ==
  IF lines = <<>> THEN "count" \in DOMAIN line /\ line.count \in 1..MaxInsns
  ELSE "insn" \in DOMAIN line

ReadsOn(lines) == lines # <<>> => Len(lines) <= Declared(lines)

ReadLine ==
  /\ step = "read" /\ ReadsOn(read)
  /\ pipe # <<>>
  /\ pipe' = Tail(pipe)
  /\ IF Good(Head(pipe), read)
     THEN read' = Append(read, Head(pipe)) /\ UNCHANGED <<step, ok>>
     ELSE step' = Follows(step) /\ ok' = FALSE /\ UNCHANGED read
  /\ UNCHANGED <<writeEnd, readEnd, childVars>>

ReadEof ==
  /\ step = "read" /\ ReadsOn(read)
  /\ AtEof
  /\ step' = Follows(step) /\ ok' = FALSE
  /\ UNCHANGED <<writeEnd, readEnd, read, pipe, childVars>>

ReadAll ==
  /\ step = "read" /\ ~ReadsOn(read)
  /\ step' = Follows(step)
  /\ UNCHANGED <<ok, writeEnd, readEnd, read, pipe, childVars>>

ClosePipe ==
  /\ step = "close"
  /\ step' = Follows(step)
  /\ readEnd' = FALSE
  /\ UNCHANGED <<ok, writeEnd, read, pipe, childVars>>

MutSucceeded == TRUE

Succeeded == child = "exited"

\* waitpid returns: only tcpdump's exit status 0 lets the program pass.
WaitForChild ==
  /\ step = "wait" /\ child \in Dead
  /\ step' = Follows(step)
  /\ ok' = (ok /\ Succeeded)
  /\ UNCHANGED <<writeEnd, readEnd, read, pipe, childVars>>

Parent ==
  \/ NoRules \/ NoChild \/ MakePipe \/ ForkTcpdump \/ OpenPipe
  \/ ReadLine \/ ReadEof \/ ReadAll \/ ClosePipe \/ WaitForChild

-----------------------------------------------------------------------------
(* tcpdump.                                                                *)
Exec ==
  /\ child = "forked"
  /\ \/ child' = "prints" /\ text' \in Texts
     \/ child' = "failed" /\ UNCHANGED text   \* no tcpdump: _exit(127)
  /\ UNCHANGED <<compilerVars, pipe, printed>>

PrintLine ==
  /\ child = "prints" /\ printed < Len(text)
  /\ readEnd \/ writeEnd
  /\ Len(pipe) < PipeLines
  /\ pipe' = Append(pipe, text[printed + 1])
  /\ printed' = printed + 1
  /\ UNCHANGED <<compilerVars, child, text>>

\* Nobody can read any more: SIGPIPE.
PipeBreaks ==
  /\ child = "prints" /\ printed < Len(text)
  /\ ~readEnd
  /\ child' = "killed"
  /\ UNCHANGED <<compilerVars, pipe, text, printed>>

\* It has printed all; an expression it cannot compile prints nothing.
Exits ==
  /\ child = "prints" /\ printed = Len(text)
  /\ child' = IF text = <<>> THEN "failed" ELSE "exited"
  /\ UNCHANGED <<compilerVars, pipe, text, printed>>

Killed ==
  /\ child \in {"forked", "prints"}
  /\ child' = "killed"
  /\ UNCHANGED <<compilerVars, pipe, text, printed>>

Tcpdump == Exec \/ PrintLine \/ PipeBreaks \/ Exits \/ Killed

-----------------------------------------------------------------------------
RuleInit ==
  /\ step = "pipe" /\ ok = TRUE
  /\ writeEnd = FALSE /\ readEnd = FALSE
  /\ read = <<>> /\ pipe = <<>>
  /\ child = "none" /\ text = <<>> /\ printed = 0

RuleNext == Parent \/ Tcpdump

\* Both processes are scheduled; nobody has to kill tcpdump.
RuleFairness ==
  WF_ruleVars(Parent) /\ WF_ruleVars(Exec \/ PrintLine \/ PipeBreaks \/ Exits)

\* The program that compile_pcap_rules leaves in its out parameter.
Compiled ==
  IF read = <<>> THEN <<>> ELSE [i \in 1..Len(read) - 1 |-> read[i + 1].insn]

\* The program that tcpdump printed.
Printed ==
  IF text = <<>> THEN <<>> ELSE [i \in 1..Declared(text) |-> text[i + 1].insn]

-----------------------------------------------------------------------------
(* A program is only accepted if it is all that tcpdump had to print and   *)
(* tcpdump itself was content: one that dies, is not there or prints less  *)
(* than it announced never leaves half a filter in the kernel.             *)
ProgramWhole ==
  step = "compiled" /\ ok =>
    /\ Compiled = Printed
    /\ child \in {"none", "exited"}
=============================================================================
