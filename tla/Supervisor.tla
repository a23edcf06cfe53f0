------------------------------ MODULE Supervisor ------------------------------
(***************************************************************************)
(* The Go server that runs zwbee as a child process (zobee/handler.go):    *)
(* RunServe starts it and scans its output from a pipe, a goroutine waits  *)
(* for its end, Shutdown may be called at any time.  The three share       *)
(* hdl.closer without a lock.  The process library, the engine that calls  *)
(* the server and the operating system are modelled by what this file      *)
(* expects of them.  Names are apart from those of CaptureProcess, whose   *)
(* process is the child, so that one module can speak of both.             *)
(***************************************************************************)
EXTENDS Integers, Sequences

CONSTANTS
  LongLines,     \* whether a line may exceed the scanner's buffer of 64 KiB
  EarlyShutdown, \* whether Shutdown may be called before RunServe scans
  PipeCap,       \* lines that fit into the pipe
  MaxLines       \* bound of the model: lines the child writes

ASSUME SupervisorAssumption ==
  /\ LongLines \in BOOLEAN /\ EarlyShutdown \in BOOLEAN
  /\ PipeCap \in Nat \ {0} /\ MaxLines \in Nat

VARIABLES
  run,      \* where RunServe is
  waiter,   \* where the goroutine is that RunServe starts, "none" before
  stopper,  \* where Shutdown is, "idle" before it is called
  proc,     \* hdl.proc # nil
  closer,   \* hdl.closer # nil
  panicked, \* a nil pointer was dereferenced: the whole program is gone
  child,    \* "none", "running", "signalled" or "exited"
  lines,    \* how many lines the child has written
  pipe,     \* what is in the pipe
  readEnd,  \* "none", "open" or "closed"
  keeps,    \* whether Execute leaves the write end open in this process
  buffer,   \* what the scanner has read
  hooked    \* lines handed to the hook

go         == <<proc, closer, panicked>>
process    == <<child, lines>>
reading    == <<buffer, hooked>>
serverVars ==
  <<run, waiter, stopper, go, process, pipe, readEnd, keeps, reading>>

Line == [nth : Nat, long : BOOLEAN]

-----------------------------------------------------------------------------
(* RunServe.                                                               *)
NewProcess ==
  /\ run = "start" /\ ~panicked
  /\ proc' = TRUE
  /\ run' = "pipe"
  /\ UNCHANGED <<waiter, stopper, closer, panicked, process, pipe, readEnd,
                 keeps, reading>>

MakePipe ==
  /\ run = "pipe" /\ ~panicked
  /\ readEnd' = "open"
  /\ run' = "execute"
  /\ UNCHANGED <<waiter, stopper, go, process, pipe, keeps, reading>>

Execute ==
  /\ run = "execute" /\ ~panicked
  /\ child' = "running"
  /\ run' = "closer"
  /\ UNCHANGED <<waiter, stopper, go, lines, pipe, readEnd, keeps, reading>>

SetCloser ==
  /\ run = "closer" /\ ~panicked
  /\ closer' = TRUE
  /\ waiter' = "wait"
  /\ run' = "scan"
  /\ UNCHANGED <<stopper, proc, panicked, process, pipe, readEnd, keeps, reading>>

\* Each definition named Mut... restates the one after it with a mistake.
MutAfterExit == pipe # <<>> /\ child = "exited"

\* The scanner reads what there is, while the child runs.
Readable == pipe # <<>>

ScanRead ==
  /\ run = "scan" /\ ~panicked
  /\ buffer = <<>> /\ Readable /\ readEnd = "open"
  /\ buffer' = pipe /\ pipe' = <<>>
  /\ UNCHANGED <<run, waiter, stopper, go, process, readEnd, keeps, hooked>>

ScanLine ==
  /\ run = "scan" /\ ~panicked
  /\ buffer # <<>> /\ ~Head(buffer).long
  /\ hooked' = Append(hooked, Head(buffer).nth)
  /\ buffer' = Tail(buffer)
  /\ UNCHANGED <<run, waiter, stopper, go, process, pipe, readEnd, keeps>>

\* The read end was closed, or all write ends are and nothing is left.
AtEnd ==
  \/ readEnd = "closed"
  \/ pipe = <<>> /\ child = "exited" /\ ~keeps

ScanEnd ==
  /\ run = "scan" /\ ~panicked
  /\ buffer = <<>> /\ AtEnd
  /\ run' = "returned"
  /\ UNCHANGED <<waiter, stopper, go, process, pipe, readEnd, keeps, reading>>

\* bufio.ErrTooLong: Scan returns false, nobody asks why.
ScanTooLong ==
  /\ run = "scan" /\ ~panicked
  /\ buffer # <<>> /\ Head(buffer).long
  /\ run' = "returned"
  /\ UNCHANGED <<waiter, stopper, go, process, pipe, readEnd, keeps, reading>>

-----------------------------------------------------------------------------
(* "if hdl.closer != nil { hdl.closer.Close(); hdl.closer = nil }" reads   *)
(* hdl.closer twice, and each word of it apart.                            *)
CloseOrPanic ==
  IF closer THEN readEnd' = "closed" /\ UNCHANGED panicked
  ELSE \* a torn read gives Close a nil file, which it refuses
       \/ UNCHANGED <<readEnd, panicked>>
       \/ panicked' = TRUE /\ readEnd' = "closed"

MutWaitOnly == "done"

\* Where the goroutine goes when the child has ended.
AfterWait == IF closer THEN "close" ELSE "done"

MutNoWait ==
  /\ waiter = "wait" /\ ~panicked
  /\ waiter' = AfterWait
  /\ UNCHANGED <<run, stopper, go, process, pipe, readEnd, keeps, reading>>

WaitReturns ==
  /\ waiter = "wait" /\ child = "exited" /\ ~panicked
  /\ waiter' = AfterWait
  /\ UNCHANGED <<run, stopper, go, process, pipe, readEnd, keeps, reading>>

WaiterCloses ==
  /\ waiter = "close" /\ ~panicked
  /\ CloseOrPanic
  /\ waiter' = "clear"
  /\ UNCHANGED <<run, stopper, proc, closer, process, pipe, keeps, reading>>

WaiterClears ==
  /\ waiter = "clear" /\ ~panicked
  /\ closer' = FALSE
  /\ waiter' = "done"
  /\ UNCHANGED <<run, stopper, proc, panicked, process, pipe, readEnd, keeps,
                 reading>>

MutCloses == "close"

\* Where Shutdown goes when it is called.
AfterCall == IF closer THEN "close" ELSE "stop"

Shutdown ==
  /\ stopper = "idle" /\ ~panicked
  /\ EarlyShutdown \/ run \in {"scan", "returned"}
  /\ stopper' = AfterCall
  /\ UNCHANGED <<run, waiter, go, process, pipe, readEnd, keeps, reading>>

ShutdownCloses ==
  /\ stopper = "close" /\ ~panicked
  /\ CloseOrPanic
  /\ stopper' = "clear"
  /\ UNCHANGED <<run, waiter, proc, closer, process, pipe, keeps, reading>>

ShutdownClears ==
  /\ stopper = "clear" /\ ~panicked
  /\ closer' = FALSE
  /\ stopper' = "stop"
  /\ UNCHANGED <<run, waiter, proc, panicked, process, pipe, readEnd, keeps,
                 reading>>

MutSignalled == child

\* hdl.proc.Stop signals a child that runs.
Signalled == IF child = "running" THEN "signalled" ELSE child

ShutdownStops ==
  /\ stopper = "stop" /\ ~panicked
  /\ stopper' = "stopping"
  /\ IF proc THEN child' = Signalled /\ UNCHANGED <<panicked, readEnd>>
     ELSE panicked' = TRUE /\ readEnd' = "closed" /\ UNCHANGED child
  /\ UNCHANGED <<run, waiter, proc, closer, lines, pipe, keeps, reading>>

\* Stop waits for the end of what it signalled.
ShutdownReturns ==
  /\ stopper = "stopping" /\ child # "signalled" /\ ~panicked
  /\ stopper' = "done"
  /\ UNCHANGED <<run, waiter, go, process, pipe, readEnd, keeps, reading>>

-----------------------------------------------------------------------------
(* The child.  It writes without a buffer of its own; a full pipe makes it *)
(* wait, a pipe that nobody can read kills it (SIGPIPE).                   *)
Write(long) ==
  /\ child = "running" /\ readEnd = "open"
  /\ lines < MaxLines /\ Len(pipe) < PipeCap
  /\ long => LongLines
  /\ lines' = lines + 1
  /\ pipe' = Append(pipe, [nth |-> lines + 1, long |-> long])
  /\ UNCHANGED <<run, waiter, stopper, go, child, readEnd, keeps, reading>>

Dies ==
  /\ child \in {"running", "signalled"}
  /\ child' = "exited"
  /\ UNCHANGED <<run, waiter, stopper, go, lines, pipe, readEnd, keeps, reading>>

DiesOfSignal == child = "signalled" /\ Dies

-----------------------------------------------------------------------------
ServerInit ==
  /\ run = "start" /\ waiter = "none" /\ stopper = "idle"
  /\ proc = FALSE /\ closer = FALSE /\ panicked = FALSE
  /\ child = "none" /\ lines = 0
  /\ pipe = <<>> /\ readEnd = "none" /\ keeps \in BOOLEAN
  /\ buffer = <<>> /\ hooked = <<>>

RunServe ==
  \/ NewProcess \/ MakePipe \/ Execute \/ SetCloser
  \/ ScanRead \/ ScanLine \/ ScanEnd \/ ScanTooLong

Waiter == WaitReturns \/ WaiterCloses \/ WaiterClears

Stopper == ShutdownCloses \/ ShutdownClears \/ ShutdownStops \/ ShutdownReturns

ServerNext ==
  \/ RunServe \/ Waiter \/ Stopper
  \/ Shutdown
  \/ \E long \in BOOLEAN : Write(long)
  \/ Dies

ServerSpec == ServerInit /\ [][ServerNext]_serverVars

\* Every goroutine that can go on does, a signal kills the child in the end;
\* nothing is assumed of when the child writes or ends by itself, nor of
\* whether Shutdown is called.
FairServerSpec ==
  /\ ServerSpec
  /\ WF_serverVars(RunServe) /\ WF_serverVars(Waiter) /\ WF_serverVars(Stopper)
  /\ WF_serverVars(DiesOfSignal)

-----------------------------------------------------------------------------
(* Properties.                                                             *)
ServerTypeOK ==
  /\ run \in {"start", "pipe", "execute", "closer", "scan", "returned"}
  /\ waiter \in {"none", "wait", "close", "clear", "done"}
  /\ stopper \in {"idle", "close", "clear", "stop", "stopping", "done"}
  /\ proc \in BOOLEAN /\ closer \in BOOLEAN /\ panicked \in BOOLEAN
  /\ child \in {"none", "running", "signalled", "exited"}
  /\ lines \in 0..MaxLines
  /\ pipe \in Seq(Line) /\ Len(pipe) <= PipeCap
  /\ readEnd \in {"none", "open", "closed"} /\ keeps \in BOOLEAN
  /\ buffer \in Seq(Line) /\ hooked \in Seq(Nat)

(* The output is scanned until the process has ended or the pipe is        *)
(* closed: RunServe does not return before.  A line that is too long       *)
(* refutes it, see MCSupervisorLong.cfg.                                   *)
ScansUntilEnd ==
  run = "returned" => child = "exited" \/ readEnd = "closed"

Closed == {"stop", "stopping", "done"}

(* The program dereferences nil only if Shutdown comes before NewProcess,  *)
(* or if it and the goroutine that waits for the child both were at        *)
(* hdl.closer: neither of them alone, nor the scanner, finds nil there.    *)
PanicNeedsBoth ==
  panicked =>
    ~proc \/ (waiter \in {"clear", "done"} /\ stopper \in Closed \cup {"clear"})

(* The read end lives as long as it has to and no longer, although two     *)
(* goroutines close it without a lock: it is closed under a child that     *)
(* still runs only when Shutdown is past closing it, so that nothing else  *)
(* kills the child with SIGPIPE; and when the goroutine that waited for    *)
(* the child is done with it, or Shutdown has closed it, it is closed,     *)
(* whoever of the two was overtaken, so that no scan waits on it for ever. *)
PipeFollowsChild ==
  /\ readEnd = "closed" => child = "exited" \/ stopper \in Closed \cup {"clear"}
  /\ waiter \in {"clear", "done"} \/ stopper = "clear" => readEnd = "closed"

(* The hook is given the lines in the order they were written, each once   *)
(* and none left out; what was written and not handed over is, in that     *)
(* order, with the scanner and in the pipe.                                *)
LinesInOrder ==
  /\ \A i \in 1..Len(hooked) : hooked[i] = i
  /\ \A i \in 1..Len(buffer) : buffer[i].nth = Len(hooked) + i
  /\ \A i \in 1..Len(pipe) : pipe[i].nth = Len(hooked) + Len(buffer) + i
  /\ lines = Len(hooked) + Len(buffer) + Len(pipe)

(* When a Shutdown that found RunServe scanning returns, the child has     *)
(* ended.                                                                  *)
StoppedMeansEnded ==
  ~EarlyShutdown /\ stopper = "done" => child = "exited"

(* When the child has ended RunServe returns, though the write end of the  *)
(* pipe may still be open in this very process and no end of file comes.   *)
RunReturns == child = "exited" ~> run = "returned" \/ panicked

(* While RunServe scans, a child that waits for room in the pipe gets it,  *)
(* is gone, or can no longer write anyway.                                 *)
NotStuck ==
  Len(pipe) = PipeCap /\ child = "running" /\ run = "scan"
    ~> \/ Len(pipe) < PipeCap
       \/ child # "running" \/ run # "scan" \/ readEnd = "closed"

(* A child that runs when Shutdown comes to stop it ends, whatever the two *)
(* goroutines do with the closer meanwhile.                                *)
ShutdownEndsChild ==
  stopper = "stop" /\ child = "running" ~> child = "exited" \/ panicked

(* After Shutdown has been called, no child stays behind for ever.         *)
NoChildLeft == stopper # "idle" ~> [](child \in {"none", "exited"})
=============================================================================
