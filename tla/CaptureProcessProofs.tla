------------------------ MODULE CaptureProcessProofs ------------------------
(***************************************************************************)
(* Proofs about CaptureProcess, for every set of interfaces, every option  *)
(* and every size of the receive buffer.  What the process holds is told   *)
(* by the step it is at, and the filter is attached only behind the steps  *)
(* that configure it and attach the probes.  At the end, proofs about the  *)
(* Go server that runs the process (Supervisor).                           *)
(***************************************************************************)
EXTENDS CaptureProcess, Supervisor, TLAPS

Running == {"loop", "tested", "poll", "drain"}

\* What the process holds when it is at p.
HeldAt(p) ==
  CASE p \in {"rlimit", "socket", "exited"} -> {}
    [] p \in {"bind", "open"} -> {"socket"}
    [] p \in {"load", "configure", "find", "tcp_connect"} -> {"socket", "object"}
    [] p = "inet_csk_accept" -> {"socket", "object", "tcp_connect"}
    [] p = "tcp_sendmsg" ->
         {"socket", "object", "tcp_connect", "inet_csk_accept"}
    [] p = "udp_sendmsg" ->
         {"socket", "object", "tcp_connect", "inet_csk_accept", "tcp_sendmsg"}
    [] OTHER -> Probes \cup {"socket", "object"}

Configured ==
  {"find", "tcp_connect", "inet_csk_accept", "tcp_sendmsg", "udp_sendmsg",
   "filter", "cache"} \cup Running

IInv ==
  /\ pc \in Step \cup Running \cup {"exited"}
  /\ ~misused /\ misused \in BOOLEAN
  /\ held = HeldAt(pc)
  /\ written \in BOOLEAN /\ filter \in BOOLEAN
  /\ pc \in Configured => written
  /\ filter => written /\ pc \in {"cache", "exited"} \cup Running
  /\ queue \in Seq([frame : Frame, judged : BOOLEAN])
  /\ JudgedWanted

-----------------------------------------------------------------------------
(* The order of the steps.                                                 *)
LEMMA OrderLen == Len(Order) = 13
BY DEF Order

LEMMA StepSet ==
  Step = {"rlimit", "socket", "bind", "open", "load", "configure", "find",
          "tcp_connect", "inet_csk_accept", "tcp_sendmsg", "udp_sendmsg",
          "filter", "cache"}
BY DEF Step, Order

LEMMA OrderInjective ==
  \A i, j \in 1..13 : Order[i] = Order[j] => i = j
BY DEF Order

LEMMA FollowsNext ==
  ASSUME NEW i \in 1..13
  PROVE  Follows(Order[i]) = IF i = 13 THEN "loop" ELSE Order[i + 1]
<1>1. (CHOOSE j \in 1..13 : Order[j] = Order[i]) = i
  BY OrderInjective
<1>2. 1..Len(Order) = 1..13
  BY OrderLen
<1>3. Position(Order[i]) = i
  BY <1>1, <1>2 DEF Position
<1> QED
  BY <1>3, OrderLen DEF Follows

LEMMA FollowsValue ==
  /\ Follows("rlimit") = "socket"
  /\ Follows("socket") = "bind"
  /\ Follows("bind") = "open"
  /\ Follows("open") = "load"
  /\ Follows("load") = "configure"
  /\ Follows("configure") = "find"
  /\ Follows("find") = "tcp_connect"
  /\ Follows("tcp_connect") = "inet_csk_accept"
  /\ Follows("inet_csk_accept") = "tcp_sendmsg"
  /\ Follows("tcp_sendmsg") = "udp_sendmsg"
  /\ Follows("udp_sendmsg") = "filter"
  /\ Follows("filter") = "cache"
  /\ Follows("cache") = "loop"
<1>1. \A i \in 1..13 : Follows(Order[i]) = IF i = 13 THEN "loop" ELSE Order[i + 1]
  BY FollowsNext
<1>2. /\ Order[1] = "rlimit" /\ Order[2] = "socket" /\ Order[3] = "bind"
      /\ Order[4] = "open" /\ Order[5] = "load" /\ Order[6] = "configure"
      /\ Order[7] = "find" /\ Order[8] = "tcp_connect"
      /\ Order[9] = "inet_csk_accept" /\ Order[10] = "tcp_sendmsg"
      /\ Order[11] = "udp_sendmsg" /\ Order[12] = "filter" /\ Order[13] = "cache"
  BY DEF Order
<1> HIDE DEF Order
<1> QED
  BY <1>1, <1>2

-----------------------------------------------------------------------------
(* Giving back.  An error path gives back what is held at its step, and    *)
(* each thing is held when its turn comes.                                 *)
LEMMA GivenBack ==
  ASSUME NEW things, GiveBack(things), ~misused, misused \in BOOLEAN,
         held = {things[n] : n \in 1..Len(things)},
         \A n \in 1..Len(things) : \A m \in 1..n - 1 : things[m] # things[n]
  PROVE  held' = {} /\ ~misused' /\ misused' \in BOOLEAN
<1>1. \A n \in 1..Len(things) :
        things[n] \in held \ {things[m] : m \in 1..n - 1}
  OBVIOUS
<1> QED
  BY <1>1 DEF GiveBack

LEMMA UndoneHeld ==
  ASSUME NEW step \in Step \ {"cache"}
  PROVE  /\ HeldAt(step) = {Undone(step)[n] : n \in 1..Len(Undone(step))}
         /\ \A n \in 1..Len(Undone(step)) :
              \A m \in 1..n - 1 : Undone(step)[m] # Undone(step)[n]
<1>1. CASE step \in {"rlimit", "socket"}
  BY <1>1 DEF Undone, HeldAt
<1>2. CASE step \in {"bind", "open"}
  BY <1>2 DEF Undone, HeldAt
<1>3. CASE step \in {"load", "configure", "find", "tcp_connect"}
  BY <1>3 DEF Undone, HeldAt, Probes
<1>4. CASE step = "inet_csk_accept"
  BY <1>4 DEF Undone, HeldAt, Probes
<1>5. CASE step = "tcp_sendmsg"
  BY <1>5 DEF Undone, HeldAt, Probes
<1>6. CASE step = "udp_sendmsg"
  BY <1>6 DEF Undone, HeldAt, Probes
<1>7. CASE step = "filter"
  BY <1>7 DEF Undone, HeldAt, Probes
<1> QED
  BY <1>1, <1>2, <1>3, <1>4, <1>5, <1>6, <1>7, StepSet

LEMMA EndHeld ==
  ASSUME NEW p \in Running
  PROVE  /\ HeldAt(p) = {UndoneAtEnd[n] : n \in 1..Len(UndoneAtEnd)}
         /\ \A n \in 1..Len(UndoneAtEnd) :
              \A m \in 1..n - 1 : UndoneAtEnd[m] # UndoneAtEnd[n]
BY DEF Running, HeldAt, UndoneAtEnd, Probes

-----------------------------------------------------------------------------
LEMMA InitInv == Init => IInv
<1> SUFFICES ASSUME Init PROVE IInv
  OBVIOUS
<1>1. pc = "rlimit"
  BY DEF Init, Order
<1>2. held = HeldAt(pc)
  BY <1>1 DEF Init, HeldAt
<1>3. pc \in Step /\ pc \notin Configured
  BY <1>1, StepSet DEF Configured, Running
<1>4. queue \in Seq([frame : Frame, judged : BOOLEAN]) /\ JudgedWanted
  BY DEF Init, JudgedWanted
<1> QED
  BY <1>2, <1>3, <1>4 DEF Init, IInv

LEMMA SucceedKeeps ==
  ASSUME IInv, Succeed
  PROVE  IInv'
<1>1. pc \in Step /\ pc' = Follows(pc)
  BY DEF Succeed
<1>2. held' = HeldAt(pc')
  <2>1. held' = HeldAt(pc) \cup Acquired(pc)
    BY DEF IInv, Succeed
  <2>2. ASSUME NEW p \in Step
        PROVE  HeldAt(Follows(p)) = HeldAt(p) \cup Acquired(p)
    BY StepSet, FollowsValue DEF HeldAt, Acquired, Probes
  <2> QED
    BY <1>1, <2>1, <2>2
<1>3. pc' \in Step \cup Running \cup {"exited"}
  BY <1>1, StepSet, FollowsValue DEF Running
<1>4. pc' \in Configured => written'
  BY <1>1, StepSet, FollowsValue DEF IInv, Succeed, Configured, Running
<1>5. filter' => written' /\ pc' \in {"cache", "exited"} \cup Running
  BY <1>1, StepSet, FollowsValue DEF IInv, Succeed, Configured, Running
<1>6. queue' = queue /\ misused' = misused
      /\ written' \in BOOLEAN /\ filter' \in BOOLEAN
  BY DEF Succeed, input, IInv
<1>7. JudgedWanted'
  BY <1>6 DEF IInv, JudgedWanted, Wanted
<1> QED
  BY <1>2, <1>3, <1>4, <1>5, <1>6, <1>7 DEF IInv

(* main returns, having given back what it held.                           *)
LEMMA ExitKeeps ==
  ASSUME IInv, NEW things, GiveBack(things), pc' = "exited",
         UNCHANGED <<setup, input>>,
         HeldAt(pc) = {things[n] : n \in 1..Len(things)},
         \A n \in 1..Len(things) : \A m \in 1..n - 1 : things[m] # things[n]
  PROVE  IInv'
<1>1. held' = {} /\ ~misused' /\ misused' \in BOOLEAN
  BY GivenBack DEF IInv
<1>2. held' = HeldAt(pc')
  BY <1>1 DEF HeldAt
<1>3. queue' = queue /\ written' = written /\ filter' = filter
  BY DEF setup, input
<1>4. JudgedWanted'
  BY <1>3 DEF IInv, JudgedWanted, Wanted
<1> QED
  BY <1>1, <1>2, <1>3, <1>4 DEF IInv, Configured, Running

LEMMA FailKeeps == IInv /\ Fail => IInv'
<1> SUFFICES ASSUME IInv, Fail PROVE IInv'
  OBVIOUS
<1>1. pc \in Step \ {"cache"} /\ GiveBack(Undone(pc)) /\ pc' = "exited"
      /\ UNCHANGED <<setup, input>>
  BY DEF Fail
<1> QED
  BY <1>1, UndoneHeld, ExitKeeps

LEMMA EndKeeps == IInv /\ (Exit \/ PollFails) => IInv'
<1> SUFFICES ASSUME IInv, Exit \/ PollFails PROVE IInv'
  OBVIOUS
<1>1. pc \in Running /\ GiveBack(UndoneAtEnd) /\ pc' = "exited"
  BY DEF Exit, PollFails, Running
<1>2. UNCHANGED <<setup, input>>
  BY DEF Exit, PollFails
<1> QED
  BY <1>1, <1>2, EndHeld, ExitKeeps

(* The loop takes frames from the queue or leaves it.                      *)
LEMMA LoopKeeps ==
  ASSUME IInv, pc \in Running, pc' \in Running, UNCHANGED <<owned, setup>>,
         queue' = queue \/ (queue # <<>> /\ queue' = Tail(queue))
  PROVE  IInv'
<1>1. held' = HeldAt(pc')
  BY DEF IInv, HeldAt, Running, owned
<1>2. queue' \in Seq([frame : Frame, judged : BOOLEAN])
  BY DEF IInv
<1>3. JudgedWanted'
  <2>1. CASE queue' = queue
    BY <2>1 DEF IInv, JudgedWanted, Wanted
  <2>2. CASE queue # <<>> /\ queue' = Tail(queue)
    <3>1. \A i \in 1..Len(queue') :
            i + 1 \in 1..Len(queue) /\ queue'[i] = queue[i + 1]
      BY <2>2 DEF IInv
    <3> QED
      BY <3>1 DEF IInv, JudgedWanted, Wanted
  <2> QED
    BY <2>1, <2>2
<1> QED
  BY <1>1, <1>2, <1>3 DEF IInv, Configured, Running, owned, setup

LEMMA ArriveKeeps ==
  ASSUME IInv, NEW f \in Frame, Arrive(f)
  PROVE  IInv'
<1>1. UNCHANGED <<pc, owned, setup>>
  BY DEF Arrive
<1> DEFINE e == [frame |-> f, judged |-> filter]
<1>2. queue' \in {queue, Append(queue, e)} /\ (filter => Judge(f))
  BY DEF Arrive
<1>3. e \in [frame : Frame, judged : BOOLEAN] /\ (e.judged => Wanted(e.frame))
  BY <1>2 DEF IInv, Judge, Wanted
<1> HIDE DEF e
<1>4. queue' \in Seq([frame : Frame, judged : BOOLEAN])
  <2> DEFINE E == [frame : Frame, judged : BOOLEAN]
  <2>1. queue \in Seq(E) /\ e \in E
    BY <1>3 DEF IInv
  <2> HIDE DEF E
  <2>2. Append(queue, e) \in Seq(E)
    BY <2>1
  <2>3. queue' \in Seq(E)
    BY <1>2, <2>1, <2>2
  <2> QED
    BY <2>3 DEF E
<1>5. JudgedWanted'
  <2>1. CASE queue' = queue
    BY <2>1 DEF IInv, JudgedWanted, Wanted
  <2>2. CASE queue' = Append(queue, e)
    <3>1. \A i \in 1..Len(queue') :
            \/ i \in 1..Len(queue) /\ queue'[i] = queue[i]
            \/ queue'[i] = e
      BY <1>3, <2>2 DEF IInv
    <3> QED
      BY <1>3, <3>1 DEF IInv, JudgedWanted, Wanted
  <2> QED
    BY <1>2, <2>1, <2>2
<1> QED
  BY <1>1, <1>4, <1>5 DEF IInv, owned, setup

LEMMA StaysKeeps ==
  ASSUME IInv, UNCHANGED <<owned, setup, queue>>,
         pc' = pc \/ (pc \in Running /\ pc' \in Running)
  PROVE  IInv'
<1>1. CASE pc' = pc
  BY <1>1 DEF IInv, owned, setup, JudgedWanted, Wanted
<1>2. CASE pc \in Running /\ pc' \in Running
  BY <1>2, LoopKeeps
<1> QED
  BY <1>1, <1>2

LEMMA StepInv == IInv /\ [Next]_vars => IInv'
<1> SUFFICES ASSUME IInv, [Next]_vars PROVE IInv'
  OBVIOUS
<1>1. CASE Succeed
  BY <1>1, SucceedKeeps
<1>2. CASE Fail
  BY <1>2, FailKeeps
<1>3. CASE LoopTest \/ CallPoll \/ PollReady \/ PollIdle \/ DrainError \/ DrainEnd
  BY <1>3, StaysKeeps
     DEF LoopTest, CallPoll, PollReady, PollIdle, DrainError, DrainEnd, input, Running
<1>4. CASE DrainFrame
  BY <1>4, LoopKeeps DEF DrainFrame, Running
<1>5. CASE Exit \/ PollFails
  BY <1>5, EndKeeps
<1>6. ASSUME NEW f \in Frame, Arrive(f) PROVE IInv'
  BY <1>6, ArriveKeeps
<1>7. CASE NetDown
  BY <1>7, StaysKeeps DEF NetDown
<1>8. CASE Interrupt
  BY <1>8, StaysKeeps DEF Interrupt, Running
<1>9. CASE UNCHANGED vars
  BY <1>9, StaysKeeps DEF vars, input
<1> QED
  BY <1>1, <1>2, <1>3, <1>4, <1>5, <1>6, <1>7, <1>8, <1>9 DEF Next, Program

LEMMA Invariant == Spec => []IInv
BY InitInv, StepInv, PTL DEF Spec

(* Whichever step of main or of open_and_attach_bpf fails, the process     *)
(* leaves nothing behind and frees nothing twice.                          *)
THEOREM ExitsClean == Spec => []CleanExit
<1>1. IInv => CleanExit
  BY DEF IInv, CleanExit, Exited, HeldAt
<1> QED
  BY Invariant, <1>1, PTL

(* capture_prog is attached behind the four probes.                        *)
THEOREM ProbesComeFirst == Spec => []ProbesFirst
<1>1. IInv => ProbesFirst
  BY DEF IInv, ProbesFirst, Exited, HeldAt, Running
<1> QED
  BY Invariant, <1>1, PTL

(* Whatever capture_prog lets through satisfies -interface and -pcap-rules.*)
THEOREM FilterKnowsOptions == Spec => []JudgedWanted
<1>1. IInv => JudgedWanted
  BY DEF IInv
<1> QED
  BY Invariant, <1>1, PTL

-----------------------------------------------------------------------------
(* The Go server that runs this process as its child: Supervisor, for any  *)
(* size of the pipe and any length of the lines.                           *)

\* Who finds hdl.closer gone after having tested it was overtaken by the other.
Overtaken ==
  /\ waiter = "close" /\ ~closer => stopper \in Closed
  /\ stopper = "close" /\ ~closer => waiter = "done"

\* The closer is set before it is used, and the read end is closed before the
\* closer is cleared; the goroutine closes only behind the end of the child.
ClosesBeforeClears ==
  /\ closer => waiter # "none"
  /\ waiter # "none" => run \in {"scan", "returned"}
  /\ waiter # "none" /\ ~closer => readEnd = "closed"
  /\ waiter \in {"close", "clear", "done"} => child = "exited"
  /\ stopper \in {"close", "clear"} => waiter # "none"

\* What RunServe has made by the time it scans.
Launched ==
  /\ run # "start" => proc
  /\ run \in {"start", "pipe", "execute"} <=> child = "none"
  /\ ~EarlyShutdown /\ stopper # "idle" => run \in {"scan", "returned"}
  /\ ~EarlyShutdown /\ stopper \in {"stopping", "done"}
       => child \in {"signalled", "exited"}

SInv ==
  /\ panicked \in BOOLEAN /\ closer \in BOOLEAN
  /\ child \in {"none", "running", "signalled", "exited"}
  /\ PanicNeedsBoth /\ PipeFollowsChild /\ Overtaken /\ ClosesBeforeClears
  /\ Launched /\ StoppedMeansEnded

LEMMA InitServer == ServerInit => SInv
BY DEF ServerInit, SInv, PipeFollowsChild, ClosesBeforeClears,
       PanicNeedsBoth, Closed, Overtaken, Launched, StoppedMeansEnded

LEMMA RunServeKeeps == SInv /\ RunServe => SInv'
<1> SUFFICES ASSUME SInv, RunServe PROVE SInv'
  OBVIOUS
<1> USE DEF SInv, PipeFollowsChild, ClosesBeforeClears,
       PanicNeedsBoth, Closed, Overtaken, Launched, StoppedMeansEnded,
       go, process, reading
<1>1. CASE NewProcess
  BY <1>1 DEF NewProcess
<1>2. CASE MakePipe
  BY <1>2 DEF MakePipe
<1>3. CASE Execute
  BY <1>3 DEF Execute
<1>4. CASE SetCloser
  BY <1>4 DEF SetCloser
<1>5. CASE ScanRead
  BY <1>5 DEF ScanRead
<1>6. CASE ScanLine
  BY <1>6 DEF ScanLine
<1>7. CASE ScanEnd
  BY <1>7 DEF ScanEnd, AtEnd
<1>8. CASE ScanTooLong
  BY <1>8 DEF ScanTooLong
<1> QED
  BY <1>1, <1>2, <1>3, <1>4, <1>5, <1>6, <1>7, <1>8 DEF RunServe

LEMMA WaiterKeeps == SInv /\ Waiter => SInv'
<1> SUFFICES ASSUME SInv, Waiter PROVE SInv'
  OBVIOUS
<1> USE DEF SInv, PipeFollowsChild, ClosesBeforeClears,
       PanicNeedsBoth, Closed, Overtaken, Launched,
       StoppedMeansEnded, go, process, reading
<1>1. CASE WaitReturns
  BY <1>1 DEF WaitReturns, AfterWait
<1>2. CASE WaiterCloses
  BY <1>2 DEF WaiterCloses, CloseOrPanic
<1>3. CASE WaiterClears
  BY <1>3 DEF WaiterClears
<1> QED
  BY <1>1, <1>2, <1>3 DEF Waiter

LEMMA StopperKeeps == SInv /\ (Shutdown \/ Stopper) => SInv'
<1> SUFFICES ASSUME SInv, Shutdown \/ Stopper PROVE SInv'
  OBVIOUS
<1> USE DEF SInv, PipeFollowsChild, ClosesBeforeClears,
       PanicNeedsBoth, Closed, Overtaken, Launched,
       StoppedMeansEnded, go, process, reading
<1>1. CASE Shutdown
  BY <1>1 DEF Shutdown, AfterCall
<1>2. CASE ShutdownCloses
  BY <1>2 DEF ShutdownCloses, CloseOrPanic
<1>3. CASE ShutdownClears
  BY <1>3 DEF ShutdownClears
<1>4. CASE ShutdownStops
  BY <1>4 DEF ShutdownStops, Signalled
<1>5. CASE ShutdownReturns
  BY <1>5 DEF ShutdownReturns
<1> QED
  BY <1>1, <1>2, <1>3, <1>4, <1>5 DEF Stopper

LEMMA StepServer == SInv /\ [ServerNext]_serverVars => SInv'
<1> SUFFICES ASSUME SInv, [ServerNext]_serverVars PROVE SInv'
  OBVIOUS
<1> USE DEF SInv, PipeFollowsChild, ClosesBeforeClears,
       PanicNeedsBoth, Closed, Overtaken, Launched,
       StoppedMeansEnded, go, process, reading
<1>1. ASSUME NEW long \in BOOLEAN, Write(long) PROVE SInv'
  BY <1>1 DEF Write
<1>2. CASE Dies
  BY <1>2 DEF Dies
<1>3. CASE UNCHANGED serverVars
  BY <1>3 DEF serverVars
<1> QED
  BY <1>1, <1>2, <1>3, RunServeKeeps, WaiterKeeps, StopperKeeps DEF ServerNext

(* For every interleaving of the goroutine and Shutdown with torn reads of *)
(* hdl.closer, the read end is closed under a running child only by        *)
(* Shutdown, and it is closed when either of them is done with it.         *)
THEOREM PipeIsClosedInTime == ServerSpec => []PipeFollowsChild
<1>1. SInv => PipeFollowsChild
  BY DEF SInv
<1> QED
  BY <1>1, InitServer, StepServer, PTL DEF ServerSpec

(* The race for hdl.closer is the only way to a nil pointer, but for a     *)
(* Shutdown that comes before NewProcess: it takes the goroutine that      *)
(* waits and Shutdown, both with the closer in hand.                       *)
THEOREM PanicTakesBoth == ServerSpec => []PanicNeedsBoth
<1>1. SInv => PanicNeedsBoth
  BY DEF SInv
<1> QED
  BY <1>1, InitServer, StepServer, PTL DEF ServerSpec

(* If Shutdown is never called before RunServe scans, no child outlives    *)
(* it.                                                                     *)
THEOREM ShutdownLeavesNoChild == ServerSpec => []StoppedMeansEnded
<1>1. SInv => StoppedMeansEnded
  BY DEF SInv
<1> QED
  BY <1>1, InitServer, StepServer, PTL DEF ServerSpec

-----------------------------------------------------------------------------
(* The lines, from the child's write to the hook.                          *)
LineTypes ==
  /\ pipe \in Seq(Line) /\ buffer \in Seq(Line)
  /\ hooked \in Seq(Nat) /\ lines \in Nat

LInv == LineTypes /\ LinesInOrder

LEMMA LinesInit == ServerInit => LInv
BY DEF ServerInit, LInv, LineTypes, LinesInOrder

LEMMA ScanReadLines == LInv /\ ScanRead => LInv'
<1> SUFFICES ASSUME LInv, ScanRead PROVE LInv'
  OBVIOUS
<1>1. LineTypes'
  BY DEF LInv, LineTypes, ScanRead, process
<1>2. /\ buffer' = pipe /\ pipe' = <<>> /\ Len(buffer) = 0 /\ hooked' = hooked
      /\ lines' = lines
  BY DEF ScanRead, process
<1>3. Len(hooked) \in Nat /\ Len(pipe) \in Nat
  BY DEF LInv, LineTypes
<1>4. /\ \A i \in 1..Len(hooked) : hooked[i] = i
      /\ \A i \in 1..Len(pipe) : pipe[i].nth = Len(hooked) + Len(buffer) + i
      /\ lines = Len(hooked) + Len(buffer) + Len(pipe)
  BY DEF LInv, LinesInOrder
<1>5. \A i \in 1..Len(pipe) : pipe[i].nth = Len(hooked) + i
  BY <1>2, <1>3, <1>4
<1>6. Len(pipe') = 0 /\ lines' = Len(hooked') + Len(buffer') + Len(pipe')
  BY <1>2, <1>3, <1>4
<1>7. \A i \in 1..Len(pipe') : pipe'[i].nth = Len(hooked') + Len(buffer') + i
  BY <1>6
<1>8. /\ \A i \in 1..Len(hooked') : hooked'[i] = i
      /\ \A i \in 1..Len(buffer') : buffer'[i].nth = Len(hooked') + i
  BY <1>2, <1>4, <1>5
<1>9. LinesInOrder'
  BY <1>6, <1>7, <1>8 DEF LinesInOrder
<1> QED
  BY <1>1, <1>9 DEF LInv

LEMMA ScanLineLines == LInv /\ ScanLine => LInv'
<1> SUFFICES ASSUME LInv, ScanLine PROVE LInv'
  OBVIOUS
<1>1. /\ buffer # <<>> /\ buffer \in Seq(Line) /\ hooked \in Seq(Nat)
      /\ pipe \in Seq(Line) /\ lines \in Nat
      /\ pipe' = pipe /\ lines' = lines
      /\ hooked' = Append(hooked, Head(buffer).nth) /\ buffer' = Tail(buffer)
  BY DEF LInv, LineTypes, ScanLine, process
<1>2. /\ Len(hooked) \in Nat /\ Len(buffer) \in Nat \ {0} /\ Len(pipe) \in Nat
      /\ Len(hooked') = Len(hooked) + 1 /\ Len(buffer') = Len(buffer) - 1
      /\ Head(buffer) = buffer[1] /\ Head(buffer) \in Line
      /\ \A i \in 1..Len(hooked) : hooked'[i] = hooked[i]
      /\ hooked'[Len(hooked) + 1] = buffer[1].nth
      /\ \A i \in 1..Len(buffer) - 1 : buffer'[i] = buffer[i + 1]
  BY <1>1
<1>3. LineTypes'
  <2>1. Head(buffer).nth \in Nat
    BY <1>2 DEF Line
  <2> QED
    BY <1>1, <2>1 DEF LineTypes
<1>4. buffer[1].nth = Len(hooked) + 1
  BY <1>2 DEF LInv, LinesInOrder
<1>5. \A i \in 1..Len(hooked') : hooked'[i] = i
  <2>1. \A i \in 1..Len(hooked) : hooked'[i] = i
    BY <1>2 DEF LInv, LinesInOrder
  <2>2. \A i \in 1..Len(hooked') : i \in 1..Len(hooked) \/ i = Len(hooked) + 1
    BY <1>2
  <2> QED
    BY <1>2, <1>4, <2>1, <2>2
<1>6. \A i \in 1..Len(buffer') : buffer'[i].nth = Len(hooked') + i
  <2> SUFFICES ASSUME NEW i \in 1..Len(buffer) - 1
               PROVE  buffer[i + 1].nth = Len(hooked) + 1 + i
    BY <1>2
  <2>1. i + 1 \in 1..Len(buffer)
    BY <1>2
  <2>2. buffer[i + 1].nth = Len(hooked) + (i + 1)
    BY <2>1 DEF LInv, LinesInOrder
  <2> QED
    BY <2>2, <1>2
<1>7. Len(hooked') + Len(buffer') = Len(hooked) + Len(buffer)
  BY <1>2
<1>8. /\ \A i \in 1..Len(pipe') :
           pipe'[i].nth = (Len(hooked') + Len(buffer')) + i
      /\ lines' = (Len(hooked') + Len(buffer')) + Len(pipe')
  <2>1. /\ \A i \in 1..Len(pipe) : pipe[i].nth = Len(hooked) + Len(buffer) + i
        /\ lines = Len(hooked) + Len(buffer) + Len(pipe)
    BY DEF LInv, LinesInOrder
  <2>2. pipe' = pipe /\ lines' = lines
    BY <1>1
  <2> QED
    BY <1>7, <2>1, <2>2
<1>9. LinesInOrder'
  BY <1>5, <1>6, <1>8 DEF LinesInOrder
<1> QED
  BY <1>3, <1>9 DEF LInv

LEMMA WriteLines ==
  ASSUME LInv, NEW long \in BOOLEAN, Write(long)
  PROVE  LInv'
<1>1. /\ pipe \in Seq(Line) /\ lines \in Nat /\ buffer' = buffer
      /\ hooked' = hooked /\ buffer \in Seq(Line) /\ hooked \in Seq(Nat)
      /\ lines' = lines + 1
      /\ pipe' = Append(pipe, [nth |-> lines + 1, long |-> long])
  BY DEF LInv, LineTypes, Write, reading
<1>2. [nth |-> lines + 1, long |-> long] \in Line
  BY <1>1 DEF Line
<1>3. LineTypes'
  BY <1>1, <1>2 DEF LineTypes
<1>4. /\ Len(hooked) \in Nat /\ Len(buffer) \in Nat /\ Len(pipe) \in Nat
      /\ Len(pipe') = Len(pipe) + 1
      /\ \A i \in 1..Len(pipe) : pipe'[i] = pipe[i]
      /\ pipe'[Len(pipe) + 1].nth = lines + 1
  BY <1>1, <1>2
<1>5. lines + 1 = Len(hooked) + Len(buffer) + (Len(pipe) + 1)
  BY <1>4 DEF LInv, LinesInOrder
<1>6. \A i \in 1..Len(pipe') : pipe'[i].nth = Len(hooked) + Len(buffer) + i
  BY <1>4, <1>5 DEF LInv, LinesInOrder
<1>7. LinesInOrder'
  BY <1>1, <1>4, <1>5, <1>6 DEF LInv, LinesInOrder
<1> QED
  BY <1>3, <1>7 DEF LInv

LEMMA SameLines ==
  ASSUME LInv, UNCHANGED <<lines, pipe, buffer, hooked>>
  PROVE  LInv'
BY DEF LInv, LineTypes, LinesInOrder

LEMMA LinesStep == LInv /\ [ServerNext]_serverVars => LInv'
<1> SUFFICES ASSUME LInv, [ServerNext]_serverVars PROVE LInv'
  OBVIOUS
<1> USE DEF go, process, reading
<1>1. CASE RunServe
  <2>1. \/ ScanRead \/ ScanLine
        \/ UNCHANGED <<lines, pipe, buffer, hooked>>
    BY <1>1 DEF RunServe, NewProcess, MakePipe, Execute,
         SetCloser, ScanEnd, ScanTooLong
  <2> QED
    BY <2>1, ScanReadLines, ScanLineLines, SameLines
<1>2. CASE Waiter \/ Shutdown \/ Stopper \/ Dies
           \/ UNCHANGED serverVars
  <2>1. UNCHANGED <<lines, pipe, buffer, hooked>>
    BY <1>2 DEF Waiter, WaitReturns, WaiterCloses,
         WaiterClears, Shutdown, Stopper,
         ShutdownCloses, ShutdownClears, ShutdownStops,
         ShutdownReturns, Dies, serverVars
  <2> QED
    BY <2>1, SameLines
<1>3. ASSUME NEW long \in BOOLEAN, Write(long) PROVE LInv'
  BY <1>3, WriteLines
<1> QED
  BY <1>1, <1>2, <1>3 DEF ServerNext

(* However the child's writes and the scanner's reads fall, no line is     *)
(* lost, doubled or moved between the pipe and the hook.                   *)
THEOREM HookSeesLinesInOrder == ServerSpec => []LinesInOrder
<1>1. LInv => LinesInOrder
  BY DEF LInv
<1> QED
  BY <1>1, LinesInit, LinesStep, PTL DEF ServerSpec
=============================================================================
