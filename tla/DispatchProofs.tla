---------------------------- MODULE DispatchProofs ----------------------------
(***************************************************************************)
(* Theorems about Dispatch, for all jobs, queues and numbers of calls that *)
(* throw: what is measured, what is validated, when the L1s are accessed   *)
(* and what becomes of the trace.                                          *)
(*                                                                         *)
(* The argument: until a call throws, every Finish lies where the kind of  *)
(* command changes.  So at each call of the host the queue holds commands  *)
(* of one kind only, and the launches executed and those queued add up to  *)
(* a number the host's position determines (LaunchInv); the same position  *)
(* determines the state of the trace, the handler's included (TraceInv),   *)
(* and which loads and reads have had their effect (DataInv).              *)
(***************************************************************************)
EXTENDS Dispatch, TLAPS

LoadCommands == {"rows0", "rows1", "in0", "in1"}

ReadCommands ==
  {"readIn0", "readIn1", "read", "typecast", "untilize", "toVector"}

Commands == LoadCommands \cup ReadCommands \cup {"run", "replay"}

Cleaning == {"handlerEnd", "handlerFinish", "handlerRelease"}

BeforeCapture ==
  {"load", "finishLoad", "writeL1", "warmup", "finishWarmup", "begin"}

\* The measured window, and the release after it.
Window == {"start", "launch", "finishIteration", "replay", "finish", "stop",
           "release"}

AfterWindow == {"read", "finishRead", "readL1", "decode"}

Outputs == [launches : Int, inputs : SUBSET Inputs]

\* Where both inputs and the zeros are on the device.
Loaded ==
  {"warmup", "finishWarmup", "begin", "record", "end"} \cup Window
    \cup AfterWindow

DispatchTypes ==
  /\ job \in Jobs
  /\ pc \in BeforeCapture \cup {"record", "end"} \cup Window \cup AfterWindow
              \cup Cleaning \cup {"returned"}
  /\ i \in Nat
  /\ queue \in Seq(Commands)
  /\ trace \in [state : {"none", "capturing", "ready", "released"}, ops : Nat]
  /\ out \in [launches : Nat, inputs : SUBSET Inputs]
  /\ unpacked \in [typecast : Outputs, untilize : Outputs]
  /\ effective \in SUBSET {"in0", "in1"}
  /\ timer \in [begin : Int, end : Int]
  /\ traceId \in BOOLEAN /\ captureEnded \in BOOLEAN

\* Which test makes which calls.
PlaceInv ==
  /\ pc \in {"begin", "record", "end", "replay", "release"} =>
       job.test = "trace"
  /\ pc \in {"launch", "finishIteration"} => job.test # "trace"
  /\ pc = "finishIteration" => job.test # "async"
  /\ pc = "finish" => job.test \in {"async", "trace"}
  /\ pc \in {"writeL1", "finishWarmup", "begin", "end", "start", "finish",
             "stop", "release", "readL1"} => i = 0
  /\ pc = "record" => i < job.ops
  /\ pc \in {"load", "finishLoad"} => i < Len(Loads)
  /\ pc \in {"read", "finishRead"} => i < Len(Reads)
  /\ pc \in {"read", "finishRead"} => job.dram
  /\ pc = "readL1" => ~job.dram

Only(S) == \A k \in 1 .. Len(queue) : queue[k] \in S

\* The commands queued are all in S, and hold `weight` launches each; with
\* those executed they make n.
Queued(S, weight, n) == Only(S) /\ out.launches + Len(queue) * weight = n

Quiet(n) == queue = <<>> /\ out.launches = n

LaunchInv ==
  /\ pc \in {"load", "writeL1"} => Quiet(0)
  /\ pc = "finishLoad" => Queued(LoadCommands, 0, 0)
  /\ pc = "warmup" => i < Warmup /\ Queued({"run"}, 1, i)
  /\ pc = "finishWarmup" => Queued({"run"}, 1, Warmup)
  /\ pc \in {"begin", "record", "end", "start"} => Quiet(Warmup)
  /\ pc = "launch" =>
       /\ i < job.iters /\ Queued({"run"}, 1, Warmup + i)
       /\ job.test # "async" => queue = <<>>
  /\ pc = "finishIteration" =>
       i < job.iters /\ Queued({"run"}, 1, Warmup + i + 1)
  /\ pc = "replay" =>
       i < job.iters /\ Queued({"replay"}, job.ops, Warmup + i * job.ops)
  /\ pc = "finish" =>
       IF job.test = "async" THEN Queued({"run"}, 1, Warmup + TimedOps)
                             ELSE Queued({"replay"}, job.ops, Warmup + TimedOps)
  /\ pc \in {"stop", "release", "readL1"} => Quiet(Warmup + TimedOps)
  /\ pc \in {"read", "finishRead", "decode"} =>
       Queued(ReadCommands, 0, Warmup + TimedOps)

TimerInv ==
  timer.begin \in {-1, Warmup} /\ timer.end \in {-1, Warmup + TimedOps}

\* In the window, and after it, the flags of the handler tell the trace apart.
TraceInv ==
  /\ pc \in BeforeCapture =>
       ~traceId /\ ~captureEnded /\ trace.state = "none" /\ trace.ops = 0
  /\ pc \in {"record", "end"} =>
       /\ traceId /\ ~captureEnded /\ Capturing
       /\ trace.ops = (IF pc = "record" THEN i ELSE job.ops)
  /\ pc \in Window =>
       IF job.test = "trace"
       THEN /\ traceId /\ captureEnded
            /\ trace.state = "ready" /\ trace.ops = job.ops
       ELSE ~traceId /\ trace.state = "none"
  /\ pc \in AfterWindow => trace.state \in {"none", "released"}
  /\ pc = "handlerEnd" => Capturing
  /\ pc \in {"handlerFinish", "handlerRelease"} =>
       trace.state = "ready" \/ (Capturing /\ "handlerEnd" \in failed)
  /\ pc = "handlerRelease" => queue = <<>> \/ "handlerFinish" \in failed
  /\ pc = "returned" =>
       \/ trace.state \in {"none", "released"}
       \/ failed \cap {"handlerEnd", "handlerRelease"} # {}

IInv == DispatchTypes /\ PlaceInv /\ LaunchInv /\ TimerInv /\ TraceInv
-------------------------------------------------------------------------------
(* Facts the steps share *)

LEMMA JobFacts ==
  ASSUME job \in Jobs
  PROVE  /\ job.test \in {"direct", "async", "trace", "sync"}
         /\ job.iters \in Nat /\ job.warmup \in Nat /\ job.ops \in Nat \ {0}
         /\ {job.dram, job.check, job.zeros, job.packDevice, job.unpackDevice,
             job.fp32} \subseteq BOOLEAN
         /\ Warmup \in Nat /\ job.iters * job.ops \in Nat /\ TimedOps \in Nat
<1>1. job \in Job
  BY JobsAssumption
<1>2. /\ job.test \in {"direct", "async", "trace", "sync"}
      /\ job.iters \in Nat /\ job.warmup \in Nat /\ job.ops \in Nat \ {0}
      /\ {job.dram, job.check, job.zeros, job.packDevice, job.unpackDevice,
          job.fp32} \subseteq BOOLEAN
  BY <1>1 DEF Job
<1>3. Warmup \in Nat
  BY <1>2 DEF Warmup
<1>4. job.iters * job.ops \in Nat
  BY <1>2
<1>5. TimedOps \in Nat
  BY <1>2, <1>4 DEF TimedOps
<1> QED BY <1>2, <1>3, <1>4, <1>5

LEMMA JobFrame ==
  UNCHANGED job =>
    Warmup' = Warmup /\ TimedOps' = TimedOps /\ Loads' = Loads /\ Reads' = Reads
  BY DEF Warmup, TimedOps, Loads, Reads

\* What precedes what among the loads and among the reads.
LEMMA LoadsFacts ==
  /\ Len(Loads) \in Nat \ {0}
  /\ \A k \in 1 .. Len(Loads) :
       /\ Loads[k] \in LoadCommands
       /\ job.packDevice /\ Loads[k] = "in0" =>
            k - 1 \in 1 .. Len(Loads) /\ Loads[k - 1] = "rows0"
       /\ job.packDevice /\ Loads[k] = "in1" =>
            k - 1 \in 1 .. Len(Loads) /\ Loads[k - 1] = "rows1"
  /\ \A input \in {"in0", "in1"} : \E k \in 1 .. Len(Loads) : Loads[k] = input
<1>1. CASE job.packDevice
  <2>1. Loads = <<"rows0", "in0", "rows1", "in1">>
    BY <1>1 DEF Loads
  <2>2. Loads[2] = "in0" /\ Loads[4] = "in1"
    BY <2>1
  <2> QED BY <1>1, <2>1, <2>2 DEF LoadCommands
<1>2. CASE ~job.packDevice
  <2>1. Loads = <<"in0", "in1">>
    BY <1>2 DEF Loads
  <2>2. Loads[1] = "in0" /\ Loads[2] = "in1"
    BY <2>1
  <2> QED BY <1>2, <2>1, <2>2 DEF LoadCommands
<1> QED BY <1>1, <1>2

LEMMA ConcatFacts ==
  ASSUME NEW s \in Seq(ReadCommands), NEW t \in Seq(ReadCommands)
  PROVE  /\ Len(s \o t) = Len(s) + Len(t)
         /\ \A k \in 1 .. Len(s) : (s \o t)[k] = s[k]
         /\ \A k \in 1 .. Len(t) : (s \o t)[Len(s) + k] = t[k]
         /\ \A k \in 1 .. Len(s \o t) :
              k \in 1 .. Len(s) \/ k - Len(s) \in 1 .. Len(t)
  OBVIOUS

LEMMA ReadsFacts ==
  /\ Len(Reads) \in Nat \ {0}
  /\ \A k \in 1 .. Len(Reads) :
       /\ Reads[k] \in ReadCommands
       /\ Reads[k] = "untilize" /\ job.fp32 =>
            k - 1 \in 1 .. Len(Reads) /\ Reads[k - 1] = "typecast"
       /\ Reads[k] = "toVector" =>
            k - 1 \in 1 .. Len(Reads) /\ Reads[k - 1] = "untilize"
       /\ k = Len(Reads) <=> Reads[k] \in {"read", "toVector"}
  /\ job.packDevice /\ ~job.zeros =>
       /\ 1 \in 1 .. Len(Reads) /\ Reads[1] = "readIn0"
       /\ 2 \in 1 .. Len(Reads) /\ Reads[2] = "readIn1"
<1> DEFINE s == IF job.packDevice /\ ~job.zeros THEN <<"readIn0", "readIn1">>
                                               ELSE <<>>
           t == IF ~job.unpackDevice THEN <<"read">> ELSE
                IF job.fp32 THEN <<"typecast", "untilize", "toVector">>
                            ELSE <<"untilize", "toVector">>
<1>1. /\ s \in Seq(ReadCommands) /\ Len(s) \in {0, 2}
      /\ job.packDevice /\ ~job.zeros =>
           Len(s) = 2 /\ s[1] = "readIn0" /\ s[2] = "readIn1"
      /\ \A k \in 1 .. Len(s) : s[k] \in {"readIn0", "readIn1"}
  <2>1. CASE job.packDevice /\ ~job.zeros
    <3>1. s = <<"readIn0", "readIn1">>
      BY <2>1
    <3> HIDE DEF s
    <3> QED BY <3>1 DEF ReadCommands
  <2>2. CASE ~(job.packDevice /\ ~job.zeros)
    <3>1. s = <<>>
      BY <2>2
    <3> HIDE DEF s
    <3> QED BY <2>2, <3>1
  <2> QED BY <2>1, <2>2
<1>2. /\ t \in Seq(ReadCommands) /\ Len(t) \in {1, 2, 3}
      /\ \A k \in 1 .. Len(t) :
           /\ t[k] \in ReadCommands \ {"readIn0", "readIn1"}
           /\ t[k] = "untilize" /\ job.fp32 =>
                k - 1 \in 1 .. Len(t) /\ t[k - 1] = "typecast"
           /\ t[k] = "toVector" =>
                k - 1 \in 1 .. Len(t) /\ t[k - 1] = "untilize"
           /\ k = Len(t) <=> t[k] \in {"read", "toVector"}
  <2>1. CASE ~job.unpackDevice
    <3>1. t = <<"read">>
      BY <2>1
    <3> QED BY <3>1 DEF ReadCommands
  <2>2. CASE job.unpackDevice /\ job.fp32
    <3>1. t = <<"typecast", "untilize", "toVector">>
      BY <2>2
    <3> HIDE DEF t
    <3>2. /\ t \in Seq(ReadCommands) /\ Len(t) = 3
          /\ t[1] = "typecast" /\ t[2] = "untilize" /\ t[3] = "toVector"
      BY <3>1 DEF ReadCommands
    <3>3. \A k \in 1 .. Len(t) : k = 1 \/ k = 2 \/ k = 3
      BY <3>2
    <3> QED BY <3>2, <3>3 DEF ReadCommands
  <2>3. CASE job.unpackDevice /\ ~job.fp32
    <3>1. t = <<"untilize", "toVector">>
      BY <2>3
    <3> QED BY <2>3, <3>1 DEF ReadCommands
  <2> QED BY <2>1, <2>2, <2>3
<1>3. Reads = s \o t
  BY DEF Reads
<1> HIDE DEF s, t
<1>4. /\ Len(Reads) = Len(s) + Len(t)
      /\ \A k \in 1 .. Len(s) : Reads[k] = s[k]
      /\ \A k \in 1 .. Len(t) : Reads[Len(s) + k] = t[k]
      /\ \A k \in 1 .. Len(Reads) :
           k \in 1 .. Len(s) \/ k - Len(s) \in 1 .. Len(t)
  BY <1>1, <1>2, <1>3, ConcatFacts
<1>5. ASSUME NEW k \in 1 .. Len(Reads)
      PROVE  /\ Reads[k] \in ReadCommands
             /\ Reads[k] = "untilize" /\ job.fp32 =>
                  k - 1 \in 1 .. Len(Reads) /\ Reads[k - 1] = "typecast"
             /\ Reads[k] = "toVector" =>
                  k - 1 \in 1 .. Len(Reads) /\ Reads[k - 1] = "untilize"
             /\ k = Len(Reads) <=> Reads[k] \in {"read", "toVector"}
  <2>1. CASE k \in 1 .. Len(s)
    <3>1. Reads[k] \in {"readIn0", "readIn1"} /\ k # Len(Reads)
      <4>1. Reads[k] = s[k] /\ s[k] \in {"readIn0", "readIn1"}
        BY <1>1, <1>4, <2>1
      <4>2. Len(s) \in Nat /\ Len(t) \in Nat /\ Len(t) > 0
        BY <1>1, <1>2
      <4>3. k # Len(Reads)
        BY <1>4, <2>1, <4>2
      <4> QED BY <4>1, <4>3
    <3> QED BY <3>1 DEF ReadCommands
  <2>2. CASE k - Len(s) \in 1 .. Len(t)
    <3> DEFINE m == k - Len(s)
    <3>1. Reads[k] = t[m] /\ (m - 1 \in 1 .. Len(t) => Reads[k - 1] = t[m - 1])
      <4>1. k = Len(s) + m /\ k - 1 = Len(s) + (m - 1)
        BY <1>1
      <4> HIDE DEF m
      <4> QED BY <1>4, <2>2, <4>1 DEF m
    <3>2. k = Len(Reads) <=> m = Len(t)
      BY <1>1, <1>2, <1>4
    <3>3. m - 1 \in 1 .. Len(t) => k - 1 \in 1 .. Len(Reads)
      BY <1>1, <1>2, <1>4
    <3> HIDE DEF m
    <3>4. m \in 1 .. Len(t)
      BY <2>2 DEF m
    <3> QED BY <1>2, <3>1, <3>2, <3>3, <3>4
  <2> QED BY <1>4, <2>1, <2>2
<1>6. job.packDevice /\ ~job.zeros =>
        /\ 1 \in 1 .. Len(Reads) /\ Reads[1] = "readIn0"
        /\ 2 \in 1 .. Len(Reads) /\ Reads[2] = "readIn1"
  BY <1>1, <1>2, <1>4
<1> QED BY <1>1, <1>2, <1>4, <1>5, <1>6

LEMMA QueueFacts ==
  ASSUME NEW q \in Seq(Commands)
  PROVE  /\ Len(q) \in Nat
         /\ q = <<>> <=> Len(q) = 0
         /\ \A c \in Commands :
              /\ Append(q, c) \in Seq(Commands)
              /\ Len(Append(q, c)) = Len(q) + 1
              /\ Append(q, c)[Len(q) + 1] = c
              /\ \A k \in 1 .. Len(q) : Append(q, c)[k] = q[k]
         /\ q # <<>> =>
              /\ Head(q) = q[1] /\ Head(q) \in Commands
              /\ Tail(q) \in Seq(Commands) /\ Len(Tail(q)) = Len(q) - 1
              /\ \A k \in 1 .. Len(q) - 1 : Tail(q)[k] = q[k + 1]
  OBVIOUS

\* The launches a queued command stands for.
LaunchesOf(c) == IF c = "run" THEN 1 ELSE IF c = "replay" THEN trace.ops ELSE 0

\* A command is queued behind others of its kind.
LEMMA PutQueued ==
  ASSUME queue \in Seq(Commands), out.launches \in Nat, UNCHANGED out,
         NEW S, NEW w \in Nat, NEW n \in Nat, Queued(S, w, n),
         NEW c \in Commands \cap S, Put(c)
  PROVE  /\ queue' \in Seq(Commands)
         /\ \A k \in 1 .. Len(queue') : queue'[k] \in S
         /\ out'.launches + Len(queue') * w = n + w
<1>1. queue' = Append(queue, c)
  BY DEF Put
<1>2. Len(queue) \in Nat /\ queue' \in Seq(Commands) /\ Len(queue') = Len(queue) + 1
  BY <1>1, QueueFacts
<1>3. \A k \in 1 .. Len(queue') : queue'[k] \in S
  <2> TAKE k \in 1 .. Len(queue')
  <2>1. CASE k = Len(queue) + 1
    BY <1>1, <2>1, QueueFacts
  <2>2. CASE k \in 1 .. Len(queue)
    <3>1. queue'[k] = queue[k]
      BY <1>1, <2>2, QueueFacts
    <3> QED BY <2>2, <3>1 DEF Queued, Only
  <2> QED BY <1>2, <2>1, <2>2
<1>4. (Len(queue) + 1) * w = Len(queue) * w + w /\ Len(queue) * w \in Nat
  BY <1>2
<1>5. out.launches + Len(queue) * w = n
  BY DEF Queued
<1> QED BY <1>2, <1>3, <1>4, <1>5

LEMMA HeadOfQueue ==
  ASSUME queue \in Seq(Commands), queue # <<>>, NEW S, NEW w, NEW n,
         Queued(S, w, n)
  PROVE  Head(queue) \in S
<1>1. Len(queue) \in Nat /\ Len(queue) # 0 /\ Head(queue) = queue[1]
  BY QueueFacts
<1> QED BY <1>1 DEF Queued, Only

\* The device executes one of several commands of a kind.
LEMMA ExecuteQueued ==
  ASSUME queue \in Seq(Commands), out.launches \in Nat, queue # <<>>,
         queue' = Tail(queue),
         out'.launches = out.launches + LaunchesOf(Head(queue)),
         NEW S, NEW w \in Nat, NEW n \in Nat, Queued(S, w, n),
         LaunchesOf(Head(queue)) = w
  PROVE  /\ \A k \in 1 .. Len(queue') : queue'[k] \in S
         /\ out'.launches + Len(queue') * w = n
<1>1. /\ Len(queue) \in Nat /\ Len(queue) # 0 /\ Len(queue') = Len(queue) - 1
      /\ Head(queue) = queue[1]
      /\ \A k \in 1 .. Len(queue) - 1 : queue'[k] = queue[k + 1]
  BY QueueFacts
<1>2. (Len(queue) - 1) * w = Len(queue) * w - w /\ Len(queue) * w \in Nat
  BY <1>1
<1>3. out.launches + Len(queue) * w = n
  BY DEF Queued
<1>4. \A k \in 1 .. Len(queue') : queue'[k] \in S
  BY <1>1 DEF Queued, Only
<1> QED BY <1>1, <1>2, <1>3, <1>4

\* Once all commands are done, only what they have launched is left to say.
LEMMA QuietQueue ==
  ASSUME queue = <<>>, out.launches \in Nat, NEW S, NEW w \in Nat, NEW n
  PROVE  Queued(S, w, n) <=> out.launches = n
  BY DEF Queued, Only
-------------------------------------------------------------------------------
(* The initial state, and the steps up to the measured window *)

LEMMA InitIInv == Init => IInv
<1> SUFFICES ASSUME Init PROVE IInv
  OBVIOUS
<1>1. job \in Jobs /\ (pc = "load" \/ pc = "writeL1")
  BY DEF Init
<1>2. DispatchTypes
  <2>1. /\ out \in [launches : Nat, inputs : SUBSET Inputs]
        /\ unpacked \in [typecast : Outputs, untilize : Outputs]
    <3>1. None \in Outputs
      BY DEF None, Outputs
    <3> QED BY <3>1 DEF Init
  <2>2. timer \in [begin : Int, end : Int]
    BY DEF Init, None
  <2>3. /\ trace \in [state : {"none", "capturing", "ready", "released"}, ops : Nat]
        /\ queue \in Seq(Commands) /\ effective \in SUBSET {"in0", "in1"}
    BY DEF Init
  <2>4. i \in Nat /\ traceId \in BOOLEAN /\ captureEnded \in BOOLEAN
    BY DEF Init
  <2> QED BY <1>1, <2>1, <2>2, <2>3, <2>4 DEF DispatchTypes, BeforeCapture
<1>3. PlaceInv
  BY <1>1, LoadsFacts DEF Init, PlaceInv
<1>4. LaunchInv
  BY <1>1 DEF Init, LaunchInv, Quiet
<1>5. TimerInv /\ TraceInv
  BY <1>1 DEF Init, TimerInv, TraceInv, None, BeforeCapture, Window, AfterWindow
<1> QED BY <1>2, <1>3, <1>4, <1>5 DEF IInv

LEMMA EnqueueLoadStep == IInv /\ EnqueueLoad => IInv'
<1> SUFFICES ASSUME IInv, EnqueueLoad PROVE IInv'
  OBVIOUS
<1>1. /\ pc = "load" /\ pc' = "finishLoad" /\ Put(Loads[i + 1])
      /\ UNCHANGED <<job, i, traceId, captureEnded, failed, timer, trace, out,
                     unpacked, effective>>
  BY DEF EnqueueLoad, GoTo, results
<1>2. job \in Jobs /\ Warmup' = Warmup /\ TimedOps' = TimedOps /\ Loads' = Loads
  BY <1>1, JobFrame DEF IInv, DispatchTypes
<1>3. /\ queue \in Seq(Commands) /\ out.launches \in Nat
      /\ Queued(LoadCommands, 0, 0)
  BY <1>1, QuietQueue DEF IInv, DispatchTypes, LaunchInv, Quiet
<1>4. Loads[i + 1] \in Commands \cap LoadCommands
  BY <1>1, LoadsFacts DEF IInv, DispatchTypes, PlaceInv, Commands
<1>5. /\ queue' \in Seq(Commands)
      /\ \A k \in 1 .. Len(queue') : queue'[k] \in LoadCommands
      /\ out'.launches + Len(queue') * 0 = 0 + 0
  <2>1. PICK c \in Commands \cap LoadCommands : c = Loads[i + 1]
    BY <1>4
  <2>2. Put(c) /\ UNCHANGED out /\ 0 \in Nat
    BY <1>1, <2>1
  <2> QED BY <1>3, <2>2, PutQueued
<1>6. DispatchTypes'
  BY <1>1, <1>2, <1>5 DEF IInv, DispatchTypes, BeforeCapture
<1>7. PlaceInv'
  BY <1>1, <1>2 DEF IInv, PlaceInv
<1>8. LaunchInv'
  BY <1>1, <1>5 DEF LaunchInv, Queued, Only
<1>9. TimerInv' /\ TraceInv'
  BY <1>1, <1>2 DEF IInv, TimerInv, TraceInv, BeforeCapture, Window, AfterWindow
<1> QED BY <1>6, <1>7, <1>8, <1>9 DEF IInv

LEMMA FinishLoadStep == IInv /\ FinishLoad => IInv'
<1> SUFFICES ASSUME IInv, FinishLoad PROVE IInv'
  OBVIOUS
<1>1. /\ pc = "finishLoad" /\ queue = <<>>
      /\ \/ pc' = "load" /\ i' = i + 1 /\ i + 1 < Len(Loads)
         \/ pc' = "writeL1" /\ i' = 0
      /\ UNCHANGED <<job, traceId, captureEnded, failed, timer, queue, trace,
                     out, unpacked, effective>>
  BY DEF FinishLoad, Finished, Count, deviceVars, results
<1>2. job \in Jobs /\ Warmup' = Warmup /\ TimedOps' = TimedOps /\ Loads' = Loads
  BY <1>1, JobFrame DEF IInv, DispatchTypes
<1>3. Quiet(0)
  <2>1. out.launches \in Nat /\ Queued(LoadCommands, 0, 0)
    BY <1>1 DEF IInv, DispatchTypes, LaunchInv
  <2> QED BY <1>1, <2>1, QuietQueue DEF Quiet
<1>4. DispatchTypes'
  BY <1>1, <1>2 DEF IInv, DispatchTypes, BeforeCapture
<1>5. PlaceInv'
  BY <1>1, <1>2 DEF IInv, PlaceInv
<1>6. LaunchInv'
  BY <1>1, <1>3 DEF LaunchInv, Quiet
<1>7. TimerInv' /\ TraceInv'
  BY <1>1, <1>2 DEF IInv, TimerInv, TraceInv, BeforeCapture, Window, AfterWindow
<1> QED BY <1>4, <1>5, <1>6, <1>7 DEF IInv

LEMMA WriteL1Step == IInv /\ WriteL1 => IInv'
<1> SUFFICES ASSUME IInv, WriteL1 PROVE IInv'
  OBVIOUS
<1>1. /\ pc = "writeL1" /\ pc' = Dispatching
      /\ UNCHANGED <<job, i, traceId, captureEnded, failed, timer, queue, trace,
                     out, unpacked, effective>>
  BY DEF WriteL1, GoTo, results
<1>2. job \in Jobs /\ Warmup' = Warmup /\ TimedOps' = TimedOps
  BY <1>1, JobFrame DEF IInv, DispatchTypes
<1>3. \/ pc' = "warmup" /\ Warmup > 0
      \/ pc' = "begin" /\ Warmup = 0 /\ job.test = "trace"
      \/ pc' = "start" /\ Warmup = 0 /\ job.test # "trace"
  BY <1>1, <1>2, JobFacts DEF Dispatching
<1>4. Quiet(0) /\ i = 0 /\ out.launches \in Nat
  BY <1>1 DEF IInv, LaunchInv, PlaceInv, DispatchTypes
<1>5. DispatchTypes'
  BY <1>1, <1>2, <1>3 DEF IInv, DispatchTypes, BeforeCapture, Window
<1>6. PlaceInv'
  BY <1>1, <1>2, <1>3 DEF IInv, PlaceInv
<1>7. LaunchInv'
  <2>1. Quiet(0)' /\ Queued({"run"}, 1, 0)'
    BY <1>1, <1>4, QuietQueue DEF Quiet, Queued, Only
  <2> QED BY <1>1, <1>2, <1>3, <1>4, <2>1 DEF LaunchInv, Quiet
<1>8. TimerInv' /\ TraceInv'
  BY <1>1, <1>2, <1>3 DEF IInv, TimerInv, TraceInv, BeforeCapture, Window,
                          AfterWindow
<1> QED BY <1>5, <1>6, <1>7, <1>8 DEF IInv

LEMMA WarmUpStep == IInv /\ WarmUp => IInv'
<1> SUFFICES ASSUME IInv, WarmUp PROVE IInv'
  OBVIOUS
<1>1. pc = "warmup" /\ ~Capturing
  BY DEF WarmUp, IInv, TraceInv, BeforeCapture, Capturing
<1>2. /\ Put("run")
      /\ \/ pc' = "warmup" /\ i' = i + 1 /\ i + 1 < Warmup
         \/ pc' = "finishWarmup" /\ i' = 0 /\ ~(i + 1 < Warmup)
      /\ UNCHANGED <<job, traceId, captureEnded, failed, timer, trace, out,
                     unpacked, effective>>
  BY <1>1 DEF WarmUp, Submit, Count, results
<1>3. job \in Jobs /\ Warmup \in Nat /\ Warmup' = Warmup /\ TimedOps' = TimedOps
  BY <1>2, JobFrame, JobFacts DEF IInv, DispatchTypes
<1>4. /\ queue \in Seq(Commands) /\ out.launches \in Nat /\ i \in Nat
      /\ i < Warmup /\ Queued({"run"}, 1, i)
  BY <1>1 DEF IInv, DispatchTypes, LaunchInv
<1>5. /\ queue' \in Seq(Commands)
      /\ \A k \in 1 .. Len(queue') : queue'[k] \in {"run"}
      /\ out'.launches + Len(queue') * 1 = i + 1
  <2>1. Put("run") /\ UNCHANGED out /\ "run" \in Commands \cap {"run"}
    BY <1>2 DEF Commands
  <2>2. 1 \in Nat
    OBVIOUS
  <2> QED BY <1>4, <2>1, <2>2, PutQueued
<1>6. DispatchTypes'
  BY <1>2, <1>4, <1>5 DEF IInv, DispatchTypes, BeforeCapture
<1>7. PlaceInv'
  BY <1>2 DEF IInv, PlaceInv
<1>8. LaunchInv'
  BY <1>2, <1>3, <1>4, <1>5 DEF LaunchInv, Queued, Only
<1>9. TimerInv' /\ TraceInv'
  BY <1>1, <1>2, <1>3 DEF IInv, TimerInv, TraceInv, BeforeCapture, Window,
                          AfterWindow
<1> QED BY <1>6, <1>7, <1>8, <1>9 DEF IInv

LEMMA FinishWarmupStep == IInv /\ FinishWarmup => IInv'
<1> SUFFICES ASSUME IInv, FinishWarmup PROVE IInv'
  OBVIOUS
<1>1. /\ pc = "finishWarmup" /\ queue = <<>>
      /\ \/ pc' = "begin" /\ job.test = "trace"
         \/ pc' = "start" /\ job.test # "trace"
      /\ UNCHANGED <<job, i, traceId, captureEnded, failed, timer, queue, trace,
                     out, unpacked, effective>>
  BY DEF FinishWarmup, WarmupFinished, Finished, GoTo, deviceVars, results
<1>2. job \in Jobs /\ Warmup' = Warmup /\ TimedOps' = TimedOps
  BY <1>1, JobFrame DEF IInv, DispatchTypes
<1>3. Quiet(Warmup)
  <2>1. out.launches \in Nat /\ Queued({"run"}, 1, Warmup)
    BY <1>1 DEF IInv, DispatchTypes, LaunchInv
  <2> QED BY <1>1, <2>1, QuietQueue DEF Quiet
<1>4. DispatchTypes'
  BY <1>1, <1>2 DEF IInv, DispatchTypes, BeforeCapture, Window
<1>5. PlaceInv'
  BY <1>1, <1>2 DEF IInv, PlaceInv
<1>6. LaunchInv'
  BY <1>1, <1>2, <1>3 DEF LaunchInv, Quiet
<1>7. TimerInv' /\ TraceInv'
  BY <1>1, <1>2 DEF IInv, TimerInv, TraceInv, BeforeCapture, Window, AfterWindow
<1> QED BY <1>4, <1>5, <1>6, <1>7 DEF IInv
-------------------------------------------------------------------------------
(* The capture and the measured window *)

LEMMA BeginCaptureStep == IInv /\ BeginCapture => IInv'
<1> SUFFICES ASSUME IInv, BeginCapture PROVE IInv'
  OBVIOUS
<1>1. /\ pc = "begin" /\ pc' = "record" /\ traceId' = TRUE
      /\ trace' = [trace EXCEPT !.state = "capturing"]
      /\ UNCHANGED <<job, i, captureEnded, failed, timer, queue, out, unpacked,
                     effective>>
  BY DEF BeginCapture, results
<1>2. /\ job \in Jobs /\ job.ops \in Nat \ {0}
      /\ Warmup' = Warmup /\ TimedOps' = TimedOps
  BY <1>1, JobFrame, JobFacts DEF IInv, DispatchTypes
<1>3. DispatchTypes'
  BY <1>1, <1>2 DEF IInv, DispatchTypes
<1>4. PlaceInv'
  BY <1>1, <1>2 DEF IInv, PlaceInv
<1>5. LaunchInv'
  BY <1>1, <1>2 DEF IInv, LaunchInv, Quiet
<1>6. TimerInv'
  BY <1>1, <1>2 DEF IInv, TimerInv
<1>7. TraceInv'
  BY <1>1 DEF IInv, TraceInv, PlaceInv, DispatchTypes, Capturing, BeforeCapture,
              Window, AfterWindow
<1> QED BY <1>3, <1>4, <1>5, <1>6, <1>7 DEF IInv

LEMMA RecordStep == IInv /\ Record => IInv'
<1> SUFFICES ASSUME IInv, Record PROVE IInv'
  OBVIOUS
<1>1. pc = "record" /\ Capturing
  BY DEF Record, IInv, TraceInv
<1>2. /\ trace' = [trace EXCEPT !.ops = @ + 1]
      /\ \/ pc' = "record" /\ i' = i + 1 /\ i + 1 < job.ops
         \/ pc' = "end" /\ i' = 0 /\ ~(i + 1 < job.ops)
      /\ UNCHANGED <<job, traceId, captureEnded, failed, timer, queue, out,
                     unpacked, effective>>
  BY <1>1 DEF Record, Submit, Count, results
<1>3. /\ job \in Jobs /\ job.ops \in Nat \ {0} /\ i \in Nat /\ i < job.ops
      /\ Warmup' = Warmup /\ TimedOps' = TimedOps
  BY <1>1, <1>2, JobFrame, JobFacts DEF IInv, DispatchTypes, PlaceInv
<1>4. DispatchTypes'
  BY <1>2, <1>3 DEF IInv, DispatchTypes
<1>5. PlaceInv'
  BY <1>1, <1>2, <1>3 DEF IInv, PlaceInv
<1>6. LaunchInv'
  BY <1>1, <1>2, <1>3 DEF IInv, LaunchInv, Quiet
<1>7. TimerInv'
  BY <1>2, <1>3 DEF IInv, TimerInv
<1>8. TraceInv'
  BY <1>1, <1>2, <1>3 DEF IInv, TraceInv, DispatchTypes, Capturing,
                          BeforeCapture, Window, AfterWindow
<1> QED BY <1>4, <1>5, <1>6, <1>7, <1>8 DEF IInv

LEMMA EndCaptureStep == IInv /\ EndCapture => IInv'
<1> SUFFICES ASSUME IInv, EndCapture PROVE IInv'
  OBVIOUS
<1>1. /\ pc = "end" /\ pc' = "start" /\ captureEnded' = TRUE
      /\ trace' = [trace EXCEPT !.state = "ready"]
      /\ UNCHANGED <<job, i, traceId, failed, timer, queue, out, unpacked,
                     effective>>
  BY DEF EndCapture, results
<1>2. job \in Jobs /\ Warmup' = Warmup /\ TimedOps' = TimedOps
  BY <1>1, JobFrame DEF IInv, DispatchTypes
<1>3. DispatchTypes'
  BY <1>1, <1>2 DEF IInv, DispatchTypes, Window
<1>4. PlaceInv'
  BY <1>1, <1>2 DEF IInv, PlaceInv
<1>5. LaunchInv'
  BY <1>1, <1>2 DEF IInv, LaunchInv, Quiet
<1>6. TimerInv'
  BY <1>1, <1>2 DEF IInv, TimerInv
<1>7. TraceInv'
  BY <1>1 DEF IInv, TraceInv, PlaceInv, DispatchTypes, Capturing, BeforeCapture,
              Window, AfterWindow
<1> QED BY <1>3, <1>4, <1>5, <1>6, <1>7 DEF IInv

\* What the host's position becomes when it enters the loop, and leaves it.
LEMMA LoopFacts ==
  ASSUME job \in Jobs
  PROVE  /\ job.test = "trace" =>
              Loop = "replay" /\ EndOfLoop = "finish"
                /\ TimedOps = job.iters * job.ops
         /\ job.test # "trace" => Loop = "launch" /\ TimedOps = job.iters
         /\ job.test = "async" => EndOfLoop = "finish"
         /\ job.test \notin {"async", "trace"} => EndOfLoop = "stop"
         /\ Loop \in {"launch", "replay"} /\ EndOfLoop \in {"finish", "stop"}
         /\ 0 * job.ops = 0
  BY JobFacts DEF Loop, EndOfLoop, TimedOps

LEMMA StartTimerStep == IInv /\ StartTimer => IInv'
<1> SUFFICES ASSUME IInv, StartTimer PROVE IInv'
  OBVIOUS
<1>1. /\ pc = "start" /\ timer' = [timer EXCEPT !.begin = out.launches]
      /\ pc' = (IF job.iters > 0 THEN Loop ELSE EndOfLoop)
      /\ UNCHANGED <<job, i, traceId, captureEnded, failed, queue, trace, out,
                     unpacked, effective>>
  BY DEF StartTimer, deviceVars, results
<1>2. job \in Jobs /\ Warmup' = Warmup /\ TimedOps' = TimedOps
  BY <1>1, JobFrame DEF IInv, DispatchTypes
<1>3. /\ queue = <<>> /\ out.launches = Warmup /\ out.launches \in Nat /\ i = 0
      /\ job.iters \in Nat
  BY <1>1, <1>2, JobFacts DEF IInv, LaunchInv, Quiet, PlaceInv, DispatchTypes
<1>4. DispatchTypes'
  BY <1>1, <1>2, <1>3, LoopFacts DEF IInv, DispatchTypes, Window
<1>5. PlaceInv'
  BY <1>1, <1>2, LoopFacts, JobFacts DEF IInv, PlaceInv
<1>6. LaunchInv'
  <2>1. CASE job.iters > 0
    <3>1. /\ pc' = Loop /\ i' = 0 /\ queue' = <<>>
          /\ out'.launches = Warmup' + i' /\ i' * job.ops = 0
      BY <1>1, <1>2, <1>3, <2>1, LoopFacts
    <3>2. Queued({"run"}, 1, Warmup + i)'
      BY <1>1, <1>3, <3>1 DEF Queued, Only
    <3>3. Queued({"replay"}, job.ops, Warmup + i * job.ops)'
      <4>1. Len(queue') * job'.ops = 0
        BY <1>1, <1>2, <3>1, LoopFacts
      <4> QED BY <1>1, <1>3, <3>1, <4>1 DEF Queued, Only
    <3> QED BY <1>1, <1>2, <2>1, <3>1, <3>2, <3>3, LoopFacts DEF LaunchInv
  <2>2. CASE ~(job.iters > 0)
    <3>1. TimedOps = 0
      BY <1>2, <1>3, <2>2, LoopFacts, JobFacts
    <3>2. /\ pc' = EndOfLoop /\ queue' = <<>> /\ out'.launches = Warmup' + TimedOps'
      BY <1>1, <1>2, <1>3, <2>2, <3>1
    <3>3. Quiet(Warmup + TimedOps)' /\ Queued({"run"}, 1, Warmup + TimedOps)'
      BY <1>1, <1>3, <3>2 DEF Queued, Only, Quiet
    <3>4. Queued({"replay"}, job.ops, Warmup + TimedOps)'
      <4>1. Len(queue') * job'.ops = 0
        BY <1>1, <1>2, <3>2, LoopFacts
      <4> QED BY <1>1, <1>3, <3>2, <4>1 DEF Queued, Only
    <3> QED BY <1>2, <3>2, <3>3, <3>4, LoopFacts DEF LaunchInv
  <2> QED BY <2>1, <2>2
<1>7. TimerInv'
  BY <1>1, <1>2, <1>3 DEF IInv, TimerInv, DispatchTypes
<1>8. TraceInv'
  BY <1>1, <1>2, <1>3, LoopFacts
      DEF IInv, TraceInv, BeforeCapture, Window, AfterWindow
<1> QED BY <1>4, <1>5, <1>6, <1>7, <1>8 DEF IInv

LEMMA LaunchStep == IInv /\ Launch => IInv'
<1> SUFFICES ASSUME IInv, Launch PROVE IInv'
  OBVIOUS
<1>1. pc = "launch" /\ ~Capturing
  BY DEF Launch, IInv, TraceInv, Window, PlaceInv, Capturing
<1>2. /\ Put("run")
      /\ \/ pc' = "finishIteration" /\ i' = i /\ job.test # "async"
         \/ pc' = Loop /\ i' = i + 1 /\ i + 1 < job.iters /\ job.test = "async"
         \/ /\ pc' = EndOfLoop /\ i' = 0 /\ ~(i + 1 < job.iters)
            /\ job.test = "async"
      /\ UNCHANGED <<job, traceId, captureEnded, failed, timer, trace, out,
                     unpacked, effective>>
  BY <1>1 DEF Launch, Submit, NextIteration, Count, GoTo, results
<1>3. /\ job \in Jobs /\ job.iters \in Nat /\ Warmup \in Nat
      /\ Warmup' = Warmup /\ TimedOps' = TimedOps
  BY <1>2, JobFrame, JobFacts DEF IInv, DispatchTypes
<1>4. /\ queue \in Seq(Commands) /\ out.launches \in Nat /\ i \in Nat
      /\ i < job.iters /\ Queued({"run"}, 1, Warmup + i)
      /\ job.test # "trace"
  BY <1>1 DEF IInv, DispatchTypes, LaunchInv, PlaceInv
<1>5. /\ queue' \in Seq(Commands)
      /\ \A k \in 1 .. Len(queue') : queue'[k] \in {"run"}
      /\ out'.launches + Len(queue') * 1 = (Warmup + i) + 1
  <2> DEFINE launched == Warmup + i
  <2>1. launched \in Nat /\ Queued({"run"}, 1, launched)
    BY <1>3, <1>4
  <2> HIDE DEF launched
  <2>2. /\ queue' \in Seq(Commands)
        /\ \A k \in 1 .. Len(queue') : queue'[k] \in {"run"}
        /\ out'.launches + Len(queue') * 1 = launched + 1
    <3>1. Put("run") /\ UNCHANGED out /\ "run" \in Commands \cap {"run"}
      BY <1>2 DEF Commands
    <3>2. queue \in Seq(Commands) /\ out.launches \in Nat
      BY <1>4
    <3> QED BY <2>1, <3>1, <3>2, PutQueued
  <2> QED BY <2>2 DEF launched
<1>6. \/ pc' = "finishIteration" /\ i' = i /\ job.test # "async"
      \/ pc' = "launch" /\ i' = i + 1 /\ i + 1 < job.iters /\ job.test = "async"
      \/ /\ pc' = "finish" /\ i' = 0 /\ i + 1 = job.iters /\ TimedOps = job.iters
         /\ job.test = "async"
  BY <1>2, <1>3, <1>4, LoopFacts
<1>7. DispatchTypes'
  BY <1>2, <1>4, <1>5, <1>6 DEF IInv, DispatchTypes, Window
<1>8. PlaceInv'
  BY <1>2, <1>4, <1>6 DEF IInv, PlaceInv
<1>9. LaunchInv'
  <2>1. CASE pc' = "finishIteration" /\ i' = i
    BY <1>2, <1>3, <1>4, <1>5, <2>1 DEF LaunchInv, Queued, Only
  <2>2. CASE pc' = "launch" /\ i' = i + 1 /\ i + 1 < job.iters
                            /\ job.test = "async"
    <3>1. Warmup + i + 1 = Warmup + (i + 1)
      BY <1>3, <1>4
    <3> QED BY <1>2, <1>3, <1>4, <1>5, <2>2, <3>1 DEF LaunchInv, Queued, Only
  <2>3. CASE /\ pc' = "finish" /\ i + 1 = job.iters /\ TimedOps = job.iters
             /\ job.test = "async"
    <3>1. Warmup + i + 1 = Warmup + TimedOps
      BY <1>3, <1>4, <2>3
    <3> QED BY <1>2, <1>3, <1>4, <1>5, <2>3, <3>1 DEF LaunchInv, Queued, Only
  <2> QED BY <1>6, <2>1, <2>2, <2>3
<1>10. TimerInv' /\ TraceInv'
  BY <1>1, <1>2, <1>3, <1>6
      DEF IInv, TimerInv, TraceInv, BeforeCapture, Window, AfterWindow
<1> QED BY <1>7, <1>8, <1>9, <1>10 DEF IInv

LEMMA FinishIterationStep == IInv /\ FinishIteration => IInv'
<1> SUFFICES ASSUME IInv, FinishIteration PROVE IInv'
  OBVIOUS
<1>1. /\ pc = "finishIteration" /\ queue = <<>>
      /\ \/ pc' = Loop /\ i' = i + 1 /\ i + 1 < job.iters
         \/ pc' = EndOfLoop /\ i' = 0 /\ ~(i + 1 < job.iters)
      /\ UNCHANGED <<job, traceId, captureEnded, failed, timer, queue, trace,
                     out, unpacked, effective>>
  BY DEF FinishIteration, Finished, NextIteration, Count, deviceVars, results
<1>2. /\ job \in Jobs /\ job.iters \in Nat /\ Warmup \in Nat
      /\ Warmup' = Warmup /\ TimedOps' = TimedOps
  BY <1>1, JobFrame, JobFacts DEF IInv, DispatchTypes
<1>3. /\ job.test \notin {"async", "trace"} /\ i \in Nat /\ i < job.iters
      /\ out.launches \in Nat /\ Queued({"run"}, 1, Warmup + i + 1)
  BY <1>1 DEF IInv, DispatchTypes, LaunchInv, PlaceInv
<1>4. out.launches = Warmup + i + 1
  BY <1>1, <1>3, QuietQueue
<1>5. \/ pc' = "launch" /\ i' = i + 1 /\ i + 1 < job.iters
      \/ pc' = "stop" /\ i' = 0 /\ i + 1 = job.iters /\ TimedOps = job.iters
  BY <1>1, <1>2, <1>3, LoopFacts
<1>6. DispatchTypes'
  BY <1>1, <1>3, <1>5 DEF IInv, DispatchTypes, Window
<1>7. PlaceInv'
  BY <1>1, <1>3, <1>5 DEF IInv, PlaceInv
<1>8. LaunchInv'
  <2>1. Only({"run"})' /\ Len(queue') = 0
    BY <1>1 DEF Only
  <2> QED BY <1>1, <1>2, <1>3, <1>4, <1>5, <2>1 DEF LaunchInv, Quiet, Queued
<1>9. TimerInv' /\ TraceInv'
  BY <1>1, <1>2, <1>5
      DEF IInv, TimerInv, TraceInv, BeforeCapture, Window, AfterWindow
<1> QED BY <1>6, <1>7, <1>8, <1>9 DEF IInv

LEMMA ReplayStep == IInv /\ Replay => IInv'
<1> SUFFICES ASSUME IInv, Replay PROVE IInv'
  OBVIOUS
<1>1. /\ pc = "replay" /\ Put("replay")
      /\ \/ pc' = Loop /\ i' = i + 1 /\ i + 1 < job.iters
         \/ pc' = EndOfLoop /\ i' = 0 /\ ~(i + 1 < job.iters)
      /\ UNCHANGED <<job, traceId, captureEnded, failed, timer, trace, out,
                     unpacked, effective>>
  BY DEF Replay, NextIteration, Count, results
<1>2. /\ job \in Jobs /\ job.iters \in Nat /\ job.ops \in Nat /\ Warmup \in Nat
      /\ Warmup' = Warmup /\ TimedOps' = TimedOps
  BY <1>1, JobFrame, JobFacts DEF IInv, DispatchTypes
<1>3. /\ queue \in Seq(Commands) /\ out.launches \in Nat /\ i \in Nat
      /\ i < job.iters /\ Queued({"replay"}, job.ops, Warmup + i * job.ops)
      /\ job.test = "trace"
  BY <1>1 DEF IInv, DispatchTypes, LaunchInv, PlaceInv
<1>4. i * job.ops \in Nat /\ (i + 1) * job.ops = i * job.ops + job.ops
  BY <1>2, <1>3
<1>5. Warmup + i * job.ops \in Nat
  BY <1>2, <1>4
<1>6. /\ queue' \in Seq(Commands)
      /\ \A k \in 1 .. Len(queue') : queue'[k] \in {"replay"}
      /\ out'.launches + Len(queue') * job.ops = (Warmup + i * job.ops) + job.ops
  <2> DEFINE launched == Warmup + i * job.ops
  <2>1. launched \in Nat /\ Queued({"replay"}, job.ops, launched)
    BY <1>3, <1>5
  <2> HIDE DEF launched
  <2>2. /\ queue' \in Seq(Commands)
        /\ \A k \in 1 .. Len(queue') : queue'[k] \in {"replay"}
        /\ out'.launches + Len(queue') * job.ops = launched + job.ops
    <3>1. /\ Put("replay") /\ UNCHANGED out
          /\ "replay" \in Commands \cap {"replay"}
      BY <1>1 DEF Commands
    <3>2. queue \in Seq(Commands) /\ out.launches \in Nat /\ job.ops \in Nat
      BY <1>2, <1>3
    <3> QED BY <2>1, <3>1, <3>2, PutQueued
  <2> QED BY <2>2 DEF launched
<1>7. out'.launches + Len(queue') * job.ops = Warmup + (i + 1) * job.ops
  BY <1>2, <1>4, <1>6
<1>8. \/ pc' = "replay" /\ i' = i + 1 /\ i + 1 < job.iters
      \/ /\ pc' = "finish" /\ i' = 0 /\ i + 1 = job.iters
         /\ TimedOps = (i + 1) * job.ops
  BY <1>1, <1>2, <1>3, LoopFacts
<1>9. DispatchTypes'
  BY <1>1, <1>3, <1>6, <1>8 DEF IInv, DispatchTypes, Window
<1>10. PlaceInv'
  BY <1>1, <1>3, <1>8 DEF IInv, PlaceInv
<1>11. LaunchInv'
  <2>1. CASE pc' = "replay" /\ i' = i + 1 /\ i + 1 < job.iters
    BY <1>1, <1>2, <1>6, <1>7, <2>1 DEF LaunchInv, Queued, Only
  <2>2. CASE pc' = "finish" /\ TimedOps = (i + 1) * job.ops
    BY <1>1, <1>2, <1>3, <1>6, <1>7, <2>2 DEF LaunchInv, Queued, Only
  <2> QED BY <1>8, <2>1, <2>2
<1>12. TimerInv' /\ TraceInv'
  BY <1>1, <1>2, <1>8
      DEF IInv, TimerInv, TraceInv, BeforeCapture, Window, AfterWindow
<1> QED BY <1>9, <1>10, <1>11, <1>12 DEF IInv

LEMMA FinishBatchStep == IInv /\ FinishBatch => IInv'
<1> SUFFICES ASSUME IInv, FinishBatch PROVE IInv'
  OBVIOUS
<1>1. /\ pc = "finish" /\ pc' = "stop" /\ queue = <<>>
      /\ UNCHANGED <<job, i, traceId, captureEnded, failed, timer, queue, trace,
                     out, unpacked, effective>>
  BY DEF FinishBatch, BatchFinished, Finished, GoTo, deviceVars, results
<1>2. /\ job \in Jobs /\ job.ops \in Nat
      /\ Warmup' = Warmup /\ TimedOps' = TimedOps
  BY <1>1, JobFrame, JobFacts DEF IInv, DispatchTypes
<1>3. Quiet(Warmup + TimedOps)
  <2>1. /\ out.launches \in Nat
        /\ \/ Queued({"run"}, 1, Warmup + TimedOps)
           \/ Queued({"replay"}, job.ops, Warmup + TimedOps)
    BY <1>1 DEF IInv, DispatchTypes, LaunchInv
  <2> QED BY <1>1, <1>2, <2>1, QuietQueue DEF Quiet
<1>4. DispatchTypes'
  BY <1>1 DEF IInv, DispatchTypes, Window
<1>5. PlaceInv'
  BY <1>1 DEF IInv, PlaceInv
<1>6. LaunchInv'
  BY <1>1, <1>2, <1>3 DEF LaunchInv, Quiet
<1>7. TimerInv' /\ TraceInv'
  BY <1>1, <1>2 DEF IInv, TimerInv, TraceInv, BeforeCapture, Window, AfterWindow
<1> QED BY <1>4, <1>5, <1>6, <1>7 DEF IInv

\* Where a test goes when it has been measured.
LEMMA ValidatingFacts ==
  Validating \in {"returned"} \cup (IF job.dram THEN {"read"} ELSE {"readL1"})
  BY DEF Validating

LEMMA StopTimerStep == IInv /\ StopTimer => IInv'
<1> SUFFICES ASSUME IInv, StopTimer PROVE IInv'
  OBVIOUS
<1>1. /\ pc = "stop" /\ timer' = [timer EXCEPT !.end = out.launches]
      /\ \/ pc' = "release" /\ job.test = "trace"
         \/ pc' = Validating /\ job.test # "trace"
      /\ UNCHANGED <<job, i, traceId, captureEnded, failed, queue, trace, out,
                     unpacked, effective>>
  BY DEF StopTimer, AfterStop, deviceVars, results
<1>2. job \in Jobs /\ Warmup' = Warmup /\ TimedOps' = TimedOps /\ Reads' = Reads
  BY <1>1, JobFrame DEF IInv, DispatchTypes
<1>3. /\ Quiet(Warmup + TimedOps) /\ out.launches \in Nat /\ i = 0
  BY <1>1 DEF IInv, LaunchInv, PlaceInv, DispatchTypes
<1>4. \/ pc' = "release" /\ job.test = "trace"
      \/ pc' = "returned" /\ job.test # "trace"
      \/ pc' = "read" /\ job.dram /\ job.test # "trace"
      \/ pc' = "readL1" /\ ~job.dram /\ job.test # "trace"
  BY <1>1, ValidatingFacts
<1>5. DispatchTypes'
  BY <1>1, <1>3, <1>4 DEF IInv, DispatchTypes, Window, AfterWindow
<1>6. PlaceInv'
  BY <1>1, <1>2, <1>3, <1>4, ReadsFacts DEF IInv, PlaceInv
<1>7. LaunchInv'
  <2>1. Only(ReadCommands)' /\ Len(queue') = 0
    BY <1>1, <1>3 DEF Only, Quiet
  <2> QED BY <1>1, <1>2, <1>3, <1>4, <2>1 DEF LaunchInv, Quiet, Queued
<1>8. TimerInv'
  BY <1>1, <1>2, <1>3 DEF IInv, TimerInv, DispatchTypes, Quiet
<1>9. TraceInv'
  BY <1>1, <1>4 DEF IInv, TraceInv, BeforeCapture, Window, AfterWindow
<1> QED BY <1>5, <1>6, <1>7, <1>8, <1>9 DEF IInv

LEMMA ReleaseStep == IInv /\ Release => IInv'
<1> SUFFICES ASSUME IInv, Release PROVE IInv'
  OBVIOUS
<1>1. /\ pc = "release" /\ pc' = Validating /\ traceId' = FALSE
      /\ trace' = [trace EXCEPT !.state = "released"]
      /\ UNCHANGED <<job, i, captureEnded, failed, timer, queue, out, unpacked,
                     effective>>
  BY DEF Release, results
<1>2. job \in Jobs /\ Warmup' = Warmup /\ TimedOps' = TimedOps /\ Reads' = Reads
  BY <1>1, JobFrame DEF IInv, DispatchTypes
<1>3. Quiet(Warmup + TimedOps) /\ out.launches \in Nat /\ i = 0
  BY <1>1 DEF IInv, LaunchInv, PlaceInv, DispatchTypes
<1>4. \/ pc' = "returned"
      \/ pc' = "read" /\ job.dram
      \/ pc' = "readL1" /\ ~job.dram
  BY <1>1, ValidatingFacts
<1>5. DispatchTypes'
  BY <1>1, <1>3, <1>4 DEF IInv, DispatchTypes, AfterWindow
<1>6. PlaceInv'
  BY <1>1, <1>2, <1>3, <1>4, ReadsFacts DEF IInv, PlaceInv
<1>7. LaunchInv'
  <2>1. Only(ReadCommands)' /\ Len(queue') = 0
    BY <1>1, <1>3 DEF Only, Quiet
  <2> QED BY <1>1, <1>2, <1>3, <1>4, <2>1 DEF LaunchInv, Quiet, Queued
<1>8. TimerInv'
  BY <1>1, <1>2 DEF IInv, TimerInv
<1>9. TraceInv'
  BY <1>1, <1>4 DEF IInv, TraceInv, DispatchTypes, BeforeCapture, Window,
                    AfterWindow
<1> QED BY <1>5, <1>6, <1>7, <1>8, <1>9 DEF IInv
-------------------------------------------------------------------------------
(* Reading the output back *)

LEMMA EnqueueReadStep == IInv /\ EnqueueRead => IInv'
<1> SUFFICES ASSUME IInv, EnqueueRead PROVE IInv'
  OBVIOUS
<1>1. /\ pc = "read" /\ Put(Reads[i + 1])
      /\ UNCHANGED <<job, traceId, captureEnded, failed, timer, trace, out,
                     unpacked, effective>>
  BY DEF EnqueueRead, NextRead, Count, GoTo, results
<1>2. \/ pc' = "finishRead" /\ i' = i
      \/ pc' = "read" /\ i' = i + 1 /\ i + 1 < Len(Reads)
      \/ pc' = "decode" /\ i' = 0
  BY DEF EnqueueRead, NextRead, Count, GoTo
<1>3. /\ job \in Jobs /\ Warmup \in Nat /\ TimedOps \in Nat
      /\ Warmup' = Warmup /\ TimedOps' = TimedOps /\ Reads' = Reads
  BY <1>1, JobFrame, JobFacts DEF IInv, DispatchTypes
<1>4. /\ queue \in Seq(Commands) /\ out.launches \in Nat /\ i \in Nat
      /\ i < Len(Reads) /\ Queued(ReadCommands, 0, Warmup + TimedOps)
  BY <1>1 DEF IInv, DispatchTypes, LaunchInv, PlaceInv
<1>5. /\ queue' \in Seq(Commands)
      /\ \A k \in 1 .. Len(queue') : queue'[k] \in ReadCommands
      /\ out'.launches + Len(queue') * 0 = Warmup + TimedOps
  <2> DEFINE launched == Warmup + TimedOps
  <2>1. launched \in Nat /\ Queued(ReadCommands, 0, launched)
    BY <1>3, <1>4
  <2> HIDE DEF launched
  <2>2. Reads[i + 1] \in Commands \cap ReadCommands
    BY <1>4, ReadsFacts DEF Commands
  <2>3. /\ queue' \in Seq(Commands)
        /\ \A k \in 1 .. Len(queue') : queue'[k] \in ReadCommands
        /\ out'.launches + Len(queue') * 0 = launched + 0
    <3>1. PICK c \in Commands \cap ReadCommands : c = Reads[i + 1]
      BY <2>2
    <3>2. Put(c) /\ UNCHANGED out /\ 0 \in Nat
      BY <1>1, <3>1
    <3>3. queue \in Seq(Commands) /\ out.launches \in Nat
      BY <1>4
    <3> QED BY <2>1, <3>2, <3>3, PutQueued
  <2> QED BY <2>1, <2>3 DEF launched
<1>6. DispatchTypes'
  BY <1>1, <1>2, <1>4, <1>5 DEF IInv, DispatchTypes, AfterWindow
<1>7. PlaceInv'
  BY <1>1, <1>2, <1>3, <1>4 DEF IInv, PlaceInv
<1>8. LaunchInv'
  BY <1>1, <1>2, <1>3, <1>5 DEF LaunchInv, Queued, Only
<1>9. TimerInv' /\ TraceInv'
  BY <1>1, <1>2, <1>3
      DEF IInv, TimerInv, TraceInv, BeforeCapture, Window, AfterWindow
<1> QED BY <1>6, <1>7, <1>8, <1>9 DEF IInv

LEMMA FinishReadStep == IInv /\ FinishRead => IInv'
<1> SUFFICES ASSUME IInv, FinishRead PROVE IInv'
  OBVIOUS
<1>1. /\ pc = "finishRead"
      /\ \/ pc' = "read" /\ i' = i + 1 /\ i + 1 < Len(Reads)
         \/ pc' = "decode" /\ i' = 0
      /\ UNCHANGED <<job, traceId, captureEnded, failed, timer, queue, trace,
                     out, unpacked, effective>>
  BY DEF FinishRead, NextRead, Count, deviceVars, results
<1>2. /\ job \in Jobs
      /\ Warmup' = Warmup /\ TimedOps' = TimedOps /\ Reads' = Reads
  BY <1>1, JobFrame DEF IInv, DispatchTypes
<1>3. DispatchTypes'
  BY <1>1 DEF IInv, DispatchTypes, AfterWindow
<1>4. PlaceInv'
  BY <1>1, <1>2 DEF IInv, PlaceInv
<1>5. LaunchInv'
  BY <1>1, <1>2 DEF IInv, LaunchInv, Queued, Only
<1>6. TimerInv' /\ TraceInv'
  BY <1>1, <1>2 DEF IInv, TimerInv, TraceInv, BeforeCapture, Window, AfterWindow
<1> QED BY <1>3, <1>4, <1>5, <1>6 DEF IInv

LEMMA ReadL1Step == IInv /\ ReadL1 => IInv'
<1> SUFFICES ASSUME IInv, ReadL1 PROVE IInv'
  OBVIOUS
<1>1. /\ pc = "readL1" /\ pc' = "decode"
      /\ UNCHANGED <<job, i, traceId, captureEnded, failed, timer, queue, trace,
                     out, unpacked, effective>>
  BY DEF ReadL1, GoTo
<1>2. /\ job \in Jobs /\ Warmup' = Warmup /\ TimedOps' = TimedOps
  BY <1>1, JobFrame DEF IInv, DispatchTypes
<1>3. DispatchTypes'
  BY <1>1 DEF IInv, DispatchTypes, AfterWindow
<1>4. PlaceInv'
  BY <1>1 DEF IInv, PlaceInv
<1>5. LaunchInv'
  <2>1. Quiet(Warmup + TimedOps) /\ out.launches \in Nat
    BY <1>1 DEF IInv, LaunchInv, DispatchTypes
  <2>2. Only(ReadCommands)' /\ Len(queue') = 0
    BY <1>1, <2>1 DEF Only, Quiet
  <2> QED BY <1>1, <1>2, <2>1, <2>2 DEF LaunchInv, Quiet, Queued
<1>6. TimerInv' /\ TraceInv'
  BY <1>1, <1>2 DEF IInv, TimerInv, TraceInv, BeforeCapture, Window, AfterWindow
<1> QED BY <1>3, <1>4, <1>5, <1>6 DEF IInv

LEMMA DecodeStep == IInv /\ Decode => IInv'
<1> SUFFICES ASSUME IInv, Decode PROVE IInv'
  OBVIOUS
<1>1. /\ pc = "decode" /\ pc' = "returned"
      /\ UNCHANGED <<job, i, traceId, captureEnded, failed, timer, queue, trace,
                     out, unpacked, effective>>
  BY DEF Decode, GoTo, deviceVars, results
<1>2. Warmup' = Warmup /\ TimedOps' = TimedOps
  BY <1>1, JobFrame
<1> QED BY <1>1, <1>2
    DEF IInv, DispatchTypes, PlaceInv, LaunchInv, TimerInv, TraceInv,
        BeforeCapture, Window, AfterWindow
-------------------------------------------------------------------------------
(* Exceptions *)

\* An aborted test only has its trace to look after.
LEMMA AbortedStep ==
  ASSUME IInv, UNCHANGED <<job, i, timer, unpacked, effective, out>>,
         pc' \in Cleaning \cup {"returned"},
         queue' \in Seq(Commands), traceId' \in BOOLEAN,
         captureEnded' \in BOOLEAN,
         trace' \in [state : {"none", "capturing", "ready", "released"},
                     ops : Nat],
         TraceInv'
  PROVE  IInv'
<1>1. Warmup' = Warmup /\ TimedOps' = TimedOps
  BY JobFrame
<1>2. DispatchTypes'
  BY DEF IInv, DispatchTypes
<1>3. PlaceInv' /\ LaunchInv'
  BY DEF PlaceInv, LaunchInv, Cleaning
<1>4. TimerInv'
  BY <1>1 DEF IInv, TimerInv
<1> QED BY <1>2, <1>3, <1>4 DEF IInv

LEMMA ThrowStep == IInv /\ Throw => IInv'
<1> SUFFICES ASSUME IInv, Throw PROVE IInv'
  OBVIOUS
<1>1. /\ pc \in Calls \cup DOMAIN AfterHandlerCall
      /\ failed' = failed \cup {pc}
      /\ pc' = (IF pc \in Calls THEN Handler ELSE AfterHandlerCall[pc])
      /\ UNCHANGED <<job, i, traceId, captureEnded, timer, queue, trace, out,
                     unpacked, effective>>
  BY DEF Throw, deviceVars, results
<1>2. /\ queue' \in Seq(Commands) /\ traceId' \in BOOLEAN
      /\ captureEnded' \in BOOLEAN
      /\ trace' \in [state : {"none", "capturing", "ready", "released"},
                     ops : Nat]
  BY <1>1 DEF IInv, DispatchTypes
<1>3. CASE pc \in Calls
  <2>1. /\ pc \notin Cleaning \cup {"returned", "start", "stop", "decode"}
        /\ pc' = Handler
    BY <1>1, <1>3 DEF Calls, Cleaning
  <2>2. CASE pc' = "returned"
    <3>1. ~(job.test = "trace" /\ pc \in Guarded /\ traceId)
      BY <2>1, <2>2 DEF Handler, HandlerWaits
    <3>2. trace.state \in {"none", "released"}
      BY <1>3, <2>1, <3>1 DEF IInv, DispatchTypes, TraceInv, PlaceInv, Guarded,
                       BeforeCapture, Window, AfterWindow, Cleaning
    <3>3. TraceInv'
      BY <1>1, <2>2, <3>2 DEF TraceInv, BeforeCapture, Window, AfterWindow
    <3> QED BY <1>1, <1>2, <2>2, <3>3, AbortedStep
  <2>3. CASE pc' # "returned"
    <3>1. /\ job.test = "trace" /\ pc \in Guarded /\ traceId
          /\ pc' = (IF captureEnded THEN "handlerFinish" ELSE "handlerEnd")
      BY <2>1, <2>3 DEF Handler, CaptureOpen, HandlerWaits
    <3>2. IF captureEnded THEN trace.state = "ready" ELSE Capturing
      BY <2>1, <3>1 DEF IInv, DispatchTypes, TraceInv, Guarded, BeforeCapture,
                       Window
    <3>3. TraceInv' /\ pc' \in Cleaning
      BY <1>1, <3>1, <3>2 DEF TraceInv, BeforeCapture, Window, AfterWindow,
                              Capturing, Cleaning
    <3> QED BY <1>1, <1>2, <3>3, AbortedStep
  <2> QED BY <2>2, <2>3
<1>4. CASE pc \notin Calls
  <2>1. \/ pc = "handlerEnd" /\ pc' = "handlerFinish"
        \/ pc = "handlerFinish" /\ pc' = "handlerRelease"
        \/ pc = "handlerRelease" /\ pc' = "returned"
    BY <1>1, <1>4 DEF AfterHandlerCall, HandlerWaits
  <2>2. TraceInv'
    BY <1>1, <2>1 DEF IInv, TraceInv, BeforeCapture, Window, AfterWindow,
                      Capturing
  <2>3. pc' \in Cleaning \cup {"returned"}
    BY <2>1 DEF Cleaning
  <2> QED BY <1>1, <1>2, <2>2, <2>3, AbortedStep
<1> QED BY <1>3, <1>4

LEMMA HandlerEndStep == IInv /\ HandlerEnd => IInv'
<1> SUFFICES ASSUME IInv, HandlerEnd PROVE IInv'
  OBVIOUS
<1>1. /\ pc = "handlerEnd" /\ pc' = "handlerFinish"
      /\ trace' = [trace EXCEPT !.state = "ready"]
      /\ UNCHANGED <<job, i, traceId, captureEnded, failed, timer, queue, out,
                     unpacked, effective>>
  BY DEF HandlerEnd, GoTo, AfterHandlerCall, HandlerWaits, results
<1>2. /\ queue' \in Seq(Commands) /\ traceId' \in BOOLEAN
      /\ captureEnded' \in BOOLEAN
      /\ trace' \in [state : {"none", "capturing", "ready", "released"},
                     ops : Nat]
      /\ trace'.state = "ready"
  BY <1>1 DEF IInv, DispatchTypes
<1>3. TraceInv' /\ pc' \in Cleaning
  BY <1>1, <1>2 DEF TraceInv, BeforeCapture, Window, AfterWindow, Cleaning
<1> QED BY <1>1, <1>2, <1>3, AbortedStep

LEMMA HandlerFinishStep == IInv /\ HandlerFinish => IInv'
<1> SUFFICES ASSUME IInv, HandlerFinish PROVE IInv'
  OBVIOUS
<1>1. /\ pc = "handlerFinish" /\ pc' = "handlerRelease" /\ queue = <<>>
      /\ UNCHANGED <<job, i, traceId, captureEnded, failed, timer, queue, trace,
                     out, unpacked, effective>>
  BY DEF HandlerFinish, Finished, GoTo, AfterHandlerCall, deviceVars, results
<1>2. /\ queue' \in Seq(Commands) /\ traceId' \in BOOLEAN
      /\ captureEnded' \in BOOLEAN
      /\ trace' \in [state : {"none", "capturing", "ready", "released"},
                     ops : Nat]
  BY <1>1 DEF IInv, DispatchTypes
<1>3. TraceInv' /\ pc' \in Cleaning
  BY <1>1 DEF IInv, TraceInv, BeforeCapture, Window, AfterWindow, Cleaning,
              Capturing
<1> QED BY <1>1, <1>2, <1>3, AbortedStep

LEMMA HandlerReleaseStep == IInv /\ HandlerRelease => IInv'
<1> SUFFICES ASSUME IInv, HandlerRelease PROVE IInv'
  OBVIOUS
<1>1. /\ pc = "handlerRelease" /\ pc' = "returned"
      /\ trace' = (IF Capturing THEN trace
                                ELSE [trace EXCEPT !.state = "released"])
      /\ UNCHANGED <<job, i, traceId, captureEnded, failed, timer, queue, out,
                     unpacked, effective>>
  BY DEF HandlerRelease, GoTo, AfterHandlerCall, results
<1>2. /\ queue' \in Seq(Commands) /\ traceId' \in BOOLEAN
      /\ captureEnded' \in BOOLEAN
      /\ trace' \in [state : {"none", "capturing", "ready", "released"},
                     ops : Nat]
      /\ ~Capturing => trace'.state = "released"
  BY <1>1 DEF IInv, DispatchTypes
<1>3. TraceInv'
  BY <1>1, <1>2 DEF IInv, TraceInv, BeforeCapture, Window, AfterWindow,
                    Capturing
<1> QED BY <1>1, <1>2, <1>3, AbortedStep
-------------------------------------------------------------------------------
(* The device *)

\* Whatever the command is, this is all the host can tell.
LEMMA DeviceFacts ==
  ASSUME IInv, DeviceNext
  PROVE  /\ queue # <<>> /\ queue' = Tail(queue)
         /\ UNCHANGED <<hostVars, trace>>
         /\ out' \in [launches : Nat, inputs : SUBSET Inputs]
         /\ out'.launches = out.launches + LaunchesOf(Head(queue))
         /\ Head(queue) \notin {"run", "replay"} => out' = out
         /\ unpacked' \in [typecast : Outputs, untilize : Outputs]
         /\ effective' \in SUBSET {"in0", "in1"}
<1>1. /\ out \in [launches : Nat, inputs : SUBSET Inputs]
      /\ unpacked \in [typecast : Outputs, untilize : Outputs]
      /\ effective \in SUBSET {"in0", "in1"} /\ trace.ops \in Nat
  BY DEF IInv, DispatchTypes
<1>2. CASE Run
  <2>1. /\ queue # <<>> /\ queue' = Tail(queue)
        /\ UNCHANGED <<hostVars, trace, unpacked, effective>>
        /\ Head(queue) \in {"run", "replay"}
        /\ out' = [ launches |-> out.launches
                                   + (IF Head(queue) = "run" THEN 1
                                                             ELSE trace.ops),
                    inputs |-> loaded \cap Inputs ]
    BY <1>2 DEF Run, results
  <2> QED BY <1>1, <2>1 DEF LaunchesOf
<1>3. CASE Load \/ ReadInput \/ Unpack \/ Read
  <2>1. /\ queue # <<>> /\ queue' = Tail(queue)
        /\ UNCHANGED <<hostVars, trace, out>>
        /\ Head(queue) \notin {"run", "replay"}
    <3>1. CASE Load
      BY <3>1 DEF Load
    <3>2. CASE ReadInput
      BY <3>2 DEF ReadInput
    <3>3. CASE Unpack
      <4>1. Head(queue) \in {"typecast", "untilize"}
        BY <1>1, <3>3 DEF Unpack
      <4> QED BY <3>3, <4>1 DEF Unpack
    <3>4. CASE Read
      BY <3>4 DEF Read
    <3> QED BY <1>3, <3>1, <3>2, <3>3, <3>4
  <2>2. unpacked' \in [typecast : Outputs, untilize : Outputs]
    <3>1. CASE Unpack
      <4>1. out \in Outputs
        BY <1>1 DEF Outputs
      <4> QED BY <1>1, <3>1, <4>1 DEF Unpack
    <3>2. CASE Load \/ ReadInput \/ Read
      BY <1>1, <3>2 DEF Load, ReadInput, Read, results
    <3> QED BY <1>3, <3>1, <3>2
  <2>3. effective' \in SUBSET {"in0", "in1"}
    BY <1>1, <1>3 DEF Load, ReadInput, Unpack, Read, results
  <2> QED BY <1>1, <2>1, <2>2, <2>3 DEF LaunchesOf
<1> QED BY <1>2, <1>3 DEF DeviceNext

LEMMA DeviceStep == IInv /\ DeviceNext => IInv'
<1> SUFFICES ASSUME IInv, DeviceNext PROVE IInv'
  OBVIOUS
<1>1. /\ queue # <<>> /\ queue' = Tail(queue)
      /\ UNCHANGED <<job, pc, i, traceId, captureEnded, failed, timer, trace>>
      /\ out' \in [launches : Nat, inputs : SUBSET Inputs]
      /\ out'.launches = out.launches + LaunchesOf(Head(queue))
      /\ unpacked' \in [typecast : Outputs, untilize : Outputs]
      /\ effective' \in SUBSET {"in0", "in1"}
  BY DeviceFacts DEF hostVars
<1>2. /\ job \in Jobs /\ Warmup \in Nat /\ TimedOps \in Nat /\ job.ops \in Nat
      /\ job.iters \in Nat
      /\ queue \in Seq(Commands) /\ out.launches \in Nat /\ i \in Nat
      /\ Warmup' = Warmup /\ TimedOps' = TimedOps
      /\ Loads' = Loads /\ Reads' = Reads
  BY <1>1, JobFrame, JobFacts DEF IInv, DispatchTypes
<1>3. DispatchTypes'
  <2>1. queue' \in Seq(Commands)
    BY <1>1, <1>2, QueueFacts
  <2> QED BY <1>1, <2>1 DEF IInv, DispatchTypes
<1>4. PlaceInv'
  BY <1>1, <1>2 DEF IInv, PlaceInv
<1>5. ASSUME NEW n \in Nat, Queued({"run"}, 1, n)
      PROVE  /\ \A k \in 1 .. Len(queue') : queue'[k] \in {"run"}
             /\ out'.launches + Len(queue') * 1 = n
  <2>1. LaunchesOf(Head(queue)) = 1
    BY <1>1, <1>2, <1>5, HeadOfQueue DEF LaunchesOf
  <2>2. 1 \in Nat
    OBVIOUS
  <2> QED BY <1>1, <1>2, <1>5, <2>1, <2>2, ExecuteQueued
<1>6. ASSUME NEW n \in Nat, Queued({"replay"}, job.ops, n),
             trace.ops = job.ops
      PROVE  /\ \A k \in 1 .. Len(queue') : queue'[k] \in {"replay"}
             /\ out'.launches + Len(queue') * job.ops = n
  <2>1. LaunchesOf(Head(queue)) = job.ops
    BY <1>1, <1>2, <1>6, HeadOfQueue DEF LaunchesOf
  <2> QED BY <1>1, <1>2, <1>6, <2>1, ExecuteQueued
<1>7. ASSUME NEW n \in Nat, NEW S \in {LoadCommands, ReadCommands},
             Queued(S, 0, n)
      PROVE  /\ \A k \in 1 .. Len(queue') : queue'[k] \in S
             /\ out'.launches + Len(queue') * 0 = n
  <2>1. LaunchesOf(Head(queue)) = 0
    <3>1. Head(queue) \in S
      BY <1>1, <1>2, <1>7, HeadOfQueue
    <3> QED BY <3>1 DEF LaunchesOf, LoadCommands, ReadCommands
  <2>2. 0 \in Nat
    OBVIOUS
  <2> QED BY <1>1, <1>2, <1>7, <2>1, <2>2, ExecuteQueued
<1>8. LaunchInv'
  <2>1. pc = "finishLoad" => Queued(LoadCommands, 0, 0)'
    <3>1. 0 \in Nat /\ LoadCommands \in {LoadCommands, ReadCommands}
      OBVIOUS
    <3> QED BY <1>7, <3>1 DEF IInv, LaunchInv, Queued, Only
  <2>2. pc = "warmup" => i < Warmup /\ Queued({"run"}, 1, i)'
    BY <1>1, <1>2, <1>5 DEF IInv, LaunchInv, Queued, Only
  <2>3. pc = "finishWarmup" => Queued({"run"}, 1, Warmup)'
    BY <1>1, <1>2, <1>5 DEF IInv, LaunchInv, Queued, Only
  <2>4. pc = "launch" =>
          /\ i < job.iters /\ Queued({"run"}, 1, Warmup + i)'
          /\ job.test # "async" => queue = <<>>
    <3>1. Warmup + i \in Nat
      BY <1>2
    <3> QED BY <1>1, <1>2, <1>5, <3>1 DEF IInv, LaunchInv, Queued, Only
  <2>5. pc = "finishIteration" =>
          i < job.iters /\ Queued({"run"}, 1, Warmup + i + 1)'
    <3>1. Warmup + i + 1 \in Nat
      BY <1>2
    <3> QED BY <1>1, <1>2, <1>5, <3>1 DEF IInv, LaunchInv, Queued, Only
  <2>6. Warmup + TimedOps \in Nat
    BY <1>2
  <2>7. pc = "finish" /\ job.test = "async" =>
          Queued({"run"}, 1, Warmup + TimedOps)'
    BY <1>1, <1>2, <1>5, <2>6 DEF IInv, LaunchInv, Queued, Only
  <2>8. pc \in {"replay", "finish"} /\ job.test = "trace" =>
          trace.ops = job.ops
    BY DEF IInv, TraceInv, Window
  <2>9. pc = "replay" =>
          i < job.iters /\ Queued({"replay"}, job.ops, Warmup + i * job.ops)'
    <3> SUFFICES ASSUME pc = "replay"
                 PROVE  /\ i < job.iters
                        /\ Queued({"replay"}, job.ops, Warmup + i * job.ops)'
      OBVIOUS
    <3> DEFINE launched == Warmup + i * job.ops
    <3>1. launched \in Nat
      <4>1. i * job.ops \in Nat
        BY <1>2
      <4> QED BY <1>2, <4>1
    <3>2. /\ i < job.iters /\ Queued({"replay"}, job.ops, launched)
          /\ trace.ops = job.ops
      BY <2>8 DEF IInv, LaunchInv, PlaceInv
    <3>3. launched' = launched
      BY <1>1, <1>2
    <3> HIDE DEF launched
    <3>4. /\ \A k \in 1 .. Len(queue') : queue'[k] \in {"replay"}
          /\ out'.launches + Len(queue') * job.ops = launched
      BY <1>6, <3>1, <3>2
    <3>5. Queued({"replay"}, job.ops, launched)'
      BY <1>1, <3>3, <3>4 DEF Queued, Only
    <3> QED BY <3>2, <3>5 DEF launched
  <2>10. pc = "finish" /\ job.test # "async" =>
           Queued({"replay"}, job.ops, Warmup + TimedOps)'
    <3> SUFFICES ASSUME pc = "finish", job.test # "async"
                 PROVE  Queued({"replay"}, job.ops, Warmup + TimedOps)'
      OBVIOUS
    <3>1. /\ job.test = "trace" /\ Queued({"replay"}, job.ops, Warmup + TimedOps)
      BY DEF IInv, LaunchInv, PlaceInv
    <3>2. /\ \A k \in 1 .. Len(queue') : queue'[k] \in {"replay"}
          /\ out'.launches + Len(queue') * job.ops = Warmup + TimedOps
      BY <1>6, <2>6, <2>8, <3>1
    <3> QED BY <1>1, <1>2, <3>2 DEF Queued, Only
  <2>11. pc \in {"read", "finishRead", "decode"} =>
           Queued(ReadCommands, 0, Warmup + TimedOps)'
    <3>1. ReadCommands \in {LoadCommands, ReadCommands}
      OBVIOUS
    <3> QED BY <1>1, <1>2, <1>7, <2>6, <3>1 DEF IInv, LaunchInv, Queued, Only
  <2>12. pc \notin {"load", "writeL1", "begin", "record", "end", "start",
                    "stop", "release", "readL1"}
         /\ (pc = "launch" => job.test = "async")
    BY <1>1 DEF IInv, LaunchInv, Quiet
  <2> QED BY <1>1, <1>2, <2>1, <2>2, <2>3, <2>4, <2>5, <2>7, <2>9, <2>10,
             <2>11, <2>12
      DEF LaunchInv
<1>9. TimerInv'
  BY <1>1, <1>2 DEF IInv, TimerInv
<1>10. TraceInv'
  <2>1. queue # <<>>
    BY <1>1
  <2> QED BY <1>1, <2>1 DEF IInv, TraceInv, Capturing
<1> QED BY <1>3, <1>4, <1>8, <1>9, <1>10 DEF IInv

LEMMA StutterStep == IInv /\ UNCHANGED vars => IInv'
<1> SUFFICES ASSUME IInv, UNCHANGED vars PROVE IInv'
  OBVIOUS
<1>1. UNCHANGED <<job, pc, i, traceId, captureEnded, failed, timer, queue,
                  trace, out, unpacked, effective>>
  BY DEF vars, hostVars, deviceVars, results
<1>2. /\ Warmup' = Warmup /\ TimedOps' = TimedOps
      /\ Loads' = Loads /\ Reads' = Reads
  BY <1>1, JobFrame
<1>3. DispatchTypes' /\ PlaceInv' /\ TimerInv' /\ TraceInv'
  BY <1>1, <1>2 DEF IInv, DispatchTypes, PlaceInv, TimerInv, TraceInv, Capturing
<1>4. LaunchInv'
  BY <1>1, <1>2 DEF IInv, LaunchInv, Quiet, Queued, Only
<1> QED BY <1>3, <1>4 DEF IInv
-------------------------------------------------------------------------------
(* The theorems about launches and the trace *)

LEMMA HostStep == IInv /\ HostNext => IInv'
<1> SUFFICES ASSUME IInv, HostNext PROVE IInv'
  OBVIOUS
<1>1. CASE Setup
  BY <1>1, EnqueueLoadStep, FinishLoadStep, WriteL1Step DEF Setup
<1>2. CASE Measure
  BY <1>2, WarmUpStep, FinishWarmupStep, BeginCaptureStep, RecordStep,
     EndCaptureStep, StartTimerStep, LaunchStep, FinishIterationStep,
     ReplayStep, FinishBatchStep, StopTimerStep, ReleaseStep
     DEF Measure
<1>3. CASE Validate
  BY <1>3, EnqueueReadStep, FinishReadStep, ReadL1Step, DecodeStep DEF Validate
<1>4. CASE Throw \/ CleanUp
  BY <1>4, ThrowStep, HandlerEndStep, HandlerFinishStep, HandlerReleaseStep
     DEF CleanUp
<1> QED BY <1>1, <1>2, <1>3, <1>4 DEF HostNext

(* The inductive invariant holds: the host's position determines which     *)
(* kind of command the queue holds, how many launches are done or pending, *)
(* and the state of the trace.                                             *)
THEOREM DispatchInvariant == Spec => []IInv
<1>1. IInv /\ [Next]_vars => IInv'
  BY HostStep, DeviceStep, StutterStep DEF Next, Returned
<1> QED BY InitIInv, <1>1, PTL DEF Spec

(* For any number of warmups, iterations, launches in a trace, faults and  *)
(* commands in the queue, the measured window of tests 1, 5, 6 and 7 holds *)
(* exactly the launches its time is divided by.                            *)
THEOREM WindowExact == Spec => []MeasuredOpsExact
<1>1. IInv => MeasuredOpsExact
  BY DEF IInv, TimerInv, MeasuredOpsExact
<1> QED BY <1>1, DispatchInvariant, PTL

(* The L1s are only accessed past the queue while no command is in it.     *)
THEOREM DirectAccessSafe == Spec => []DirectAccessOnlyWhenIdle
<1>1. IInv => DirectAccessOnlyWhenIdle
  BY DEF IInv, LaunchInv, Quiet, DirectAccessOnlyWhenIdle
<1> QED BY <1>1, DispatchInvariant, PTL

(* Whichever calls throw, a test returns with a trace captured or held     *)
(* only if ending or releasing it in the handler has thrown too.           *)
THEOREM TraceIsCleanedUp == Spec => []TraceCleanedUp
<1>1. IInv => TraceCleanedUp
  BY DEF IInv, TraceInv, TraceCleanedUp
<1> QED BY <1>1, DispatchInvariant, PTL

(* A trace is released only when its replays are done, unless the wait for *)
(* them has thrown.                                                        *)
THEOREM ReleaseWaits == Spec => ReleasedAfterItsReplays
<1> DEFINE A == (trace.state # "released" /\ trace'.state = "released") =>
                  (queue = <<>> \/ "handlerFinish" \in failed)
<1>1. IInv /\ [Next]_vars => A
  <2> SUFFICES ASSUME IInv, [Next]_vars,
                      trace.state # "released", trace'.state = "released"
               PROVE  queue = <<>> \/ "handlerFinish" \in failed
    OBVIOUS
  <2>1. trace \in [state : {"none", "capturing", "ready", "released"}, ops : Nat]
    BY DEF IInv, DispatchTypes
  <2>2. CASE Release
    BY <2>2 DEF Release, IInv, LaunchInv, Quiet
  <2>3. CASE HandlerRelease
    BY <2>3 DEF HandlerRelease, IInv, TraceInv
  <2>4. CASE WarmUp \/ Record \/ Launch \/ BeginCapture \/ EndCapture
               \/ HandlerEnd
    BY <2>1, <2>4 DEF WarmUp, Record, Launch, Submit, Put, BeginCapture,
                      EndCapture, HandlerEnd
  <2>5. CASE UNCHANGED trace
    BY <2>5
  <2>6. DeviceNext => UNCHANGED trace
    BY DEF DeviceNext, Load, Run, ReadInput, Unpack, Read
  <2>7. Setup \/ Validate \/ Throw \/ HandlerFinish \/ UNCHANGED vars
          => UNCHANGED trace
    BY DEF Setup, EnqueueLoad, FinishLoad, WriteL1, Validate, EnqueueRead,
           FinishRead, ReadL1, Decode, Throw, HandlerFinish, vars, deviceVars
  <2>8. FinishWarmup \/ StartTimer \/ FinishIteration \/ Replay \/ FinishBatch
          \/ StopTimer => UNCHANGED trace
    BY DEF FinishWarmup, StartTimer, FinishIteration, Replay, FinishBatch,
           StopTimer, deviceVars
  <2> QED BY <2>2, <2>3, <2>4, <2>5, <2>6, <2>7, <2>8
      DEF Next, HostNext, Measure, CleanUp, Returned
<1>2. IInv /\ [Next]_vars => [A]_vars
  BY <1>1
<1> QED BY <1>2, DispatchInvariant, PTL DEF Spec, ReleasedAfterItsReplays
-------------------------------------------------------------------------------
(* What the device has done for the validation *)

\* The effect a load or a read has on what the validation will see.
Effect(c) ==
  /\ c \in LoadCommands => c \in loaded
  /\ c = "readIn0" => "in0" \in effective
  /\ c = "readIn1" => "in1" \in effective
  /\ c \in {"typecast", "untilize"} => unpacked[c] = out
  /\ c \in {"read", "toVector"} => readback = out

\* Of the first n commands of s the queue holds the last; the others have had
\* their effect.
InProgress(s, n) ==
  /\ Len(queue) <= n
  /\ \A k \in 1 .. Len(queue) : queue[k] = s[n - Len(queue) + k]
  /\ \A k \in 1 .. n - Len(queue) : Effect(s[k])

LoadedInv ==
  /\ pc = "load" => InProgress(Loads, i)
  /\ pc = "finishLoad" => InProgress(Loads, i + 1)
  /\ pc = "writeL1" /\ job.dram => {"in0", "in1"} \subseteq loaded
  /\ pc \in Loaded => Inputs \subseteq loaded
  /\ pc \in BeforeCapture \cup Loaded /\ out.launches > 0 => out.inputs = Inputs

ReadInv ==
  /\ pc = "read" => InProgress(Reads, i)
  /\ pc = "finishRead" => InProgress(Reads, i + 1)
  /\ pc = "decode" =>
       /\ queue = <<>> /\ readback = out
       /\ job.dram /\ job.packDevice /\ ~job.zeros => effective = {"in0", "in1"}

DataInv == LoadedInv /\ ReadInv

effectVars == <<loaded, out, unpacked, effective, readback>>

LEMMA EffectFrame ==
  ASSUME UNCHANGED effectVars, NEW c, Effect(c)
  PROVE  Effect(c)'
  BY DEF Effect, effectVars

\* The next command of s is queued.
LEMMA PutInProgress ==
  ASSUME UNCHANGED effectVars, queue \in Seq(Commands),
         NEW s, NEW n \in Nat, InProgress(s, n),
         s[n + 1] \in Commands, Put(s[n + 1])
  PROVE  /\ Len(queue') <= n + 1
         /\ \A k \in 1 .. Len(queue') : queue'[k] = s[(n + 1) - Len(queue') + k]
         /\ \A k \in 1 .. (n + 1) - Len(queue') : Effect(s[k])'
<1>1. queue' = Append(queue, s[n + 1])
  BY DEF Put
<1>2. /\ Len(queue) \in Nat /\ Len(queue') = Len(queue) + 1
      /\ queue'[Len(queue) + 1] = s[n + 1]
      /\ \A k \in 1 .. Len(queue) : queue'[k] = queue[k]
  BY <1>1, QueueFacts
<1>3. Len(queue') <= n + 1
  BY <1>2 DEF InProgress
<1>4. ASSUME NEW k \in 1 .. Len(queue')
      PROVE  queue'[k] = s[(n + 1) - Len(queue') + k]
  <2>1. CASE k = Len(queue) + 1
    <3>1. (n + 1) - Len(queue') + k = n + 1
      BY <1>2, <2>1
    <3> QED BY <1>2, <2>1, <3>1
  <2>2. CASE k \in 1 .. Len(queue)
    <3>1. (n + 1) - Len(queue') + k = n - Len(queue) + k
      BY <1>2, <2>2
    <3> QED BY <1>2, <2>2, <3>1 DEF InProgress
  <2> QED BY <1>2, <2>1, <2>2
<1>5. ASSUME NEW k \in 1 .. (n + 1) - Len(queue')
      PROVE  Effect(s[k])'
  <2>1. k \in 1 .. n - Len(queue)
    BY <1>2
  <2>2. Effect(s[k])
    BY <2>1 DEF InProgress
  <2> QED BY <2>2, EffectFrame
<1> QED BY <1>3, <1>4, <1>5

\* A queue without commands: all those of s so far have had their effect.
LEMMA InProgressDone ==
  ASSUME queue = <<>>, NEW s, NEW n \in Nat, InProgress(s, n)
  PROVE  \A k \in 1 .. n : Effect(s[k])
<1>1. Len(queue) = 0
  OBVIOUS
<1> QED BY <1>1 DEF InProgress

\* The device executes the first command of the queue, and no other loses its
\* effect.
LEMMA ExecuteInProgress ==
  ASSUME queue \in Seq(Commands), queue # <<>>, queue' = Tail(queue),
         NEW s, NEW n \in Nat, InProgress(s, n),
         NEW c, c = Head(queue), Effect(c)',
         \A k \in 1 .. n - Len(queue) : Effect(s[k])'
  PROVE  /\ Len(queue') <= n
         /\ \A k \in 1 .. Len(queue') : queue'[k] = s[n - Len(queue') + k]
         /\ \A k \in 1 .. n - Len(queue') : Effect(s[k])'
<1>1. /\ Len(queue) \in Nat /\ Len(queue) # 0 /\ Len(queue') = Len(queue) - 1
      /\ Head(queue) = queue[1]
      /\ \A k \in 1 .. Len(queue) - 1 : queue'[k] = queue[k + 1]
  BY QueueFacts
<1>2. Len(queue) <= n
  BY DEF InProgress
<1>3. ASSUME NEW k \in 1 .. Len(queue')
      PROVE  queue'[k] = s[n - Len(queue') + k]
  <2>1. k + 1 \in 1 .. Len(queue)
    BY <1>1
  <2>2. queue[k + 1] = s[n - Len(queue) + (k + 1)]
    BY <2>1 DEF InProgress
  <2>3. n - Len(queue) + (k + 1) = n - Len(queue') + k
    BY <1>1
  <2> QED BY <1>1, <2>2, <2>3
<1>4. ASSUME NEW k \in 1 .. n - Len(queue')
      PROVE  Effect(s[k])'
  <2>1. CASE k \in 1 .. n - Len(queue)
    BY <2>1
  <2>2. CASE k = n - Len(queue) + 1
    <3>1. 1 \in 1 .. Len(queue)
      BY <1>1
    <3>2. queue[1] = s[n - Len(queue) + 1]
      BY <3>1 DEF InProgress
    <3>3. s[k] = c
      BY <1>1, <2>2, <3>2
    <3> QED BY <3>3
  <2>3. /\ Len(queue) \in Nat /\ Len(queue') = Len(queue) - 1
        /\ k \in 1 .. n - Len(queue')
    BY <1>1
  <2>4. k \in 1 .. n - Len(queue) \/ k = n - Len(queue) + 1
    <3>1. \A l, m \in Int :
            m = l - 1 /\ k \in 1 .. n - m => k \in 1 .. n - l \/ k = n - l + 1
      OBVIOUS
    <3>2. Len(queue) \in Int /\ Len(queue') \in Int
      BY <2>3
    <3> QED BY <2>3, <3>1, <3>2
  <2> QED BY <2>1, <2>2, <2>4
<1> QED BY <1>1, <1>2, <1>3, <1>4

\* Which command of s that is.
LEMMA HeadInProgress ==
  ASSUME queue \in Seq(Commands), queue # <<>>, NEW s, NEW n \in Nat,
         InProgress(s, n)
  PROVE  /\ Len(queue) \in Nat /\ n - Len(queue) + 1 \in 1 .. n
         /\ Head(queue) = s[n - Len(queue) + 1]
<1>1. Len(queue) \in Nat /\ Len(queue) # 0 /\ Head(queue) = queue[1]
  BY QueueFacts
<1>2. Len(queue) <= n
  BY DEF InProgress
<1>3. 1 \in 1 .. Len(queue)
  BY <1>1
<1> QED BY <1>1, <1>2, <1>3 DEF InProgress

\* A test that has been aborted promises nothing about its data.
LEMMA AbortedData ==
  ASSUME pc' \in Cleaning \cup {"returned"}
  PROVE  DataInv'
  BY DEF DataInv, LoadedInv, ReadInv, Cleaning, BeforeCapture, Loaded, Window,
         AfterWindow

\* The inputs stay where they are.
LEMMA StaysLoaded ==
  ASSUME LoadedInv, UNCHANGED <<loaded, out>>, pc \in Loaded, pc' \in Loaded
  PROVE  LoadedInv'
<1>1. /\ Inputs \subseteq loaded'
      /\ out'.launches > 0 => out'.inputs = Inputs
  BY DEF LoadedInv
<1>2. pc' \notin {"load", "finishLoad", "writeL1"}
  BY DEF Loaded, Window, AfterWindow
<1> QED BY <1>1, <1>2 DEF LoadedInv

LEMMA InitData == Init => DataInv
<1> SUFFICES ASSUME Init PROVE DataInv
  OBVIOUS
<1>1. /\ pc \in {"load", "writeL1"} /\ (pc = "writeL1" => ~job.dram)
      /\ i = 0 /\ queue = <<>> /\ ~(out.launches > 0)
  BY DEF Init
<1>2. InProgress(Loads, i)
  BY <1>1 DEF InProgress
<1> QED BY <1>1, <1>2 DEF DataInv, LoadedInv, ReadInv, Loaded, Window, AfterWindow

LEMMA EnqueueLoadData == IInv /\ DataInv /\ EnqueueLoad => DataInv'
<1> SUFFICES ASSUME IInv, DataInv, EnqueueLoad PROVE DataInv'
  OBVIOUS
<1>1. /\ pc = "load" /\ pc' = "finishLoad" /\ Put(Loads[i + 1])
      /\ UNCHANGED <<job, i>> /\ UNCHANGED effectVars
  BY DEF EnqueueLoad, GoTo, results, effectVars
<1>2. /\ queue \in Seq(Commands) /\ i \in Nat /\ InProgress(Loads, i)
      /\ Loads[i + 1] \in Commands /\ Loads' = Loads
  BY <1>1, LoadsFacts, JobFrame
     DEF IInv, DispatchTypes, PlaceInv, DataInv, LoadedInv, Commands
<1>3. /\ Len(queue') <= i + 1
      /\ \A k \in 1 .. Len(queue') :
           queue'[k] = Loads[(i + 1) - Len(queue') + k]
      /\ \A k \in 1 .. (i + 1) - Len(queue') : Effect(Loads[k])'
  BY <1>1, <1>2, PutInProgress
<1>4. InProgress(Loads, i + 1)'
  BY <1>1, <1>2, <1>3 DEF InProgress
<1>5. UNCHANGED out /\ (out.launches > 0 => out.inputs = Inputs)
  BY <1>1 DEF effectVars, DataInv, LoadedInv, BeforeCapture
<1> QED BY <1>1, <1>4, <1>5
    DEF DataInv, LoadedInv, ReadInv, Loaded, Window, AfterWindow

LEMMA FinishLoadData == IInv /\ DataInv /\ FinishLoad => DataInv'
<1> SUFFICES ASSUME IInv, DataInv, FinishLoad PROVE DataInv'
  OBVIOUS
<1>1. /\ pc = "finishLoad" /\ queue = <<>>
      /\ \/ pc' = "load" /\ i' = i + 1
         \/ pc' = "writeL1" /\ ~(i + 1 < Len(Loads))
      /\ UNCHANGED <<job, queue>> /\ UNCHANGED effectVars
  BY DEF FinishLoad, Finished, Count, deviceVars, results, effectVars
<1>2. /\ i \in Nat /\ i < Len(Loads) /\ InProgress(Loads, i + 1)
      /\ Loads' = Loads
  BY <1>1, JobFrame DEF IInv, DispatchTypes, PlaceInv, DataInv, LoadedInv
<1>3. \A k \in 1 .. i + 1 : Effect(Loads[k])
  BY <1>1, <1>2, InProgressDone
<1>4. pc' = "load" => InProgress(Loads, i)'
  BY <1>1, <1>2, <1>3, EffectFrame DEF InProgress
<1>5. pc' = "writeL1" => {"in0", "in1"} \subseteq loaded'
  <2> SUFFICES ASSUME pc' = "writeL1", NEW input \in {"in0", "in1"}
               PROVE  input \in loaded'
    OBVIOUS
  <2>1. PICK k \in 1 .. Len(Loads) : Loads[k] = input
    BY LoadsFacts
  <2>2. k \in 1 .. i + 1
    BY <1>1, <1>2, LoadsFacts
  <2>3. Effect(input)
    BY <1>3, <2>1, <2>2
  <2> QED BY <1>1, <2>3 DEF Effect, LoadCommands, effectVars
<1>6. UNCHANGED out /\ (out.launches > 0 => out.inputs = Inputs)
  BY <1>1 DEF effectVars, DataInv, LoadedInv, BeforeCapture
<1> QED BY <1>1, <1>4, <1>5, <1>6
    DEF DataInv, LoadedInv, ReadInv, Loaded, Window, AfterWindow

LEMMA WriteL1Data == IInv /\ DataInv /\ WriteL1 => DataInv'
<1> SUFFICES ASSUME IInv, DataInv, WriteL1 PROVE DataInv'
  OBVIOUS
<1>1. /\ pc = "writeL1" /\ pc' \in {"warmup", "begin", "start"}
      /\ loaded' = loaded \cup (IF job.dram THEN {"zeros"} ELSE Inputs)
      /\ UNCHANGED out
  BY DEF WriteL1, GoTo, Dispatching
<1>2. /\ job.dram => {"in0", "in1"} \subseteq loaded
      /\ out.launches > 0 => out.inputs = Inputs
  BY <1>1 DEF DataInv, LoadedInv, BeforeCapture
<1>3. Inputs \subseteq loaded'
  BY <1>1, <1>2 DEF Inputs
<1> QED BY <1>1, <1>2, <1>3
    DEF DataInv, LoadedInv, ReadInv, Loaded, Window, AfterWindow

LEMMA MeasureData == IInv /\ DataInv /\ Measure => DataInv'
<1> SUFFICES ASSUME IInv, DataInv, Measure PROVE DataInv'
  OBVIOUS
<1> DEFINE Dispatches == Loaded \ {"read", "finishRead", "decode"}
           Moves ==
             /\ pc \in Loaded /\ UNCHANGED <<loaded, out>>
             /\ \/ pc' \in Dispatches \/ pc' = "returned"
                \/ pc' = "read" /\ i' = 0 /\ queue' = <<>>
<1>1. ASSUME WarmUp \/ FinishWarmup \/ BeginCapture \/ Record \/ EndCapture
      PROVE  Moves
  <2> USE <1>1 DEF Loaded, Window, AfterWindow
  <2>1. pc \in Loaded
    BY DEF WarmUp, FinishWarmup, BeginCapture, Record, EndCapture
  <2>2. UNCHANGED <<loaded, out>>
    BY DEF WarmUp, FinishWarmup, BeginCapture, Record, EndCapture, deviceVars
  <2>3. pc' \in Dispatches
    BY DEF WarmUp, FinishWarmup, BeginCapture, Record, EndCapture, GoTo
  <2> QED BY <2>1, <2>2, <2>3
<1>2. ASSUME StartTimer \/ Launch \/ FinishIteration \/ Replay \/ FinishBatch
      PROVE  Moves
  <2> USE <1>2 DEF Loaded, Window, AfterWindow
  <2>1. pc \in Loaded
    BY DEF StartTimer, Launch, FinishIteration, Replay, FinishBatch
  <2>2. UNCHANGED <<loaded, out>>
    BY DEF StartTimer, Launch, FinishIteration, Replay, FinishBatch, deviceVars
  <2>3. Loop \in Dispatches /\ EndOfLoop \in Dispatches
    BY DEF Loop, EndOfLoop
  <2>4. pc' \in {Loop, EndOfLoop, "finishIteration", "stop"}
    BY DEF StartTimer, Launch, FinishIteration, Replay, FinishBatch,
           NextIteration, GoTo
  <2> QED BY <2>1, <2>2, <2>3, <2>4
<1>3. ASSUME StopTimer \/ Release
      PROVE  Moves
  <2>1. pc \in {"stop", "release"} /\ UNCHANGED <<loaded, out, queue, i>>
    BY <1>3 DEF StopTimer, Release, deviceVars
  <2>2. queue = <<>> /\ i = 0
    BY <2>1 DEF IInv, LaunchInv, PlaceInv, Quiet
  <2>3. pc' \in {"release", "returned", "read", "readL1"}
    BY <1>3 DEF StopTimer, Release, AfterStop, Validating
  <2> QED BY <2>1, <2>2, <2>3 DEF Loaded, Window, AfterWindow
<1>4. Moves
  BY <1>1, <1>2, <1>3 DEF Measure
<1>5. CASE pc' = "returned"
  BY <1>5, AbortedData
<1>6. CASE pc' # "returned"
  <2>1. pc' \in Loaded /\ pc' \notin {"finishRead", "decode"}
    BY <1>4, <1>6 DEF Loaded, AfterWindow
  <2>2. LoadedInv'
    BY <1>4, <2>1, StaysLoaded DEF DataInv
  <2>3. ReadInv'
    <3>1. CASE pc' # "read"
      BY <2>1, <3>1 DEF ReadInv
    <3>2. CASE pc' = "read"
      <4>1. i' = 0 /\ queue' = <<>>
        BY <1>4, <3>2
      <4> QED BY <3>2, <4>1 DEF ReadInv, InProgress
    <3> QED BY <3>1, <3>2
  <2> QED BY <2>2, <2>3 DEF DataInv
<1> QED BY <1>5, <1>6

LEMMA EnqueueReadData == IInv /\ DataInv /\ EnqueueRead => DataInv'
<1> SUFFICES ASSUME IInv, DataInv, EnqueueRead PROVE DataInv'
  OBVIOUS
<1>1. /\ pc = "read" /\ Put(Reads[i + 1]) /\ UNCHANGED job
      /\ \/ pc' = "finishRead" /\ i' = i
         \/ pc' = "read" /\ i' = i + 1
         \/ ~Awaited(Reads[i + 1]) /\ ~(i + 1 < Len(Reads))
  BY DEF EnqueueRead, NextRead, Count, GoTo
<1>2. /\ queue \in Seq(Commands) /\ i \in Nat /\ i < Len(Reads)
      /\ InProgress(Reads, i)
  BY <1>1 DEF IInv, DispatchTypes, PlaceInv, DataInv, ReadInv
<1>3. i + 1 \in 1 .. Len(Reads) /\ Reads' = Reads
  BY <1>1, <1>2, ReadsFacts, JobFrame
<1>4. Reads[i + 1] \in Commands
  BY <1>3, ReadsFacts DEF Commands
<1>5. ~(i + 1 < Len(Reads)) => Awaited(Reads[i + 1])
  <2> SUFFICES ASSUME ~(i + 1 < Len(Reads)) PROVE Awaited(Reads[i + 1])
    OBVIOUS
  <2>1. i + 1 = Len(Reads)
    BY <1>2, ReadsFacts
  <2>2. Reads[i + 1] \in {"read", "toVector"}
    BY <1>3, <2>1, ReadsFacts
  <2> QED BY <2>2 DEF Awaited
<1>6. UNCHANGED effectVars
  BY DEF EnqueueRead, results, effectVars
<1>7. /\ Len(queue') <= i + 1
      /\ \A k \in 1 .. Len(queue') :
           queue'[k] = Reads[(i + 1) - Len(queue') + k]
      /\ \A k \in 1 .. (i + 1) - Len(queue') : Effect(Reads[k])'
  <2>1. Put(Reads[i + 1]) /\ UNCHANGED effectVars
    BY <1>1, <1>6
  <2>2. /\ queue \in Seq(Commands) /\ i \in Nat
        /\ InProgress(Reads, i) /\ Reads[i + 1] \in Commands
    BY <1>2, <1>4
  <2> QED BY <1>3, <2>1, <2>2, PutInProgress
<1>8. \/ pc' = "finishRead" /\ InProgress(Reads, i + 1)'
      \/ pc' = "read" /\ InProgress(Reads, i)'
  BY <1>1, <1>3, <1>5, <1>7 DEF InProgress
<1>9. LoadedInv'
  BY <1>1, <1>8, <1>6, StaysLoaded DEF DataInv, Loaded, AfterWindow, effectVars
<1> QED BY <1>8, <1>9 DEF DataInv, ReadInv

LEMMA FinishReadData == IInv /\ DataInv /\ FinishRead => DataInv'
<1> SUFFICES ASSUME IInv, DataInv, FinishRead PROVE DataInv'
  OBVIOUS
<1>1. /\ pc = "finishRead" /\ queue = <<>>
      /\ \/ pc' = "read" /\ i' = i + 1
         \/ pc' = "decode" /\ ~(i + 1 < Len(Reads))
      /\ UNCHANGED <<job, queue>> /\ UNCHANGED effectVars
  BY DEF FinishRead, ReadFinished, Finished, NextRead, Count, deviceVars,
         results, effectVars
<1>2. /\ i \in Nat /\ i < Len(Reads) /\ InProgress(Reads, i + 1)
      /\ effective \in SUBSET {"in0", "in1"} /\ Reads' = Reads
  BY <1>1, JobFrame DEF IInv, DispatchTypes, PlaceInv, DataInv, ReadInv
<1>3. \A k \in 1 .. i + 1 : Effect(Reads[k])
  BY <1>1, <1>2, InProgressDone
<1>4. pc' = "read" => InProgress(Reads, i)'
  BY <1>1, <1>2, <1>3, EffectFrame DEF InProgress
<1>5. pc' = "decode" =>
        /\ readback = out
        /\ job.packDevice /\ ~job.zeros => effective = {"in0", "in1"}
  <2> SUFFICES ASSUME pc' = "decode"
               PROVE  /\ readback = out
                      /\ job.packDevice /\ ~job.zeros =>
                           effective = {"in0", "in1"}
    OBVIOUS
  <2>1. i + 1 = Len(Reads)
    BY <1>1, <1>2, ReadsFacts
  <2>2. Reads[i + 1] \in {"read", "toVector"} /\ Effect(Reads[i + 1])
    BY <1>2, <1>3, <2>1, ReadsFacts
  <2>3. job.packDevice /\ ~job.zeros => Effect("readIn0") /\ Effect("readIn1")
    BY <1>3, <2>1, ReadsFacts
  <2> QED BY <1>2, <2>2, <2>3 DEF Effect
<1>6. LoadedInv'
  BY <1>1, StaysLoaded DEF DataInv, Loaded, AfterWindow, effectVars
<1> QED BY <1>1, <1>4, <1>5, <1>6 DEF DataInv, ReadInv, effectVars

LEMMA ReadL1Data == IInv /\ DataInv /\ ReadL1 => DataInv'
<1> SUFFICES ASSUME IInv, DataInv, ReadL1 PROVE DataInv'
  OBVIOUS
<1>1. /\ pc = "readL1" /\ pc' = "decode" /\ readback' = out
      /\ UNCHANGED <<job, queue, loaded, out>>
  BY DEF ReadL1, GoTo
<1>2. ~job.dram /\ queue = <<>>
  BY <1>1 DEF IInv, PlaceInv, LaunchInv, Quiet
<1>3. LoadedInv'
  BY <1>1, StaysLoaded DEF DataInv, Loaded, Window, AfterWindow
<1> QED BY <1>1, <1>2, <1>3 DEF DataInv, ReadInv

LEMMA AbortData == Decode \/ Throw \/ CleanUp => DataInv'
<1> SUFFICES ASSUME Decode \/ Throw \/ CleanUp
             PROVE  pc' \in Cleaning \cup {"returned"}
  BY AbortedData
<1>1. CASE Decode
  BY <1>1 DEF Decode, GoTo
<1>2. CASE Throw
  <2>1. Handler \in {"returned", "handlerEnd", "handlerFinish"}
    BY DEF Handler, HandlerWaits
  <2>2. pc \in Calls => pc' = Handler
    BY <1>2 DEF Throw
  <2>3. pc \notin Calls =>
          /\ pc \in {"handlerEnd", "handlerFinish", "handlerRelease"}
          /\ pc' = AfterHandlerCall[pc]
    BY <1>2 DEF Throw, AfterHandlerCall
  <2> QED BY <2>1, <2>2, <2>3 DEF AfterHandlerCall, HandlerWaits, Cleaning
<1>3. CASE CleanUp
  BY <1>3 DEF CleanUp, HandlerEnd, HandlerFinish, HandlerRelease, GoTo,
              AfterHandlerCall, HandlerWaits, Cleaning
<1> QED BY <1>1, <1>2, <1>3

\* The device loads an input, whose rows have been uploaded before.
LEMMA LoadData ==
  ASSUME IInv, DataInv, DeviceNext, pc = "finishLoad"
  PROVE  DataInv'
<1>1. /\ queue # <<>> /\ queue' = Tail(queue) /\ UNCHANGED <<job, pc, i>>
      /\ Loads' = Loads
  BY DeviceFacts, JobFrame DEF hostVars
<1>2. /\ queue \in Seq(Commands) /\ i \in Nat /\ i < Len(Loads)
      /\ InProgress(Loads, i + 1) /\ Queued(LoadCommands, 0, 0)
  BY DEF IInv, DispatchTypes, PlaceInv, LaunchInv, DataInv, LoadedInv
<1> DEFINE m == i + 1 - Len(queue) + 1
<1>3. /\ Len(queue) \in Nat /\ m \in 1 .. i + 1 /\ m \in 1 .. Len(Loads)
      /\ Head(queue) = Loads[m]
  <2>1. i + 1 \in Nat
    BY <1>2
  <2>2. Len(queue) \in Nat /\ m \in 1 .. i + 1 /\ Head(queue) = Loads[m]
    BY <1>1, <1>2, <2>1, HeadInProgress
  <2> QED BY <1>2, <2>2, LoadsFacts
<1>4. Head(queue) \in LoadCommands
  BY <1>1, <1>2, HeadOfQueue
<1>5. Load
  <2>1. DOMAIN unpacked = {"typecast", "untilize"}
    BY DEF IInv, DispatchTypes
  <2> QED BY <1>4, <2>1 DEF DeviceNext, Run, ReadInput, Unpack, Read, LoadCommands
<1>6. loaded \subseteq loaded' /\ UNCHANGED <<out, unpacked, effective, readback>>
  BY <1>5 DEF Load, results
<1>7. Head(queue) \in loaded'
  <2>1. \A k \in 1 .. (i + 1) - Len(queue) : Effect(Loads[k])
    BY <1>2 DEF InProgress
  <2>2. m - 1 \in 1 .. Len(Loads) => m - 1 \in 1 .. (i + 1) - Len(queue)
    BY <1>2, <1>3
  <2>3. job.packDevice /\ Head(queue) = "in0" => "rows0" \in loaded
    <3> SUFFICES ASSUME job.packDevice, Head(queue) = "in0"
                 PROVE  "rows0" \in loaded
      OBVIOUS
    <3>1. m - 1 \in 1 .. (i + 1) - Len(queue) /\ Loads[m - 1] = "rows0"
      BY <1>3, <2>2, LoadsFacts
    <3>2. Effect("rows0")
      BY <2>1, <3>1
    <3> QED BY <3>2 DEF Effect, LoadCommands
  <2>4. job.packDevice /\ Head(queue) = "in1" => "rows1" \in loaded
    <3> SUFFICES ASSUME job.packDevice, Head(queue) = "in1"
                 PROVE  "rows1" \in loaded
      OBVIOUS
    <3>1. m - 1 \in 1 .. (i + 1) - Len(queue) /\ Loads[m - 1] = "rows1"
      BY <1>3, <2>2, LoadsFacts
    <3>2. Effect("rows1")
      BY <2>1, <3>1
    <3> QED BY <3>2 DEF Effect, LoadCommands
  <2> QED BY <1>5, <2>3, <2>4 DEF Load
<1>8. ASSUME NEW c, Effect(c)
      PROVE  Effect(c)'
  BY <1>6, <1>8 DEF Effect
<1>9. PICK c : c = Head(queue)
  OBVIOUS
<1>10. Effect(c)'
  BY <1>4, <1>7, <1>9 DEF Effect, LoadCommands, ReadCommands
<1>11. InProgress(Loads, i + 1)'
  <2>1. PICK s : s = Loads
    OBVIOUS
  <2>2. PICK n \in Nat : n = i + 1
    BY <1>2
  <2>3. InProgress(s, n)
    BY <1>2, <2>1, <2>2
  <2>4. \A k \in 1 .. n - Len(queue) : Effect(s[k])'
    BY <2>3, <1>8 DEF InProgress
  <2>5. /\ Len(queue') <= n
        /\ \A k \in 1 .. Len(queue') : queue'[k] = s[n - Len(queue') + k]
        /\ \A k \in 1 .. n - Len(queue') : Effect(s[k])'
    BY <1>1, <1>2, <1>9, <1>10, <2>3, <2>4, ExecuteInProgress
  <2> QED BY <1>1, <2>1, <2>2, <2>5 DEF InProgress
<1>12. UNCHANGED out /\ (out.launches > 0 => out.inputs = Inputs)
  BY <1>6 DEF DataInv, LoadedInv, BeforeCapture
<1> QED BY <1>1, <1>11, <1>12
    DEF DataInv, LoadedInv, ReadInv, Loaded, Window, AfterWindow

\* The device launches the kernels, on inputs that are all there.
LEMMA RunData ==
  ASSUME IInv, DataInv, DeviceNext, pc \in Loaded,
         pc \notin {"read", "finishRead", "decode"}
  PROVE  DataInv'
<1>1. queue # <<>> /\ UNCHANGED pc
  BY DeviceFacts DEF hostVars
<1>2. Head(queue) \in {"run", "replay"}
  <2>1. queue \in Seq(Commands)
    BY DEF IInv, DispatchTypes
  <2>2. \E w, n : Queued({"run"}, w, n) \/ Queued({"replay"}, w, n)
    BY <1>1 DEF IInv, LaunchInv, Quiet, Loaded, Window, AfterWindow
  <2> QED BY <1>1, <2>1, <2>2, HeadOfQueue
<1>3. Run
  <2>1. DOMAIN unpacked = {"typecast", "untilize"}
    BY DEF IInv, DispatchTypes
  <2> QED BY <1>2, <2>1 DEF DeviceNext, Load, ReadInput, Unpack, Read
<1>4. UNCHANGED loaded /\ out'.inputs = loaded \cap Inputs
  BY <1>3 DEF Run
<1>5. Inputs \subseteq loaded
  BY DEF DataInv, LoadedInv
<1>6. out'.inputs = Inputs
  BY <1>4, <1>5
<1>7. LoadedInv'
  <2>1. pc' \in Loaded /\ pc' \notin {"load", "finishLoad", "writeL1"}
    BY <1>1 DEF Loaded, Window, AfterWindow
  <2> QED BY <1>4, <1>5, <1>6, <2>1 DEF LoadedInv
<1>8. ReadInv'
  BY <1>1 DEF ReadInv
<1> QED BY <1>7, <1>8 DEF DataInv

\* The device executes a command of the validation, on what those before it
\* have produced.
LEMMA ReadEffect ==
  ASSUME IInv, DeviceNext, Only(ReadCommands), Inputs \subseteq loaded,
         NEW s, s = Reads, NEW n \in Nat, n <= Len(s), InProgress(s, n)
  PROVE  /\ UNCHANGED <<loaded, out>>
         /\ Len(queue') <= n
         /\ \A k \in 1 .. Len(queue') : queue'[k] = s[n - Len(queue') + k]
         /\ \A k \in 1 .. n - Len(queue') : Effect(s[k])'
<1>1. queue # <<>> /\ queue' = Tail(queue)
  BY DeviceFacts
<1>2. /\ queue \in Seq(Commands)
      /\ unpacked \in [typecast : Outputs, untilize : Outputs]
  BY DEF IInv, DispatchTypes
<1>3. PICK c : c = Head(queue)
  OBVIOUS
<1> DEFINE m == n - Len(queue) + 1
<1>4. Len(queue) \in Nat /\ m \in 1 .. n /\ c = s[m]
  BY <1>1, <1>2, <1>3, HeadInProgress
<1>5. m \in 1 .. Len(Reads) /\ c = Reads[m]
  BY <1>4, ReadsFacts
<1>6. c \in ReadCommands
  BY <1>5, ReadsFacts
<1>7. ReadInput \/ Unpack \/ Read
  BY <1>3, <1>6 DEF DeviceNext, Load, Run, ReadCommands
<1>8. UNCHANGED <<job, loaded, out>>
  BY <1>7 DEF ReadInput, Unpack, Read, hostVars
<1>9. \A k \in 1 .. n - Len(queue) : Effect(s[k])
  BY DEF InProgress
<1>10. /\ c = "untilize" /\ job.fp32 => unpacked["typecast"] = out
       /\ c = "toVector" => unpacked["untilize"] = out
  <2>1. m - 1 \in 1 .. Len(Reads) => m - 1 \in 1 .. n - Len(queue)
    BY <1>4
  <2>2. c = "untilize" /\ job.fp32 => Effect("typecast")
    <3> SUFFICES ASSUME c = "untilize", job.fp32 PROVE Effect("typecast")
      OBVIOUS
    <3>1. m - 1 \in 1 .. n - Len(queue) /\ s[m - 1] = "typecast"
      BY <1>5, <2>1, ReadsFacts
    <3> QED BY <1>9, <3>1
  <2>3. c = "toVector" => Effect("untilize")
    <3> SUFFICES ASSUME c = "toVector" PROVE Effect("untilize")
      OBVIOUS
    <3>1. m - 1 \in 1 .. n - Len(queue) /\ s[m - 1] = "untilize"
      BY <1>5, <2>1, ReadsFacts
    <3> QED BY <1>9, <3>1
  <2> QED BY <2>2, <2>3 DEF Effect
<1>11. Effect(c)' /\ \A d : Effect(d) => Effect(d)'
  <2>1. CASE ReadInput
    <3>1. /\ c \in {"readIn0", "readIn1"} /\ effective \subseteq effective'
          /\ UNCHANGED <<loaded, out, unpacked, readback>>
      BY <1>3, <2>1 DEF ReadInput
    <3>2. \A d : Effect(d) => Effect(d)'
      BY <3>1 DEF Effect
    <3>3. (IF c = "readIn0" THEN "in0" ELSE "in1") \in effective'
      BY <1>3, <2>1 DEF ReadInput, Inputs
    <3>4. Effect(c)'
      BY <3>1, <3>3 DEF Effect, LoadCommands
    <3> QED BY <3>2, <3>4
  <2>2. CASE Unpack
    <3>1. /\ c \in {"typecast", "untilize"}
          /\ unpacked' = [unpacked EXCEPT ![c] =
                            IF c = "untilize" /\ job.fp32
                            THEN unpacked["typecast"] ELSE out]
          /\ UNCHANGED <<loaded, out, effective, readback>>
      BY <1>2, <1>3, <2>2 DEF Unpack
    <3>2. /\ unpacked'[c] = out
          /\ \A d \in {"typecast", "untilize"} :
               d # c => unpacked'[d] = unpacked[d]
      BY <1>2, <1>10, <3>1
    <3>3. Effect(c)'
      BY <3>1, <3>2 DEF Effect, LoadCommands
    <3>4. ASSUME NEW d, Effect(d)
          PROVE  Effect(d)'
      BY <3>1, <3>2, <3>4 DEF Effect
    <3> QED BY <3>3, <3>4
  <2>3. CASE Read
    <3>1. /\ c \in {"read", "toVector"} /\ readback' = out
          /\ UNCHANGED <<loaded, out, unpacked, effective>>
      BY <1>3, <1>10, <2>3 DEF Read
    <3> QED BY <3>1 DEF Effect, LoadCommands
  <2> QED BY <1>7, <2>1, <2>2, <2>3
<1>12. \A k \in 1 .. n - Len(queue) : Effect(s[k])'
  BY <1>9, <1>11
<1>13. /\ Len(queue') <= n
       /\ \A k \in 1 .. Len(queue') : queue'[k] = s[n - Len(queue') + k]
       /\ \A k \in 1 .. n - Len(queue') : Effect(s[k])'
  BY <1>1, <1>2, <1>3, <1>11, <1>12, ExecuteInProgress
<1> QED BY <1>8, <1>13

LEMMA ReadData ==
  ASSUME IInv, DataInv, DeviceNext, pc \in {"read", "finishRead"}
  PROVE  DataInv'
<1>1. UNCHANGED <<job, pc, i>> /\ Reads' = Reads
  BY DeviceFacts, JobFrame DEF hostVars
<1>2. /\ i \in Nat /\ i < Len(Reads) /\ Only(ReadCommands)
      /\ pc = "read" => InProgress(Reads, i)
      /\ pc = "finishRead" => InProgress(Reads, i + 1)
  BY DEF IInv, DispatchTypes, PlaceInv, LaunchInv, Queued, DataInv, ReadInv
<1>3. PICK s : s = Reads
  OBVIOUS
<1>4. PICK n \in Nat : n = (IF pc = "read" THEN i ELSE i + 1)
  BY <1>2
<1>5. n <= Len(s) /\ InProgress(s, n)
  BY <1>2, <1>3, <1>4, ReadsFacts
<1>6. /\ UNCHANGED <<loaded, out>>
      /\ Len(queue') <= n
      /\ \A k \in 1 .. Len(queue') : queue'[k] = s[n - Len(queue') + k]
      /\ \A k \in 1 .. n - Len(queue') : Effect(s[k])'
  <2>1. Inputs \subseteq loaded
    BY DEF DataInv, LoadedInv, Loaded, AfterWindow
  <2> QED BY <1>2, <1>3, <1>5, <2>1, ReadEffect
<1>7. /\ pc = "read" => InProgress(Reads, i)'
      /\ pc = "finishRead" => InProgress(Reads, i + 1)'
  BY <1>1, <1>3, <1>4, <1>6 DEF InProgress
<1>8. LoadedInv'
  BY <1>1, <1>6, StaysLoaded DEF DataInv, Loaded, AfterWindow
<1> QED BY <1>1, <1>7, <1>8 DEF DataInv, ReadInv

LEMMA DataStep == IInv /\ DataInv /\ [Next]_vars => DataInv'
<1> SUFFICES ASSUME IInv, DataInv, [Next]_vars PROVE DataInv'
  OBVIOUS
<1>1. CASE HostNext
  BY <1>1, EnqueueLoadData, FinishLoadData, WriteL1Data, MeasureData,
     EnqueueReadData, FinishReadData, ReadL1Data, AbortData
     DEF HostNext, Setup, Validate
<1>2. CASE DeviceNext
  <2>1. queue # <<>> /\ UNCHANGED pc
    BY <1>2, DeviceFacts DEF hostVars
  <2>2. pc \notin {"load", "writeL1", "decode"}
    BY <2>1 DEF IInv, LaunchInv, Quiet, DataInv, ReadInv
  <2>3. \/ pc = "finishLoad"
        \/ pc \in Loaded /\ pc \notin {"read", "finishRead", "decode"}
        \/ pc \in {"read", "finishRead"}
        \/ pc' \in Cleaning \cup {"returned"}
    BY <2>1, <2>2 DEF IInv, DispatchTypes, BeforeCapture, Loaded
  <2> QED BY <1>2, <2>3, LoadData, RunData, ReadData, AbortedData
<1>3. CASE UNCHANGED vars
  <2>1. UNCHANGED <<job, pc, i, queue>> /\ UNCHANGED effectVars
    BY <1>3 DEF vars, hostVars, deviceVars, results, effectVars
  <2>2. Loads' = Loads /\ Reads' = Reads
    BY <2>1, JobFrame
  <2>3. ASSUME NEW s, NEW n, InProgress(s, n)
        PROVE  InProgress(s, n)'
    BY <2>1, <2>3, EffectFrame DEF InProgress
  <2> QED BY <2>1, <2>2, <2>3 DEF DataInv, LoadedInv, ReadInv, effectVars
<1> QED BY <1>1, <1>2, <1>3 DEF Next, Returned

(* With L1 or DRAM tensors, packed and unpacked by the host or the device, *)
(* for any number of launches: a test that gets to its validation compares *)
(* the output of its last launch, which saw both inputs and the zeros, and *)
(* computes the golden result from the inputs the device has packed.       *)
THEOREM ValidationSound == Spec => []ValidationSeesFinalOutput
<1>1. Init => IInv /\ DataInv
  BY InitIInv, InitData
<1>2. IInv /\ DataInv /\ [Next]_vars => (IInv /\ DataInv)'
  BY HostStep, DeviceStep, StutterStep, DataStep DEF Next, Returned
<1>3. IInv /\ DataInv => ValidationSeesFinalOutput
  <2> SUFFICES ASSUME IInv, DataInv, pc = "decode"
               PROVE  ValidationSeesFinalOutput
    BY DEF ValidationSeesFinalOutput
  <2>1. /\ queue = <<>> /\ readback = out
        /\ job.dram /\ job.packDevice /\ ~job.zeros =>
             effective = {"in0", "in1"}
        /\ out.launches > 0 => out.inputs = Inputs
    BY DEF DataInv, ReadInv, LoadedInv, Loaded, AfterWindow
  <2>2. out.launches \in Nat /\ Queued(ReadCommands, 0, Warmup + TimedOps)
    BY DEF IInv, DispatchTypes, LaunchInv
  <2>3. out.launches = Warmup + TimedOps
    BY <2>1, <2>2, QuietQueue
  <2> QED BY <2>1, <2>3 DEF ValidationSeesFinalOutput
<1> QED BY <1>1, <1>2, <1>3, PTL DEF Spec
===============================================================================
