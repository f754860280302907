------------------------------- MODULE Dispatch -------------------------------
(***************************************************************************)
(* The host side of one ComputeMM test: it loads the inputs, dispatches    *)
(* the matmul program, measures, reads the output back and validates it.   *)
(* The device works through the one command queue in order and at its own  *)
(* pace; nearly every call returns before its command has been executed.   *)
(*                                                                         *)
(*   direct  test 1  enqueue and Finish, every iteration                   *)
(*   async   test 5  warmup; enqueue all iterations, one Finish            *)
(*   trace   test 6  warmup; capture a trace, replay it, one Finish        *)
(*   sync    test 7  warmup; enqueue and Finish, every iteration           *)
(*                                                                         *)
(* With L1 tensors (dram = FALSE) inputs and output go directly into the   *)
(* L1s, past the queue; in both modes the zeros for padding do.  A call of *)
(* the runtime may throw; one that throws has done nothing.  The inputs    *)
(* in DRAM may be packed, and the output unpacked, by programs of TTNN     *)
(* on the device instead of by the host (--pack-tile, --unpack-tile).      *)
(***************************************************************************)
EXTENDS Integers, Sequences, FiniteSets

CONSTANTS
  Jobs,         \* the tests that may be asked for
  QueueDepth,   \* commands the queue holds before an enqueue blocks
  MaxFaults     \* bound: runtime calls that throw in one test

Job ==
  [ test : {"direct", "async", "trace", "sync"}, iters : Nat, warmup : Nat,
    ops : Nat \ {0}, dram : BOOLEAN, check : BOOLEAN, zeros : BOOLEAN,
    packDevice : BOOLEAN, unpackDevice : BOOLEAN, fp32 : BOOLEAN ]

ASSUME JobsAssumption ==
  Jobs \subseteq Job /\ QueueDepth \in Nat \ {0} /\ MaxFaults \in Nat

VARIABLES
  job,          \* the test; never changes
  pc, i,        \* the host: its next call, and its loop counter
  traceId,      \* whether the host holds a trace id
  captureEnded, \* the host's flag for its exception handler
  failed,       \* the calls that have thrown
  timer,        \* launches executed when the measured window began and ended
  queue,        \* commands enqueued and not yet executed
  trace,        \* the runtime's trace: its state and the launches it holds
  loaded,       \* the inputs that have reached the device, packed or not
  out,          \* the device's output: launches so far, inputs of the last
  unpacked,     \* the output as TTNN has typecast and untilized it
  effective,    \* the packed inputs the host has read back
  readback      \* the host's copy of the output

hostVars == <<job, pc, i, traceId, captureEnded, failed, timer>>
results == <<unpacked, effective, readback>>
deviceVars == <<queue, trace, loaded, out, results>>
vars == <<hostVars, deviceVars>>
-------------------------------------------------------------------------------
Inputs == {"in0", "in1", "zeros"}

None == [launches |-> -1, inputs |-> {}]

Warmup == IF job.test = "direct" THEN 0 ELSE job.warmup

\* The launches the tool divides the measured time by.
TimedOps == IF job.test = "trace" THEN job.iters * job.ops ELSE job.iters

Capturing == trace.state = "capturing"

\* The commands that load the inputs, each followed by a Finish.  When the
\* device packs, a tensor is uploaded by rows and then tilized.
Loads == IF job.packDevice THEN <<"rows0", "in0", "rows1", "in1">>
                           ELSE <<"in0", "in1">>

\* The commands of the validation: the inputs as the device has packed them,
\* which the golden result is computed from, and the output.
Reads ==
  (IF job.packDevice /\ ~job.zeros THEN <<"readIn0", "readIn1">> ELSE <<>>) \o
  (IF ~job.unpackDevice THEN <<"read">> ELSE
   IF job.fp32 THEN <<"typecast", "untilize", "toVector">>
               ELSE <<"untilize", "toVector">>)

\* Only test 1 waits for the typecast.
Awaited(command) == command = "typecast" => job.test = "direct"

\* Where the host goes when the inputs are loaded, ...
Dispatching ==
  IF Warmup > 0 THEN "warmup" ELSE
  IF job.test = "trace" THEN "begin" ELSE "start"

\* ... in the measured window, ...
Loop == IF job.test = "trace" THEN "replay" ELSE "launch"

EndOfLoop == IF job.test \in {"async", "trace"} THEN "finish" ELSE "stop"

\* ... and after it.
Validating ==
  IF ~job.check THEN "returned" ELSE IF job.dram THEN "read" ELSE "readL1"

AfterStop == IF job.test = "trace" THEN "release" ELSE Validating

Init ==
  /\ job \in Jobs
  /\ pc = (IF job.dram THEN "load" ELSE "writeL1") /\ i = 0
  /\ traceId = FALSE /\ captureEnded = FALSE /\ failed = {}
  /\ timer = [begin |-> None.launches, end |-> None.launches]
  /\ queue = <<>> /\ trace = [state |-> "none", ops |-> 0]
  /\ loaded = {} /\ out = [launches |-> 0, inputs |-> {}] /\ readback = None
  /\ unpacked = [typecast |-> None, untilize |-> None] /\ effective = {}
-------------------------------------------------------------------------------
(* The calls of the runtime.  Enqueuing blocks while the queue is full;    *)
(* while a trace is captured a program is recorded and not queued.         *)

Put(command) ==
  Len(queue) < QueueDepth /\ queue' = Append(queue, command)

Submit ==
  IF Capturing
  THEN trace' = [trace EXCEPT !.ops = @ + 1] /\ UNCHANGED queue
  ELSE Put("run") /\ UNCHANGED trace

Finished == queue = <<>>

GoTo(p) == pc' = p /\ UNCHANGED <<job, i, traceId, captureEnded, failed, timer>>

Count(n) == i' = n /\ UNCHANGED <<job, traceId, captureEnded, failed, timer>>
-------------------------------------------------------------------------------
(* Loading the inputs *)

EnqueueLoad ==
  /\ pc = "load" /\ Put(Loads[i + 1]) /\ GoTo("finishLoad")
  /\ UNCHANGED <<trace, loaded, out, results>>

\* The last of them stands also for those after the allocation of the output.
FinishLoad ==
  /\ pc = "finishLoad" /\ Finished
  /\ IF i + 1 < Len(Loads) THEN Count(i + 1) /\ pc' = "load"
                           ELSE Count(0) /\ pc' = "writeL1"
  /\ UNCHANGED deviceVars

\* WriteToDeviceL1 on every core: the zeros, and with L1 tensors the inputs.
WriteL1 ==
  /\ pc = "writeL1"
  /\ loaded' = loaded \cup IF job.dram THEN {"zeros"} ELSE Inputs
  /\ GoTo(Dispatching)
  /\ UNCHANGED <<queue, trace, out, results>>
-------------------------------------------------------------------------------
(* Warmup and measured window *)

WarmUp ==
  /\ pc = "warmup" /\ Submit
  /\ IF i + 1 < Warmup THEN Count(i + 1) /\ UNCHANGED pc
                       ELSE Count(0) /\ pc' = "finishWarmup"
  /\ UNCHANGED <<loaded, out, results>>

\* Mutant: the measurement starts without waiting for the warmup.
WarmupNotFinished == TRUE

WarmupFinished == Finished

FinishWarmup ==
  /\ pc = "finishWarmup" /\ WarmupFinished
  /\ GoTo(IF job.test = "trace" THEN "begin" ELSE "start")
  /\ UNCHANGED deviceVars

BeginCapture ==
  /\ pc = "begin"
  /\ trace' = [trace EXCEPT !.state = "capturing"]
  /\ traceId' = TRUE /\ pc' = "record"
  /\ UNCHANGED <<job, i, captureEnded, failed, timer, queue, loaded, out,
                 results>>

Record ==
  /\ pc = "record" /\ Submit
  /\ IF i + 1 < job.ops THEN Count(i + 1) /\ UNCHANGED pc
                        ELSE Count(0) /\ pc' = "end"
  /\ UNCHANGED <<loaded, out, results>>

EndCapture ==
  /\ pc = "end"
  /\ trace' = [trace EXCEPT !.state = "ready"]
  /\ captureEnded' = TRUE /\ pc' = "start"
  /\ UNCHANGED <<job, i, traceId, failed, timer, queue, loaded, out, results>>

StartTimer ==
  /\ pc = "start"
  /\ timer' = [timer EXCEPT !.begin = out.launches]
  /\ pc' = IF job.iters > 0 THEN Loop ELSE EndOfLoop
  /\ UNCHANGED <<job, i, traceId, captureEnded, failed, deviceVars>>

NextIteration ==
  IF i + 1 < job.iters THEN Count(i + 1) /\ pc' = Loop
                       ELSE Count(0) /\ pc' = EndOfLoop

Launch ==
  /\ pc = "launch" /\ Submit
  /\ IF job.test = "async" THEN NextIteration ELSE GoTo("finishIteration")
  /\ UNCHANGED <<loaded, out, results>>

FinishIteration ==
  /\ pc = "finishIteration" /\ Finished
  /\ NextIteration
  /\ UNCHANGED deviceVars

Replay ==
  /\ pc = "replay" /\ Put("replay")
  /\ NextIteration
  /\ UNCHANGED <<trace, loaded, out, results>>

\* Mutant: a measured batch is not waited for.
BatchNotFinished == TRUE

BatchFinished == Finished

FinishBatch ==
  pc = "finish" /\ BatchFinished /\ GoTo("stop") /\ UNCHANGED deviceVars

StopTimer ==
  /\ pc = "stop"
  /\ timer' = [timer EXCEPT !.end = out.launches]
  /\ pc' = AfterStop
  /\ UNCHANGED <<job, i, traceId, captureEnded, failed, deviceVars>>

Release ==
  /\ pc = "release"
  /\ trace' = [trace EXCEPT !.state = "released"]
  /\ traceId' = FALSE /\ pc' = Validating
  /\ UNCHANGED <<job, i, captureEnded, failed, timer, queue, loaded, out,
                 results>>
-------------------------------------------------------------------------------
(* Reading the output back *)

NextRead ==
  IF i + 1 < Len(Reads) THEN Count(i + 1) /\ pc' = "read"
                        ELSE Count(0) /\ pc' = "decode"

EnqueueRead ==
  /\ pc = "read" /\ Put(Reads[i + 1])
  /\ IF Awaited(Reads[i + 1]) THEN GoTo("finishRead") ELSE NextRead
  /\ UNCHANGED <<trace, loaded, out, results>>

\* Mutant: the data is decoded as soon as the read has been enqueued.
ReadNotFinished == TRUE

ReadFinished == Finished

\* Finish, or, of to_vector, its own wait for the data.
FinishRead ==
  pc = "finishRead" /\ ReadFinished /\ NextRead /\ UNCHANGED deviceVars

ReadL1 ==
  /\ pc = "readL1" /\ readback' = out /\ GoTo("decode")
  /\ UNCHANGED <<queue, trace, loaded, out, unpacked, effective>>

Decode == pc = "decode" /\ GoTo("returned") /\ UNCHANGED deviceVars
-------------------------------------------------------------------------------
(* Exceptions.  Test 6 handles those of its dispatch before they reach the *)
(* test's own handler, and swallows those of its clean-up.                 *)

Calls == {"load", "finishLoad", "writeL1", "warmup", "finishWarmup", "begin",
          "record", "end", "launch", "finishIteration", "replay", "finish",
          "release", "read", "finishRead", "readL1"}

Guarded == {"warmup", "finishWarmup", "begin", "record", "end", "replay",
            "finish", "release"}

\* Mutant: the handler takes every capture for ended.
CaptureTakenForEnded == FALSE

CaptureOpen == ~captureEnded

\* Mutant: the handler releases the trace without waiting for its replays.
HandlerReleases == "handlerRelease"

HandlerWaits == "handlerFinish"

Handler ==
  IF ~(job.test = "trace" /\ pc \in Guarded /\ traceId) THEN "returned" ELSE
  IF CaptureOpen THEN "handlerEnd" ELSE HandlerWaits

\* What follows a call of the handler, whether or not it has thrown.
AfterHandlerCall ==
  [handlerEnd |-> HandlerWaits, handlerFinish |-> "handlerRelease",
   handlerRelease |-> "returned"]

Throw ==
  /\ pc \in Calls \cup DOMAIN AfterHandlerCall
  /\ Cardinality(failed) < MaxFaults
  /\ failed' = failed \cup {pc}
  /\ pc' = IF pc \in Calls THEN Handler ELSE AfterHandlerCall[pc]
  /\ UNCHANGED <<job, i, traceId, captureEnded, timer, deviceVars>>

HandlerEnd ==
  /\ pc = "handlerEnd"
  /\ trace' = [trace EXCEPT !.state = "ready"]
  /\ GoTo(AfterHandlerCall[pc])
  /\ UNCHANGED <<queue, loaded, out, results>>

HandlerFinish ==
  /\ pc = "handlerFinish" /\ Finished
  /\ GoTo(AfterHandlerCall[pc]) /\ UNCHANGED deviceVars

\* A trace still being captured cannot be released: that throws as well.
HandlerRelease ==
  /\ pc = "handlerRelease"
  /\ trace' = IF Capturing THEN trace ELSE [trace EXCEPT !.state = "released"]
  /\ GoTo(AfterHandlerCall[pc])
  /\ UNCHANGED <<queue, loaded, out, results>>
-------------------------------------------------------------------------------
(* The device executes the command at the head of the queue. *)

Load ==
  /\ queue # <<>> /\ Head(queue) \in {"rows0", "rows1", "in0", "in1"}
  /\ LET rows == [in0 |-> "rows0", in1 |-> "rows1"]
         c == Head(queue)
         \* tilize packs what has been uploaded
         empty == job.packDevice /\ c \in DOMAIN rows /\ rows[c] \notin loaded
     IN  loaded' = IF empty THEN loaded ELSE loaded \cup {c}
  /\ queue' = Tail(queue)
  /\ UNCHANGED <<hostVars, trace, out, results>>

Run ==
  /\ queue # <<>> /\ Head(queue) \in {"run", "replay"}
  /\ LET n == IF Head(queue) = "run" THEN 1 ELSE trace.ops
     IN  out' = [launches |-> out.launches + n, inputs |-> loaded \cap Inputs]
  /\ queue' = Tail(queue)
  /\ UNCHANGED <<hostVars, trace, loaded, results>>

ReadInput ==
  /\ queue # <<>> /\ Head(queue) \in {"readIn0", "readIn1"}
  /\ LET input == IF Head(queue) = "readIn0" THEN "in0" ELSE "in1"
     IN  effective' = effective \cup ({input} \cap loaded)
  /\ queue' = Tail(queue)
  /\ UNCHANGED <<hostVars, trace, loaded, out, unpacked, readback>>

Unpack ==
  /\ queue # <<>> /\ Head(queue) \in DOMAIN unpacked
  /\ unpacked' = [unpacked EXCEPT ![Head(queue)] =
                    IF Head(queue) = "untilize" /\ job.fp32
                    THEN unpacked["typecast"] ELSE out]
  /\ queue' = Tail(queue)
  /\ UNCHANGED <<hostVars, trace, loaded, out, effective, readback>>

Read ==
  /\ queue # <<>> /\ Head(queue) \in {"read", "toVector"}
  /\ readback' = IF Head(queue) = "read" THEN out ELSE unpacked["untilize"]
  /\ queue' = Tail(queue)
  /\ UNCHANGED <<hostVars, trace, loaded, out, unpacked, effective>>

Returned == pc = "returned" /\ queue = <<>> /\ UNCHANGED vars

Setup == EnqueueLoad \/ FinishLoad \/ WriteL1

Measure ==
  \/ WarmUp \/ FinishWarmup \/ BeginCapture \/ Record \/ EndCapture
  \/ StartTimer \/ Launch \/ FinishIteration \/ Replay \/ FinishBatch
  \/ StopTimer \/ Release

Validate == EnqueueRead \/ FinishRead \/ ReadL1 \/ Decode

CleanUp == HandlerEnd \/ HandlerFinish \/ HandlerRelease

HostNext == Setup \/ Measure \/ Validate \/ Throw \/ CleanUp

DeviceNext == Load \/ Run \/ ReadInput \/ Unpack \/ Read

Next == HostNext \/ DeviceNext \/ Returned

Spec == Init /\ [][Next]_vars
-------------------------------------------------------------------------------
(* Properties *)

(* The measured window holds exactly the launches its time is divided by:  *)
(* no warmup launch runs on into it and none of its own outlives it.       *)
MeasuredOpsExact ==
  /\ timer.begin >= 0 => timer.begin = Warmup
  /\ timer.end >= 0 => timer.end = Warmup + TimedOps

(* What the host validates is the output of the last launch of the test,   *)
(* and that launch saw both inputs and the zeros, wherever they are packed *)
(* and unpacked; if the device packs them, the golden result is computed   *)
(* from both inputs as it has packed them.                                 *)
ValidationSeesFinalOutput ==
  pc = "decode" =>
    /\ readback.launches = Warmup + TimedOps
    /\ readback.launches > 0 => readback.inputs = Inputs
    /\ job.dram /\ job.packDevice /\ ~job.zeros => effective = {"in0", "in1"}

\* The L1s are only accessed past the queue while no command is in it.
DirectAccessOnlyWhenIdle == pc \in {"writeL1", "readL1"} => queue = <<>>

(* When a test returns, its trace is neither being captured nor held,      *)
(* whichever call has thrown, unless the clean-up itself failed.           *)
TraceCleanedUp ==
  pc = "returned" /\ trace.state \in {"capturing", "ready"} =>
    failed \cap {"handlerEnd", "handlerRelease"} # {}

(* A trace is never released while a replay of it is still queued, unless  *)
(* the wait before it has thrown.                                          *)
ReleasedAfterItsReplays ==
  [][ (trace.state # "released" /\ trace'.state = "released") =>
        (queue = <<>> \/ "handlerFinish" \in failed) ]_vars

(* README.md reads the bandwidth of the read-back off the zone around the  *)
(* ReadShard call, "blocking ReadShard, so zone bounds the full D2H": when *)
(* that zone ends, the data has arrived.                                   *)
ReadZoneBoundsTransfer ==
  pc = "finishRead" /\ Reads[i + 1] = "read" => readback # None
===============================================================================
