----------------------------- MODULE HostPipeline -----------------------------
(***************************************************************************)
(* Tests 3 and 4, which launch no kernel: in every iteration the host      *)
(* packs new tensors into vectors of its own, enqueues their write to      *)
(* DRAM, waits, enqueues the read-back, waits, and adds up what was moved; *)
(* the first iteration is validated outside the measured time.  Writes and *)
(* reads do not block: the queue uses the vectors when it gets to them,    *)
(* and they are gone when the iteration ends.                              *)
(*                                                                         *)
(*   pair    test 3  two tensors, in0 and in1                              *)
(*   single  test 4  one tensor; the sizes of what comes back are checked  *)
(*                   and it is the whole round trip that is timed          *)
(*                                                                         *)
(* Faults: any call may throw, having done nothing, and a transfer may     *)
(* arrive wrong or short.  Amounts are in tensors, as all tensors of a     *)
(* test have one size or are only ever moved together.                     *)
(***************************************************************************)
EXTENDS Integers, Sequences

CONSTANTS
  Jobs,         \* the tests that may be asked for
  QueueDepth,   \* commands the queue holds before an enqueue blocks
  MaxFaults     \* bound: faults in one test

Job ==
  [ test : {"pair", "single"}, iters : Nat, check : BOOLEAN, zeros : BOOLEAN ]

ASSUME JobsAssumption ==
  Jobs \subseteq Job /\ QueueDepth \in Nat \ {0} /\ MaxFaults \in Nat

VARIABLES
  job,        \* the test; never changes
  pc, i, n,   \* the host: its next call, its iteration, its next tensor
  live,       \* the iteration whose vectors exist, or -1
  stats,      \* tensors credited as written, as read and to the window,
              \* and the iterations completed
  pass,       \* what the test returns
  queue,      \* commands enqueued and not yet executed
  device,     \* per tensor: the iteration whose data its buffer holds
  readback,   \* per tensor: what has arrived in the vector of this iteration
  moved,      \* the commands of each kind that were executed
  faults,     \* the number of faults so far
  threw       \* whether a call has thrown

hostVars == <<job, pc, i, n, live, stats, pass, threw>>
deviceVars == <<queue, device, readback, moved>>
vars == <<hostVars, deviceVars, faults>>
-------------------------------------------------------------------------------
Tensors == IF job.test = "pair" THEN <<"in0", "in1">> ELSE <<"tensor">>

Nothing == -1

Wrong == -2

Short == -3

Init ==
  /\ job \in Jobs
  /\ pc = "start" /\ i = 0 /\ n = 1 /\ live = Nothing
  /\ stats = [written |-> 0, read |-> 0, window |-> 0, completed |-> 0]
  /\ pass = TRUE /\ threw = FALSE /\ faults = 0
  /\ queue = <<>> /\ moved = [write |-> 0, read |-> 0]
  /\ device = [t \in {"in0", "in1", "tensor"} |-> Nothing]
  /\ readback = [t \in {"in0", "in1", "tensor"} |-> Nothing]
-------------------------------------------------------------------------------
(* The host *)

\* No iterations are an error; then the buffers are created.
Start ==
  /\ pc = "start"
  /\ IF job.iters = 0 THEN pc' = "returned" /\ pass' = FALSE
                      ELSE pc' = "prepare" /\ UNCHANGED pass
  /\ UNCHANGED <<job, i, n, live, stats, threw, deviceVars, faults>>

\* Generate and pack; the vectors for the read-back start out empty.
Prepare ==
  /\ pc = "prepare"
  /\ live' = i /\ n' = 1 /\ pc' = "write"
  /\ readback' = [t \in DOMAIN readback |-> Nothing]
  /\ UNCHANGED <<job, i, stats, pass, threw, queue, device, moved, faults>>

Put(kind, after) ==
  /\ Len(queue) < QueueDepth
  /\ queue' = Append(queue, [kind |-> kind, tensor |-> Tensors[n], iter |-> i])
  /\ IF n < Len(Tensors) THEN n' = n + 1 /\ UNCHANGED pc
                         ELSE n' = 1 /\ pc' = after
  /\ UNCHANGED <<job, i, live, stats, pass, threw, device, readback, moved,
                 faults>>

EnqueueWrite == pc = "write" /\ Put("write", "finishWrites")

Finished == queue = <<>>

\* Mutant: the writes are credited without waiting for them.
WritesNotFinished == TRUE

WritesFinished == Finished

FinishWrites ==
  /\ pc = "finishWrites" /\ WritesFinished
  /\ stats' = [stats EXCEPT !.written = @ + Len(Tensors)]
  /\ pc' = "read"
  /\ UNCHANGED <<job, i, n, live, pass, threw, deviceVars, faults>>

EnqueueRead == pc = "read" /\ Put("read", "finishReads")

\* Mutant: the reads are credited, and validated, without waiting for them.
ReadsNotFinished == TRUE

ReadsFinished == Finished

FinishReads ==
  /\ pc = "finishReads" /\ ReadsFinished
  /\ stats' = [stats EXCEPT !.read = @ + Len(Tensors)]
  /\ pc' = IF job.test = "single" THEN "checkSize" ELSE "complete"
  /\ UNCHANGED <<job, i, n, live, pass, threw, deviceVars, faults>>

\* Test 4 only; the vectors go with the early return.
CheckSize ==
  /\ pc = "checkSize"
  /\ IF readback["tensor"] = Short
     THEN /\ pc' = "returned" /\ pass' = FALSE /\ live' = Nothing
          /\ UNCHANGED stats
     ELSE /\ pc' = "complete" /\ UNCHANGED <<pass, live>>
          /\ stats' = [stats EXCEPT !.window = @ + 2]
  /\ UNCHANGED <<job, i, n, threw, deviceVars, faults>>

\* Random data is correlated with what was sent; of zeros only the largest
\* element is looked at, and a vector in which nothing arrived has none.
Accepted(t) ==
  readback[t] = i \/ (job.zeros /\ readback[t] = Nothing)

\* Mutant: only the first of the tensors is compared.
FirstRoundTripFails == ~Accepted(Tensors[1])

RoundTripFails == \E k \in DOMAIN Tensors : ~Accepted(Tensors[k])

\* The end of the iteration: the vectors go, and a failed validation leaves
\* the loop.
Complete ==
  /\ pc = "complete"
  /\ stats' = [stats EXCEPT !.completed = @ + 1]
  /\ live' = Nothing
  /\ IF i = 0 /\ job.check /\ RoundTripFails
     THEN pass' = FALSE /\ pc' = "log" /\ UNCHANGED i
     ELSE /\ UNCHANGED pass
          /\ i' = i + 1
          /\ pc' = IF i + 1 < job.iters THEN "prepare" ELSE "log"
  /\ UNCHANGED <<job, n, threw, deviceVars, faults>>

Log ==
  /\ pc = "log" /\ pc' = "returned"
  /\ UNCHANGED <<job, i, n, live, stats, pass, threw, deviceVars, faults>>

\* The one handler of the test is around all of it.
Throw ==
  /\ pc \in {"start", "prepare", "write", "finishWrites", "read",
             "finishReads", "complete"}
  /\ faults < MaxFaults
  /\ faults' = faults + 1 /\ threw' = TRUE
  /\ pass' = FALSE /\ live' = Nothing /\ pc' = "returned"
  /\ UNCHANGED <<job, i, n, stats, deviceVars>>
-------------------------------------------------------------------------------
(* The device executes the command at the head of the queue. *)

Transfer ==
  /\ queue # <<>>
  /\ LET c == Head(queue)
         \* what moves if nothing goes wrong: vectors may be gone
         data == IF c.kind = "read" THEN device[c.tensor]
                 ELSE IF c.iter = live THEN c.iter ELSE Wrong
     IN  \E arrives \in {data, Wrong, Short} :
           /\ arrives # data => faults < MaxFaults
           /\ arrives = Short => c.kind = "read" /\ job.test = "single"
           /\ faults' = IF arrives = data THEN faults ELSE faults + 1
           /\ IF c.kind = "write"
              THEN /\ device' = [device EXCEPT ![c.tensor] = arrives]
                   /\ UNCHANGED readback
              ELSE /\ UNCHANGED device
                   /\ readback' = IF c.iter # live THEN readback
                                  ELSE [readback EXCEPT ![c.tensor] = arrives]
           /\ moved' = [moved EXCEPT ![c.kind] = @ + 1]
  /\ queue' = Tail(queue)
  /\ UNCHANGED hostVars

Returned == pc = "returned" /\ queue = <<>> /\ UNCHANGED vars

HostNext ==
  \/ Start \/ Prepare \/ EnqueueWrite \/ FinishWrites \/ EnqueueRead
  \/ FinishReads \/ CheckSize \/ Complete \/ Log \/ Throw

Next == HostNext \/ Transfer \/ Returned

Spec == Init /\ [][Next]_vars
-------------------------------------------------------------------------------
(* Properties *)

(* A queued transfer uses vectors that still exist: those of the current   *)
(* iteration.  Only an exception leaves commands behind that do not.       *)
VectorsOutliveTransfers ==
  ~threw => \A k \in DOMAIN queue : queue[k].iter = live

(* The bandwidths that are logged divide by what has really been moved: no *)
(* transfer is credited before it was executed, and when they are logged   *)
(* every one has been credited, once for each completed iteration.         *)
CreditedBytesMoved ==
  /\ stats.written <= moved.write /\ stats.read <= moved.read
  /\ pc = "log" =>
       /\ stats.written = moved.write /\ stats.read = moved.read
       /\ stats.written = stats.completed * Len(Tensors)
       /\ stats.read = stats.written
       /\ job.test = "single" => stats.window = stats.written + stats.read

(* A checked test goes on to its second iteration, or passes, only if it   *)
(* has seen every tensor of the first come back as it was sent; zeros that *)
(* were never read would be taken for it.                                  *)
PassMeansFirstIntact ==
  [][ (job.check /\ i = 0 /\ i' = 1) =>
        \A k \in DOMAIN Tensors : readback[Tensors[k]] = 0 ]_vars

(* A test that was asked for at least one iteration fails only if a call   *)
(* threw or a transfer went wrong, however the iterations overlap with the *)
(* queue's work.                                                           *)
FailsOnlyOnFault == ~pass => faults > 0 \/ job.iters = 0
===============================================================================
