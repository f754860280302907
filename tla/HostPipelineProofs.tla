-------------------------- MODULE HostPipelineProofs --------------------------
(***************************************************************************)
(* Theorems about HostPipeline, for all jobs, queues and numbers of        *)
(* faults: vectors outlive the transfers that use them, what is credited   *)
(* was moved, and a test neither fails nor passes wrongly.                 *)
(*                                                                         *)
(* The argument: each half of an iteration sends one command per tensor    *)
(* and then waits, so as long as nothing has thrown the queue holds the    *)
(* last of the commands Sent in this half (QueueInv), the others have had  *)
(* their effect (DataInv), and the counters differ from one another by the *)
(* host's position only (CountInv).                                        *)
(***************************************************************************)
EXTENDS HostPipeline, TLAPS

Writing == {"write", "finishWrites"}

Reading == {"read", "finishReads"}

Held == {"checkSize", "complete"}

InIteration == Writing \cup Reading \cup Held

\* The commands this half of the iteration has sent, and those executed.
Sent == IF pc \in {"write", "read"} THEN n - 1
        ELSE IF pc \in {"finishWrites", "finishReads"} THEN Len(Tensors) ELSE 0

Executed == Sent - Len(queue)

Buffers == {"in0", "in1", "tensor"}

Contents == Nat \cup {Nothing, Wrong, Short}

HostTypes ==
  /\ job \in Jobs
  /\ pc \in InIteration \cup {"start", "prepare", "log", "returned"}
  /\ i \in Nat /\ n \in 1 .. Len(Tensors)
  /\ stats \in [written : Nat, read : Nat, window : Nat, completed : Nat]
  /\ pass \in BOOLEAN /\ threw \in BOOLEAN
  /\ queue \in Seq([kind : {"write", "read"}, tensor : Buffers, iter : Nat])
  /\ device \in [Buffers -> Contents] /\ readback \in [Buffers -> Contents]
  /\ moved \in [write : Nat, read : Nat]
  /\ faults \in Nat

QueueInv ==
  ~threw =>
    /\ Len(queue) <= Sent
    /\ \A k \in 1 .. Len(queue) :
         queue[k] = [ kind |-> IF pc \in Writing THEN "write" ELSE "read",
                      tensor |-> Tensors[Executed + k], iter |-> i ]
    /\ pc \in InIteration => live = i
    /\ pc \notin {"write", "read"} => n = 1
    /\ pc = "checkSize" => job.test = "single"

\* Something of this iteration, and without faults the right thing.
Arrived(x) == x # Nothing /\ (faults = 0 => x = i)

DataInv ==
  ~threw =>
    /\ pc \in Writing =>
         \A k \in 1 .. Executed : Arrived(device[Tensors[k]])
    /\ pc \in Reading \cup Held =>
         \A k \in 1 .. Len(Tensors) : Arrived(device[Tensors[k]])
    /\ pc \in Reading =>
         \A k \in 1 .. Executed : Arrived(readback[Tensors[k]])
    /\ pc \in Held =>
         \A k \in 1 .. Len(Tensors) : Arrived(readback[Tensors[k]])

Half(P) == IF pc \in P THEN Len(Tensors) ELSE 0

CountInv ==
  /\ stats.written <= moved.write /\ stats.read <= moved.read
  /\ ~threw /\ pc # "returned" =>
       /\ moved.write = stats.written + (IF pc \in Writing THEN Executed ELSE 0)
       /\ moved.read = stats.read + (IF pc \in Reading THEN Executed ELSE 0)
       /\ stats.written
            = stats.completed * Len(Tensors) + Half(Reading \cup Held)
       /\ stats.read = stats.completed * Len(Tensors) + Half(Held)
       /\ job.test = "single" =>
            stats.window = 2 * (stats.completed * Len(Tensors))
                             + (IF pc = "complete" THEN 2 ELSE 0)

FaultInv ==
  /\ threw => pc = "returned" /\ faults > 0
  /\ ~pass => faults > 0 \/ job.iters = 0

IInv == HostTypes /\ QueueInv /\ DataInv /\ CountInv /\ FaultInv
-------------------------------------------------------------------------------
(* Facts the steps share *)

LEMMA TensorFacts ==
  ASSUME job \in Jobs
  PROVE  /\ job.test \in {"pair", "single"} /\ job.iters \in Nat
         /\ Len(Tensors) \in {1, 2}
         /\ job.test = "single" => Len(Tensors) = 1 /\ Tensors[1] = "tensor"
         /\ \A k \in 1 .. Len(Tensors) : Tensors[k] \in Buffers
         /\ \A k, l \in 1 .. Len(Tensors) : k # l => Tensors[k] # Tensors[l]
<1>1. job.test \in {"pair", "single"} /\ job.iters \in Nat
  BY JobsAssumption DEF Job
<1>2. CASE job.test = "pair"
  <2>1. Tensors = <<"in0", "in1">>
    BY <1>2 DEF Tensors
  <2> QED BY <1>1, <1>2, <2>1 DEF Buffers
<1>3. CASE job.test = "single"
  <2>1. Tensors = <<"tensor">>
    BY <1>3 DEF Tensors
  <2> QED BY <1>1, <1>3, <2>1 DEF Buffers
<1> QED BY <1>1, <1>2, <1>3

LEMMA TensorFrame == UNCHANGED job => Tensors' = Tensors
  BY DEF Tensors

\* The products the counters need.
LEMMA RowOfTensors ==
  ASSUME NEW c \in Nat, NEW l \in {1, 2}
  PROVE  (c + 1) * l = c * l + l /\ c * l \in Nat /\ 0 * l = 0
  OBVIOUS

Command == [kind : {"write", "read"}, tensor : Buffers, iter : Nat]

LEMMA QueueFacts ==
  ASSUME NEW q \in Seq(Command)
  PROVE  /\ Len(q) \in Nat
         /\ q = <<>> <=> Len(q) = 0
         /\ \A c \in Command :
              /\ Append(q, c) \in Seq(Command)
              /\ Len(Append(q, c)) = Len(q) + 1
              /\ Append(q, c)[Len(q) + 1] = c
              /\ \A k \in 1 .. Len(q) : Append(q, c)[k] = q[k]
         /\ q # <<>> =>
              /\ Head(q) = q[1] /\ Head(q) \in Command
              /\ Tail(q) \in Seq(Command) /\ Len(Tail(q)) = Len(q) - 1
              /\ \A k \in 1 .. Len(q) - 1 : Tail(q)[k] = q[k + 1]
  OBVIOUS

LEMMA InitIInv == Init => IInv
<1> SUFFICES ASSUME Init PROVE IInv
  OBVIOUS
<1>1. Len(Tensors) \in {1, 2} /\ job \in Jobs
  BY TensorFacts DEF Init
<1>2. HostTypes
  <2>1. queue \in Seq([kind : {"write", "read"}, tensor : Buffers, iter : Nat])
    BY DEF Init
  <2>2. device \in [Buffers -> Contents] /\ readback \in [Buffers -> Contents]
    BY DEF Init, Buffers, Contents
  <2>3. n \in 1 .. Len(Tensors)
    BY <1>1 DEF Init
  <2> QED BY <1>1, <2>1, <2>2, <2>3 DEF Init, HostTypes
<1>3. QueueInv
  BY DEF Init, QueueInv, Sent, InIteration, Writing, Reading, Held
<1>4. DataInv /\ FaultInv
  BY DEF Init, DataInv, FaultInv, Writing, Reading, Held
<1>5. CountInv
  BY <1>1 DEF Init, CountInv, Writing, Reading, Held, Half
<1> QED BY <1>2, <1>3, <1>4, <1>5 DEF IInv

LEMMA StartStep == IInv /\ Start => IInv'
<1> SUFFICES ASSUME IInv, Start PROVE IInv'
  OBVIOUS
<1>1. Tensors' = Tensors /\ Len(Tensors) \in {1, 2}
  BY TensorFrame, TensorFacts DEF Start, IInv, HostTypes
<1>2. HostTypes'
  BY <1>1 DEF IInv, HostTypes, Start, deviceVars, InIteration
<1>3. QueueInv'
  BY <1>1 DEF IInv, HostTypes, QueueInv, Start, deviceVars, Sent, Executed, InIteration,
              Writing, Reading, Held
<1>4. DataInv' /\ FaultInv'
  BY DEF IInv, DataInv, FaultInv, Start, deviceVars, Writing, Reading, Held
<1>5. CountInv'
  BY <1>1 DEF IInv, CountInv, Start, deviceVars, Writing, Reading, Held, Half
<1> QED BY <1>2, <1>3, <1>4, <1>5 DEF IInv

LEMMA PrepareStep == IInv /\ Prepare => IInv'
<1> SUFFICES ASSUME IInv, Prepare PROVE IInv'
  OBVIOUS
<1>1. Tensors' = Tensors /\ Len(Tensors) \in {1, 2}
  BY TensorFrame, TensorFacts DEF Prepare, IInv, HostTypes
<1>2. HostTypes'
  BY <1>1 DEF IInv, HostTypes, Prepare, InIteration, Writing, Contents
<1>3. QueueInv' /\ (~threw => Len(queue) = 0)
  BY <1>1 DEF IInv, HostTypes, QueueInv, Prepare, Sent, Executed, InIteration,
              Writing, Reading, Held
<1>4. DataInv' /\ FaultInv'
  BY <1>1, <1>3
  DEF IInv, DataInv, FaultInv, Prepare, Writing, Reading, Held, Executed, Sent
<1>5. CountInv'
  BY <1>1, <1>3
  DEF IInv, HostTypes, CountInv, Prepare, Writing, Reading, Held, Half, Executed,
      Sent
<1> QED BY <1>2, <1>3, <1>4, <1>5 DEF IInv

\* One more command of this half is sent.
LEMMA PutStep ==
  ASSUME IInv, NEW kind \in {"write", "read"}, NEW after,
         \/ pc = "write" /\ kind = "write" /\ after = "finishWrites"
         \/ pc = "read" /\ kind = "read" /\ after = "finishReads",
         Put(kind, after), UNCHANGED <<job, i, live, stats, pass, threw, device,
                                       readback, moved, faults>>
  PROVE  IInv'
<1> DEFINE c == [kind |-> kind, tensor |-> Tensors[n], iter |-> i]
<1>1. /\ Tensors' = Tensors /\ Len(Tensors) \in {1, 2} /\ n \in 1 .. Len(Tensors)
      /\ Tensors[n] \in Buffers /\ i \in Nat
  BY TensorFrame, TensorFacts DEF IInv, HostTypes
<1>2. /\ c \in Command /\ queue \in Seq(Command) /\ queue' = Append(queue, c)
  BY <1>1 DEF Command, IInv, HostTypes, Put
<1>3. /\ queue' \in Seq(Command) /\ Len(queue) \in Nat
      /\ Len(queue') = Len(queue) + 1
      /\ queue'[Len(queue) + 1] = c
      /\ \A k \in 1 .. Len(queue) : queue'[k] = queue[k]
  BY <1>2, QueueFacts
<1>4. /\ Sent = n - 1 /\ Sent' = n /\ Executed' = Executed
      /\ Executed = n - 1 - Len(queue)
  BY <1>1, <1>3 DEF Put, Sent, Executed
<1>5. pc' \in {pc, after} /\ (pc' \in Writing <=> pc \in Writing)
        /\ (pc' \in Reading <=> pc \in Reading) /\ pc' \notin Held /\ pc \notin Held
        /\ pc' \in InIteration /\ pc \in InIteration
  BY DEF Put, Writing, Reading, Held, InIteration
<1>6. HostTypes'
  <2>1. n' \in 1 .. Len(Tensors)
    BY <1>1 DEF Put
  <2> QED BY <1>1, <1>3, <1>5, <2>1 DEF IInv, HostTypes, Command
<1>7. QueueInv'
  <2> SUFFICES ASSUME ~threw PROVE QueueInv'
    BY DEF QueueInv
  <2>1. /\ Len(queue) <= Sent /\ live = i
        /\ \A k \in 1 .. Len(queue) :
             queue[k] = [ kind |-> IF pc \in Writing THEN "write" ELSE "read",
                          tensor |-> Tensors[Executed + k], iter |-> i ]
    BY <1>5 DEF IInv, QueueInv
  <2>2. kind = IF pc \in Writing THEN "write" ELSE "read"
    BY DEF Writing
  <2>3. Executed + (Len(queue) + 1) = n
    BY <1>1, <1>3, <1>4
  <2> HIDE DEF c
  <2>4. ASSUME NEW k \in 1 .. Len(queue')
        PROVE  queue'[k] = [ kind |-> IF pc \in Writing THEN "write" ELSE "read",
                             tensor |-> Tensors[Executed + k], iter |-> i ]
    <3>1. CASE k = Len(queue) + 1
      BY <1>3, <2>2, <2>3, <3>1 DEF c
    <3>2. CASE k # Len(queue) + 1
      <4>1. k \in 1 .. Len(queue)
        BY <1>3, <3>2
      <4> QED BY <1>3, <2>1, <4>1
    <3> QED BY <3>1, <3>2
  <2>5. Len(queue') <= Sent'
    BY <1>1, <1>3, <1>4, <2>1
  <2>6. /\ pc' # "checkSize"
        /\ pc' \notin {"write", "read"} => n' = 1
    BY <1>5 DEF Held, Put
  <2> QED BY <1>1, <1>4, <1>5, <2>1, <2>4, <2>5, <2>6 DEF QueueInv
<1>8. DataInv'
  BY <1>1, <1>4, <1>5 DEF IInv, DataInv, Arrived
<1>9. CountInv' /\ FaultInv'
  <2>1. pc' # "returned" /\ pc # "returned" /\ pc' # "complete" /\ pc # "complete"
    BY <1>5 DEF InIteration, Held, Writing, Reading
  <2>2. Half(Reading \cup Held)' = Half(Reading \cup Held) /\ Half(Held)' = Half(Held)
    BY <1>1, <1>5 DEF Half
  <2> QED BY <1>1, <1>4, <1>5, <2>1, <2>2 DEF IInv, CountInv, FaultInv
<1> QED BY <1>6, <1>7, <1>8, <1>9 DEF IInv

LEMMA EnqueueWriteStep == IInv /\ EnqueueWrite => IInv'
  BY PutStep DEF EnqueueWrite, Put

LEMMA EnqueueReadStep == IInv /\ EnqueueRead => IInv'
  BY PutStep DEF EnqueueRead, Put

LEMMA FinishWritesStep == IInv /\ FinishWrites => IInv'
<1> SUFFICES ASSUME IInv, FinishWrites PROVE IInv'
  OBVIOUS
<1>1. /\ Tensors' = Tensors /\ Len(Tensors) \in {1, 2}
      /\ pc = "finishWrites" /\ pc' = "read" /\ queue = <<>> /\ ~threw
      /\ queue' = queue /\ Len(queue) = 0
      /\ stats' = [stats EXCEPT !.written = @ + Len(Tensors)]
      /\ UNCHANGED <<job, i, n, live, pass, threw, device, readback, moved, faults>>
  BY TensorFrame, TensorFacts
  DEF FinishWrites, WritesFinished, Finished, deviceVars, IInv, HostTypes,
      FaultInv
<1>2. n = 1 /\ Executed = Len(Tensors) /\ Executed' = 0 /\ Sent' = 0
  <2>1. n = 1
    BY <1>1 DEF IInv, QueueInv
  <2> QED BY <1>1, <2>1 DEF Sent, Executed
<1>3. HostTypes'
  BY <1>1 DEF IInv, HostTypes, InIteration, Reading
<1>4. QueueInv'
  BY <1>1, <1>2 DEF IInv, QueueInv, InIteration, Writing, Reading
<1>5. DataInv'
  BY <1>1, <1>2 DEF IInv, DataInv, Arrived, Writing, Reading, Held
<1>6. CountInv'
  BY <1>1, <1>2, RowOfTensors
  DEF IInv, HostTypes, CountInv, Half, Writing, Reading, Held
<1>7. FaultInv'
  BY <1>1, <1>2 DEF IInv, FaultInv
<1> QED BY <1>3, <1>4, <1>5, <1>6, <1>7 DEF IInv

LEMMA FinishReadsStep == IInv /\ FinishReads => IInv'
<1> SUFFICES ASSUME IInv, FinishReads PROVE IInv'
  OBVIOUS
<1>1. /\ Tensors' = Tensors /\ Len(Tensors) \in {1, 2}
      /\ pc = "finishReads" /\ queue = <<>> /\ ~threw
      /\ pc' = IF job.test = "single" THEN "checkSize" ELSE "complete"
      /\ queue' = queue /\ Len(queue) = 0
      /\ stats' = [stats EXCEPT !.read = @ + Len(Tensors)]
      /\ UNCHANGED <<job, i, n, live, pass, threw, device, readback, moved, faults>>
  BY TensorFrame, TensorFacts
  DEF FinishReads, ReadsFinished, Finished, deviceVars, IInv, HostTypes,
      FaultInv
<1>2. n = 1 /\ Executed = Len(Tensors) /\ Executed' = 0 /\ Sent' = 0
  <2>1. n = 1
    BY <1>1 DEF IInv, QueueInv
  <2> QED BY <1>1, <2>1 DEF Sent, Executed
<1>3. HostTypes'
  BY <1>1 DEF IInv, HostTypes, InIteration, Held
<1>4. QueueInv'
  BY <1>1, <1>2 DEF IInv, QueueInv, InIteration, Reading, Held
<1>5. DataInv'
  BY <1>1, <1>2 DEF IInv, DataInv, Arrived, Writing, Reading, Held
<1>6. CountInv'
  <2>1. /\ pc' \in {"checkSize", "complete"}
        /\ job.test = "single" => pc' # "complete"
    BY <1>1
  <2> QED BY <1>1, <1>2, <2>1, RowOfTensors
      DEF IInv, HostTypes, CountInv, Half, Writing, Reading, Held
<1>7. FaultInv'
  BY <1>1 DEF IInv, FaultInv
<1> QED BY <1>3, <1>4, <1>5, <1>6, <1>7 DEF IInv

LEMMA CheckSizeStep == IInv /\ CheckSize => IInv'
<1> SUFFICES ASSUME IInv, CheckSize PROVE IInv'
  OBVIOUS
<1>1. /\ pc = "checkSize" /\ ~threw /\ job.test = "single"
      /\ UNCHANGED <<job, i, n, threw, queue, device, readback, moved, faults>>
  BY DEF CheckSize, deviceVars, IInv, FaultInv, QueueInv
<1>2. /\ Tensors' = Tensors /\ Len(Tensors) = 1 /\ Tensors[1] = "tensor"
      /\ i \in Nat /\ stats.completed \in Nat
  BY <1>1, TensorFrame, TensorFacts DEF IInv, HostTypes
<1>3. Sent = 0 /\ Sent' = 0 /\ Len(queue) = 0 /\ Executed = 0 /\ Executed' = 0
        /\ n = 1 /\ live = i
  <2>1. Sent = 0 /\ Sent' = 0
    BY <1>1 DEF Sent, CheckSize
  <2>2. Len(queue) \in Nat /\ Len(queue) <= Sent /\ n = 1 /\ live = i
    BY <1>1 DEF IInv, HostTypes, QueueInv, InIteration, Held
  <2> QED BY <1>1, <2>1, <2>2 DEF Executed
<1>4. CASE readback["tensor"] = Short
  <2>1. /\ pc' = "returned" /\ pass' = FALSE /\ stats' = stats
    BY <1>4 DEF CheckSize
  <2>2. faults > 0
    <3>1. Arrived(readback[Tensors[1]])
      BY <1>1, <1>2 DEF IInv, DataInv, Held
    <3> QED BY <1>2, <1>4, <3>1 DEF Arrived, Short, IInv, HostTypes
  <2>3. HostTypes'
    BY <1>1, <1>2, <2>1 DEF IInv, HostTypes
  <2>4. QueueInv' /\ DataInv' /\ CountInv' /\ FaultInv'
    BY <1>1, <1>2, <1>3, <2>1, <2>2
    DEF IInv, QueueInv, DataInv, CountInv, FaultInv, InIteration, Writing,
        Reading, Held
  <2> QED BY <2>3, <2>4 DEF IInv
<1>5. CASE readback["tensor"] # Short
  <2>1. /\ pc' = "complete" /\ pass' = pass /\ live' = live
        /\ stats' = [stats EXCEPT !.window = @ + 2]
    BY <1>5 DEF CheckSize
  <2>2. HostTypes'
    <3>1. stats' \in [ written : Nat, read : Nat, window : Nat,
                       completed : Nat ]
      <4>1. stats \in [ written : Nat, read : Nat, window : Nat,
                        completed : Nat ]
        BY DEF IInv, HostTypes
      <4> QED BY <2>1, <4>1
    <3>2. pc' \in InIteration
      BY <2>1 DEF InIteration, Held
    <3> QED BY <1>1, <1>2, <2>1, <3>1, <3>2 DEF IInv, HostTypes
  <2>3. QueueInv' /\ FaultInv'
    BY <1>1, <1>2, <1>3, <2>1
    DEF IInv, QueueInv, FaultInv, InIteration, Held
  <2>4. DataInv'
    BY <1>1, <1>2, <2>1 DEF IInv, DataInv, Arrived, Writing, Reading, Held
  <2>5. CountInv'
    BY <1>1, <1>2, <1>3, <2>1
    DEF IInv, HostTypes, CountInv, Half, Writing, Reading, Held
  <2> QED BY <2>2, <2>3, <2>4, <2>5 DEF IInv
<1> QED BY <1>4, <1>5

LEMMA CompleteStep == IInv /\ Complete => IInv'
<1> SUFFICES ASSUME IInv, Complete PROVE IInv'
  OBVIOUS
<1>1. /\ pc = "complete" /\ ~threw
      /\ stats' = [stats EXCEPT !.completed = @ + 1]
      /\ UNCHANGED <<job, n, threw, queue, device, readback, moved, faults>>
  BY DEF Complete, deviceVars, IInv, FaultInv
<1>2. /\ Tensors' = Tensors /\ Len(Tensors) \in {1, 2}
      /\ i \in Nat /\ stats.completed \in Nat
  BY <1>1, TensorFrame, TensorFacts DEF IInv, HostTypes
<1>3. pc' \in {"prepare", "log"} /\ i' \in {i, i + 1} /\ pass' \in {pass, FALSE}
  BY DEF Complete
<1>4. Sent = 0 /\ Sent' = 0 /\ Len(queue) = 0 /\ Executed = 0 /\ Executed' = 0
        /\ n = 1
  <2>1. Sent = 0 /\ Sent' = 0
    BY <1>1, <1>3 DEF Sent
  <2>2. Len(queue) \in Nat /\ Len(queue) <= Sent /\ n = 1
    BY <1>1 DEF IInv, HostTypes, QueueInv
  <2> QED BY <1>1, <2>1, <2>2 DEF Executed
<1>5. ~pass' => ~pass \/ faults > 0
  <2> SUFFICES ASSUME RoundTripFails, faults = 0 PROVE FALSE
    BY DEF Complete, IInv, HostTypes
  <2>1. PICK k \in DOMAIN Tensors : ~Accepted(Tensors[k])
    BY DEF RoundTripFails
  <2>2. k \in 1 .. Len(Tensors)
    BY DEF Tensors
  <2>3. Arrived(readback[Tensors[k]])
    BY <1>1, <2>2 DEF IInv, DataInv, Held
  <2> QED BY <2>1, <2>3 DEF Arrived, Accepted
<1>6. HostTypes'
  <2>1. stats' \in [written : Nat, read : Nat, window : Nat, completed : Nat]
    <3>1. stats \in [written : Nat, read : Nat, window : Nat, completed : Nat]
      BY DEF IInv, HostTypes
    <3> QED BY <1>1, <3>1
  <2>2. i' \in Nat /\ pass' \in BOOLEAN
    <3>1. pass \in BOOLEAN
      BY DEF IInv, HostTypes
    <3>2. pass' \in BOOLEAN
      BY <1>3, <3>1, Zenon
    <3> QED BY <1>2, <1>3, <3>2
  <2> QED BY <1>1, <1>2, <1>3, <2>1, <2>2 DEF IInv, HostTypes
<1>7. QueueInv' /\ DataInv' /\ FaultInv'
  BY <1>1, <1>2, <1>3, <1>4, <1>5
  DEF IInv, QueueInv, DataInv, FaultInv, InIteration, Writing, Reading, Held
<1>8. CountInv'
  <2>1. /\ stats'.completed * Len(Tensors)
             = stats.completed * Len(Tensors) + Len(Tensors)
        /\ stats.completed * Len(Tensors) \in Nat
    BY <1>1, <1>2, RowOfTensors DEF IInv, HostTypes
  <2>2. job.test = "single" => Len(Tensors) = 1
    BY TensorFacts DEF IInv, HostTypes
  <2>3. /\ moved.write = stats.written /\ moved.read = stats.read
        /\ stats.written = stats.completed * Len(Tensors) + Len(Tensors)
        /\ stats.read = stats.completed * Len(Tensors) + Len(Tensors)
        /\ job.test = "single" =>
             stats.window = 2 * (stats.completed * Len(Tensors)) + 2
    <3>1. /\ pc # "returned" /\ pc \notin Writing /\ pc \notin Reading
          /\ pc \in Reading \cup Held /\ pc \in Held
      BY <1>1 DEF Writing, Reading, Held
    <3>2. stats \in [written : Nat, read : Nat, window : Nat, completed : Nat]
            /\ moved \in [write : Nat, read : Nat]
      BY DEF IInv, HostTypes
    <3> QED BY <1>1, <3>1, <3>2 DEF IInv, CountInv, Half
  <2>4. /\ stats'.written = stats.written /\ stats'.read = stats.read
        /\ stats'.window = stats.window /\ stats.window \in Nat
        /\ stats.written \in Nat /\ stats.read \in Nat
        /\ moved.write \in Nat /\ moved.read \in Nat /\ moved' = moved
    BY <1>1 DEF IInv, HostTypes
  <2>5. Half(Reading \cup Held)' = 0 /\ Half(Held)' = 0
    BY <1>3 DEF Half, Writing, Reading, Held
  <2>6. pc' \notin Writing /\ pc' \notin Reading /\ pc' # "complete"
    BY <1>3 DEF Writing, Reading
  <2>8. stats'.completed * Len(Tensors) \in Nat
    BY <1>2, <2>1
  <2>7. /\ stats.written = stats'.completed * Len(Tensors)
        /\ stats.read = stats'.completed * Len(Tensors)
        /\ job.test = "single" =>
             stats.window = 2 * (stats'.completed * Len(Tensors))
    <3>1. ASSUME NEW a \in Nat, NEW b \in Nat, b = a + 1
          PROVE  2 * a + 2 = 2 * b
      BY <3>1
    <3>2. ASSUME job.test = "single"
          PROVE  stats.window = 2 * (stats'.completed * Len(Tensors))
      BY <2>1, <2>2, <2>3, <2>8, <3>1, <3>2
    <3> QED BY <2>1, <2>3, <3>2
  <2> HIDE DEF Half
  <2> QED BY <1>1, <1>2, <2>3, <2>4, <2>5, <2>6, <2>7, <2>8 DEF CountInv
<1> QED BY <1>6, <1>7, <1>8 DEF IInv

LEMMA LogStep == IInv /\ Log => IInv'
<1> SUFFICES ASSUME IInv, Log PROVE IInv'
  OBVIOUS
<1>1. /\ pc = "log" /\ pc' = "returned"
      /\ UNCHANGED <<job, i, n, live, stats, pass, threw, queue, device,
                     readback, moved, faults>>
  BY DEF Log, deviceVars
<1>2. Tensors' = Tensors /\ Sent' = Sent /\ Executed' = Executed
  BY <1>1, TensorFrame DEF Sent, Executed
<1>3. HostTypes'
  BY <1>1, <1>2 DEF IInv, HostTypes
<1>4. QueueInv' /\ DataInv' /\ FaultInv'
  BY <1>1, <1>2
  DEF IInv, QueueInv, DataInv, FaultInv, InIteration, Writing, Reading, Held
<1>5. CountInv'
  BY <1>1, <1>2 DEF IInv, CountInv
<1> QED BY <1>3, <1>4, <1>5 DEF IInv

LEMMA ThrowStep == IInv /\ Throw => IInv'
<1> SUFFICES ASSUME IInv, Throw PROVE IInv'
  OBVIOUS
<1>1. /\ pc' = "returned" /\ threw' = TRUE /\ pass' = FALSE
      /\ faults' = faults + 1
      /\ UNCHANGED <<job, i, n, stats, queue, device, readback, moved>>
  BY DEF Throw, deviceVars
<1>2. Tensors' = Tensors
  BY <1>1, TensorFrame
<1>3. HostTypes'
  <2>1. faults' \in Nat
    BY <1>1 DEF IInv, HostTypes
  <2>2. pass' \in BOOLEAN /\ threw' \in BOOLEAN
    BY <1>1, Zenon
  <2> QED BY <1>1, <1>2, <2>1, <2>2 DEF IInv, HostTypes
<1>4. QueueInv' /\ DataInv'
  BY <1>1 DEF QueueInv, DataInv
<1>5. CountInv' /\ FaultInv'
  BY <1>1 DEF IInv, HostTypes, CountInv, FaultInv
<1> QED BY <1>3, <1>4, <1>5 DEF IInv

\* The device executes the command at the head of the queue, which is the
\* next of those this half has sent.
LEMMA TransferStep == IInv /\ Transfer => IInv'
<1> SUFFICES ASSUME IInv, Transfer PROVE IInv'
  OBVIOUS
<1> DEFINE c == Head(queue)
           data == IF c.kind = "read" THEN device[c.tensor]
                   ELSE IF c.iter = live THEN c.iter ELSE Wrong
<1>1. PICK arrives \in {data, Wrong, Short} :
        /\ faults' = IF arrives = data THEN faults ELSE faults + 1
        /\ IF c.kind = "write"
           THEN /\ device' = [device EXCEPT ![c.tensor] = arrives]
                /\ UNCHANGED readback
           ELSE /\ UNCHANGED device
                /\ readback' = IF c.iter # live THEN readback
                               ELSE [readback EXCEPT ![c.tensor] = arrives]
        /\ moved' = [moved EXCEPT ![c.kind] = @ + 1]
  BY DEF Transfer
<1>2. /\ queue # <<>> /\ queue' = Tail(queue)
      /\ UNCHANGED <<job, pc, i, n, live, stats, pass, threw>>
  BY DEF Transfer, hostVars
<1>3. /\ queue \in Seq(Command) /\ queue' \in Seq(Command)
      /\ Len(queue) \in Nat \ {0} /\ Len(queue') = Len(queue) - 1
      /\ c = queue[1] /\ c \in Command
      /\ \A k \in 1 .. Len(queue) - 1 : queue'[k] = queue[k + 1]
  <2>1. queue \in Seq(Command)
    BY DEF IInv, HostTypes, Command
  <2> QED BY <1>2, <2>1, QueueFacts
<1>4. /\ c.kind \in {"write", "read"} /\ c.tensor \in Buffers /\ c.iter \in Nat
  BY <1>3 DEF Command
<1>5. /\ Tensors' = Tensors /\ Len(Tensors) \in {1, 2}
      /\ \A k, l \in 1 .. Len(Tensors) : k # l => Tensors[k] # Tensors[l]
      /\ \A k \in 1 .. Len(Tensors) : Tensors[k] \in Buffers
  BY <1>2, TensorFrame, TensorFacts DEF IInv, HostTypes
<1>6. data \in Contents /\ arrives \in Contents
  BY <1>1, <1>4 DEF IInv, HostTypes, Contents
<1>7. faults \in Nat /\ faults' \in Nat /\ faults <= faults'
        /\ (arrives # data => faults' > 0)
  <2>1. faults \in Nat
    BY DEF IInv, HostTypes
  <2> QED BY <1>1, <2>1
<1> HIDE DEF c, data
<1>8. device' \in [Buffers -> Contents] /\ readback' \in [Buffers -> Contents]
  <2>1. device \in [Buffers -> Contents] /\ readback \in [Buffers -> Contents]
    BY DEF IInv, HostTypes
  <2> QED BY <1>1, <1>4, <1>6, <2>1
<1>9. /\ moved \in [write : Nat, read : Nat] /\ moved' \in [write : Nat, read : Nat]
      /\ moved'.write = moved.write + (IF c.kind = "write" THEN 1 ELSE 0)
      /\ moved'.read = moved.read + (IF c.kind = "read" THEN 1 ELSE 0)
  <2>1. moved \in [write : Nat, read : Nat]
    BY DEF IInv, HostTypes
  <2> QED BY <1>1, <1>4, <2>1
<1>10. HostTypes'
  BY <1>2, <1>3, <1>5, <1>7, <1>8, <1>9 DEF IInv, HostTypes, Command
<1>11. FaultInv'
  BY <1>2, <1>7 DEF IInv, FaultInv
<1>12. CASE threw
  <2>1. CountInv'
    <3>1. stats \in [written : Nat, read : Nat, window : Nat, completed : Nat]
      BY DEF IInv, HostTypes
    <3> QED BY <1>2, <1>9, <1>12, <3>1 DEF IInv, CountInv
  <2> QED BY <1>2, <1>10, <1>11, <1>12, <2>1 DEF IInv, QueueInv, DataInv
<1>13. CASE ~threw
  <2>1. /\ Sent' = Sent /\ Sent \in 1 .. Len(Tensors)
        /\ pc \in Writing \cup Reading /\ Len(queue) <= Sent
    <3>1. Sent' = Sent
      BY <1>2, <1>5 DEF Sent
    <3>2. Len(queue) <= Sent /\ n \in 1 .. Len(Tensors)
      BY <1>13 DEF IInv, QueueInv, HostTypes
    <3> QED BY <1>3, <1>5, <3>1, <3>2 DEF Sent, Writing, Reading
  <2>2. Executed \in 0 .. Len(Tensors) - 1 /\ Executed' = Executed + 1
          /\ Executed + Len(queue) = Sent
    BY <1>3, <1>5, <2>1 DEF Executed
  <2>3. /\ c = [ kind |-> IF pc \in Writing THEN "write" ELSE "read",
                 tensor |-> Tensors[Executed + 1], iter |-> i ]
        /\ live = i /\ i \in Nat
    BY <1>3, <1>13, <2>1, <2>2
    DEF IInv, QueueInv, HostTypes, InIteration
  <2>4. pc \in Writing => pc \notin Reading
    BY DEF Writing, Reading
  <2>5. QueueInv'
    <3>1. ASSUME NEW k \in 1 .. Len(queue')
          PROVE  queue'[k] = [ kind |-> IF pc \in Writing THEN "write" ELSE "read",
                               tensor |-> Tensors[Executed' + k], iter |-> i ]
      <4>1. k + 1 \in 1 .. Len(queue) /\ k \in 1 .. Len(queue) - 1
              /\ Executed' + k = Executed + (k + 1)
        BY <1>3, <2>2, <3>1
      <4> QED BY <1>3, <1>13, <4>1 DEF IInv, QueueInv
    <3>2. Len(queue') <= Sent'
      BY <1>3, <2>1, <1>5
    <3> QED BY <1>2, <1>5, <1>13, <2>3, <3>1, <3>2 DEF IInv, QueueInv
  <2>6. DataInv'
    <3>1. CASE pc \in Writing
      <4>1. data = i /\ Arrived(arrives)'
        <5>1. data = i
          BY <2>3, <3>1 DEF data
        <5> QED BY <1>1, <1>2, <1>7, <2>3, <5>1
            DEF Arrived, Nothing, Wrong, Short
      <4>2. device' = [device EXCEPT ![Tensors[Executed + 1]] = arrives]
              /\ device \in [Buffers -> Contents]
        BY <1>1, <2>3, <3>1 DEF IInv, HostTypes
      <4>3. ASSUME NEW k \in 1 .. Executed'
            PROVE  Arrived(device[Tensors[k]])'
        <5>1. CASE k = Executed + 1
          BY <1>5, <2>2, <4>1, <4>2, <5>1
        <5>2. CASE k # Executed + 1
          <6>1. k \in 1 .. Executed /\ k \in 1 .. Len(Tensors)
                  /\ Executed + 1 \in 1 .. Len(Tensors)
            BY <1>5, <2>2, <4>3, <5>2
          <6>2. device'[Tensors[k]] = device[Tensors[k]]
            BY <1>5, <4>2, <5>2, <6>1
          <6>3. Arrived(device[Tensors[k]])
            BY <1>13, <3>1, <6>1 DEF IInv, DataInv
          <6> QED BY <1>2, <1>5, <1>7, <6>2, <6>3 DEF Arrived
        <5> QED BY <5>1, <5>2
      <4>4. pc' \in Writing /\ pc' \notin Reading /\ pc' \notin Held
        BY <1>2, <3>1 DEF Writing, Reading, Held
      <4> QED BY <4>3, <4>4 DEF DataInv
    <3>2. CASE pc \in Reading
      <4>1. /\ data = device[Tensors[Executed + 1]] /\ device' = device
            /\ readback' = [readback EXCEPT ![Tensors[Executed + 1]] = arrives]
            /\ readback \in [Buffers -> Contents]
        BY <1>1, <2>3, <2>4, <3>2 DEF IInv, HostTypes, data
      <4>2. ASSUME NEW k \in 1 .. Len(Tensors)
            PROVE  Arrived(device[Tensors[k]]) /\ Arrived(device[Tensors[k]])'
        <5>1. Arrived(device[Tensors[k]])
          BY <1>13, <3>2 DEF IInv, DataInv
        <5> QED BY <1>2, <1>5, <1>7, <4>1, <5>1 DEF Arrived
      <4>3. Arrived(arrives)'
        <5>1. Executed + 1 \in 1 .. Len(Tensors)
          BY <1>5, <2>2
        <5> QED BY <1>1, <1>2, <1>7, <4>1, <4>2, <5>1
            DEF Arrived, Nothing, Wrong, Short
      <4>4. ASSUME NEW k \in 1 .. Executed'
            PROVE  Arrived(readback[Tensors[k]])'
        <5>1. CASE k = Executed + 1
          BY <1>5, <2>2, <4>1, <4>3, <5>1
        <5>2. CASE k # Executed + 1
          <6>1. k \in 1 .. Executed /\ k \in 1 .. Len(Tensors)
                  /\ Executed + 1 \in 1 .. Len(Tensors)
            BY <1>5, <2>2, <4>4, <5>2
          <6>2. readback'[Tensors[k]] = readback[Tensors[k]]
            BY <1>5, <4>1, <5>2, <6>1
          <6>3. Arrived(readback[Tensors[k]])
            BY <1>13, <3>2, <6>1 DEF IInv, DataInv
          <6> QED BY <1>2, <1>5, <1>7, <6>2, <6>3 DEF Arrived
        <5> QED BY <5>1, <5>2
      <4>5. pc' \notin Writing /\ pc' \in Reading /\ pc' \notin Held
        BY <1>2, <3>2 DEF Writing, Reading, Held
      <4> QED BY <1>5, <4>2, <4>4, <4>5 DEF DataInv
    <3> QED BY <2>1, <3>1, <3>2
  <2>7. CountInv'
    <3>1. stats \in [written : Nat, read : Nat, window : Nat, completed : Nat]
      BY DEF IInv, HostTypes
    <3>2. /\ moved'.write
                = moved.write + (IF pc \in Writing THEN 1 ELSE 0)
          /\ moved'.read = moved.read + (IF pc \in Reading THEN 1 ELSE 0)
      BY <1>9, <2>1, <2>3, <2>4
    <3>3. Half(Reading \cup Held)' = Half(Reading \cup Held)
            /\ Half(Held)' = Half(Held)
      BY <1>2, <1>5 DEF Half
    <3>4. pc # "returned"
      BY <2>1 DEF Writing, Reading
    <3>5. /\ moved.write = stats.written + (IF pc \in Writing THEN Executed ELSE 0)
          /\ moved.read = stats.read + (IF pc \in Reading THEN Executed ELSE 0)
      BY <1>13, <3>4 DEF IInv, CountInv
    <3>6. /\ moved'.write
                = stats.written + (IF pc \in Writing THEN Executed' ELSE 0)
          /\ moved'.read = stats.read + (IF pc \in Reading THEN Executed' ELSE 0)
      BY <2>2, <3>1, <3>2, <3>5
    <3>7. stats.written <= moved'.write /\ stats.read <= moved'.read
      BY <2>2, <3>1, <3>6
    <3> HIDE DEF Half
    <3> QED BY <1>2, <1>5, <1>13, <3>3, <3>4, <3>6, <3>7 DEF IInv, CountInv
  <2> QED BY <1>10, <1>11, <2>5, <2>6, <2>7 DEF IInv
<1> QED BY <1>12, <1>13

LEMMA StutterStep == IInv /\ UNCHANGED vars => IInv'
<1> SUFFICES ASSUME IInv, UNCHANGED vars PROVE IInv'
  OBVIOUS
<1>1. /\ UNCHANGED <<job, pc, i, n, live, stats, pass, threw, queue, device,
                     readback, moved, faults>>
      /\ Tensors' = Tensors
  BY TensorFrame DEF vars, hostVars, deviceVars
<1>2. Sent' = Sent /\ Executed' = Executed
  BY <1>1 DEF Sent, Executed
<1>3. HostTypes' /\ FaultInv'
  BY <1>1 DEF IInv, HostTypes, FaultInv
<1>4. QueueInv'
  BY <1>1, <1>2 DEF IInv, QueueInv
<1>5. DataInv'
  BY <1>1, <1>2 DEF IInv, DataInv, Arrived
<1>6. CountInv'
  BY <1>1, <1>2 DEF IInv, CountInv, Half
<1> QED BY <1>3, <1>4, <1>5, <1>6 DEF IInv
-------------------------------------------------------------------------------
(* The theorems *)

(* The inductive invariant holds: as long as nothing has thrown, the queue *)
(* holds the last of the commands this half of the iteration has sent.     *)
THEOREM HostInvariant == Spec => []IInv
<1>1. IInv /\ [Next]_vars => IInv'
  <2> SUFFICES ASSUME IInv, [Next]_vars PROVE IInv'
    OBVIOUS
  <2> QED BY StartStep, PrepareStep, EnqueueWriteStep, FinishWritesStep,
             EnqueueReadStep, FinishReadsStep, CheckSizeStep, CompleteStep,
             LogStep, ThrowStep, TransferStep, StutterStep
      DEF Next, HostNext, Returned
<1> QED BY InitIInv, <1>1, PTL DEF Spec

(* No transfer of tests 3 and 4 is still queued when the vectors it uses   *)
(* go at the end of an iteration.                                          *)
THEOREM VectorsOutlive == Spec => []VectorsOutliveTransfers
<1>1. IInv => VectorsOutliveTransfers
  <2> SUFFICES ASSUME IInv, ~threw, NEW k \in DOMAIN queue
               PROVE  queue[k].iter = live
    BY DEF VectorsOutliveTransfers
  <2>1. queue \in Seq(Command)
    BY DEF IInv, HostTypes, Command
  <2>2. k \in 1 .. Len(queue) /\ Len(queue) \in Nat
    BY <2>1
  <2>3. Sent > 0 /\ queue[k].iter = i
    <3>1. Len(queue) <= Sent /\ queue[k].iter = i
      <4>1. queue[k] = [ kind |-> IF pc \in Writing THEN "write" ELSE "read",
                         tensor |-> Tensors[Executed + k], iter |-> i ]
        BY <2>2 DEF IInv, QueueInv
      <4>2. queue[k].iter = i
        BY <4>1
      <4> QED BY <4>2 DEF IInv, QueueInv
    <3>2. Sent \in Int
      BY TensorFacts DEF IInv, HostTypes, Sent
    <3> QED BY <2>2, <3>1, <3>2
  <2>4. pc \in InIteration
    BY <2>3 DEF Sent, InIteration, Writing, Reading
  <2> QED BY <2>3, <2>4 DEF IInv, QueueInv
<1> QED BY <1>1, HostInvariant, PTL

(* Every transfer is credited after it was executed, and the bandwidths    *)
(* that are logged account for all of them.                                *)
THEOREM CreditsExact == Spec => []CreditedBytesMoved
<1>1. IInv => CreditedBytesMoved
  <2> SUFFICES ASSUME IInv PROVE CreditedBytesMoved
    OBVIOUS
  <2>1. CASE pc # "log"
    BY <2>1 DEF IInv, CountInv, CreditedBytesMoved
  <2>2. CASE pc = "log"
    <3>1. pc # "returned" /\ ~threw
      BY <2>2 DEF IInv, FaultInv
    <3>2. /\ pc \notin Writing /\ pc \notin Reading /\ pc \notin Held
      BY <2>2 DEF Writing, Reading, Held
    <3>3. /\ stats \in [written : Nat, read : Nat, window : Nat, completed : Nat]
          /\ moved \in [write : Nat, read : Nat]
          /\ Len(Tensors) \in {1, 2}
      BY TensorFacts DEF IInv, HostTypes
    <3>4. stats.completed * Len(Tensors) \in Nat
      BY <3>3
    <3> QED BY <2>2, <3>1, <3>2, <3>3, <3>4
        DEF IInv, CountInv, Half, CreditedBytesMoved
  <2> QED BY <2>1, <2>2
<1> QED BY <1>1, HostInvariant, PTL

(* A test of at least one iteration fails only if a call threw or a        *)
(* transfer went wrong.                                                    *)
THEOREM FailureExplained == Spec => []FailsOnlyOnFault
<1>1. IInv => FailsOnlyOnFault
  BY DEF IInv, FaultInv, FailsOnlyOnFault
<1> QED BY <1>1, HostInvariant, PTL

(* A checked test leaves its first iteration only if every tensor came     *)
(* back as it was sent.                                                    *)
THEOREM PassExplained == Spec => PassMeansFirstIntact
<1> DEFINE A == (job.check /\ i = 0 /\ i' = 1)
                  => \A k \in DOMAIN Tensors : readback[Tensors[k]] = 0
<1>1. IInv /\ [Next]_vars => A
  <2> SUFFICES ASSUME IInv, [Next]_vars, job.check, i = 0, i' = 1,
                      NEW k \in DOMAIN Tensors
               PROVE  readback[Tensors[k]] = 0
    OBVIOUS
  <2>1. Complete
    BY DEF Next, HostNext, Start, Prepare, EnqueueWrite, EnqueueRead, Put,
           FinishWrites, FinishReads, CheckSize, Log, Throw, Transfer,
           Returned, hostVars, vars
  <2>2. pc = "complete" /\ ~RoundTripFails /\ ~threw
    BY <2>1 DEF Complete, IInv, FaultInv
  <2>3. Accepted(Tensors[k])
    BY <2>2 DEF RoundTripFails
  <2>4. Arrived(readback[Tensors[k]])
    <3>1. k \in 1 .. Len(Tensors)
      BY DEF Tensors
    <3> QED BY <2>2, <3>1 DEF IInv, DataInv, Held
  <2> QED BY <2>3, <2>4 DEF Accepted, Arrived
<1>2. IInv /\ [Next]_vars => [A]_vars
  BY <1>1
<1> QED BY <1>2, HostInvariant, PTL DEF Spec, PassMeansFirstIntact
===============================================================================
