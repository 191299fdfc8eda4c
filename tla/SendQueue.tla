----------------------------- MODULE SendQueue -----------------------------
(***************************************************************************)
(* The sending half of CNetwork_Asio.  Any thread may call send_data; a    *)
(* packet waits in send_queue_ until ProcessSend moves it to               *)
(* discard_queue_ and starts an asynchronous write from it; the completion *)
(* handler frees the oldest buffer of discard_queue_ and calls ProcessSend *)
(* again.  Two mutexes protect one queue each, so ProcessSend decides on a *)
(* copy of discard_queue_.empty() that may be out of date when it acts.    *)
(*                                                                         *)
(* The threads ("runners") are the senders and, one per packet, the        *)
(* completion handlers.  OnSend of CRoseSocket always answers true.        *)
(***************************************************************************)
EXTENDS Integers, Sequences, SequencesExt, FiniteSets

CONSTANTS
  Senders,   \* threads that call send_data
  MaxSend,   \* bound: packets each of them sends
  InOrder    \* the socket completes overlapping writes in their order

ASSUME SendersAssumption == IsFiniteSet(Senders)
ASSUME MaxSendAssumption == MaxSend \in Nat
ASSUME InOrderAssumption == InOrder \in BOOLEAN
ASSUME DistinctAssumption == Senders \cap (Senders \X (1 .. MaxSend)) = {}

VARIABLES
  send_queue,
  discard_queue,
  flying,        \* writes in progress, oldest first
  active,
  pc,            \* where each runner is
  discard_empty, \* ProcessSend's local variable, per runner
  count,         \* packets each sender has passed to send_data
  wire           \* history: packets handed to the socket

vars == <<send_queue, discard_queue, flying, active, pc, discard_empty, count, wire>>

Packets == Senders \X (1 .. MaxSend)
Runners == Senders \cup Packets

Init ==
  /\ send_queue = <<>>
  /\ discard_queue = <<>>
  /\ flying = <<>>
  /\ active = TRUE
  /\ pc = [r \in Runners |-> "idle"]
  /\ discard_empty = [r \in Runners |-> FALSE]
  /\ count = [t \in Senders |-> 0]
  /\ wire = <<>>

\* Slip: packets are numbered from zero, one short of what the caller passed.
send_dataOffByOne(t) ==
  /\ pc[t] = "idle"
  /\ count[t] < MaxSend
  /\ send_queue' = Append(send_queue, <<t, count[t]>>)
  /\ count' = [count EXCEPT ![t] = count[t] + 1]
  /\ pc' = [pc EXCEPT ![t] = "check"]
  /\ UNCHANGED <<discard_queue, flying, active, discard_empty, wire>>

\* send_data up to its call of ProcessSend.
send_data(t) ==
  /\ pc[t] = "idle"
  /\ count[t] < MaxSend
  /\ send_queue' = Append(send_queue, <<t, count[t] + 1>>)
  /\ count' = [count EXCEPT ![t] = count[t] + 1]
  /\ pc' = [pc EXCEPT ![t] = "check"]
  /\ UNCHANGED <<discard_queue, flying, active, discard_empty, wire>>

\* ProcessSend, under discard_mutex_: is a write in progress?
CheckDiscard(r) ==
  /\ pc[r] = "check"
  /\ IF active
     THEN /\ discard_empty' = [discard_empty EXCEPT ![r] = (discard_queue = <<>>)]
          /\ pc' = [pc EXCEPT ![r] = "send"]
     ELSE /\ pc' = [pc EXCEPT ![r] = "idle"]
          /\ UNCHANGED discard_empty
  /\ UNCHANGED <<send_queue, discard_queue, flying, active, count, wire>>

\* Slip: the write is started from a copy, the packet stays queued.
StartWriteKeeps ==
  /\ discard_queue' = Append(discard_queue, Head(send_queue))
  /\ flying' = Append(flying, Head(send_queue))
  /\ wire' = Append(wire, Head(send_queue))
  /\ UNCHANGED send_queue

\* Slip: the buffer is kept alive only if no other write is in progress.
StartWriteUnkept ==
  /\ discard_queue' = IF flying = <<>> THEN Append(discard_queue, Head(send_queue))
                                       ELSE discard_queue
  /\ flying' = Append(flying, Head(send_queue))
  /\ wire' = Append(wire, Head(send_queue))
  /\ send_queue' = Tail(send_queue)

\* The packet moves to discard_queue_ and its write starts.
StartWrite ==
  /\ discard_queue' = Append(discard_queue, Head(send_queue))
  /\ flying' = Append(flying, Head(send_queue))
  /\ wire' = Append(wire, Head(send_queue))
  /\ send_queue' = Tail(send_queue)

\* ProcessSend, under send_mutex_, trusting what CheckDiscard saw.
Transmit(r) ==
  /\ pc[r] = "send"
  /\ pc' = [pc EXCEPT ![r] = "idle"]
  /\ IF send_queue # <<>> /\ discard_empty[r]
     THEN StartWrite
     ELSE UNCHANGED <<send_queue, discard_queue, flying, wire>>
  /\ UNCHANGED <<active, discard_empty, count>>

(***************************************************************************)
(* A write ends.  After a reset the handler calls shutdown(); after any    *)
(* other error it only logs.  Overlapping writes may end in any order      *)
(* unless the socket takes each in one piece.                              *)
(***************************************************************************)
WriteDone(p, reset) ==
  /\ \E i \in 1 .. Len(flying) :
       /\ flying[i] = p
       /\ InOrder => i = 1
       /\ flying' = RemoveAt(flying, i)
  /\ active' = (active /\ ~reset)
  /\ pc' = [pc EXCEPT ![p] = "pop"]
  /\ UNCHANGED <<send_queue, discard_queue, discard_empty, count, wire>>

\* Slip: the handler does not look for the next packet.
FreeBufferOnly(p) ==
  /\ pc[p] = "pop"
  /\ discard_queue' = Tail(discard_queue)
  /\ pc' = [pc EXCEPT ![p] = "idle"]
  /\ UNCHANGED <<send_queue, flying, active, discard_empty, count, wire>>

\* The rest of the handler up to ProcessSend: it frees the oldest buffer.
FreeBuffer(p) ==
  /\ pc[p] = "pop"
  /\ discard_queue' = Tail(discard_queue)
  /\ pc' = [pc EXCEPT ![p] = "check"]
  /\ UNCHANGED <<send_queue, flying, active, discard_empty, count, wire>>

\* shutdown() from a reader, the process thread or the owner.
shutdown ==
  /\ active
  /\ active' = FALSE
  /\ UNCHANGED <<send_queue, discard_queue, flying, pc, discard_empty, count, wire>>

Next ==
  \/ \E t \in Senders : send_data(t)
  \/ \E r \in Runners : CheckDiscard(r) \/ Transmit(r)
  \/ \E p \in Packets : \E reset \in BOOLEAN : WriteDone(p, reset)
  \/ \E p \in Packets : FreeBuffer(p)
  \/ shutdown

(***************************************************************************)
(* Fairness: a thread inside send_data or a completion handler proceeds,   *)
(* and the socket ends every write, with or without an error.              *)
(***************************************************************************)
Fairness ==
  /\ \A r \in Runners : WF_vars(CheckDiscard(r)) /\ WF_vars(Transmit(r))
  /\ \A p \in Packets : WF_vars(FreeBuffer(p))
                        /\ WF_vars(\E reset \in BOOLEAN : WriteDone(p, reset))

Spec == Init /\ [][Next]_vars
FairSpec == Spec /\ Fairness

-----------------------------------------------------------------------------
(* Properties *)

\* The queues hold packets, and every thread is somewhere in its code.
TypeOK ==
  /\ send_queue \in Seq(Packets)
  /\ discard_queue \in Seq(Packets)
  /\ flying \in Seq(Packets)
  /\ active \in BOOLEAN
  /\ pc \in [Runners -> {"idle", "check", "send", "pop"}]
  /\ discard_empty \in [Runners -> BOOLEAN]
  /\ count \in [Senders -> 0 .. MaxSend]
  /\ wire \in Seq(Packets)

Popping == {p \in Packets : pc[p] = "pop"}

(***************************************************************************)
(* discard_queue_ holds one buffer for every write in progress and one for *)
(* every handler about to free one: the handler's front() and pop() never  *)
(* meet an empty queue, however many writes overlap and in whichever order *)
(* they end.                                                               *)
(***************************************************************************)
DiscardCoversWrites == Len(discard_queue) = Len(flying) + Cardinality(Popping)

(***************************************************************************)
(* No buffer is freed while its write is in progress, as long as the       *)
(* socket ends overlapping writes in their order.  A handler frees the     *)
(* oldest buffer, which need not be its own.                               *)
(***************************************************************************)
BuffersAlive ==
  InOrder => \A i \in 1 .. Len(flying) :
               \E j \in 1 .. Len(discard_queue) : discard_queue[j] = flying[i]

\* A packet waits, is being written or is handled by its completion handler,
\* one of these at a time, and none of them before send_data was called.
OnceInv ==
  /\ \A i \in 1 .. Len(send_queue) : /\ send_queue[i][2] <= count[send_queue[i][1]]
                                     /\ pc[send_queue[i]] = "idle"
  /\ \A i \in 1 .. Len(flying) : /\ flying[i][2] <= count[flying[i][1]]
                                 /\ pc[flying[i]] = "idle"
  /\ \A i, j \in 1 .. Len(send_queue) : send_queue[i] = send_queue[j] => i = j
  /\ \A i, j \in 1 .. Len(flying) : flying[i] = flying[j] => i = j
  /\ \A i \in 1 .. Len(send_queue), j \in 1 .. Len(flying) : send_queue[i] # flying[j]
  /\ \A p \in Packets : p[2] > count[p[1]] => pc[p] = "idle"

\* BuffersAlive with what makes it inductive: the writes in progress are the
\* newest buffers, in the same order.
AliveInv ==
  /\ OnceInv
  /\ DiscardCoversWrites
  /\ InOrder => \A i \in 1 .. Len(flying) :
                  flying[i] = discard_queue[Len(discard_queue) - Len(flying) + i]

Channel == INSTANCE FifoChannel WITH queue <- send_queue

(***************************************************************************)
(* send_data implements a FIFO channel: no packet is written twice, lost   *)
(* or overtaken between send_queue_ and the socket, although any thread    *)
(* may run ProcessSend and several may pass its test at once.              *)
(***************************************************************************)
ImplementsFifo == Channel!Spec

(***************************************************************************)
(* No lost wake-up: a packet in send_queue_ is eventually written or the   *)
(* connection goes down, although ProcessSend returns without doing        *)
(* anything when it sees a write in progress.                              *)
(***************************************************************************)
EveryPacketLeaves ==
  \A p \in Packets :
    (\E i \in 1 .. Len(send_queue) : send_queue[i] = p)
      ~> (~active \/ \E i \in 1 .. Len(wire) : wire[i] = p)
=============================================================================
