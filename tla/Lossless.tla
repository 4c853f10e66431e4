------------------------------- MODULE Lossless -------------------------------
(***************************************************************************)
(* The lossless switch that FatTreeTopology builds for LOSSLESS_INPUT: a   *)
(* LosslessInputQueue counts the packets of one incoming link that wait in *)
(* any output queue, and sends PAUSE to the LosslessOutputQueue at the     *)
(* other end of the link above one threshold and GO below another.  The    *)
(* switch is modelled with the output queues that feed it (sender), the    *)
(* links, and the next hops, which may pause its output queues.  A packet  *)
(* is the port it leaves by while it comes, then the port it came by (_vq).*)
(***************************************************************************)
EXTENDS Integers, Sequences

CONSTANTS Ports,      \* the ports of the switch
          MaxSize,    \* _maxsize of an input queue, in packets
          High, Low,  \* _high_threshold, _low_threshold
          MaxFlight,  \* how many packets a link can hold
          Backlog     \* bound on the packets that wait at a sender

\* What the constructor asserts, and that the space above the threshold holds
\* what comes after a PAUSE: the packet that exceeded it, the link, the packet
\* in service.
ASSUME LosslessAssumption ==
  /\ MaxSize \in Nat /\ High \in Nat /\ Low \in Nat /\ MaxFlight \in Nat /\ Backlog \in Nat
  /\ 0 < Low /\ Low < High
  /\ High + MaxFlight + 2 <= MaxSize

VARIABLES
  sender,  \* sender[i]: the remote output queue of port i
  pipe,    \* pipe[i]: the packets on the link into port i, oldest first
  in,      \* in[i]: _queuesize of the input queue
  recv,    \* recv[i]: _state_recv of the input queue
  out      \* out[j]: the output queue

vars == <<sender, pipe, in, recv, out>>

States == {"ready", "pause_received", "paused"}
OutQueues == [list : Seq(Ports), sending : BOOLEAN, state : States]
EmptyQueue == [list |-> <<>>, sending |-> FALSE, state |-> "ready"]

TypeOK ==
  /\ sender \in [Ports -> OutQueues] /\ out \in [Ports -> OutQueues]
  /\ pipe \in [Ports -> Seq(Ports)]
  /\ in \in [Ports -> Int] /\ recv \in [Ports -> {"ready", "paused"}]

-----------------------------------------------------------------------------
(* LosslessOutputQueue *)

\* FAULT: a PAUSE during a service counts only until the service ends.
ReceivePause_Soft(o) == IF o.sending THEN o ELSE [o EXCEPT !.state = "paused"]

ReceivePause(o) ==
  [o EXCEPT !.state = IF o.sending THEN "pause_received" ELSE "paused"]

ReceiveGo(o) ==
  [o EXCEPT !.state = "ready", !.sending = o.sending \/ o.list # <<>>]

Enqueue(o, p) ==
  [o EXCEPT !.list = Append(@, p),
            !.sending = o.sending \/ (o.list = <<>> /\ o.state = "ready")]

\* The packet in service leaves; a received PAUSE takes effect.
CompleteService(o) ==
  [list    |-> Tail(o.list),
   sending |-> Tail(o.list) # <<>> /\ o.state = "ready",
   state   |-> IF o.state = "pause_received" THEN "paused" ELSE o.state]

-----------------------------------------------------------------------------
\* A packet for port j comes to the sender of port i.
Supply(i, j) ==
  /\ i # j /\ Len(sender[i].list) < Backlog
  /\ sender' = [sender EXCEPT ![i] = Enqueue(@, j)]
  /\ UNCHANGED <<pipe, in, recv, out>>

\* The sender of port i puts a packet on the link.
Transmit(i) ==
  /\ sender[i].sending /\ sender[i].list # <<>> /\ Len(pipe[i]) < MaxFlight
  /\ sender' = [sender EXCEPT ![i] = CompleteService(@)]
  /\ pipe' = [pipe EXCEPT ![i] = Append(@, Head(sender[i].list))]
  /\ UNCHANGED <<in, recv, out>>

\* LosslessInputQueue::receivePacket, with sendPause and sendOn2: the packet
\* is handed to its output queue at once.
Deliver(i) ==
  /\ pipe[i] # <<>>
  /\ pipe' = [pipe EXCEPT ![i] = Tail(@)]
  /\ in' = [in EXCEPT ![i] = @ + 1]
  /\ IF in[i] + 1 > High /\ recv[i] # "paused"
       THEN /\ recv' = [recv EXCEPT ![i] = "paused"]
            /\ sender' = [sender EXCEPT ![i] = ReceivePause(@)]
       ELSE UNCHANGED <<recv, sender>>
  /\ out' = [out EXCEPT ![Head(pipe[i])] = Enqueue(@, i)]

\* FAULT: the state is reset but no GO goes out.
CompletedService_NoGo(i) ==
  /\ in' = [in EXCEPT ![i] = @ - 1]
  /\ recv' = [recv EXCEPT ![i] = IF in[i] - 1 < Low THEN "ready" ELSE @]
  /\ UNCHANGED sender

\* LosslessInputQueue::completedService
CompletedService(i) ==
  /\ in' = [in EXCEPT ![i] = @ - 1]
  /\ IF in[i] - 1 < Low /\ recv[i] = "paused"
       THEN /\ recv' = [recv EXCEPT ![i] = "ready"]
            /\ sender' = [sender EXCEPT ![i] = ReceiveGo(@)]
       ELSE UNCHANGED <<recv, sender>>

\* LosslessOutputQueue::completeService of port j.
Leave(j) ==
  /\ out[j].sending /\ out[j].list # <<>>
  /\ CompletedService(Head(out[j].list))
  /\ out' = [out EXCEPT ![j] = CompleteService(@)]
  /\ UNCHANGED pipe

\* The next hop of port j sends PAUSE, or GO after it.
NextHopPause(j) ==
  /\ out[j].state = "ready"
  /\ out' = [out EXCEPT ![j] = ReceivePause(@)]
  /\ UNCHANGED <<sender, pipe, in, recv>>

NextHopGo(j) ==
  /\ out[j].state # "ready"
  /\ out' = [out EXCEPT ![j] = ReceiveGo(@)]
  /\ UNCHANGED <<sender, pipe, in, recv>>

Init ==
  /\ sender = [i \in Ports |-> EmptyQueue] /\ out = [j \in Ports |-> EmptyQueue]
  /\ pipe = [i \in Ports |-> <<>>]
  /\ in = [i \in Ports |-> 0] /\ recv = [i \in Ports |-> "ready"]

Next ==
  \/ \E i, j \in Ports : Supply(i, j)
  \/ \E i \in Ports : Transmit(i) \/ Deliver(i) \/ Leave(i) \/ NextHopPause(i) \/ NextHopGo(i)

\* Links and queues serve, and a next hop ends every pause.
Fairness ==
  \A i \in Ports : WF_vars(Transmit(i)) /\ WF_vars(Deliver(i)) /\ WF_vars(Leave(i))
                   /\ WF_vars(NextHopGo(i))

Spec == Init /\ [][Next]_vars /\ Fairness

-----------------------------------------------------------------------------
\* "LOSSLESS not working! I should have dropped this packet" is never printed
\* by an input queue: a PAUSE stops the sender before the buffer is full.
NeverOverflows == \A i \in Ports : in[i] <= MaxSize

\* The two ends of a link agree: the sender is held exactly while the input
\* queue thinks it has paused it.
EndsAgree == \A i \in Ports : recv[i] = "paused" <=> sender[i].state # "ready"

\* Every pause of a sender ends.
PausedIsResumed == \A i \in Ports : []<>(sender[i].state = "ready")

(***************************************************************************)
(* The inductive invariant: while nothing is paused the count is at most   *)
(* High; once it is, what is still to come is bounded by the link and the  *)
(* one packet in service.                                                  *)
(***************************************************************************)
InService(o) == IF o.sending /\ o.state # "paused" THEN 1 ELSE 0

RoomOf(i) ==
  /\ Len(pipe[i]) <= MaxFlight
  /\ sender[i].state = "paused" => ~sender[i].sending
  /\ recv[i] = "ready" => in[i] <= High
  /\ recv[i] = "paused" => in[i] + Len(pipe[i]) + InService(sender[i]) <= MaxSize

Room == \A i \in Ports : RoomOf(i)

IInv == TypeOK /\ EndsAgree /\ Room
===============================================================================
