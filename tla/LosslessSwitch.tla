---------------------------- MODULE LosslessSwitch ----------------------------
(***************************************************************************)
(* The other lossless switch (LOSSLESS): Switch_htsim with LosslessQueues. *)
(* Each output queue watches its own size and, above its threshold, has    *)
(* the switch pause the senders of all other ports; below the low one it   *)
(* resumes them all.  Senders and links are those of Lossless; in is not   *)
(* used, recv[j] is the _state_recv of output queue j.                     *)
(***************************************************************************)
EXTENDS Lossless, FiniteSets

CONSTANTS Demands      \* <<i, j>>: packets come by port i for port j

ASSUME DemandsAssumption == Demands \subseteq Ports \X Ports

\* FAULT: no queue is shorter, so nothing is resumed.
LowThreshold_None == 0

\* initThresholds: two packets of space for every port.
HighThreshold == MaxSize - 2 * Cardinality(Ports)
LowThreshold == 2

\* Switch_htsim::sendPause: the remote ends of all ports but the problem's.
SendPause(j, wait) ==
  [i \in Ports |-> IF i = j THEN sender[i]
                   ELSE IF wait THEN ReceivePause(sender[i]) ELSE ReceiveGo(sender[i])]

\* LosslessQueue::receivePacket; no virtual queue is remembered.
DeliverToOutput(i) ==
  /\ pipe[i] # <<>>
  /\ pipe' = [pipe EXCEPT ![i] = Tail(@)]
  /\ LET j == Head(pipe[i])
     IN  /\ out' = [out EXCEPT ![j] = Enqueue(@, j)]
         /\ IF Len(out[j].list) + 1 > HighThreshold /\ recv[j] # "paused"
              THEN /\ recv' = [recv EXCEPT ![j] = "paused"]
                   /\ sender' = SendPause(j, TRUE)
              ELSE UNCHANGED <<recv, sender>>
  /\ UNCHANGED in

\* LosslessQueue::completeService
LeaveOutput(j) ==
  /\ out[j].sending /\ out[j].list # <<>>
  /\ out' = [out EXCEPT ![j] = CompleteService(@)]
  /\ IF Len(out[j].list) - 1 < LowThreshold /\ recv[j] = "paused"
       THEN /\ recv' = [recv EXCEPT ![j] = "ready"]
            /\ sender' = SendPause(j, FALSE)
       ELSE UNCHANGED <<recv, sender>>
  /\ UNCHANGED <<pipe, in>>

NextSwitch ==
  \/ \E d \in Demands : Supply(d[1], d[2])
  \/ \E i \in Ports : \/ Transmit(i) \/ DeliverToOutput(i) \/ LeaveOutput(i)
                      \/ NextHopPause(i) \/ NextHopGo(i)

SpecSwitch == Init /\ [][NextSwitch]_vars

\* "2 packets per incoming port" above the threshold are enough for what comes
\* after a PAUSE, so "LOSSLESS not working! I should have dropped this packet" is
\* never printed.  Not so with three ports: the GO of one queue releases senders
\* that another still holds, and that one does not pause them again.
OutputsNeverOverflow == \A j \in Ports : Len(out[j].list) <= MaxSize

\* A sender that is held is held by a queue that knows it: while it may not send,
\* an output queue of another port has asked for that and not yet ended it.  The
\* converse, that such a queue's senders are all held, fails with three ports.
HeldByAQueue ==
  \A i \in Ports : sender[i].state # "ready" => \E j \in Ports \ {i} : recv[j] = "paused"
===============================================================================
