------------------------------ MODULE PortQueue ------------------------------
(***************************************************************************)
(* The output queues of htsim2, one queue at a time; FatTreeTopology's     *)
(* alloc_queue and alloc_src_queue choose among all of these but "queue",  *)
(* "cut" and "length":                                                     *)
(*   "queue"      Queue, first in first out, drops what does not fit       *)
(*   "random"     RandomQueue, which here ends the simulation at a drop    *)
(*   "ecn"        ECNQueue, marks on dequeue and obeys PAUSE               *)
(*   "priority"   PriorityQueue of a host, obeys PAUSE and never drops     *)
(*   "cut"        CutPayloadQueue, trims what arrives above a threshold    *)
(*   "composite"  CompositeQueue, trims, bounces, 10 headers to a packet   *)
(*   "length"     CompositePrioQueue, trims the packets of longer paths    *)
(*   "ctrl"       CtrlPrioQueue, headers first, drops the newest or itself *)
(* A full packet has Full units and a header one; a packet is known by its *)
(* place in the order of arrival.                                          *)
(***************************************************************************)
EXTENDS Integers, Sequences, FiniteSets

CONSTANTS Kinds,      \* the kinds of queue to choose from
          Packets,    \* how many packets arrive
          Full,       \* the size of a full packet
          BufferSize, \* _maxsize
          Threshold,  \* _threshold, _drop_th and _K of the kinds that have one
          RatioHigh,  \* _ratio_high; _ratio_low is 1
          MaxLen,     \* the longest path
          MaxPauses   \* how many frames arrive that are a PAUSE, or a GO
                      \* that ends none

\* The kinds of queue there are, and that a packet fits an empty buffer.
ASSUME PortAssumption ==
  /\ Kinds \subseteq {"queue", "random", "ecn", "priority", "cut", "composite",
                      "length", "ctrl"}
  /\ {Packets, BufferSize, Threshold, RatioHigh, MaxLen, MaxPauses} \subseteq Nat
  /\ Full \in 1 .. BufferSize

VARIABLES
  port,    \* the queue
  left,    \* what has left it, [id, header, how], in order
  arrived, \* how many packets have arrived
  high     \* history: headers served in a row while a full packet waits

portVars == <<port, left, arrived, high>>

Classes == {"hi", "mid", "lo"}
Size(p) == IF p.header THEN 1 ELSE Full
Strip(p) == [p EXCEPT !.header = TRUE]

Total(a) == a.size["hi"] + a.size["mid"] + a.size["lo"]
IsEmpty(a) == \A c \in Classes : a.list[c] = <<>>
Goes(p, how) == [id |-> p.id, header |-> p.header, how |-> how]

\* One end of a list is the oldest packet, the front; the code pushes at
\* the other.
Push(a, c, p) == [a EXCEPT !.list[c] = Append(@, p), !.size[c] = @ + Size(p)]
Newest(a, c) == a.list[c][Len(a.list[c])]

Without(s, i) == SubSeq(s, 1, i - 1) \o SubSeq(s, i + 1, Len(s))

-----------------------------------------------------------------------------
(* Service. *)

\* FAULT: headers always go first.
BeginService_HighFirst(a) ==
  [a EXCEPT !.events = @ + 1, !.serv = IF a.list["hi"] # <<>> THEN "hi"
              ELSE IF a.list["mid"] # <<>> THEN "mid" ELSE "lo"]

\* beginService: the event of the next packet.  The composite queues serve
\* RatioHigh headers to one packet while both wait, the priority queue the
\* highest class, the others have one list.
BeginService(a) ==
  IF a.kind \in {"composite", "length"}
    THEN LET both == a.list["hi"] # <<>> /\ a.list["lo"] # <<>>
             crt == IF both THEN (a.crt + 1) % (RatioHigh + 1) ELSE a.crt
             next == IF both THEN (IF crt < RatioHigh THEN "hi" ELSE "lo")
                     ELSE IF a.list["hi"] # <<>> THEN "hi" ELSE "lo"
         IN  [a EXCEPT !.crt = crt, !.serv = next, !.events = @ + 1]
    ELSE [a EXCEPT !.events = @ + 1, !.serv = IF a.list["hi"] # <<>> THEN "hi"
              ELSE IF a.list["mid"] # <<>> THEN "mid" ELSE "lo"]

\* find_max_path_len_queued, after the last packet of the longest path went.
MaxQueued(list) ==
  IF list = <<>> THEN 0
  ELSE CHOOSE n \in {list[i].len : i \in 1 .. Len(list)} :
         \A i \in 1 .. Len(list) : list[i].len <= n

Recount(a, p) ==
  IF a.kind = "length" /\ ~p.header /\ p.len = a.longest
    THEN [a EXCEPT !.longest = MaxQueued(a.list["lo"])] ELSE a

\* The oldest packet of class c leaves.
Dequeue(a, c) ==
  LET p == Head(a.list[c])
  IN  Recount([a EXCEPT !.list[c] = Tail(@), !.size[c] = @ - Size(p)], p)

\* The class in service; the queues with one list keep none.
Served(a) == IF a.kind \in {"queue", "random", "ecn", "cut"} THEN "lo" ELSE a.serv

\* An event with no packet to serve fails an assertion.
NothingToServe(a) == Served(a) = "none" \/ a.list[Served(a)] = <<>>

\* A packet of the class in service has left.  A queue that does not serve on,
\* being paused, remembers the class.
AfterService(a) ==
  LET d == Dequeue(a, Served(a))
  IN  [d EXCEPT !.events = @ - 1, !.serv = IF IsEmpty(d) THEN "none" ELSE @,
                !.state = IF @ = "pause_received" THEN "paused" ELSE @]

\* completeService, and the next service unless the port is paused.
CompletePortService ==
  /\ ~port.exited /\ port.events > 0
  /\ IF NothingToServe(port)
       THEN port' = [port EXCEPT !.exited = TRUE] /\ UNCHANGED <<left, high>>
       ELSE LET c == Served(port)
                d == AfterService(port)
                marked == port.kind = "ecn" /\ Total(port) > Threshold
            IN  /\ left' = Append(left, Goes(Head(port.list[c]),
                                            IF marked THEN "marked" ELSE "sent"))
                /\ port' = IF ~IsEmpty(d) /\ d.state = "ready" THEN BeginService(d) ELSE d
                /\ high' = IF c = "hi" /\ port.list["lo"] # <<>> THEN high + 1 ELSE 0
  /\ UNCHANGED arrived

-----------------------------------------------------------------------------
(* Arrival.  Each operator is the set of outcomes [a |-> queue, out |-> left]*)

Outcome(a, out) == [a |-> a, out |-> out]

\* Service begins when the queue was empty (and may send).
Started(a, wasIdle) ==
  IF wasIdle /\ a.state = "ready" THEN BeginService(a) ELSE a

\* Queue, RandomQueue and ECNQueue::receivePacket.  The random queue may drop
\* above its threshold, and a drop there is exit(1).
ReceiveFifo(a, p) ==
  LET fits == Total(a) + Size(p) <= BufferSize
      may == a.kind = "random" /\ Total(a) + Size(p) > Threshold
      drop == Outcome([a EXCEPT !.exited = a.kind = "random"], <<Goes(p, "dropped")>>)
  IN  (IF fits THEN {Outcome(Started(Push(a, "lo", p), IsEmpty(a)), <<>>)} ELSE {})
      \cup (IF ~fits \/ may THEN {drop} ELSE {})

\* PriorityQueue::receivePacket, with getPriority.
ReceivePriority(a, p) ==
  LET c == IF p.header THEN "hi" ELSE IF p.len = 1 THEN "lo" ELSE "mid"
  IN  {Outcome(Started(Push(a, c, p), IsEmpty(a)), <<>>)}

\* CutPayloadQueue::receivePacket.  strip_payload asserts that there is a
\* payload: a header above the threshold ends the program.
ReceiveCut(a, p) ==
  LET over == Total(a) + Size(p) > Threshold
      t == IF over THEN Strip(p) ELSE p
  IN  {IF over /\ p.header THEN Outcome([a EXCEPT !.exited = TRUE], <<Goes(p, "dropped")>>)
       ELSE IF Total(a) + Size(t) > BufferSize THEN Outcome(a, <<Goes(t, "dropped")>>)
       ELSE Outcome(Started(Push(a, "lo", t), IsEmpty(a)), <<>>)}

\* FAULT: a header that is sent back also stays queued.
ReceiveHeader_Twice(a, p) ==
  LET q0 == Started(Push(a, "hi", p), a.serv = "none")
  IN  IF a.size["hi"] + 1 <= BufferSize THEN Outcome(q0, <<>>)
      ELSE Outcome(q0, <<Goes(p, "bounced")>>)

\* A header: queued, else returned to its sender by the composite queue when it
\* has a way back, else dropped.
ReceiveHeader(a, p) ==
  IF a.size["hi"] + 1 <= BufferSize
    THEN Outcome(Started(Push(a, "hi", p), a.serv = "none"), <<>>)
  ELSE Outcome(a, <<Goes(p, IF a.kind = "composite" /\ p.returns THEN "bounced"
                            ELSE "dropped")>>)

\* FAULT: the size is taken off after the payload is stripped.
Boot_Late(a, i) ==
  LET p == a.list["lo"][i]
  IN  ReceiveHeader(Recount([a EXCEPT !.list["lo"] = Without(@, i),
                                      !.size["lo"] = @ - Size(Strip(p))], p), Strip(p))

\* The i-th packet of the low list becomes a header.
Boot(a, i) ==
  LET p == a.list["lo"][i]
  IN  ReceiveHeader(Recount([a EXCEPT !.list["lo"] = Without(@, i),
                                      !.size["lo"] = @ - Size(p)], p), Strip(p))

EnqueueLow(a, p) ==
  Started([Push(a, "lo", p) EXCEPT
             !.longest = IF a.kind = "length" /\ p.len > @ THEN p.len ELSE @],
          a.serv = "none")

\* Packet p takes the place of the i-th of the low list.
Replace(a, p, i) ==
  LET b == Boot(a, i) IN Outcome(EnqueueLow(b.a, p), b.out)

\* CompositeQueue::receivePacket: when the low list is full, a coin decides
\* between the arriving packet and the newest queued one.
ReceiveComposite(a, p) ==
  IF p.header THEN {ReceiveHeader(a, p)}
  ELSE IF a.size["lo"] + Size(p) <= BufferSize THEN {Outcome(EnqueueLow(a, p), <<>>)}
  ELSE {ReceiveHeader(a, Strip(p)), Replace(a, p, Len(a.list["lo"]))}

\* CompositePrioQueue::receivePacket: a packet of a longer path gives way, the
\* newest first; of equally long ones a coin decides.
ReceiveLength(a, p) ==
  LET newestAbove(n) ==
        CHOOSE i \in 1 .. Len(a.list["lo"]) :
          /\ a.list["lo"][i].len > n
          /\ \A j \in i + 1 .. Len(a.list["lo"]) : a.list["lo"][j].len <= n
      boot == Replace(a, p, newestAbove(IF p.len < a.longest THEN p.len ELSE p.len - 1))
      strip == ReceiveHeader(a, Strip(p))
  IN  IF p.header THEN {ReceiveHeader(a, p)}
      ELSE IF a.size["lo"] + Size(p) <= BufferSize THEN {Outcome(EnqueueLow(a, p), <<>>)}
      ELSE IF p.len < a.longest THEN {boot}
      ELSE IF p.len = Newest(a, "lo").len THEN {boot, strip} ELSE {strip}

\* CtrlPrioQueue::receivePacket: when the list is full a coin decides whether
\* the arriving packet or the newest of the list is dropped, and a drop of
\* anything but an NDPLITE packet aborts the program.
ReceiveCtrl(a, p) ==
  LET c == IF p.header THEN "hi" ELSE "lo"
      dropped(b, x) == {Outcome([b EXCEPT !.exited = e], <<Goes(x, "dropped")>>) : e \in BOOLEAN}
      shorter == [a EXCEPT !.list[c] = Without(@, Len(@)), !.size[c] = @ - Size(Newest(a, c))]
  IN  IF a.size[c] + Size(p) <= BufferSize
        THEN {Outcome(Started(Push(a, c, p), a.serv = "none"), <<>>)}
      ELSE dropped(a, p) \cup dropped(Push(shorter, c, p), Newest(a, c))

Receive(a, p) ==
  CASE a.kind \in {"queue", "random", "ecn"} -> ReceiveFifo(a, p)
    [] a.kind = "priority"  -> ReceivePriority(a, p)
    [] a.kind = "cut"       -> ReceiveCut(a, p)
    [] a.kind = "composite" -> ReceiveComposite(a, p)
    [] a.kind = "length"    -> ReceiveLength(a, p)
    [] a.kind = "ctrl"      -> ReceiveCtrl(a, p)

\* receivePacket for a packet of the next id, full or a header.  Its path
\* length counts for "length" when it is full; a length above 1 stands for a
\* retransmission in "priority".  A packet with no reverse route, or already
\* bounced, cannot return.
Arrive ==
  /\ arrived < Packets /\ ~port.exited
  /\ \E header, returns \in BOOLEAN, len \in 1 .. MaxLen :
       /\ len > 1 => ~header /\ port.kind \in {"length", "priority"}
       /\ ~returns => port.kind = "composite"
       /\ \E r \in Receive(port, [id |-> arrived + 1, header |-> header, len |-> len,
                               returns |-> returns]) :
            port' = r.a /\ left' = left \o r.out
  /\ arrived' = arrived + 1
  /\ UNCHANGED high

\* receivePacket for an ETH_PAUSE frame of the other end of the link.
Pause ==
  /\ port.kind \in {"ecn", "priority"} /\ port.pauses > 0 /\ ~port.exited
  /\ port' = [port EXCEPT !.pauses = @ - 1,
                    !.state = IF IsEmpty(port) THEN "paused" ELSE "pause_received"]
  /\ UNCHANGED <<left, arrived, high>>

\* A GO ends the pause; one that finds none is counted with the pauses.
Resumed(a) ==
  [a EXCEPT !.pauses = IF a.state = "ready" THEN @ - 1 ELSE @, !.state = "ready"]

MayGo ==
  /\ port.kind \in {"ecn", "priority"} /\ ~port.exited
  /\ port.state # "ready" \/ port.pauses > 0

\* FAULT: the service is left to the next arrival.
Go_NoService == MayGo /\ port' = Resumed(port) /\ UNCHANGED <<left, arrived, high>>

\* The same with no sleep time.  It does not look whether a packet is in
\* service, which then has two events.
Go ==
  /\ MayGo
  /\ LET a == Resumed(port)
     IN  port' = IF IsEmpty(a) THEN a ELSE BeginService(a)
  /\ UNCHANGED <<left, arrived, high>>

PortInit ==
  /\ \E kind \in Kinds :
       port = [kind |-> kind, list |-> [c \in Classes |-> <<>>],
            size |-> [c \in Classes |-> 0], serv |-> "none", crt |-> 0, events |-> 0,
            longest |-> 0, state |-> "ready", pauses |-> MaxPauses, exited |-> FALSE]
  /\ left = <<>> /\ arrived = 0 /\ high = 0

PortNext == Arrive \/ CompletePortService \/ Pause \/ Go

PortFairness == WF_portVars(CompletePortService) /\ WF_portVars(Go)
PortSpec == PortInit /\ [][PortNext]_portVars /\ PortFairness

-----------------------------------------------------------------------------
ListedIds(c) == {port.list[c][i].id : i \in 1 .. Len(port.list[c])}
SumSizes(s) ==
  LET sum[i \in 0 .. Len(s)] == IF i = 0 THEN 0 ELSE sum[i - 1] + Size(s[i])
  IN  sum[Len(s)]

\* Nothing is lost or counted wrong, whatever was trimmed, booted, returned or
\* dropped: a packet that arrived is queued once or has left once, every size is
\* the sum over its list and within the buffer, and the longest path is that of
\* a queued packet, as check_queued asserts.
Accounted ==
  /\ \A id \in 1 .. arrived :
       Cardinality({c \in Classes : id \in ListedIds(c)})
         + Cardinality({i \in 1 .. Len(left) : left[i].id = id}) = 1
  /\ \A c \in Classes : port.size[c] = SumSizes(port.list[c])
  /\ port.kind # "priority" => \A c \in Classes : port.size[c] <= BufferSize
  /\ port.kind = "length" => port.longest = MaxQueued(port.list["lo"])

\* Headers do not starve the full packets: while a full packet waits, at most
\* RatioHigh headers leave in a row, and the one in service when it came.
LowIsServed == port.kind \in {"composite", "length"} => high <= RatioHigh + 1

\* Every packet that arrived leaves, if the remote ends every pause.
EveryPacketLeaves == <>[](IsEmpty(port) \/ port.exited)

\* "we've received pause or are already paused and will do nothing until the
\* other end unblocks us": a queue that has finished the packet in flight when
\* it was paused sends none before a GO.  Not so when a GO came during that
\* service: it began another, which a second PAUSE does not end.
PausedSendsNothing ==
  [][port.state = "paused" =>
       \A i \in Len(left) + 1 .. Len(left') : left'[i].how \notin {"sent", "marked"}]_portVars
=============================================================================
