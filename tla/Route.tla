------------------------------- MODULE Route -------------------------------
(***************************************************************************)
(* The routes of the packet simulator (htsim2/route.h, route.cpp) as every  *)
(* topology of htsim2/datacenter builds them.                              *)
(*                                                                         *)
(* A link is a pair of nodes; a node is a tuple such as <<"lp", 3>>.  A    *)
(* route lists the sinks a packet visits: for every link its queue and its *)
(* pipe and, when the switches have lossless input queues, the input queue *)
(* at the far end of the link (Queue::getRemoteEndpoint).                  *)
(***************************************************************************)
EXTENDS Integers, Sequences, FiniteSets, SequencesExt

QueueOf(link) == [kind |-> "queue", link |-> link]
PipeOf(link)  == [kind |-> "pipe", link |-> link]
InputOf(link) == [kind |-> "input", link |-> link]

\* The queue of the sending host in front of the route (pqueue, prio_queues).
HostQueue(link) == [kind |-> "host", link |-> link]

Both(links) == links \cup {<<l[2], l[1]>> : l \in links}

LinksAlong(nodes) == [i \in 1..(Len(nodes) - 1) |-> <<nodes[i], nodes[i + 1]>>]

(***************************************************************************)
(* The push_backs of a get_paths: queue and pipe of every link and, if     *)
(* `input' (a LOSSLESS_INPUT queue type), its remote endpoint for every    *)
(* link but the last.                                                      *)
(***************************************************************************)
Sinks(nodes, input) ==
  FlattenSeq([i \in 1..(Len(nodes) - 1) |->
     LET link == <<nodes[i], nodes[i + 1]>>
     IN <<QueueOf(link), PipeOf(link)>>
          \o IF input /\ i < Len(nodes) - 1 THEN <<InputOf(link)>> ELSE <<>>])

(***************************************************************************)
(* A route and the route back that set_reverse attached to it (empty when  *)
(* the topology sets none).                                                *)
(***************************************************************************)
TwoWay(nodes, back, input) ==
  [out |-> Sinks(nodes, input), back |-> Sinks(back, input)]

OneWay(nodes) == [out |-> Sinks(nodes, FALSE), back |-> <<>>]

\* push_front of the host's queue, named by the first link it feeds.
Queued(nodes) ==
  [out |-> <<HostQueue(<<nodes[1], nodes[2]>>)>> \o Sinks(nodes, FALSE),
   back |-> <<>>]

(***************************************************************************)
(* check_non_null: it tests positions 1, 3, 5, ... (counted from 0) of the *)
(* route, before the last one.                                             *)
(***************************************************************************)
CheckNonNull(route, links) ==
  \A i \in 1..(Len(route.out) - 2) : i % 2 = 1 => route.out[i + 1].link \in links

(***************************************************************************)
(* The find_* functions of the fat trees return -1 for what is not a queue *)
(* that leads to a node of the layer, a pipe for example.  print_path      *)
(* looks up positions 1, 3, 5, ... (counted from 0), the layers chosen by  *)
(* half the length of the route.                                           *)
(***************************************************************************)
FindIn(layer, sink, links) ==
  IF sink.kind = "queue" /\ sink.link \in links /\ sink.link[2][1] = layer
  THEN sink.link[2][2] ELSE -1

Layers(hops) ==
  CASE hops = 2 -> <<"lp", "host">>
    [] hops = 4 -> <<"lp", "up", "lp", "host">>
    [] hops = 6 -> <<"lp", "up", "core", "up", "lp", "host">>
    [] OTHER -> <<>>

NamesAlong(route, links) ==
  LET layers == Layers(Len(route.out) \div 2)
  IN [i \in DOMAIN layers |-> FindIn(layers[i], route.out[2 * i], links)]

(***************************************************************************)
(* Route::add_endpoints: the destination ends the route, the source ends   *)
(* the reverse route if there is one.  NdpSrc::set_paths calls it on a     *)
(* copy of the route, but the copy has the same reverse route.             *)
(***************************************************************************)
EndPoint(node, flow) == [kind |-> "end", node |-> node, flow |-> flow]

AddEndpoints(route, src, dest, flows) ==
  [out  |-> [f \in flows |-> Append(route.out, EndPoint(dest, f))],
   back |-> IF route.back = <<>> THEN <<>>
            ELSE route.back \o [f \in flows |-> EndPoint(src, f)]]
=============================================================================
