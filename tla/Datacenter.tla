----------------------------- MODULE Datacenter -----------------------------
(***************************************************************************)
(* A packet on its way through a topology of htsim2/datacenter: the route  *)
(* that get_paths built, the sinks Packet::sendOn calls one after another, *)
(* and the way back when a queue bounces the packet (Packet::bounce) and   *)
(* the sender tries another path.                                          *)
(*                                                                         *)
(* Flows is the set of flows between the two hosts.  With several, they    *)
(* share the routes get_paths returned, as the users of net_paths do.      *)
(***************************************************************************)
EXTENDS Route

CONSTANTS Topologies,    \* the topologies to choose from
          Sources,       \* the sending hosts to choose from
          Flows,         \* the flows between the two hosts, 1..n
          MaxBounces     \* how often the packet may be returned

Fat      == INSTANCE FatTree WITH NoOfNodes <- 16, Input <- FALSE
FatInput == INSTANCE FatTree WITH NoOfNodes <- 16, Input <- TRUE
FatOdd   == INSTANCE FatTree WITH NoOfNodes <- 6, Input <- FALSE
Over     == INSTANCE OversubscribedFatTree WITH K <- 4
Multi    == INSTANCE MultihomedFatTree WITH K <- 6
Bcube    == INSTANCE BCube WITH NumPorts <- 3, NumLevels <- 2
Cam      == INSTANCE CamCube WITH K <- 4
Vl2      == INSTANCE VL2 WITH NI <- 3, NA <- 6, NT <- 9, NS <- 2
Hub      == INSTANCE Star WITH NSRV <- 6

HostsOf(t) ==
  CASE t = "fat" -> Fat!Hosts       [] t = "fat_input" -> FatInput!Hosts
    [] t = "fat_odd" -> FatOdd!Hosts [] t = "over" -> Over!Hosts
    [] t = "multi" -> Multi!Hosts   [] t = "bcube" -> Bcube!Hosts
    [] t = "camcube" -> Cam!Hosts   [] t = "vl2" -> Vl2!Hosts
    [] t = "star" -> Hub!Hosts

LinksOf(t) ==
  CASE t = "fat" -> Fat!Links       [] t = "fat_input" -> FatInput!Links
    [] t = "fat_odd" -> FatOdd!Links [] t = "over" -> Over!Links
    [] t = "multi" -> Multi!Links   [] t = "bcube" -> Bcube!Links
    [] t = "camcube" -> Cam!Links   [] t = "vl2" -> Vl2!Links
    [] t = "star" -> Hub!Links

PathsOf(t, src, dest, shift) ==
  CASE t = "fat" -> Fat!GetPaths(src, dest)
    [] t = "fat_input" -> FatInput!GetPaths(src, dest)
    [] t = "fat_odd" -> FatOdd!GetPaths(src, dest)
    [] t = "over" -> Over!GetPaths(src, dest)
    [] t = "multi" -> Multi!GetPaths(src, dest)
    [] t = "bcube" -> Bcube!GetPaths(src, dest, shift)
    [] t = "camcube" -> Cam!GetPaths(src, dest)
    [] t = "vl2" -> Vl2!GetPaths(src, dest)
    [] t = "star" -> Hub!GetPaths(src, dest)

Links == [t \in Topologies |-> LinksOf(t)]

VARIABLES
  net,      \* [topo, src, dest, paths]: the topology and the routes of the pair
  flow,     \* the flow whose packet travels
  route,    \* its route, endpoints added; <<>> before the first packet
  nexthop,  \* Packet::_nexthop
  bounced,  \* Packet::_bounced
  at,       \* the sink that holds the packet
  node,     \* the node the packet has physically reached
  bounces   \* how many times it has been returned

vars == <<net, flow, route, nexthop, bounced, at, node, bounces>>

Nowhere == [kind |-> "none"]
Host(i) == <<"host", i>>

Init ==
  /\ \E t \in Topologies, src \in Sources, shift \in Bcube!Shifts :
       /\ t # "bcube" => shift = [l \in Bcube!Levels |-> 1]
       /\ src \in HostsOf(t)
       /\ \E dest \in HostsOf(t) \ {src} :
            net = [topo |-> t, src |-> src, dest |-> dest,
                   paths |-> PathsOf(t, src, dest, shift)]
  /\ flow \in Flows
  /\ route = <<>>
  /\ nexthop = 0
  /\ bounced = FALSE
  /\ at = Nowhere
  /\ node = Host(net.src)
  /\ bounces = 0

\* Packet::unbounce clears the flag of a packet that is sent again.
Unbounced_Kept(flag) == flag   \* FAULT: the flag is left as it was
Unbounced(flag) == FALSE

(***************************************************************************)
(* The sender takes one of its paths, sets the route of the packet         *)
(* (Packet::set_route, and unbounce for one that was returned) and sends   *)
(* it on.                                                                  *)
(***************************************************************************)
SendPacket ==
  /\ at.kind = "none" \/ (at.kind = "end" /\ bounced)
  /\ \E id \in DOMAIN net.paths :
       route' = AddEndpoints(net.paths[id], net.src, net.dest, Flows)
  /\ nexthop' = 1
  /\ bounced' = Unbounced(bounced)
  /\ at' = route'.out[flow][1]
  /\ node' = Host(net.src)
  /\ UNCHANGED <<net, flow, bounces>>

(***************************************************************************)
(* Packet::sendOn hands the packet to the sink the route lists next, or    *)
(* the reverse route when it was bounced.  Leaving a pipe, it has crossed  *)
(* the pipe's link.                                                        *)
(***************************************************************************)
Way == IF bounced THEN route.back ELSE route.out[flow]

SendOn ==
  /\ at.kind \notin {"none", "end"}
  /\ at' = Way[nexthop + 1]
  /\ nexthop' = nexthop + 1
  /\ node' = IF at.kind = "pipe" THEN at.link[2] ELSE node
  /\ UNCHANGED <<net, flow, route, bounced, bounces>>

(***************************************************************************)
(* The queue of a switch port returns a data packet to its sender          *)
(* (CompositeQueue::receivePacket, then Packet::bounce): there must be a   *)
(* reverse route and the packet must not have been bounced yet.            *)
(***************************************************************************)
BounceIndex_OneLess(size, hop) == size - hop - 1   \* FAULT: one sink too early
BounceIndex(size, hop) == size - hop

Bounce ==
  /\ at.kind = "queue" /\ at.link[1][1] # "host"
  /\ ~bounced /\ route.back # <<>>
  /\ bounces < MaxBounces
  /\ LET hop == BounceIndex(Len(route.out[flow]), nexthop)
     IN /\ at' = route.back[hop + 1]
        /\ nexthop' = hop + 1
  /\ bounced' = TRUE
  /\ bounces' = bounces + 1
  /\ UNCHANGED <<net, flow, route, node>>

Next == SendPacket \/ SendOn \/ Bounce

Spec == Init /\ [][Next]_vars /\ WF_vars(SendPacket) /\ WF_vars(SendOn)

-----------------------------------------------------------------------------
(***************************************************************************)
(* Whatever topology, pair of hosts and path, and wherever it was bounced: *)
(* the packet stands at a queue, pipe or input queue that init_network has *)
(* created, and that belongs to the node the packet has reached.  It ties  *)
(* the arithmetic of get_paths to that of init_network and the index that  *)
(* bounce computes to the way the reverse routes are built.                *)
(***************************************************************************)
FollowsLinks ==
  /\ at.kind \in {"queue", "pipe", "input", "host"} => at.link \in Links[net.topo]
  /\ at.kind \in {"queue", "pipe", "host"} => at.link[1] = node
  /\ at.kind = "input" => at.link[2] = node
  /\ at.kind = "end" => at.node = IF bounced THEN net.src ELSE net.dest
  /\ at.kind = "end" => node = Host(at.node)

(***************************************************************************)
(* A packet that was bounced ends at the source of its own flow ("return   *)
(* to sender", network.cpp:83), and one that was not at its own sink.      *)
(***************************************************************************)
ReturnsToSender == at.kind = "end" => at.flow = flow

(***************************************************************************)
(* Two paths of a pair are never the same route: spraying packets over     *)
(* them uses the capacity between the hosts.  In BCube they share no       *)
(* server and no switch between the ends.  (Not so in VL2, where routes    *)
(* 2k and 2k + 4 of a half are often the same: see the README.)            *)
(***************************************************************************)
NodesOf(r) == {r.out[i].link[2] : i \in DOMAIN r.out} \cup {r.out[1].link[1]}
PathsDiffer ==
  route = <<>> /\ net.topo # "vl2" =>
    \A i, j \in DOMAIN net.paths : i # j =>
      /\ net.paths[i] # net.paths[j]
      /\ net.topo = "bcube" =>
           NodesOf(net.paths[i]) \cap NodesOf(net.paths[j])
             = {Host(net.src), Host(net.dest)}

(***************************************************************************)
(* check_non_null, at the end of get_paths, never aborts the program.      *)
(***************************************************************************)
PathsAreChecked ==
  route = <<>> =>
    \A id \in DOMAIN net.paths : CheckNonNull(net.paths[id], Links[net.topo])

(***************************************************************************)
(* What print_path of the fat trees names is the route: the switches and   *)
(* the host the queues lead to.                                            *)
(***************************************************************************)
Printed(r) ==
  CASE net.topo \in {"fat", "fat_odd"} -> Fat!PrintedPath(r)
    [] net.topo = "fat_input" -> FatInput!PrintedPath(r)
    [] net.topo = "over" -> Over!PrintedPath(r)
    [] net.topo = "multi" -> Multi!PrintedPath(r)
PrintsRoute ==
  route = <<>> /\ net.topo \in {"fat", "fat_input", "over", "multi"} =>
    \A id \in DOMAIN net.paths :
      LET queues == SelectSeq(net.paths[id].out, LAMBDA s : s.kind = "queue")
      IN Printed(net.paths[id]) = [i \in DOMAIN queues |-> queues[i].link[2][2]]

(***************************************************************************)
(* A packet that keeps being sent on arrives in the end, however often it  *)
(* is bounced on the way.                                                  *)
(***************************************************************************)
Arrives == <>(at.kind = "end" /\ ~bounced)
=============================================================================
