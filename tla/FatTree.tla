------------------------------ MODULE FatTree ------------------------------
(***************************************************************************)
(* htsim2/datacenter/fat_tree_topology.{h,cpp}: the fat tree of K-port     *)
(* switches, its links and the paths between two hosts.                    *)
(***************************************************************************)
EXTENDS Route

CONSTANTS NoOfNodes,  \* the argument no_of_nodes of the constructor
          Input       \* the queue type is LOSSLESS_INPUT or LOSSLESS_INPUT_ECN

(***************************************************************************)
(* set_params takes the first K whose tree has at least no_of_nodes hosts  *)
(* and exits if it has more.  An odd K passes when (K^3)/4, rounded down,  *)
(* happens to be the number asked for.                                     *)
(***************************************************************************)
K == CHOOSE k \in 0..(4 * NoOfNodes) :
       /\ (k * k * k) \div 4 >= NoOfNodes
       /\ \A smaller \in 0..(k - 1) : (smaller * smaller * smaller) \div 4 < NoOfNodes
Accepted == (K * K * K) \div 4 = NoOfNodes
NK == (K * K) \div 2
NC == (K * K) \div 4
NSRV == (K * K * K) \div 4

HostPodSwitch(host) == (2 * host) \div K
HostPod(host) == host \div NC
PodSwitches(pod) == ((pod * K) \div 2)..(((pod + 1) * K) \div 2 - 1)

Host(i) == <<"host", i>>
Lp(i) == <<"lp", i>>
Up(i) == <<"up", i>>
Core(i) == <<"core", i>>
Hosts == 0..(NSRV - 1)

(***************************************************************************)
(* init_network creates the queue and the pipe of both directions of every *)
(* link; the queues and pipes it does not create stay NULL.                *)
(***************************************************************************)
HostLinks ==
  Both({<<Host((j * K) \div 2 + l), Lp(j)>> :
          j \in 0..(NK - 1), l \in 0..(K \div 2 - 1)})
PodLinks ==
  Both(UNION {{<<Lp(j), Up(k)>> : k \in PodSwitches((2 * j) \div K)} :
                j \in 0..(NK - 1)})
CoreLinks ==
  Both({<<Up(j), Core(((j % (K \div 2)) * K) \div 2 + l)>> :
          j \in 0..(NK - 1), l \in 0..(K \div 2 - 1)})
Links == HostLinks \cup PodLinks \cup CoreLinks

\* Paths in the switch both hosts hang from.
SameSwitchPaths(src, dest) ==
  [id \in {0} |->
     TwoWay(<<Host(src), Lp(HostPodSwitch(src)), Host(dest)>>,
            <<Host(dest), Lp(HostPodSwitch(dest)), Host(src)>>, Input)]

\* Paths inside the pod: one for each of its upper switches.
SamePodPaths(src, dest) ==
  [upper \in PodSwitches(HostPod(src)) |->
     TwoWay(<<Host(src), Lp(HostPodSwitch(src)), Up(upper),
              Lp(HostPodSwitch(dest)), Host(dest)>>,
            <<Host(dest), Lp(HostPodSwitch(dest)), Up(upper),
              Lp(HostPodSwitch(src)), Host(src)>>, Input)]

(***************************************************************************)
(* Paths through the core: one for each core switch of each upper switch   *)
(* of the source's pod, down the only link to the destination's pod.       *)
(***************************************************************************)
CoresOf(upper) ==
  LET first == (upper % (K \div 2)) * K
  IN (first \div 2)..((first + K) \div 2 - 1)

CorePaths(src, dest) ==
  [id \in {<<u, c>> \in PodSwitches(HostPod(src)) \X (0..(NC - 1)) : c \in CoresOf(u)} |->
     LET upper2 == (HostPod(dest) * K) \div 2 + (2 * id[2]) \div K
     IN TwoWay(<<Host(src), Lp(HostPodSwitch(src)), Up(id[1]), Core(id[2]),
                 Up(upper2), Lp(HostPodSwitch(dest)), Host(dest)>>,
               <<Host(dest), Lp(HostPodSwitch(dest)), Up(upper2), Core(id[2]),
                 Up(id[1]), Lp(HostPodSwitch(src)), Host(src)>>, Input)]

GetPaths(src, dest) ==
  CASE HostPodSwitch(src) = HostPodSwitch(dest) -> SameSwitchPaths(src, dest)
    [] /\ HostPodSwitch(src) # HostPodSwitch(dest)
       /\ HostPod(src) = HostPod(dest) -> SamePodPaths(src, dest)
    [] OTHER -> CorePaths(src, dest)

(***************************************************************************)
(* find_lp_switch, find_up_switch, find_core_switch and find_destination   *)
(* (the layers "lp", "up", "core" and "host") look a sink up in the queues *)
(* that lead to their layer; print_path looks up every second sink.        *)
(***************************************************************************)
PrintedPath(route) == NamesAlong(route, Links)
=============================================================================
