------------------------- MODULE MultihomedFatTree -------------------------
(***************************************************************************)
(* htsim2/datacenter/multihomed_fat_tree_topology.{h,cpp}: a fat tree in   *)
(* which every host has a link to each of two lower switches, the even one *)
(* leading to the first half of the pod's upper switches and the odd one   *)
(* to the others.                                                          *)
(***************************************************************************)
EXTENDS Route

CONSTANT K   \* the macro K (12 in the header), a multiple of 6

NK == (K * K) \div 2
NLP == K * K
NC == (K * K) \div 4
NSRV == (K * K * K) \div 3

HostPodSwitch1(host) == 2 * (((3 * host) \div K) \div 2)
HostPodSwitch2(host) == HostPodSwitch1(host) + 1
HostPod(host) == (3 * host) \div (K * K)
MinPodId(pod) == (pod * K) \div 2
MaxPodId(pod) == ((pod + 1) * K) \div 2 - 1
MidPodId(pod) == (MinPodId(pod) + MaxPodId(pod)) \div 2
PodSwitches(pod) == MinPodId(pod)..MaxPodId(pod)

Host(i) == <<"host", i>>
Lp(i) == <<"lp", i>>
Up(i) == <<"up", i>>
Core(i) == <<"core", i>>
Hosts == 0..(NSRV - 1)

\* init_network, layer by layer.
HostLinks ==
  Both({<<Host(((j \div 2) * 2 * K) \div 3 + l), Lp(j)>> :
          j \in 0..(NLP - 1), l \in 0..((2 * K) \div 3 - 1)})
HalfPod(j) ==
  LET pod == j \div K
  IN IF j % 2 = 0 THEN MinPodId(pod)..MidPodId(pod)
                  ELSE (MidPodId(pod) + 1)..MaxPodId(pod)
PodLinks ==
  Both(UNION {{<<Lp(j), Up(k)>> : k \in HalfPod(j)} : j \in 0..(NLP - 1)})
CoreLinks ==
  Both({<<Up(j), Core(((j % (K \div 2)) * K) \div 2 + l)>> :
          j \in 0..(NK - 1), l \in 0..(K \div 2 - 1)})
Links == HostLinks \cup PodLinks \cup CoreLinks

(***************************************************************************)
(* get_paths.  The route starts with a queue of its own (pqueue); the      *)
(* lower switch on each side is the one whose half of the pod holds the    *)
(* upper switch.                                                           *)
(***************************************************************************)
SwitchFor(host, upper) ==
  IF upper <= MidPodId(HostPod(host)) THEN HostPodSwitch1(host)
                                      ELSE HostPodSwitch2(host)

SameSwitchPaths(src, dest) ==
  [id \in {1, 2} |->
     Queued(IF id = 1 THEN <<Host(src), Lp(HostPodSwitch1(src)), Host(dest)>>
                      ELSE <<Host(src), Lp(HostPodSwitch2(src)), Host(dest)>>)]

SamePodPaths(src, dest) ==
  [upper \in PodSwitches(HostPod(src)) |->
     Queued(<<Host(src), Lp(SwitchFor(src, upper)), Up(upper),
              Lp(SwitchFor(dest, upper)), Host(dest)>>)]

CoresOf(upper) ==
  LET first == (upper % (K \div 2)) * K
  IN (first \div 2)..((first + K) \div 2 - 1)

CorePaths(src, dest) ==
  [id \in {<<u, c>> \in PodSwitches(HostPod(src)) \X (0..(NC - 1)) : c \in CoresOf(u)} |->
     LET upper2 == (HostPod(dest) * K) \div 2 + (2 * id[2]) \div K
     IN Queued(<<Host(src), Lp(SwitchFor(src, id[1])), Up(id[1]), Core(id[2]),
                 Up(upper2), Lp(SwitchFor(dest, upper2)), Host(dest)>>)]

GetPaths(src, dest) ==
  CASE HostPodSwitch1(src) = HostPodSwitch1(dest) -> SameSwitchPaths(src, dest)
    [] /\ HostPodSwitch1(src) # HostPodSwitch1(dest)
       /\ HostPod(src) = HostPod(dest) -> SamePodPaths(src, dest)
    [] OTHER -> CorePaths(src, dest)

GetNeighbours(src) ==
  {i + (HostPodSwitch1(src) * K) \div 3 : i \in 0..((2 * K) \div 3 - 1)} \ {src}

\* find_*_switch, find_destination and print_path, as in the fat tree.
PrintedPath(route) == NamesAlong(route, Links)
=============================================================================
