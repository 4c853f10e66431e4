----------------------- MODULE OversubscribedFatTree -----------------------
(***************************************************************************)
(* htsim2/datacenter/oversubscribed_fat_tree_topology.{h,cpp}: a fat tree  *)
(* with 2K hosts, in place of K/2, on each lower switch.                   *)
(***************************************************************************)
EXTENDS Route

CONSTANT K   \* the macro K (8 in the header)

NK == (K * K) \div 2
NC == (K * K) \div 4
NSRV == K * K * K

HostPodSwitch(host) == (host \div 2) \div K
HostPod(host) == (host \div K) \div K
PodSwitches(pod) == ((pod * K) \div 2)..(((pod + 1) * K) \div 2 - 1)

Host(i) == <<"host", i>>
Lp(i) == <<"lp", i>>
Up(i) == <<"up", i>>
Core(i) == <<"core", i>>
Hosts == 0..(NSRV - 1)

\* init_network, layer by layer.
HostLinks ==
  Both({<<Host(j * 2 * K + l), Lp(j)>> : j \in 0..(NK - 1), l \in 0..(2 * K - 1)})
PodLinks ==
  Both(UNION {{<<Lp(j), Up(k)>> : k \in PodSwitches((2 * j) \div K)} :
                j \in 0..(NK - 1)})
CoreLinks ==
  Both({<<Up(j), Core(((j % (K \div 2)) * K) \div 2 + l)>> :
          j \in 0..(NK - 1), l \in 0..(K \div 2 - 1)})
Links == HostLinks \cup PodLinks \cup CoreLinks

\* get_paths: no reverse routes here, so nothing can be returned to sender.
SameSwitchPaths(src, dest) ==
  [id \in {0} |-> OneWay(<<Host(src), Lp(HostPodSwitch(src)), Host(dest)>>)]

SamePodPaths(src, dest) ==
  [upper \in PodSwitches(HostPod(src)) |->
     OneWay(<<Host(src), Lp(HostPodSwitch(src)), Up(upper),
              Lp(HostPodSwitch(dest)), Host(dest)>>)]

CoresOf(upper) ==
  LET first == (upper % (K \div 2)) * K
  IN (first \div 2)..((first + K) \div 2 - 1)

CorePaths(src, dest) ==
  [id \in {<<u, c>> \in PodSwitches(HostPod(src)) \X (0..(NC - 1)) : c \in CoresOf(u)} |->
     OneWay(<<Host(src), Lp(HostPodSwitch(src)), Up(id[1]), Core(id[2]),
              Up((HostPod(dest) * K) \div 2 + (2 * id[2]) \div K),
              Lp(HostPodSwitch(dest)), Host(dest)>>)]

GetPaths(src, dest) ==
  CASE HostPodSwitch(src) = HostPodSwitch(dest) -> SameSwitchPaths(src, dest)
    [] /\ HostPodSwitch(src) # HostPodSwitch(dest)
       /\ HostPod(src) = HostPod(dest) -> SamePodPaths(src, dest)
    [] OTHER -> CorePaths(src, dest)

GetNeighbours(src) ==
  {i + HostPodSwitch(src) * 2 * K : i \in 0..(2 * K - 1)} \ {src}

\* find_*_switch, find_destination and print_path, as in the fat tree.
PrintedPath(route) == NamesAlong(route, Links)
=============================================================================
