-------------------------------- MODULE VL2 --------------------------------
(***************************************************************************)
(* htsim2/datacenter/vl2_topology.cpp: servers under ToR switches, every   *)
(* ToR under two aggregation switches, and every aggregation switch under  *)
(* every intermediate switch.                                              *)
(***************************************************************************)
EXTENDS Route

CONSTANTS NI, NA, NT, NS   \* main.h: 3, 6, 9 and 20

Hosts == 0..(NS * NT - 1)

\* The macros of main.h; NT2A is 2.
HostTor(host) == host \div NS
TorAgg1(tor) == tor % NA
TorAgg2(tor) == (10 * NA - tor - 1) % NA

Host(i) == <<"host", i>>
Tor(i) == <<"tor", i>>
Agg(i) == <<"agg", i>>
Inter(i) == <<"int", i>>

\* init_network.
Links ==
  Both({<<Host(j * NS + k), Tor(j)>> : j \in 0..(NT - 1), k \in 0..(NS - 1)}
       \cup {<<Tor(j), Agg(TorAgg1(j))>> : j \in 0..(NT - 1)}
       \cup {<<Tor(j), Agg(TorAgg2(j))>> : j \in 0..(NT - 1)}
       \cup {<<Inter(j), Agg(k)>> : j \in 0..(NI - 1), k \in 0..(NA - 1)})

(***************************************************************************)
(* get_paths: 4 * NI routes between two ToRs.  Route i crosses             *)
(* intermediate switch i / 4; the half of i chooses the aggregation switch *)
(* on the way up and its parity the one on the way down.                   *)
(***************************************************************************)
SameTorPath(src, dest) ==
  [i \in {0} |-> Queued(<<Host(src), Tor(HostTor(src)), Host(dest)>>)]

IntPaths(src, dest) ==
  [i \in 0..(4 * NI - 1) |->
     LET tor == HostTor(src)
         tor2 == HostTor(dest)
         agg == IF i < 2 * NI THEN TorAgg1(tor) ELSE TorAgg2(tor)
         agg2 == IF i % 2 = 0 THEN TorAgg1(tor2) ELSE TorAgg2(tor2)
     IN Queued(<<Host(src), Tor(tor), Agg(agg), Inter(i \div 4), Agg(agg2),
                 Tor(tor2), Host(dest)>>)]

GetPaths(src, dest) ==
  IF HostTor(src) = HostTor(dest) THEN SameTorPath(src, dest)
                                  ELSE IntPaths(src, dest)
=============================================================================
