-------------------------------- MODULE Star --------------------------------
(***************************************************************************)
(* htsim2/datacenter/star_topology.cpp: every server has a link into and a *)
(* link out of one switch in the middle.                                   *)
(***************************************************************************)
EXTENDS Route

CONSTANT NSRV   \* 576 in the header

Hosts == 0..(NSRV - 1)
Host(i) == <<"host", i>>
Middle == <<"middle", 0>>

\* init_network.
Links == Both({<<Host(j), Middle>> : j \in Hosts})

GetPaths(src, dest) ==
  [id \in {0} |-> Queued(<<Host(src), Middle, Host(dest)>>)]
=============================================================================
