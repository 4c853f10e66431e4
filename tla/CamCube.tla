------------------------------ MODULE CamCube ------------------------------
(***************************************************************************)
(* htsim2/datacenter/camcubetopology.cpp: servers on a three-dimensional   *)
(* torus of side K, each with six interfaces.                              *)
(***************************************************************************)
EXTENDS Route

CONSTANT K   \* the macro K (5 in the header)

Axes  == 0..2
Hosts == 0..(K * K * K - 1)

\* address_from_srv and srv_from_address.
Address(srv) == [l \in Axes |-> (srv \div (K ^ l)) % K]
SrvFromAddress(address) == address[0] + address[1] * K + address[2] * K * K

\* Interface l leads one step up axis l, interface l + 3 one step down.
Far(srv, iface) ==
  LET l == iface % 3
  IN SrvFromAddress([Address(srv) EXCEPT ![l] =
                       IF iface < 3 THEN (@ + 1) % K ELSE (@ + K - 1) % K])
Host(srv) == <<"host", srv>>

\* init_network: queue and pipe of all the interfaces.
Links == {<<Host(i), Host(Far(i, iface))>> : i \in Hosts, iface \in 0..5}

\* get_distance: how far along an axis, and the interface of the shorter way.
GetDistance(src, dest, axis) ==
  LET down == (Address(src)[axis] + K - Address(dest)[axis]) % K
      up   == (Address(dest)[axis] + K - Address(src)[axis]) % K
  IN IF down < up THEN [hops |-> down, iface |-> axis + 3]
                  ELSE [hops |-> up, iface |-> axis]

(***************************************************************************)
(* get_paths_camcube: a step along any axis on which the destination is    *)
(* still away, and every path from there.                                  *)
(***************************************************************************)
Chains(src, dest) ==
  LET From[n \in Hosts] ==
        IF n = dest THEN {<<Host(n)>>}
        ELSE UNION {LET d == GetDistance(n, dest, axis)
                    IN IF d.hops = 0 THEN {}
                       ELSE {<<Host(n)>> \o chain : chain \in From[Far(n, d.iface)]} :
                      axis \in Axes}
  IN From[src]

\* get_paths: the first queue of a route is the priority queue of its interface.
GetPaths(src, dest) == [chain \in Chains(src, dest) |-> Queued(chain)]
=============================================================================
