------------------------------- MODULE BCube -------------------------------
(***************************************************************************)
(* htsim2/datacenter/bcube_topology.cpp.  A server has an address of       *)
(* NumLevels + 1 digits below NumPorts and a link to one switch on every   *)
(* level; the servers of a switch differ in that level's digit only, and   *)
(* packets travel from server to server through the switches.              *)
(***************************************************************************)
EXTENDS Route

CONSTANTS NumPorts,  \* ports_per_switch
          NumLevels  \* no_of_levels, _K: the levels are 0.._K

Levels == 0..NumLevels
NumSrv == NumPorts ^ (NumLevels + 1)
NumSw  == ((NumLevels + 1) * NumSrv) \div NumPorts
Hosts  == 0..(NumSrv - 1)

\* address_from_srv and srv_from_address: the digits of a server's number.
Address(srv) == [i \in Levels |-> (srv \div (NumPorts ^ i)) % NumPorts]
SrvFromAddress(address) ==
  FoldFunction(+, 0, [i \in Levels |-> address[i] * NumPorts ^ i])

\* switch_from_srv: the number left when the level's digit is taken out.
SwitchFromSrv(srv, level) ==
  FoldFunction(+, 0,
    [i \in Levels \ {level} |->
       Address(srv)[i] * NumPorts ^ (IF i > level THEN i - 1 ELSE i)])

Host(srv) == <<"host", srv>>
Sw(srv, level) == <<"switch", level, SwitchFromSrv(srv, level)>>

\* init_network: one link up and one link down for every server and level.
Links == Both({<<Host(i), Sw(i, k)>> : i \in Hosts, k \in Levels})

\* get_neighbours: the servers that differ in exactly one digit.
GetNeighbours(src) ==
  {SrvFromAddress([Address(src) EXCEPT ![level] = digit]) :
     level \in Levels, digit \in 0..(NumPorts - 1)} \ {src}

(***************************************************************************)
(* get_neighbour draws a digit other than the server's own.  The draw is   *)
(* `shift', for every level how far the digit moves.                       *)
(***************************************************************************)
Shifts == [Levels -> 1..(NumPorts - 1)]
GetNeighbour(src, level, shift) ==
  SrvFromAddress([Address(src) EXCEPT ![level] = (@ + shift[level]) % NumPorts])

(***************************************************************************)
(* bcube_routing corrects the digits in the order permutation[_K], ...,    *)
(* permutation[0].  Before step i those of the later positions are         *)
(* corrected.                                                              *)
(***************************************************************************)
ServerBefore(i, src, dest, permutation) ==
  SrvFromAddress([level \in Levels |->
     IF \E m \in Levels : m > i /\ permutation[m] = level
     THEN Address(dest)[level] ELSE Address(src)[level]])

HopsOfStep(i, src, dest, permutation) ==
  LET level == permutation[i]
      next == ServerBefore(i - 1, src, dest, permutation)
  IN IF Address(src)[level] = Address(dest)[level] THEN <<>>
     ELSE <<Sw(next, level), Host(next)>>

BCubeRouting(src, dest, permutation) ==
  <<Host(src)>> \o
     FlattenSeq([n \in 1..(NumLevels + 1) |->
        HopsOfStep(NumLevels + 1 - n, src, dest, permutation)])

(***************************************************************************)
(* dc_routing corrects level i first, and then the levels below it, round  *)
(* the end.                                                                *)
(***************************************************************************)
From_First(i) == [m \in Levels |-> m]   \* FAULT: the same order for every path
From(i) == [m \in Levels |-> (i - (NumLevels - m)) % (NumLevels + 1)]

DcRouting(src, dest, i) == BCubeRouting(src, dest, From(i))

(***************************************************************************)
(* alt_dc_routing first goes to a neighbour c that differs from the source *)
(* on level i, then corrects the levels below i and, at the end, i again.  *)
(***************************************************************************)
AltDcRouting(src, dest, i, c) ==
  BCubeRouting(src, c, [m \in Levels |-> m])
    \o Tail(BCubeRouting(c, dest, From(i - 1)))

GetPaths(src, dest, shift) ==
  [i \in Levels |->
     Queued(IF Address(src)[i] # Address(dest)[i] THEN DcRouting(src, dest, i)
            ELSE AltDcRouting(src, dest, i, GetNeighbour(src, i, shift)))]
=============================================================================
