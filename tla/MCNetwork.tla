------------------------------- MODULE MCNetwork ------------------------------
(***************************************************************************)
(* What htsim2 builds a datacenter of, for TLC, one machine of four at a   *)
(* time: a packet on the routes of a topology, a port queue, the lossless  *)
(* switch with input queues, and the one with output queues only.  What    *)
(* does not belong to the machine chosen by Init keeps its initial value.  *)
(***************************************************************************)
EXTENDS PortQueue, LosslessSwitch

CONSTANTS Topologies, Sources, Flows, MaxBounces,
          Machines        \* the machines to choose from

VARIABLES machine,
          net, flow, route, nexthop, bounced, at, node, bounces

R == INSTANCE Datacenter

routeVars == <<net, flow, route, nexthop, bounced, at, node, bounces>>
allVars == <<machine, portVars, routeVars, vars>>

\* Traffic between two ports, and two senders for the same port beside it.
BothWays == {<<1, 2>>, <<2, 1>>}
Crossing == {<<1, 2>>, <<2, 1>>, <<3, 1>>}

Idle == "idle"

InitRoutes ==
  IF machine = "route" THEN R!Init
  ELSE /\ net = Idle /\ flow = Idle /\ route = Idle /\ nexthop = Idle
       /\ bounced = Idle /\ at = Idle /\ node = Idle /\ bounces = Idle

InitNetwork ==
  /\ machine \in Machines /\ InitRoutes /\ PortInit /\ Init
  /\ machine # "port" => port.kind = CHOOSE k \in Kinds : TRUE

On(m, A) == machine = m /\ A /\ UNCHANGED <<machine, portVars, routeVars>>
Port(A) == machine = "port" /\ A /\ UNCHANGED <<machine, routeVars, vars>>
Routed(A) == machine = "route" /\ A /\ UNCHANGED <<machine, portVars, vars>>

NextNetwork ==
  Port(PortNext) \/ Routed(R!Next) \/ On("input", Next) \/ On("switch", NextSwitch)

FairNetwork ==
  /\ WF_allVars(Port(CompletePortService)) /\ WF_allVars(Port(Go))
  /\ WF_allVars(Routed(R!SendPacket \/ R!SendOn))
  /\ \A i \in Ports : /\ WF_allVars(On("input", Transmit(i)))
                      /\ WF_allVars(On("input", Deliver(i)))
                      /\ WF_allVars(On("input", Leave(i)))
                      /\ WF_allVars(On("switch", Transmit(i)))
                      /\ WF_allVars(On("switch", DeliverToOutput(i)))
                      /\ WF_allVars(On("switch", LeaveOutput(i)))
                      /\ WF_allVars(On("input", NextHopGo(i)) \/ On("switch", NextHopGo(i)))

SpecNetwork == InitNetwork /\ [][NextNetwork]_allVars /\ FairNetwork

\* Every pause that an input queue sends, or an output queue of the other lossless
\* switch, is ended.  Of the latter this holds with two ports: with three, one
\* output kept busy by senders that another releases may hold a third for ever.
PausesEnd == machine \in {"input", "switch"} => PausedIsResumed

\* A packet stands where the topology has a link, on its way and on its way back, and the
\* paths of a pair of hosts are different routes.
RoutesAreSound == machine = "route" => R!FollowsLinks /\ R!PathsDiffer

\* A packet that is sent on arrives, however often it is bounced.
Arrives == <>(machine # "route" \/ (at.kind = "end" /\ ~bounced))

\* The inductive invariant of the proofs of the lossless switch.
InputInvariant == machine = "input" => IInv
===============================================================================
