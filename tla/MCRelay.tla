------------------------------- MODULE MCRelay -------------------------------
(* Topologies for the runs of Relay.                                       *)
EXTENDS Relay

CONSTANTS gs, ls1, ls2, client, agent
Via(x, s) == [from |-> x, to |-> s]

Together == <<Via(client, gs), Via(agent, gs)>>
ThreeUp ==
  {<<Via(client, ls1), Via(ls1, gs), Via(agent, gs)>>,
   <<Via(client, gs), Via(ls1, gs), Via(agent, ls1)>>}
FarApart == {<<Via(client, ls1), Via(ls1, gs), Via(ls2, gs), Via(agent, ls2)>>}
Topologies == {Together} \cup ThreeUp \cup FarApart
NoneUp == {<<>>}

(* At one server a full queue each way takes four messages, of one stream; nobody
   dials there.  Elsewhere two are asked. *)
InBounds ==
  IF Via(agent, gs) = conns[2] THEN Len(conns) = 2 /\ Len(streams) <= 1 ELSE Len(asks) <= 2

MCRelaySpec ==
  RelayInit /\ [][RelayNext /\ InBounds']_relayVars /\ WF_relayVars(TaskStep /\ InBounds')
==============================================================================
