------------------------ MODULE PortConnectionsProofs ------------------------
(***************************************************************************)
(* Proofs about the connections a port's handlers are given.               *)
(***************************************************************************)
EXTENDS PortConnections, TLAPS

\* The state a process starts in, and starts again in.
LEMMA ConnectionsStart ==
  ConnectionsInit => ConnectionsTypeOK /\ ConnectionsOK
BY UnsetAssumption DEF ConnectionsInit, ConnectionsTypeOK, ConnectionsOK

\* Every step of the connections keeps them together.
LEMMA ConnectionsStep ==
  ASSUME ConnectionsTypeOK, ConnectionsOK,
         ConnectionsNext \/ UNCHANGED connectionVars
  PROVE  (ConnectionsTypeOK /\ ConnectionsOK)'
<1>1. CASE \E s \in Sockets, a \in Addresses : Accept(s, a)
  BY <1>1, UnsetAssumption DEF ConnectionsTypeOK, ConnectionsOK, Accept
<1>2. CASE \E s \in Sockets : Leave(s)
  BY <1>2 DEF ConnectionsTypeOK, ConnectionsOK, Leave
<1>3. CASE Stop
  BY <1>3, UnsetAssumption DEF ConnectionsTypeOK, ConnectionsOK, Stop
<1>4. CASE Start
  BY <1>4 DEF ConnectionsTypeOK, ConnectionsOK, Start
<1>5. CASE UNCHANGED connectionVars
  BY <1>5 DEF ConnectionsTypeOK, ConnectionsOK, connectionVars
<1>6. QED
  BY <1>1, <1>2, <1>3, <1>4, <1>5 DEF ConnectionsNext

\* An open socket has an address with an object, and that object a socket of
\* the address; a stopped process has neither.
THEOREM ConnectionsHang == ConnectionsSpec => [](ConnectionsTypeOK /\ ConnectionsOK)
BY ConnectionsStart, ConnectionsStep, PTL DEF ConnectionsSpec
==============================================================================
