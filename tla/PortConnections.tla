--------------------------- MODULE PortConnections ---------------------------
(***************************************************************************)
(* What SessionManager and ListenerThread give the handlers of one port: a *)
(* connection object for each address, for the life of the process, whose  *)
(* sock is the newest socket of that address.  SessionManager implements   *)
(* it (SessionManager!ImplementsPorts); the servers are built on it.        *)
(***************************************************************************)
CONSTANTS
  Addresses,   \* remote addresses
  Sockets,     \* the sockets clients open
  Unset        \* no address, no socket

ASSUME UnsetAssumption == Unset \notin Addresses \cup Sockets

VARIABLES
  up,     \* the process runs
  home,   \* the address of each socket this process accepted on the port
  open,   \* the sockets of the port that are open
  sock    \* TCPConnection.sock of each address's object, Unset without one

connectionVars == <<up, home, open, sock>>

ConnectionsInit ==
  /\ up = TRUE
  /\ home = [s \in Sockets |-> Unset]
  /\ open = {}
  /\ sock = [a \in Addresses |-> Unset]

\* A client connects: the object of its address gets its socket.
Accept(s, a) ==
  /\ up
  /\ home[s] = Unset
  /\ home' = [home EXCEPT ![s] = a]
  /\ open' = open \cup {s}
  /\ sock' = [sock EXCEPT ![a] = s]
  /\ up' = up

\* It leaves: the object keeps its socket.
Leave(s) ==
  /\ up
  /\ s \in open
  /\ open' = open \ {s}
  /\ UNCHANGED <<up, home, sock>>

\* The process ends, and its sockets and objects with it.
Stop ==
  /\ up
  /\ up' = FALSE
  /\ home' = [s \in Sockets |-> Unset]
  /\ open' = {}
  /\ sock' = [a \in Addresses |-> Unset]

Start == ~up /\ up' = TRUE /\ UNCHANGED <<home, open, sock>>

ConnectionsNext ==
  \/ \E s \in Sockets : (\E a \in Addresses : Accept(s, a)) \/ Leave(s)
  \/ Stop
  \/ Start

ConnectionsSpec == ConnectionsInit /\ [][ConnectionsNext]_connectionVars

\* A handler writes to the sock its object has when it writes.
Writable(a) == sock[a] \in open

\* processData switches on the port of the object's sock; a closed socket has
\* none, and the packet is thrown away with an error.
Routed(s) == s \in open /\ sock[home[s]] \in open

\* The values the variables take.
ConnectionsTypeOK ==
  /\ up \in BOOLEAN
  /\ home \in [Sockets -> Addresses \cup {Unset}]
  /\ open \subseteq Sockets
  /\ sock \in [Addresses -> Sockets \cup {Unset}]

\* How they hang together: an open socket has an address, whose object has a
\* socket of that address; nothing is left when the process is down.
ConnectionsOK ==
  /\ \A s \in Sockets : home[s] # Unset => sock[home[s]] # Unset
  /\ \A a \in Addresses : sock[a] # Unset => home[sock[a]] = a
  /\ \A s \in open : home[s] # Unset
  /\ ~up => \A s \in Sockets : home[s] = Unset
=============================================================================
