----------------------------- MODULE MCTCPManager -----------------------------
\* TCPManager on one address: three sockets and three messages of one customer,
\* or two sockets and two messages of two customers, with flags that encipher,
\* that do not, and that mark a heartbeat.
EXTENDS TCPManager, TLC, FiniteSets

CONSTANT Second   \* the customer who comes with fewer sockets and messages

\* No definition names a packet, a socket or a key; Second is a customer.
Symmetry == Permutations(Messages) \cup Permutations(Sockets) \cup Permutations(Keys)

SecondIsThere ==
  sessions[Second] # None \/ \E m \in Messages : message[m].customer = Second

\* The second customer has a key, or has been named in a connect, only where
\* two sockets at most have been opened and one message is left unsent.
Bounded ==
  SecondIsThere =>
    /\ Cardinality({s \in Sockets : home[s] # Unset}) <= 2
    /\ \E m \in Messages : state[m] = "unsent"

MCSpec == Init /\ [][Next /\ Bounded']_vars
===============================================================================
