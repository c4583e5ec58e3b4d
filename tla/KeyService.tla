----------------------------- MODULE KeyService -----------------------------
(***************************************************************************)
(* What LobbyServer and the game server make of the session table: a       *)
(* request names a customer, and the server takes the customer's key for   *)
(* the request's connection and answers.  Here a request is served in one  *)
(* step, with the row as it is in that step.  The servers read the row,    *)
(* wait for SQLite's callback and use what they have read, while rows are  *)
(* stored, other requests of the connection are served and clients come    *)
(* and go; that nobody can tell is LobbyServer!ImplementsKeyService and    *)
(* TCPManager!ImplementsKeyService.  Journey is built on this: it          *)
(* implements the service twice (Journey!ImplementsServices).              *)
(***************************************************************************)
EXTENDS SessionTable

CONSTANTS
  Requests,      \* the requests clients send, each served at most once
  Connections,   \* the connection objects
  UsableKeys,    \* the keys the server's cipher takes
  Rekeys         \* a connection takes the key of every request it is served,
                 \* not only that of the first

VARIABLES
  key,      \* the key of each connection, None without one
  answer    \* the customer and the key each request was answered for

vars == <<sessions, key, answer>>

NoAnswer == [customer |-> None, key |-> None]

Init ==
  /\ sessions \in Tables
  /\ key = [a \in Connections |-> None]
  /\ answer = [r \in Requests |-> NoAnswer]

\* Connection a takes key k, or keeps the one it has.
Takes(a, k) ==
  \/ key[a] # None /\ ~Rekeys /\ UNCHANGED key
  \/ /\ key[a] = None \/ Rekeys
     /\ k \in UsableKeys
     /\ key' = [key EXCEPT ![a] = k]

\* Customer c has a row, and its key is used on a.
Serves(a, c) ==
  /\ Fetched(c) # None
  /\ Takes(a, Fetched(c))
  /\ UNCHANGED sessions

Answered(r, a, c) ==
  /\ answer[r] = NoAnswer
  /\ Serves(a, c)
  /\ answer' = [answer EXCEPT ![r] = [customer |-> c, key |-> Fetched(c)]]

\* The client has left: the reply reaches nobody.
Unanswered(a, c) == Serves(a, c) /\ UNCHANGED answer

\* LoginServer stores a key.
Stored(c, k) == Insert(c, k) /\ UNCHANGED <<key, answer>>

\* The process ends, and the connections with it.
Forget ==
  /\ key' = [a \in Connections |-> None]
  /\ UNCHANGED <<sessions, answer>>

Next ==
  \/ \E a \in Connections, c \in Customers :
       (\E r \in Requests : Answered(r, a, c)) \/ Unanswered(a, c)
  \/ \E c \in Customers, k \in Keys : Stored(c, k)
  \/ Forget

Spec == Init /\ [][Next]_vars
=============================================================================
