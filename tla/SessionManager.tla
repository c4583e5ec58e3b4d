--------------------------- MODULE SessionManager ---------------------------
(***************************************************************************)
(* The connection registry of the game server and the TCP listener that    *)
(* uses it: SessionManager (connection-mgr.ts), ListenerThread             *)
(* (listener-thread.ts) and the fields of TCPConnection they touch.        *)
(*                                                                         *)
(* The registry is an array of TCPConnection objects.  A client that comes *)
(* back from the same address to the same port gets the object of its      *)
(* earlier socket back, so sockets outnumber objects and several open      *)
(* sockets may share one object.  An object is identified here with the    *)
(* socket it was constructed for.                                          *)
(*                                                                         *)
(* Node runs one callback at a time.  A step is what runs between two      *)
(* waits of a handler for SQLite; the only interleaving is there.          *)
(*                                                                         *)
(* The operators marked "wrong on purpose" are plausible bugs, used by no  *)
(* definition: with one in the place of the operator after it, TLC finds a *)
(* property violated (README, "Mutants").                                  *)
(***************************************************************************)
EXTENDS SequencesExt

CONSTANTS
  Sockets,           \* the sockets clients open, each accepted at most once
  Addresses,         \* remote addresses
  Ports,             \* the ports MCServer listens on
  RoutedPorts,       \* the ports processData has a case for
  AwaitingPorts,     \* the routed ports with a handler that waits for SQLite
  LobbyPort,         \* 7003
  None,              \* no object, no endpoint
  MaxData,           \* bound: data events delivered per socket
  LookupThrows,      \* findConnectionByAddressAndPort throws on a miss (as
                     \* written); FALSE: it answers undefined, the case its
                     \* caller tests for
  CrashOnRejection   \* an unhandled rejection ends the process (Node >= 15)

ASSUME PortsAssumption ==
  /\ RoutedPorts \subseteq Ports
  /\ AwaitingPorts \subseteq RoutedPorts
  /\ LobbyPort \in AwaitingPorts

ASSUME NoneAssumption == None \notin Sockets /\ None \notin Addresses \X Ports

ASSUME BoundAssumption == MaxData \in Nat

ASSUME PolicyAssumption ==
  LookupThrows \in BOOLEAN /\ CrashOnRejection \in BOOLEAN

VARIABLES
  fault,        \* "none" while the process runs, else the error that ended it
  socket,       \* the state of each socket
  endpoint,     \* <<remoteAddress, localPort>> of each accepted socket
  captured,     \* the object the socket's 'data' callback closed over
  sent,         \* data events each socket has delivered
  connections,  \* SessionManager.connections
  sock,         \* TCPConnection.sock of each object
  inQueue,      \* TCPConnection.inQueue of each object
  awaiting      \* <<socket, n>>: _onData calls waiting for SQLite

vars == <<fault, socket, endpoint, captured, sent, connections, sock, inQueue,
          awaiting>>

Endpoints == Addresses \X Ports
Requests  == Sockets \X (1 .. MaxData)

UncaughtErrors ==
  {"unknown connection", "no address", "socket error", "unhandled rejection"}

-----------------------------------------------------------------------------
(* Operators of SessionManager.                                            *)

\* The objects in the registry.
Registered == ToSet(connections)

\* Wrong on purpose: the localPort is not compared.
MatchesAddressOnly(o, key) == endpoint[o] # None /\ endpoint[o][1] = key[1]

\* The predicate of find and findIndex.  An object's remoteAddress and
\* localPort are those of the socket it was constructed with.
Matches(o, key) == endpoint[o] = key

\* The first index whose object matches, 0 for JavaScript's -1.
IndexOf(key) ==
  IF \E i \in DOMAIN connections : Matches(connections[i], key)
  THEN CHOOSE i \in DOMAIN connections :
         /\ Matches(connections[i], key)
         /\ \A j \in 1 .. i - 1 : ~Matches(connections[j], key)
  ELSE 0

\* Wrong on purpose: connections.pop().
SplicedLast(index) == IF connections = <<>> THEN <<>> ELSE Front(connections)

\* connections.splice(index, 1): an index of -1 counts from the end, and so
\* removes the last element.
Spliced(index) ==
  IF connections = <<>> THEN <<>>
  ELSE RemoveAt(connections, IF index = 0 THEN Len(connections) ELSE index)

-----------------------------------------------------------------------------
Init ==
  /\ fault = "none"
  /\ socket = [s \in Sockets |-> "fresh"]
  /\ endpoint = [s \in Sockets |-> None]
  /\ captured = [s \in Sockets |-> None]
  /\ sent = [s \in Sockets |-> 0]
  /\ connections = <<>>
  /\ sock = [s \in Sockets |-> None]
  /\ inQueue = [s \in Sockets |-> TRUE]
  /\ awaiting = {}

Up == fault = "none"

\* The process ends: its memory is gone and the sockets it had are closed.
Crash(error, accepting) ==
  /\ fault' = error
  /\ socket' = [s \in Sockets |->
                  IF socket[s] = "fresh" /\ s \notin accepting
                  THEN "fresh" ELSE "closed"]
  /\ endpoint' = [s \in Sockets |-> None]
  /\ captured' = [s \in Sockets |-> None]
  /\ sent' = sent
  /\ connections' = <<>>
  /\ sock' = [s \in Sockets |-> None]
  /\ inQueue' = [s \in Sockets |-> TRUE]
  /\ awaiting' = {}

\* A new process: app.ts builds an empty SessionManager.
Restart ==
  /\ ~Up
  /\ fault' = "none"
  /\ UNCHANGED <<socket, endpoint, captured, sent, connections, sock, inQueue,
                 awaiting>>

-----------------------------------------------------------------------------
(* ListenerThread._listener: a client connects.                            *)

\* Wrong on purpose: the port is not looked at, or a known object keeps its
\* old socket.
AttachOnAnyPort(s, key, o) ==
  /\ socket' = [socket EXCEPT ![s] = "open"]
  /\ endpoint' = [endpoint EXCEPT ![s] = key]
  /\ captured' = [captured EXCEPT ![s] = o]
  /\ sock' = [sock EXCEPT ![o] = s]
  /\ inQueue' = [inQueue EXCEPT ![o] = FALSE]
  /\ UNCHANGED <<fault, sent, awaiting>>

AttachKeepingSock(s, key, o) ==
  /\ socket' = [socket EXCEPT ![s] = "open"]
  /\ endpoint' = [endpoint EXCEPT ![s] = key]
  /\ captured' = [captured EXCEPT ![s] = o]
  /\ sock' = IF sock[o] = None THEN [sock EXCEPT ![o] = s] ELSE sock
  /\ inQueue' = IF key[2] = LobbyPort
                THEN [inQueue EXCEPT ![o] = FALSE] ELSE inQueue
  /\ UNCHANGED <<fault, sent, awaiting>>

\* The part every accepted socket goes through, o being the object that
\* findOrNewConnection returned: its socket is replaced by the new one, and
\* on the lobby port it leaves the queue.
Attach(s, key, o) ==
  /\ socket' = [socket EXCEPT ![s] = "open"]
  /\ endpoint' = [endpoint EXCEPT ![s] = key]
  /\ captured' = [captured EXCEPT ![s] = o]
  /\ sock' = [sock EXCEPT ![o] = s]
  /\ inQueue' = IF key[2] = LobbyPort
                THEN [inQueue EXCEPT ![o] = FALSE] ELSE inQueue
  /\ UNCHANGED <<fault, sent, awaiting>>

\* The registry has an object for the address and port.
AcceptKnown(s, key) ==
  /\ Up
  /\ socket[s] = "fresh"
  /\ IndexOf(key) # 0
  /\ Attach(s, key, connections[IndexOf(key)])
  /\ UNCHANGED connections

\* Wrong on purpose: nothing is looked up, or a failed lookup is ignored.
AcceptNewAlways(s, key) ==
  /\ Up
  /\ socket[s] = "fresh"
  /\ connections' = Append(connections, s)
  /\ Attach(s, key, s)

\* It has none, and findOrNewConnection constructs and registers one.
AcceptNew(s, key) ==
  /\ Up
  /\ socket[s] = "fresh"
  /\ IndexOf(key) = 0
  /\ ~LookupThrows
  /\ connections' = Append(connections, s)
  /\ Attach(s, key, s)

\* It has none, and the lookup throws inside the 'connection' listener,
\* where nothing catches.
AcceptUnknown(s, key) ==
  /\ Up
  /\ socket[s] = "fresh"
  /\ IndexOf(key) = 0
  /\ LookupThrows
  /\ Crash("unknown connection", {s})

\* The client was gone before the listener ran: no remoteAddress, throw.
AcceptGone(s) ==
  /\ Up
  /\ socket[s] = "fresh"
  /\ Crash("no address", {s})

-----------------------------------------------------------------------------
(* ListenerThread._onData: a data event, its promise not awaited.          *)

\* Wrong on purpose: the old entry stays, or an undefined result is pushed.
PushConnection(o) == connections' = Append(connections, o)

PushNothing(o) == connections' = Append(Spliced(IndexOf(endpoint[o])), None)

\* _updateConnectionByAddressAndPort, with the object every handler resolves
\* to, the one it was given.
UpdateConnection(o) == connections' = Append(Spliced(IndexOf(endpoint[o])), o)

\* An error in _onData rejects a promise nobody handles.
Reject(rest) ==
  IF CrashOnRejection
  THEN Crash("unhandled rejection", {})
  ELSE rest /\ UNCHANGED <<fault, socket, endpoint, captured, connections,
                           sock, inQueue>>

\* The port processData switches on is that of the object's current socket,
\* which need not be the one the data came in on; a closed socket has none.
RoutedPort(o) == IF socket[sock[o]] = "open" THEN endpoint[sock[o]][2] ELSE None

Deliver(s) ==
  /\ Up
  /\ socket[s] = "open"
  /\ sent[s] < MaxData

\* The handler ran to its end without waiting for I/O.
DataHandled(s) ==
  /\ Deliver(s)
  /\ RoutedPort(captured[s]) \in RoutedPorts
  /\ sent' = [sent EXCEPT ![s] = @ + 1]
  /\ UpdateConnection(captured[s])
  /\ UNCHANGED <<fault, socket, endpoint, captured, sock, inQueue, awaiting>>

\* The handler waits for SQLite.
DataAwaits(s) ==
  /\ Deliver(s)
  /\ RoutedPort(captured[s]) \in AwaitingPorts
  /\ sent' = [sent EXCEPT ![s] = @ + 1]
  /\ awaiting' = awaiting \cup {<<s, sent[s] + 1>>}
  /\ UNCHANGED <<fault, socket, endpoint, captured, connections, sock, inQueue>>

\* The handler threw, or the port has no handler.
DataRejected(s) ==
  /\ Deliver(s)
  /\ Reject(sent' = [sent EXCEPT ![s] = @ + 1] /\ awaiting' = awaiting)

\* Wrong on purpose: the answer is dropped when the client has left.
ResumeOpenOnly(r) ==
  /\ Up
  /\ r \in awaiting
  /\ socket[r[1]] = "open"
  /\ UpdateConnection(captured[r[1]])
  /\ awaiting' = awaiting \ {r}
  /\ UNCHANGED <<fault, socket, endpoint, captured, sent, sock, inQueue>>

\* SQLite answered and the rest of the handler ran.
Resume(r) ==
  /\ Up
  /\ r \in awaiting
  /\ \/ /\ UpdateConnection(captured[r[1]])
        /\ awaiting' = awaiting \ {r}
        /\ UNCHANGED <<fault, socket, endpoint, captured, sent, sock, inQueue>>
     \/ Reject(awaiting' = awaiting \ {r} /\ sent' = sent)

-----------------------------------------------------------------------------
\* 'end', or an ECONNRESET: the socket is gone, its object stays registered.
Close(s) ==
  /\ Up
  /\ socket[s] = "open"
  /\ socket' = [socket EXCEPT ![s] = "closed"]
  /\ UNCHANGED <<fault, endpoint, captured, sent, connections, sock, inQueue,
                 awaiting>>

\* Any other socket error is thrown again inside the 'error' listener.  It may
\* come after the end: PersonaServer writes without asking whether it can.
SocketError(s) ==
  /\ Up
  /\ captured[s] # None
  /\ Crash("socket error", {})

\* GET /admin/connections/resetAllQueueState
ResetAllQueueState ==
  /\ Up
  /\ inQueue' = [o \in Sockets |-> IF o \in Registered THEN TRUE ELSE inQueue[o]]
  /\ UNCHANGED <<fault, socket, endpoint, captured, sent, connections, sock,
                 awaiting>>

Next ==
  \/ \E s \in Sockets :
       \/ \E key \in Endpoints :
            AcceptKnown(s, key) \/ AcceptNew(s, key) \/ AcceptUnknown(s, key)
       \/ AcceptGone(s)
       \/ DataHandled(s)
       \/ DataAwaits(s)
       \/ DataRejected(s)
       \/ Close(s)
       \/ SocketError(s)
  \/ \E r \in Requests : Resume(r)
  \/ ResetAllQueueState
  \/ Restart

Spec == Init /\ [][Next]_vars

\* node-sqlite3 calls back for every statement it was given.
FairSpec == Spec /\ \A r \in Requests : WF_vars(Resume(r))

-----------------------------------------------------------------------------
(* Properties.                                                             *)

\* The values the variables take.
TypeOK ==
  /\ fault \in UncaughtErrors \cup {"none"}
  /\ socket \in [Sockets -> {"fresh", "open", "closed"}]
  /\ endpoint \in [Sockets -> Endpoints \cup {None}]
  /\ captured \in [Sockets -> Sockets \cup {None}]
  /\ sent \in [Sockets -> Nat]
  /\ connections \in Seq(Sockets)
  /\ sock \in [Sockets -> Sockets \cup {None}]
  /\ inQueue \in [Sockets -> BOOLEAN]
  /\ awaiting \subseteq Requests

\* The array never holds two entries for one address and port, although
\* every handled packet takes its entry out and pushes it back and handlers
\* that overlapped at SQLite do so in any order (connection-mgr.ts:230).
EndpointsUnique ==
  \A i, j \in DOMAIN connections :
    endpoint[connections[i]] = endpoint[connections[j]] => i = j

\* The array has as many entries as addresses and ports have connected since
\* the process began: it grows with every new one, and is never longer or
\* shorter than that, however packets and late answers take entries out and
\* push them back (connection-mgr.ts:283).
RegistrySize ==
  Len(connections) = Cardinality({endpoint[s] : s \in Sockets} \ {None})

\* The object a socket's callback closed over is still in the array, so that
\* findIndex never answers -1 and splice never removes another client's
\* entry (connection-mgr.ts:234).
CapturedRegistered ==
  \A s \in Sockets : captured[s] # None => captured[s] \in Registered

\* Handlers write to the sock of their connection object, which is that of
\* the newest client on the object.  Whichever socket a request came in on,
\* the reply stays with the same remote address and port
\* (connection-mgr.ts:270).
RepliesStayAtAddress ==
  \A s \in Sockets :
    captured[s] # None => endpoint[sock[captured[s]]] = endpoint[s]

\* A connection leaves the queue only when a client of its own connects to
\* the lobby port: no request, however late its SQLite answer, takes back a
\* reset the administrator made (listener-thread.ts:108).
QueueLeftByLobbyConnectOnly ==
  [][\A o \in Sockets :
       inQueue[o] /\ ~inQueue'[o] =>
         \E s \in Sockets :
           /\ captured[s] = None /\ captured'[s] = o
           /\ endpoint'[s] = endpoint'[o] /\ endpoint'[s][2] = LobbyPort]_vars

\* How sockets and objects hang together, which the properties above rest on:
\* an open socket, one with an address and a waiting request have an object;
\* the object has the address and port of every socket that shares it; its sock
\* is one of those; a socket not yet accepted has neither
\* (tcpConnection.ts:77).
SocketsMatchObjects ==
  /\ \A s \in Sockets :
       /\ captured[s] # None =>
            endpoint[s] \in Endpoints /\ endpoint[captured[s]] = endpoint[s]
       /\ endpoint[s] # None \/ socket[s] = "open" => captured[s] # None
       /\ socket[s] = "fresh" => captured[s] = None /\ endpoint[s] = None
  /\ \A r \in awaiting : captured[r[1]] # None
  /\ \A o \in Registered :
       /\ captured[o] = o
       /\ sock[o] # None /\ captured[sock[o]] = o

\* As written, the lookup throws for the first client of every process, so
\* the array stays empty: no packet of any client reaches a handler
\* (connection-mgr.ts:184).
ThrowingLookupServesNobody ==
  LookupThrows => connections = <<>> /\ \A s \in Sockets : socket[s] # "open"

\* The array implements a table that only the end of the process empties.
Table == INSTANCE ConnectionTable
           WITH Keys <- Endpoints, Objects <- Sockets,
                table <- {<<endpoint[o], o>> : o \in Registered}

ImplementsTable == Table!TableSpec

\* To the handlers of a port, the registry is a connection object for each
\* address, there until the process ends, whose sock is the newest socket of
\* that address; the array's order, the splices, the sockets of other ports
\* and the late answers do not show (connection-mgr.ts:268).
Port(p) == INSTANCE PortConnections
             WITH Unset <- None,
                  up <- Up,
                  home <- [s \in Sockets |->
                             IF endpoint[s] # None /\ endpoint[s][2] = p
                             THEN endpoint[s][1] ELSE None],
                  open <- {s \in Sockets : socket[s] = "open" /\ endpoint[s][2] = p},
                  sock <- [a \in Addresses |->
                             IF \E o \in Registered : Matches(o, <<a, p>>)
                             THEN sock[CHOOSE o \in Registered : Matches(o, <<a, p>>)]
                             ELSE None]

ImplementsPorts ==
  /\ \A p \in Ports : Port(p)!ConnectionsInit
  /\ [][\A p \in Ports :
          Port(p)!ConnectionsNext \/ UNCHANGED Port(p)!connectionVars]_vars

\* Every request that waits for SQLite is taken up again, the ones whose
\* client has left included (listener-thread.ts:53).
AwaitingSettles == \A r \in Requests : r \in awaiting ~> r \notin awaiting

\* "Return an existing connection, or a new one" (connection-mgr.ts:248): no
\* client with an address is answered with the lookup's error.
UnknownClientIsAdded == fault # "unknown connection"
=============================================================================
