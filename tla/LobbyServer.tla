----------------------------- MODULE LobbyServer -----------------------------
(***************************************************************************)
(* LobbyServer (port 7003).  A client asks for a game server (0x100): the  *)
(* server fetches the session key of the persona's customer, makes it the  *)
(* DES key of the connection if the connection has none, and answers with  *)
(* the key.  Later commands (0x1101) are DES-CBC both ways.                *)
(*                                                                         *)
(* A connection object is identified with its address (PortConnections).   *)
(* Handlers that wait for SQLite overlap: two clients of one address, a    *)
(* client that reconnects.                                                 *)
(* Operators marked "wrong on purpose" are for the mutant runs (README,    *)
(* "Mutants").                                                             *)
(***************************************************************************)
EXTENDS SessionTable, PortConnections, Naturals

CONSTANTS
  Requests,          \* the 0x100 packets clients send, each handled at most once
  DesKeys,           \* the keys whose skey createCipheriv takes for des-cbc
  CrashOnRejection   \* an unhandled rejection ends the process (Node >= 15)

ASSUME LobbyAssumption ==
  /\ DesKeys \subseteq Keys
  /\ CrashOnRejection \in BOOLEAN

VARIABLES
  cipher,   \* TCPConnection.encLobby: the DES key of cipher and decipher
  held,     \* bytes cipher.update keeps until it has a block of 8
  state,    \* how far the handling of each request has come
  request,  \* the address and the customer of each request
  row,      \* the row SQLite answered a request with
  owner     \* history: the customer whose request set the cipher

vars == <<sessions, up, home, open, sock, cipher, held, state, request, row,
          owner>>

objectVars  == <<cipher, held, owner>>
requestVars == <<state, request, row>>

NoRequest == [address |-> Unset, customer |-> None]

States ==
  {"unsent",
   "fetching",     \* waiting for SQLite
   "fetched",      \* SQLite has run the SELECT, its callback is due
   "failed",       \* SQLite failed, its callback is due
   "answered",     \* the reply was written to the object's sock
   "undelivered",  \* that sock was closed: the reply is dropped
   "rejected",     \* the handler threw
   "lost"}         \* the process ended first

Waiting == {"fetching", "fetched", "failed"}

Block   == 8
Content == 375   \* bytes of a command's reply before encryption

Init ==
  /\ sessions \in Tables
  /\ ConnectionsInit
  /\ cipher = [a \in Addresses |-> None]
  /\ held = [a \in Addresses |-> 0]
  /\ state = [r \in Requests |-> "unsent"]
  /\ request = [r \in Requests |-> NoRequest]
  /\ row = [r \in Requests |-> None]
  /\ owner = [a \in Addresses |-> None]

-----------------------------------------------------------------------------
\* The process ends: its objects and requests are gone, the replies it has
\* written stay written.
Down(s) ==
  /\ Stop
  /\ cipher' = [a \in Addresses |-> None]
  /\ held' = [a \in Addresses |-> 0]
  /\ owner' = [a \in Addresses |-> None]
  /\ state' = [r \in Requests |-> IF s[r] \in Waiting THEN "lost" ELSE s[r]]

\* A promise nobody handles is rejected; s is the state of the requests then,
\* rest what the handler did to its object.
Reject(s, rest) ==
  IF CrashOnRejection
  THEN Down(s)
  ELSE state' = s /\ rest /\ UNCHANGED connectionVars

-----------------------------------------------------------------------------
(* The listener, and the other server that uses the table.                 *)

Connect(s, a) == Accept(s, a) /\ UNCHANGED <<sessions, objectVars, requestVars>>

Close(s) == Leave(s) /\ UNCHANGED <<sessions, objectVars, requestVars>>

\* LoginServer stores a key.
StoreKey(c, key) ==
  /\ up
  /\ Insert(c, key)
  /\ UNCHANGED <<connectionVars, objectVars, requestVars>>

-----------------------------------------------------------------------------
(* _npsRequestGameConnectServer.                                           *)

\* A request for a persona of customer c: the handler up to the SELECT.
ReceiveConnect(r, s, c) ==
  /\ up
  /\ state[r] = "unsent"
  /\ Routed(s)
  /\ state' = [state EXCEPT ![r] = "fetching"]
  /\ request' = [request EXCEPT ![r] = [address |-> home[s], customer |-> c]]
  /\ UNCHANGED <<sessions, connectionVars, objectVars, row>>

\* SQLite's worker.
FetchRow(r) ==
  /\ up
  /\ state[r] = "fetching"
  /\ row' = [row EXCEPT ![r] = Fetched(request[r].customer)]
  /\ state' = [state EXCEPT ![r] = "fetched"]
  /\ UNCHANGED <<sessions, connectionVars, objectVars, request>>

FetchFails(r) ==
  /\ up
  /\ state[r] = "fetching"
  /\ state' = [state EXCEPT ![r] = "failed"]
  /\ UNCHANGED <<sessions, connectionVars, objectVars, request, row>>

\* Wrong on purpose: the ciphers are made anew for every request, of any key.
KeyAlways(a, r) ==
  /\ cipher' = [cipher EXCEPT ![a] = row[r]]
  /\ owner' = [owner EXCEPT ![a] = request[r].customer]

\* The connection has ciphers, or setEncryptionKeyDES makes them.
KeyOnce(a, r) ==
  \/ cipher[a] # None /\ UNCHANGED <<cipher, owner>>
  \/ /\ cipher[a] = None
     /\ row[r] \in DesKeys
     /\ cipher' = [cipher EXCEPT ![a] = row[r]]
     /\ owner' = [owner EXCEPT ![a] = request[r].customer]

\* The customer has a row and the connection ends up with ciphers.
Usable(r) ==
  /\ row[r] # None
  /\ cipher[request[r].address] # None \/ row[r] \in DesKeys

AnswerConnect(r) ==
  LET a == request[r].address
  IN  /\ up
      /\ state[r] = "fetched"
      /\ Usable(r)
      /\ Writable(a)
      /\ state' = [state EXCEPT ![r] = "answered"]
      /\ KeyOnce(a, r)
      /\ UNCHANGED <<sessions, connectionVars, held, request, row>>

\* The client has left: the ciphers are set all the same, the handler returns,
\* and the promise of the write is rejected with nobody to handle it.
AnswerNobody(r) ==
  LET a == request[r].address
  IN  /\ up
      /\ state[r] = "fetched"
      /\ Usable(r)
      /\ ~Writable(a)
      /\ Reject([state EXCEPT ![r] = "undelivered"],
                KeyOnce(a, r) /\ UNCHANGED held)
      /\ UNCHANGED <<sessions, request, row>>

\* Wrong on purpose: an undefined row settles nothing.
RejectFailed(r) ==
  /\ up
  /\ state[r] = "failed"
  /\ Reject([state EXCEPT ![r] = "rejected"], UNCHANGED objectVars)
  /\ UNCHANGED <<sessions, request, row>>

\* SQLite failed, the customer has no row (the callback is given undefined),
\* or its key is none for DES.
RejectConnect(r) ==
  /\ up
  /\ state[r] = "failed" \/ (state[r] = "fetched" /\ ~Usable(r))
  /\ Reject([state EXCEPT ![r] = "rejected"], UNCHANGED objectVars)
  /\ UNCHANGED <<sessions, request, row>>

-----------------------------------------------------------------------------
(* The packets that are handled without a wait.                            *)

\* sendCommand: the reply is what cipher.update gives out for its 375 bytes
\* and the ones it held back before.
Command(s) ==
  LET a == home[s]
  IN  /\ up
      /\ Routed(s)
      /\ cipher[a] # None
      /\ held' = [held EXCEPT ![a] = (@ + Content) % Block]
      /\ UNCHANGED <<sessions, connectionVars, cipher, owner, requestVars>>

\* A heartbeat is answered with a constant.
Heartbeat(s) == up /\ Routed(s) /\ UNCHANGED vars

\* A packet that ends in an error: not routed, an unknown code, a request for
\* a persona that does not exist, a command without ciphers or one that does
\* not decrypt to a header.
PacketRejected(s) ==
  /\ up
  /\ s \in open
  /\ Reject(state, UNCHANGED objectVars)
  /\ UNCHANGED <<sessions, request, row>>

-----------------------------------------------------------------------------
\* The process is killed, or another server's rejection ends it.
Crash ==
  /\ up
  /\ Down(state)
  /\ UNCHANGED <<sessions, request, row>>

Restart == Start /\ UNCHANGED <<sessions, objectVars, requestVars>>

SQLite(r) == FetchRow(r) \/ FetchFails(r)

Callback(r) == AnswerConnect(r) \/ AnswerNobody(r) \/ RejectConnect(r)

Next ==
  \/ \E s \in Sockets :
       \/ \E a \in Addresses : Connect(s, a)
       \/ Close(s)
       \/ \E r \in Requests, c \in Customers : ReceiveConnect(r, s, c)
       \/ Command(s)
       \/ Heartbeat(s)
       \/ PacketRejected(s)
  \/ \E c \in Customers, key \in Keys : StoreKey(c, key)
  \/ \E r \in Requests :
       \/ FetchRow(r)
       \/ FetchFails(r)
       \/ AnswerConnect(r)
       \/ AnswerNobody(r)
       \/ RejectConnect(r)
  \/ Crash
  \/ Restart

Spec == Init /\ [][Next]_vars

\* SQLite runs every statement it is given, and the event loop every callback.
FairSpec ==
  /\ Spec
  /\ \A r \in Requests : WF_vars(SQLite(r)) /\ WF_vars(Callback(r))

-----------------------------------------------------------------------------
(* Properties.                                                             *)

\* The values the variables take.
TypeOK ==
  /\ sessions \in Tables
  /\ ConnectionsTypeOK
  /\ cipher \in [Addresses -> DesKeys \cup {None}]
  /\ held \in [Addresses -> 0 .. Block - 1]
  /\ state \in [Requests -> States]
  /\ request \in [Requests -> [address : Addresses, customer : Customers]
                                \cup {NoRequest}]
  /\ row \in [Requests -> Keys \cup {None}]
  /\ owner \in [Addresses -> Customers \cup {None}]
  /\ ~up => \A r \in Requests : state[r] \notin Waiting

\* The key in a reply is the key of the connection's ciphers whenever the
\* customer it was fetched for is the one the ciphers were made for: however
\* its requests overlap with each other, with logins and with other customers
\* on the connection, also when the reply was written before a restart and
\* the ciphers are made after it (LobbyServer/index.ts:289).
OwnerRepliesMatchCipher ==
  \A r \in Requests :
    LET a == request[r].address
    IN  state[r] = "answered" /\ owner[a] = request[r].customer
          => row[r] = cipher[a]

\* A stream of commands is never re-keyed: of all the requests that overlap,
\* the first to be answered sets the ciphers, and they stay until the process
\* ends, whoever reconnects (LobbyServer/index.ts:290).
CiphersNeverReplaced ==
  [][\A a \in Addresses : cipher[a] # None /\ up' => cipher'[a] = cipher[a]]_vars

\* What a reply says: the customer of the request, and the key that was read
\* for it before the wait.
Answers ==
  [r \in Requests |->
     IF state[r] = "answered"
     THEN [customer |-> request[r].customer, key |-> row[r]]
     ELSE [customer |-> None, key |-> None]]

Service == INSTANCE KeyService
  WITH Connections <- Addresses, UsableKeys <- DesKeys, Rekeys <- FALSE,
       key <- cipher, answer <- Answers

\* Although a handler reads the row, waits and then uses what it read, while
\* keys are stored, other requests set the ciphers of its connection and its
\* client leaves, every reply and every cipher is what reading the row at the
\* moment of the reply would have given; the second customer of a connection
\* has its own key in the reply and the first one's cipher, and no reply is
\* written without a row and a usable cipher (LobbyServer/index.ts:319).
ImplementsKeyService == Service!Spec

\* Every request that waits for SQLite comes to an end
\* (LobbyServer/index.ts:285).
ConnectSettles ==
  \A r \in Requests : state[r] \in Waiting ~> state[r] \notin Waiting

\* "Takes a plaintext command packet, encrypts it, and sends it across the
\* connection's socket" (LobbyServer/index.ts:81): when a command has been
\* answered, no byte of the reply is left behind in the cipher.
CommandReplyIsWhole == \A a \in Addresses : held[a] = 0
=============================================================================
