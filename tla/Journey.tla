------------------------------- MODULE Journey -------------------------------
(***************************************************************************)
(* The way of a client through the servers: a ticket from AuthLogin, a     *)
(* shard from PatchServer, a login that stores its session key, a persona  *)
(* of its customer, a request for a game server in the lobby, a connect to *)
(* the game server.  What carries it from one server to the next is the    *)
(* session table and what the client was told.                             *)
(*                                                                         *)
(* A client is one run of the game program, with an address and a session  *)
(* key of its own; what happens between clients that share an address is   *)
(* in LobbyServer and TCPManager.  A row that was fetched is used at once, *)
(* as in KeyService, which both implement.  Operators marked "wrong on     *)
(* purpose" are for the mutant runs (README, "Mutants").                   *)
(***************************************************************************)
EXTENDS SessionTable, PersonaMaps, FiniteSets

CONSTANTS
  Clients,           \* the clients, each of which plays once
  Personas,          \* PersonaServer's list,
  PersonaOwner,      \* the customer of each record
  PersonaShard,      \* and its shard
  MappedCustomers,   \* and the customers it answers with a list
  Contexts,          \* the context ids LoginServer knows
  ContextCustomer,   \* the customer of each
  AuthTicket,        \* the context id AuthLogin gives everyone
  SignedCustomers,   \* the customers whose id fits in a signed 32-bit integer:
                     \* writeInt32BE accepts it, readInt32LE gives it back
  UsableKeys,        \* the session keys long enough for DES and RC4
  PossibleShards,    \* the shards PatchServer makes
  ActiveShards,      \* and lists
  ReplyPersona       \* the persona LobbyServer names in every reply

INSTANCE PersonaServer

INSTANCE PatchServer

ASSUME JourneyAssumption ==
  /\ PersonaOwner \in [Personas -> Customers]
  /\ PersonaShard \in [Personas -> PossibleShards]
  /\ ActiveShards \subseteq PossibleShards
  /\ ReplyPersona \in Personas
  /\ IsFiniteSet(Personas)
  /\ ContextCustomer \in [Contexts -> Customers]
  /\ AuthTicket \in Contexts
  /\ SignedCustomers \subseteq Customers
  /\ UsableKeys \subseteq Keys
  /\ None \notin Personas \cup Contexts

\* The constants of LoginServer, PersonaServer, PatchServer and LobbyServer
\* agree this far: who can be told of a login has personas, the one that
\* LobbyServer names among them, and they are all on the shard that is listed.
ASSUME TablesAgree ==
  /\ \A x \in Contexts :
       ContextCustomer[x] \in SignedCustomers =>
         ReplyPersona \in PersonaMaps(ContextCustomer[x])
  /\ \A p \in Personas, s \in ActiveShards : PersonaShard[p] = s

VARIABLES
  step,       \* how far each client has come
  context,    \* external, the client: its ticket
  key,        \* external, the client: its session key
  shard,      \* external, the client: the shard it chose
  customer,   \* external, the client: the customer id it was told
  offered,    \* external, the client: the personas on its list
  persona,    \* external, the client: the one it chose
  named,      \* external, the client: the one LobbyServer named
  cipher,     \* the DES key of its lobby connection
  stream      \* the RC4 key of its game connection

loginVars == <<context, key, customer>>
choiceVars == <<shard, offered, persona, named>>
clientVars == <<loginVars, choiceVars>>
vars == <<sessions, step, clientVars, cipher, stream>>

Steps == {"start", "ticketed", "sharded", "stored", "loggedIn", "chosen", "inLobby",
          "playing",
          "refused",    \* a server answered with an error, or not at all
          "failed",     \* SQLite failed
          "gone"}       \* the process ended

Init ==
  /\ sessions \in Tables
  /\ step = [c \in Clients |-> "start"]
  /\ context = [c \in Clients |-> None]
  /\ key = [c \in Clients |-> None]
  /\ shard = [c \in Clients |-> None]
  /\ customer = [c \in Clients |-> None]
  /\ offered = [c \in Clients |-> {}]
  /\ persona = [c \in Clients |-> None]
  /\ named = [c \in Clients |-> None]
  /\ cipher = [c \in Clients |-> None]
  /\ stream = [c \in Clients |-> None]

\* Client c was at step from and comes to step to.
Moves(c, from, to) ==
  /\ step[c] = from
  /\ step' = [step EXCEPT ![c] = to]

-----------------------------------------------------------------------------
(* AuthLogin, PatchServer and LoginServer.                                 *)

\* AuthLogin's ticket, the same for everyone.
GetTicket(c) ==
  /\ Moves(c, "start", "ticketed")
  /\ context' = [context EXCEPT ![c] = AuthTicket]
  /\ UNCHANGED <<sessions, key, customer, choiceVars, cipher, stream>>

\* Another one that LoginServer knows, which the client has from elsewhere.
BringTicket(c, x) ==
  /\ Moves(c, "start", "ticketed")
  /\ x # AuthTicket
  /\ context' = [context EXCEPT ![c] = x]
  /\ UNCHANGED <<sessions, key, customer, choiceVars, cipher, stream>>

\* The shard list, and the client's choice s, whose entry has the addresses of
\* the other servers.
PickShard(c, s) ==
  /\ Moves(c, "ticketed", "sharded")
  /\ s \in ShardList
  /\ shard' = [shard EXCEPT ![c] = s]
  /\ UNCHANGED <<sessions, loginVars, offered, persona, named, cipher, stream>>

\* The other pages are constants.
PatchRequest(page) == page \in Pages /\ UNCHANGED vars

\* _userLogin up to the INSERT, which stores the key.
Login(c, k) ==
  /\ Moves(c, "sharded", "stored")
  /\ Insert(ContextCustomer[context[c]], k)
  /\ key' = [key EXCEPT ![c] = k]
  /\ UNCHANGED <<context, customer, choiceVars, cipher, stream>>

\* The customer has a row.
LoginRefused(c) ==
  /\ Moves(c, "sharded", "refused")
  /\ ~Accepts(ContextCustomer[context[c]])
  /\ UNCHANGED <<sessions, clientVars, cipher, stream>>

\* Wrong on purpose: everyone is told the customer of AuthLogin's ticket.
PremadeReply(c) ==
  LET id == ContextCustomer[AuthTicket]
  IN  /\ Moves(c, "stored", "loggedIn")
      /\ customer' = [customer EXCEPT ![c] = id]
      /\ UNCHANGED <<sessions, context, key, choiceVars, cipher, stream>>

\* The reply names the customer, if its id fits.
LoginReply(c) ==
  LET id == ContextCustomer[context[c]]
  IN  /\ Moves(c, "stored", "loggedIn")
      /\ id \in SignedCustomers
      /\ customer' = [customer EXCEPT ![c] = id]
      /\ UNCHANGED <<sessions, context, key, choiceVars, cipher, stream>>

LoginOverflows(c) ==
  /\ Moves(c, "stored", "refused")
  /\ ContextCustomer[context[c]] \notin SignedCustomers
  /\ UNCHANGED <<sessions, clientVars, cipher, stream>>

-----------------------------------------------------------------------------
(* PersonaServer.                                                          *)

\* The records of S, in some order.
Lists(S) ==
  {list \in [1 .. Cardinality(S) -> S] : \A p \in S : \E i \in DOMAIN list : list[i] = p}

\* getPersonaMaps, and the client's choice p of the personas it reads; an empty
\* list is an error.
ChoosePersona(c, p) ==
  \E list \in Lists(PersonaMaps(customer[c])) :
    LET ids == ReadIds(list)
    IN  /\ Moves(c, "loggedIn", IF ids = {} THEN "refused" ELSE "chosen")
        /\ p \in IF ids = {} THEN {None} ELSE ids
        /\ offered' = [offered EXCEPT ![c] = ids]
        /\ persona' = [persona EXCEPT ![c] = p]
        /\ UNCHANGED <<sessions, loginVars, shard, named, cipher, stream>>

\* Selecting a persona, a new account, a name, a plate, a logout: all are
\* answered with constants.
PersonaRequest(c) == step[c] \in {"loggedIn", "chosen"} /\ UNCHANGED vars

-----------------------------------------------------------------------------
(* LobbyServer and the game server.                                        *)

\* Wrong on purpose: the key is not tried on a cipher first.
LobbyConnectUnchecked(c) ==
  LET row == Fetched(CustomerOf(persona[c]))
  IN  /\ Moves(c, "chosen", "inLobby")
      /\ cipher' = [cipher EXCEPT ![c] = row]
      /\ named' = [named EXCEPT ![c] = ReplyPersona]
      /\ UNCHANGED <<sessions, loginVars, shard, offered, persona, stream>>

\* Wrong on purpose: the reply names any record of the list.
LobbyConnectNamesAny(c) ==
  LET row == Fetched(CustomerOf(persona[c]))
  IN  /\ Moves(c, "chosen", "inLobby")
      /\ row \in UsableKeys
      /\ cipher' = [cipher EXCEPT ![c] = row]
      /\ \E p \in Personas : named' = [named EXCEPT ![c] = p]
      /\ UNCHANGED <<sessions, loginVars, shard, offered, persona, stream>>

\* The key of the persona's customer becomes that of the connection; the reply
\* names the same persona to everyone.
LobbyConnect(c) ==
  LET row == Fetched(CustomerOf(persona[c]))
  IN  /\ Moves(c, "chosen", "inLobby")
      /\ row \in UsableKeys
      /\ cipher' = [cipher EXCEPT ![c] = row]
      /\ named' = [named EXCEPT ![c] = ReplyPersona]
      /\ UNCHANGED <<sessions, loginVars, shard, offered, persona, stream>>

LobbyRefused(c) ==
  /\ Moves(c, "chosen", "refused")
  /\ Fetched(CustomerOf(persona[c])) \notin UsableKeys
  /\ UNCHANGED <<sessions, clientVars, cipher, stream>>

\* The game server reads the id as signed 32 bits (readInt32LE): one that does
\* not fit becomes a negative number, which no row has.
RowForId(id) == IF id \in SignedCustomers THEN Fetched(id) ELSE None

\* clientConnect, with the customer id the client was told; nothing in it
\* needs the lobby to have been asked first.
GameConnect(c) ==
  LET row == RowForId(customer[c])
  IN  /\ Moves(c, step[c], "playing")
      /\ step[c] \in {"chosen", "inLobby"}
      /\ row \in UsableKeys
      /\ stream' = [stream EXCEPT ![c] = row]
      /\ UNCHANGED <<sessions, clientVars, cipher>>

GameRefused(c) ==
  /\ Moves(c, step[c], "refused")
  /\ step[c] \in {"chosen", "inLobby"}
  /\ RowForId(customer[c]) \notin UsableKeys
  /\ UNCHANGED <<sessions, clientVars, cipher, stream>>

-----------------------------------------------------------------------------
\* The INSERT or a SELECT fails.
SQLiteFails(c) ==
  /\ \E from \in {"sharded", "chosen", "inLobby"} : Moves(c, from, "failed")
  /\ UNCHANGED <<sessions, clientVars, cipher, stream>>

\* The process ends and is started again.  A client that waits for the reply to
\* its login, or is in the lobby or plays, is gone, and its row is not; one on
\* its way from a server to the next goes on with the new process.
Crash ==
  /\ step' = [c \in Clients |->
               IF step[c] \in {"stored", "inLobby", "playing"} THEN "gone" ELSE step[c]]
  /\ cipher' = [c \in Clients |-> None]
  /\ stream' = [c \in Clients |-> None]
  /\ UNCHANGED <<sessions, clientVars>>

Next ==
  \/ \E c \in Clients :
       \/ GetTicket(c)
       \/ \E x \in Contexts : BringTicket(c, x)
       \/ \E s \in PossibleShards : PickShard(c, s)
       \/ \E k \in Keys : Login(c, k)
       \/ LoginRefused(c)
       \/ LoginReply(c)
       \/ LoginOverflows(c)
       \/ \E p \in Personas \cup {None} : ChoosePersona(c, p)
       \/ PersonaRequest(c)
       \/ LobbyConnect(c)
       \/ LobbyRefused(c)
       \/ GameConnect(c)
       \/ GameRefused(c)
       \/ SQLiteFails(c)
  \/ \E page \in Pages : PatchRequest(page)
  \/ Crash

Spec == Init /\ [][Next]_vars

-----------------------------------------------------------------------------
(* Properties.                                                             *)

\* The values the variables take.
TypeOK ==
  /\ sessions \in Tables
  /\ step \in [Clients -> Steps]
  /\ context \in [Clients -> Contexts \cup {None}]
  /\ key \in [Clients -> Keys \cup {None}]
  /\ shard \in [Clients -> PossibleShards \cup {None}]
  /\ customer \in [Clients -> Customers \cup {None}]
  /\ offered \in [Clients -> SUBSET Personas]
  /\ persona \in [Clients -> Personas \cup {None}]
  /\ named \in [Clients -> Personas \cup {None}]
  /\ cipher \in [Clients -> UsableKeys \cup {None}]
  /\ stream \in [Clients -> UsableKeys \cup {None}]

\* A client that was told of its login is not sent away later: whatever
\* persona it chooses of those it is offered, lobby and game server find the
\* row its login stored, though one looks for the persona's customer and the
\* other for the customer the client names, in fewer bits than the row is stored
\* with (LobbyServer/index.ts:281, client-connect-msg.ts:58).
LoggedInIsServed ==
  \A c \in Clients :
    customer[c] # None /\ key[c] \in UsableKeys => step[c] # "refused"

\* The keys the lobby and the game server use for a client are the one it
\* chose, across other clients' logins and restarts of the process
\* (tcp-manager.ts:213).
PlayersShareKeys ==
  \A c \in Clients :
    /\ cipher[c] \in {None, key[c]}
    /\ stream[c] \in {None, key[c]}

\* A client finds all personas of its customer on its list and no others, in
\* whatever order they are: each name is written over the head of the record
\* after it before that one is written, ids included
\* (nps-persona-maps-msg.ts:152).
OffersAreComplete ==
  \A c \in Clients :
    persona[c] # None => offered[c] = {p \in Personas : PersonaOwner[p] = customer[c]}

\* The persona a client chooses is on the shard it chose before its login,
\* though PatchServer's list, which is not the one it keeps, and the records
\* of PersonaServer know nothing of each other (patch-server.ts:165).
ChosenIsOnShard ==
  \A c \in Clients : persona[c] # None => PersonaShard[persona[c]] = shard[c]

\* LobbyServer names one persona to everyone, not always the one that asked,
\* but never that of another customer (LobbyServer/index.ts:316).
NamedIsOwn ==
  \A c \in Clients : named[c] # None => PersonaOwner[named[c]] = customer[c]

Nothing == [customer |-> None, key |-> None]

\* What a client has stored, and what the lobby's reply to it was made from.
StoredLogins ==
  [c \in Clients |->
     IF key[c] = None THEN Nothing
     ELSE [customer |-> ContextCustomer[context[c]], key |-> key[c]]]

LobbyAnswers ==
  [c \in Clients |->
     IF named[c] = None THEN Nothing
     ELSE [customer |-> PersonaOwner[persona[c]],
           key |-> sessions[PersonaOwner[persona[c]]]]]

LoginServer == INSTANCE LoginService
  WITH Logins <- Clients, stored <- StoredLogins,
       told <- {c \in Clients : customer[c] # None}

LobbyServer == INSTANCE KeyService
  WITH Requests <- Clients, Connections <- Clients, Rekeys <- FALSE,
       key <- cipher, answer <- LobbyAnswers

\* The game server's reply is a constant.
GameServer == INSTANCE KeyService
  WITH Requests <- Clients, Connections <- Clients, Rekeys <- TRUE,
       key <- stream, answer <- [c \in Clients |-> Nothing]

\* A client meets the servers as the services they implement
\* (LoginServer!ImplementsLoginService, LobbyServer!ImplementsKeyService,
\* TCPManager!ImplementsKeyService), all three on one table, also when the
\* process dies under it (LoginServer/index.ts:199).
ImplementsServices == LoginServer!Spec /\ LobbyServer!Spec /\ GameServer!Spec

\* No two clients were ever told of a login of one customer.  AuthLogin gives
\* everyone the same ticket, so of all the clients that come with it only one
\* gets in, in the life of the database (AuthLogin/index.ts:50).
PlayersAreDistinct ==
  \A c, d \in Clients :
    customer[c] # None /\ customer[c] = customer[d] => c = d
=============================================================================
