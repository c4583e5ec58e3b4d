---------------------------- MODULE JourneyProofs ----------------------------
(***************************************************************************)
(* Proofs about Journey, for any clients, users and personas whose tables  *)
(* agree as JourneyAssumption and TablesAgree say, and from any table of   *)
(* sessions an earlier process may have left.                              *)
(***************************************************************************)
EXTENDS Journey, PersonaMapsProofs, SequenceTheorems, FiniteSetTheorems, TLAPS

CustomerAt(c) == ContextCustomer[context[c]]

\* A client that has a key has stored it, for a customer nobody else has.
KeysAreStored ==
  /\ \A c \in Clients :
       /\ step[c] \in {"start", "ticketed", "sharded"} => key[c] = None
       /\ step[c] \in {"ticketed", "sharded"} => context[c] \in Contexts
       /\ step[c] \in {"stored", "loggedIn", "chosen", "inLobby"} => key[c] # None
       /\ key[c] # None =>
            context[c] \in Contexts /\ sessions[CustomerAt(c)] = key[c]
  /\ \A c, d \in Clients :
       key[c] # None /\ key[d] # None /\ CustomerAt(c) = CustomerAt(d) => c = d

\* What a client was told is true, and it chose from what is its own.
ToldTheTruth ==
  \A c \in Clients :
    /\ step[c] \in {"loggedIn", "chosen", "inLobby"} => customer[c] # None
    /\ customer[c] # None =>
         /\ key[c] # None
         /\ customer[c] = CustomerAt(c)
         /\ customer[c] \in SignedCustomers
    /\ step[c] \in {"chosen", "inLobby"} => persona[c] \in PersonasOf(customer[c])
    /\ step[c] \in {"start", "ticketed", "sharded", "stored"} => customer[c] = None
    /\ step[c] \in {"start", "ticketed", "sharded", "stored", "loggedIn"} =>
         persona[c] = None /\ named[c] = None
    /\ step[c] = "chosen" => named[c] = None
    /\ persona[c] # None => customer[c] # None /\ persona[c] \in PersonasOf(customer[c])
    /\ named[c] # None => persona[c] # None
    /\ step[c] \in {"sharded", "stored", "loggedIn"} => shard[c] \in ActiveShards

\* The inductive invariant.
Inv ==
  /\ TypeOK /\ KeysAreStored /\ ToldTheTruth /\ LoggedInIsServed
  /\ PlayersShareKeys /\ OffersAreComplete /\ ChosenIsOnShard /\ NamedIsOwn

LEMMA InvImplies == Inv => PlayersAreDistinct
BY DEF Inv, KeysAreStored, ToldTheTruth, PlayersAreDistinct

LEMMA InitInv == Init => Inv
BY DEF Init, Inv, TypeOK, KeysAreStored, ToldTheTruth, LoggedInIsServed,
       PlayersShareKeys, OffersAreComplete, ChosenIsOnShard, NamedIsOwn, Steps

\* The tuples of variables stand for their members in every proof below.
USE DEF loginVars, choiceVars, clientVars

\* A step that changes nothing but how far clients have come, and what they
\* were told in the lobby.
LEMMA OnlyStepInv ==
  ASSUME Inv, UNCHANGED <<sessions, loginVars, shard, offered, persona>>,
         named' \in [Clients -> Personas \cup {None}],
         \A c \in Clients :
           \/ named'[c] = named[c]
           \/ PersonaOwner[named'[c]] = customer[c] /\ step'[c] = "inLobby",
         step' \in [Clients -> Steps],
         \A c \in Clients :
           \/ step'[c] = step[c]
           \/ step'[c] \in {"failed", "gone"}
           \/ step'[c] \in {"inLobby", "playing"} /\ step[c] \in {"chosen", "inLobby"}
           \/ /\ step'[c] = "refused"
              /\ customer[c] # None => key[c] \notin UsableKeys,
         cipher' \in [Clients -> UsableKeys \cup {None}],
         stream' \in [Clients -> UsableKeys \cup {None}],
         \A c \in Clients : cipher'[c] \in {None, key[c]} /\ stream'[c] \in {None, key[c]}
  PROVE  Inv'
<1>1. TypeOK'
  BY DEF Inv, TypeOK
<1>2. KeysAreStored'
  <2>1. \A c \in Clients : CustomerAt(c)' = CustomerAt(c)
    BY DEF CustomerAt
  <2>2. QED
    BY <2>1 DEF Inv, KeysAreStored
<1>3. ToldTheTruth'
  BY JourneyAssumption DEF Inv, ToldTheTruth, CustomerAt, PersonasOf
<1>4. LoggedInIsServed' /\ PlayersShareKeys'
  BY DEF Inv, LoggedInIsServed, PlayersShareKeys
<1>5. OffersAreComplete' /\ ChosenIsOnShard' /\ NamedIsOwn'
  BY DEF Inv, OffersAreComplete, ChosenIsOnShard, NamedIsOwn
<1>6. QED
  BY <1>1, <1>2, <1>3, <1>4, <1>5 DEF Inv

\* The rows of a logged-in client, as lobby and game server find them.
LEMMA RowsFound ==
  ASSUME Inv, NEW c \in Clients, step[c] \in {"chosen", "inLobby"}
  PROVE  /\ customer[c] # None /\ key[c] # None
         /\ RowForId(customer[c]) = key[c]
         /\ Fetched(customer[c]) = key[c]
         /\ Fetched(CustomerOf(persona[c])) = key[c]
         /\ ReplyPersona \in Personas /\ PersonaOwner[ReplyPersona] = customer[c]
<1>1. /\ customer[c] # None /\ key[c] # None
      /\ Fetched(customer[c]) = key[c]
      /\ Fetched(CustomerOf(persona[c])) = key[c]
  BY DEF Inv, KeysAreStored, ToldTheTruth, Fetched, CustomerOf, PersonasOf
<1>2. /\ context[c] \in Contexts /\ customer[c] = ContextCustomer[context[c]]
      /\ customer[c] \in SignedCustomers
  BY <1>1 DEF Inv, KeysAreStored, ToldTheTruth, CustomerAt
<1>3. ReplyPersona \in PersonaMaps(customer[c])
  BY <1>2, TablesAgree
<1>4. QED
  BY <1>1, <1>2, <1>3 DEF PersonaMaps, PersonasOf, RowForId

LEMMA ConnectInv ==
  ASSUME Inv, NEW c \in Clients,
         \/ LobbyConnect(c) \/ LobbyRefused(c)
         \/ GameConnect(c) \/ GameRefused(c)
  PROVE  Inv'
<1>1. CASE LobbyConnect(c)
  <2>1. /\ step[c] = "chosen" /\ key[c] \in UsableKeys
        /\ step' = [step EXCEPT ![c] = "inLobby"]
        /\ cipher' = [cipher EXCEPT ![c] = key[c]]
        /\ named' = [named EXCEPT ![c] = ReplyPersona]
        /\ UNCHANGED <<sessions, loginVars, shard, offered, persona, stream>>
        /\ ReplyPersona \in Personas /\ PersonaOwner[ReplyPersona] = customer[c]
    BY <1>1, RowsFound DEF LobbyConnect, Moves
  <2>2. QED
    BY <2>1, OnlyStepInv DEF Inv, TypeOK, PlayersShareKeys, Steps
<1>2. CASE GameConnect(c)
  <2>1. /\ step[c] \in {"chosen", "inLobby"} /\ key[c] \in UsableKeys
        /\ step' = [step EXCEPT ![c] = "playing"]
        /\ stream' = [stream EXCEPT ![c] = key[c]]
        /\ UNCHANGED <<sessions, clientVars, cipher>>
    BY <1>2, RowsFound DEF GameConnect, Moves
  <2>2. QED
    BY <2>1, OnlyStepInv DEF Inv, TypeOK, PlayersShareKeys, Steps
<1>3. CASE LobbyRefused(c) \/ GameRefused(c)
  <2>1. /\ step[c] \in {"chosen", "inLobby"} /\ key[c] \notin UsableKeys
        /\ step' = [step EXCEPT ![c] = "refused"]
        /\ UNCHANGED <<sessions, clientVars, cipher, stream>>
    BY <1>3, RowsFound DEF LobbyRefused, GameRefused, Moves
  <2>2. QED
    BY <2>1, OnlyStepInv DEF Inv, TypeOK, PlayersShareKeys, Steps
<1>4. QED
  BY <1>1, <1>2, <1>3

LEMMA TicketInv ==
  ASSUME Inv, NEW c \in Clients, NEW x \in Contexts,
         Moves(c, "start", "ticketed"),
         context' = [context EXCEPT ![c] = x],
         UNCHANGED <<sessions, key, customer, choiceVars, cipher, stream>>
  PROVE  Inv'
<1>1. /\ step[c] = "start" /\ step' = [step EXCEPT ![c] = "ticketed"]
      /\ key[c] = None /\ customer[c] = None
  BY DEF Moves, Inv, KeysAreStored, ToldTheTruth
<1>2. \A d \in Clients : d # c => context'[d] = context[d]
  BY DEF Inv, TypeOK
<1>3. context'[c] = x
  BY DEF Inv, TypeOK
<1>4. TypeOK'
  BY <1>1 DEF Inv, TypeOK, Steps
<1>5. KeysAreStored'
  BY <1>1, <1>2, <1>3 DEF Inv, TypeOK, KeysAreStored, CustomerAt
<1>6. ToldTheTruth'
  BY <1>1, <1>2 DEF Inv, TypeOK, ToldTheTruth, CustomerAt
<1>7. LoggedInIsServed' /\ PlayersShareKeys'
  BY <1>1 DEF Inv, TypeOK, LoggedInIsServed, PlayersShareKeys
<1>8. OffersAreComplete' /\ ChosenIsOnShard' /\ NamedIsOwn'
  BY DEF Inv, OffersAreComplete, ChosenIsOnShard, NamedIsOwn
<1>9. QED
  BY <1>4, <1>5, <1>6, <1>7, <1>8 DEF Inv

\* A client that picks a shard has chosen no persona yet.
LEMMA ShardInv ==
  ASSUME Inv, NEW c \in Clients, NEW s \in PossibleShards, PickShard(c, s)
  PROVE  Inv'
<1>1. /\ step[c] = "ticketed" /\ step' = [step EXCEPT ![c] = "sharded"]
      /\ shard' = [shard EXCEPT ![c] = s] /\ s \in ActiveShards
      /\ UNCHANGED <<sessions, loginVars, offered, persona, named, cipher, stream>>
      /\ key[c] = None /\ customer[c] = None /\ context[c] \in Contexts
      /\ persona[c] = None /\ named[c] = None
  BY DEF PickShard, Moves, ShardList, Inv, KeysAreStored, ToldTheTruth
<1>2. TypeOK'
  BY <1>1 DEF Inv, TypeOK, Steps
<1>3. KeysAreStored'
  BY <1>1 DEF Inv, TypeOK, KeysAreStored, CustomerAt
<1>4. ToldTheTruth'
  BY <1>1 DEF Inv, TypeOK, ToldTheTruth, CustomerAt
<1>5. LoggedInIsServed' /\ PlayersShareKeys'
  BY <1>1 DEF Inv, TypeOK, LoggedInIsServed, PlayersShareKeys
<1>6. OffersAreComplete' /\ ChosenIsOnShard' /\ NamedIsOwn'
  BY <1>1 DEF Inv, TypeOK, OffersAreComplete, ChosenIsOnShard, NamedIsOwn
<1>7. QED
  BY <1>2, <1>3, <1>4, <1>5, <1>6 DEF Inv

\* An INSERT is taken for a customer nobody has stored a key for.
LEMMA LoginInv ==
  ASSUME Inv, NEW c \in Clients, NEW k \in Keys, Login(c, k)
  PROVE  Inv'
<1>1. /\ step[c] = "sharded" /\ step' = [step EXCEPT ![c] = "stored"]
      /\ key[c] = None /\ customer[c] = None /\ context[c] \in Contexts
      /\ CustomerAt(c) \in Customers /\ sessions[CustomerAt(c)] = None
  BY JourneyAssumption
  DEF Login, Moves, Insert, Accepts, CustomerAt, Inv, KeysAreStored, ToldTheTruth
<1>2. /\ sessions' = [sessions EXCEPT ![CustomerAt(c)] = k]
      /\ key' = [key EXCEPT ![c] = k]
      /\ UNCHANGED <<context, customer, choiceVars, cipher, stream>>
  BY DEF Login, Insert, CustomerAt
<1>3. \A d \in Clients : CustomerAt(d)' = CustomerAt(d)
  BY <1>2 DEF CustomerAt
<1>4. \A d \in Clients :
        key[d] # None => /\ CustomerAt(d) \in Customers
                         /\ CustomerAt(d) # CustomerAt(c)
  BY <1>1, JourneyAssumption DEF Inv, KeysAreStored, CustomerAt
<1>5. TypeOK'
  BY <1>1, <1>2 DEF Inv, TypeOK, Tables, Steps
<1>6. KeysAreStored'
  BY <1>1, <1>2, <1>3, <1>4, NoRowAssumption DEF Inv, TypeOK, Tables, KeysAreStored
<1>7. ToldTheTruth'
  BY <1>1, <1>2, <1>3, NoRowAssumption DEF Inv, TypeOK, ToldTheTruth
<1>8. cipher[c] = None /\ stream[c] = None
  BY <1>1 DEF Inv, PlayersShareKeys
<1>9. LoggedInIsServed' /\ PlayersShareKeys'
  BY <1>1, <1>2, <1>8 DEF Inv, TypeOK, LoggedInIsServed, PlayersShareKeys
<1>10. OffersAreComplete' /\ ChosenIsOnShard' /\ NamedIsOwn'
  BY <1>2 DEF Inv, OffersAreComplete, ChosenIsOnShard, NamedIsOwn
<1>11. QED
  BY <1>5, <1>6, <1>7, <1>9, <1>10 DEF Inv

LEMMA LoginReplyInv ==
  ASSUME Inv, NEW c \in Clients, LoginReply(c)
  PROVE  Inv'
<1>1. /\ step[c] = "stored" /\ step' = [step EXCEPT ![c] = "loggedIn"]
      /\ customer' = [customer EXCEPT ![c] = CustomerAt(c)]
      /\ CustomerAt(c) \in SignedCustomers /\ CustomerAt(c) \in Customers
      /\ UNCHANGED <<sessions, context, key, choiceVars, cipher, stream>>
      /\ persona[c] = None /\ named[c] = None
  BY JourneyAssumption DEF LoginReply, Moves, CustomerAt, Inv, KeysAreStored,
     ToldTheTruth
<1>2. key[c] # None
  BY <1>1 DEF Inv, KeysAreStored
<1>3. TypeOK'
  BY <1>1 DEF Inv, TypeOK, Steps
<1>4. KeysAreStored'
  BY <1>1 DEF Inv, TypeOK, KeysAreStored, CustomerAt
<1>5. ToldTheTruth'
  BY <1>1, <1>2, NoRowAssumption DEF Inv, TypeOK, ToldTheTruth, CustomerAt
<1>6. LoggedInIsServed' /\ PlayersShareKeys'
  BY <1>1 DEF Inv, TypeOK, LoggedInIsServed, PlayersShareKeys
<1>7. OffersAreComplete' /\ ChosenIsOnShard' /\ NamedIsOwn'
  BY <1>1 DEF Inv, TypeOK, OffersAreComplete, ChosenIsOnShard, NamedIsOwn
<1>8. QED
  BY <1>3, <1>4, <1>5, <1>6, <1>7 DEF Inv

\* Whatever the order of a list, a client reads the personas on it.
LEMMA ListIsRead ==
  ASSUME NEW S, IsFiniteSet(S), NEW list \in Lists(S)
  PROVE  ReadIds(list) = S
<1>1. Cardinality(S) \in Nat
  BY FS_CardinalityType
<1>2. list \in Seq(S)
  BY <1>1 DEF Lists
<1>3. Len(list) \in Nat /\ DOMAIN list = 1 .. Len(list)
  BY <1>2, LenProperties
<1>4. ReadIds(list) = {list[i] : i \in DOMAIN list}
  BY <1>3, IdsReadBack
<1>5. QED
  BY <1>4 DEF Lists

\* A client that was told of its login is offered all its personas.
LEMMA ChooseInv ==
  ASSUME Inv, NEW c \in Clients, NEW p \in Personas \cup {None},
         ChoosePersona(c, p)
  PROVE  Inv'
<1>1. step[c] = "loggedIn"
  BY DEF ChoosePersona, Moves
<1>2. PersonaMaps(customer[c]) # {}
  BY <1>1, TablesAgree DEF Inv, KeysAreStored, ToldTheTruth, CustomerAt
<1>3. PICK list \in Lists(PersonaMaps(customer[c])) :
        LET ids == ReadIds(list)
        IN  /\ Moves(c, "loggedIn", IF ids = {} THEN "refused" ELSE "chosen")
            /\ p \in IF ids = {} THEN {None} ELSE ids
            /\ offered' = [offered EXCEPT ![c] = ids]
            /\ persona' = [persona EXCEPT ![c] = p]
            /\ UNCHANGED <<sessions, loginVars, shard, named, cipher, stream>>
  BY DEF ChoosePersona
<1>4. PersonaMaps(customer[c]) = PersonasOf(customer[c])
  BY <1>2 DEF PersonaMaps
<1>5. IsFiniteSet(PersonasOf(customer[c]))
  BY JourneyAssumption, FS_Subset DEF PersonasOf
<1>6. ReadIds(list) = PersonasOf(customer[c])
  BY <1>4, <1>5, ListIsRead
<1>7. /\ step' = [step EXCEPT ![c] = "chosen"]
      /\ p \in PersonasOf(customer[c]) /\ p \in Personas
      /\ offered' = [offered EXCEPT ![c] = PersonasOf(customer[c])]
      /\ persona' = [persona EXCEPT ![c] = p]
      /\ UNCHANGED <<sessions, loginVars, shard, named, cipher, stream>>
  BY <1>2, <1>3, <1>4, <1>6 DEF Moves, PersonasOf
<1>8. PersonaShard[p] = shard[c]
  BY <1>1, <1>7, TablesAgree DEF Inv, ToldTheTruth
<1>9. TypeOK'
  BY <1>7 DEF Inv, TypeOK, Steps, PersonasOf
<1>10. KeysAreStored'
  BY <1>1, <1>7 DEF Inv, TypeOK, KeysAreStored, CustomerAt
<1>11. ToldTheTruth'
  BY <1>1, <1>7 DEF Inv, TypeOK, ToldTheTruth, CustomerAt
<1>12. LoggedInIsServed' /\ PlayersShareKeys'
  BY <1>7 DEF Inv, TypeOK, LoggedInIsServed, PlayersShareKeys
<1>13. OffersAreComplete' /\ ChosenIsOnShard' /\ NamedIsOwn'
  BY <1>7, <1>8 DEF Inv, TypeOK, OffersAreComplete, ChosenIsOnShard, NamedIsOwn,
     PersonasOf
<1>14. QED
  BY <1>9, <1>10, <1>11, <1>12, <1>13 DEF Inv

LEMMA NextInv == Inv /\ [Next]_vars => Inv'
<1> SUFFICES ASSUME Inv, [Next]_vars PROVE Inv'
  OBVIOUS
<1> USE DEF Moves
<1>1. ASSUME NEW c \in Clients, GetTicket(c) PROVE Inv'
  BY <1>1, TicketInv, JourneyAssumption DEF GetTicket
<1>2. ASSUME NEW c \in Clients, NEW x \in Contexts, BringTicket(c, x) PROVE Inv'
  BY <1>2, TicketInv DEF BringTicket
<1>3. ASSUME NEW c \in Clients, NEW k \in Keys, Login(c, k) PROVE Inv'
  BY <1>3, LoginInv
<1>4. ASSUME NEW c \in Clients, LoginRefused(c) \/ LoginOverflows(c) PROVE Inv'
  <2>1. customer[c] = None
    BY <1>4, JourneyAssumption
    DEF LoginRefused, LoginOverflows, Inv, KeysAreStored, ToldTheTruth, CustomerAt
  <2>2. /\ step' = [step EXCEPT ![c] = "refused"]
        /\ UNCHANGED <<sessions, clientVars, cipher, stream>>
    BY <1>4 DEF LoginRefused, LoginOverflows
  <2>3. QED
    BY <2>1, <2>2, OnlyStepInv DEF Inv, TypeOK, PlayersShareKeys, Steps
<1>5. ASSUME NEW c \in Clients, LoginReply(c) PROVE Inv'
  BY <1>5, LoginReplyInv
<1>6. ASSUME NEW c \in Clients, NEW p \in Personas \cup {None}, ChoosePersona(c, p)
      PROVE  Inv'
  BY <1>6, ChooseInv
<1>7. ASSUME NEW c \in Clients,
             \/ LobbyConnect(c) \/ LobbyRefused(c)
             \/ GameConnect(c) \/ GameRefused(c)
      PROVE  Inv'
  BY <1>7, ConnectInv
<1>8. ASSUME NEW c \in Clients, SQLiteFails(c) PROVE Inv'
  <2>1. /\ step' = [step EXCEPT ![c] = "failed"]
        /\ UNCHANGED <<sessions, clientVars, cipher, stream>>
    BY <1>8 DEF SQLiteFails
  <2>2. QED
    BY <2>1, OnlyStepInv DEF Inv, TypeOK, PlayersShareKeys, Steps
<1>9. CASE Crash
  <2>1. /\ UNCHANGED <<sessions, clientVars>>
        /\ step' \in [Clients -> Steps]
        /\ \A c \in Clients : step'[c] \in {step[c], "gone"}
        /\ cipher' = [c \in Clients |-> None] /\ stream' = [c \in Clients |-> None]
    BY <1>9 DEF Crash, Steps, Inv, TypeOK
  <2>2. QED
    BY <2>1, OnlyStepInv DEF Inv, TypeOK
<1>10. CASE UNCHANGED vars
  BY <1>10, OnlyStepInv DEF vars, Inv, TypeOK, PlayersShareKeys
<1>11. ASSUME NEW c \in Clients, PersonaRequest(c) PROVE Inv'
  BY <1>10, <1>11 DEF PersonaRequest
<1>12. ASSUME NEW page \in Pages, PatchRequest(page) PROVE Inv'
  BY <1>10, <1>12 DEF PatchRequest
<1>13. ASSUME NEW c \in Clients, NEW s \in PossibleShards, PickShard(c, s) PROVE Inv'
  BY <1>13, ShardInv
<1>14. QED
  BY <1>1, <1>2, <1>3, <1>4, <1>5, <1>6, <1>7, <1>8, <1>9, <1>10, <1>11, <1>12,
     <1>13
  DEF Next

-----------------------------------------------------------------------------
\* The invariant holds in every state.
THEOREM Safety == Spec => []Inv
BY InitInv, NextInv, PTL DEF Spec

\* The variables keep their types.
THEOREM TypeCorrect == Spec => []TypeOK
<1>1. Inv => TypeOK
  BY DEF Inv
<1>2. QED
  BY <1>1, Safety, PTL

\* Nobody who was told of a login is turned away later.
THEOREM LoginsAreServed == Spec => []LoggedInIsServed
<1>1. Inv => LoggedInIsServed
  BY DEF Inv
<1>2. QED
  BY <1>1, Safety, PTL

\* Lobby and game server use the key the client chose.
THEOREM KeysAreShared == Spec => []PlayersShareKeys
<1>1. Inv => PlayersShareKeys
  BY DEF Inv
<1>2. QED
  BY <1>1, Safety, PTL

\* All personas of its customer, however the list is ordered.
THEOREM OffersComplete == Spec => []OffersAreComplete
<1>1. Inv => OffersAreComplete
  BY DEF Inv
<1>2. QED
  BY <1>1, Safety, PTL

\* The persona is on the shard the client chose.
THEOREM ChosenOnShard == Spec => []ChosenIsOnShard
<1>1. Inv => ChosenIsOnShard
  BY DEF Inv
<1>2. QED
  BY <1>1, Safety, PTL

\* The lobby names nobody else's persona.
THEOREM NamedOwn == Spec => []NamedIsOwn
<1>1. Inv => NamedIsOwn
  BY DEF Inv
<1>2. QED
  BY <1>1, Safety, PTL

\* One client for a customer, in the life of the database.
THEOREM OneClientPerCustomer == Spec => []PlayersAreDistinct
BY InvImplies, Safety, PTL

-----------------------------------------------------------------------------
(* The journey is one through the services that the servers implement.     *)

\* A step of the three services, each of which may be standing still.
ServicesStep ==
  /\ [LoginServer!Next]_(LoginServer!vars)
  /\ [LobbyServer!Next]_(LobbyServer!vars)
  /\ [GameServer!Next]_(GameServer!vars)

\* A step that stores nothing, and in which the lobby names nobody, shows in
\* the keys only.
LEMMA KeysStep ==
  ASSUME UNCHANGED <<sessions, key, customer, named>>,
         \A c \in Clients :
           /\ key[c] # None => context'[c] = context[c]
           /\ named[c] # None => persona'[c] = persona[c]
  PROVE  /\ UNCHANGED LoginServer!vars
         /\ LobbyAnswers' = LobbyAnswers
<1>1. StoredLogins' = StoredLogins
  BY DEF StoredLogins, Nothing
<1>2. LobbyAnswers' = LobbyAnswers
  BY DEF LobbyAnswers, Nothing
<1>3. QED
  BY <1>1, <1>2 DEF LoginServer!vars

LEMMA StandingStill ==
  ASSUME UNCHANGED <<sessions, key, customer, named, cipher, stream>>,
         \A c \in Clients :
           /\ key[c] # None => context'[c] = context[c]
           /\ named[c] # None => persona'[c] = persona[c]
  PROVE  ServicesStep
BY KeysStep DEF ServicesStep, LobbyServer!vars, GameServer!vars

\* A login is stored: for the login server a step of its own, for the others
\* one of the table's.
LEMMA LoginStep ==
  ASSUME Inv, NEW c \in Clients, NEW k \in Keys, Login(c, k)
  PROVE  ServicesStep
<1> DEFINE x == ContextCustomer[context[c]]
<1>1. /\ step[c] = "sharded" /\ Insert(x, k)
      /\ key' = [key EXCEPT ![c] = k]
      /\ UNCHANGED <<context, customer, choiceVars, cipher, stream>>
  BY DEF Login, Moves
<1>2. key[c] = None /\ x \in Customers /\ k # None
  BY <1>1, JourneyAssumption, NoRowAssumption DEF Inv, KeysAreStored
<1>3. StoredLogins[c] = Nothing
  BY <1>2 DEF StoredLogins
<1>4. StoredLogins' = [StoredLogins EXCEPT ![c] = [customer |-> x, key |-> k]]
  BY <1>1, <1>2 DEF StoredLogins, Inv, TypeOK
<1>5. LoginServer!Next
  BY <1>1, <1>2, <1>3, <1>4
  DEF LoginServer!Next, LoginServer!Store, LoginServer!Insert, LoginServer!Accepts,
      LoginServer!Nothing, Nothing, Insert, Accepts
<1>6. \A d \in Clients :
        named[d] # None => /\ PersonaOwner[persona[d]] \in Customers
                           /\ PersonaOwner[persona[d]] # x
  <2> SUFFICES ASSUME NEW d \in Clients, named[d] # None
               PROVE  /\ PersonaOwner[persona[d]] \in Customers
                      /\ PersonaOwner[persona[d]] # x
    OBVIOUS
  <2>1. customer[d] # None /\ persona[d] \in PersonasOf(customer[d])
    BY DEF Inv, ToldTheTruth
  <2>2. /\ key[d] # None /\ customer[d] \in Customers
        /\ sessions[customer[d]] = key[d]
    BY <2>1 DEF Inv, TypeOK, KeysAreStored, ToldTheTruth
  <2>3. PersonaOwner[persona[d]] = customer[d]
    BY <2>1 DEF PersonasOf
  <2>4. QED
    BY <1>1, <2>2, <2>3 DEF Insert, Accepts
<1>7. LobbyAnswers' = LobbyAnswers
  BY <1>1, <1>6 DEF LobbyAnswers, Insert, Inv, TypeOK, Tables
<1>8. LobbyServer!Stored(x, k) /\ GameServer!Stored(x, k)
  BY <1>1, <1>7
  DEF LobbyServer!Stored, LobbyServer!Insert, LobbyServer!Accepts,
      GameServer!Stored, GameServer!Insert, GameServer!Accepts, Insert, Accepts
<1>9. QED
  BY <1>2, <1>5, <1>8 DEF ServicesStep, LobbyServer!Next, GameServer!Next

LEMMA LoginReplyStep ==
  ASSUME Inv, NEW c \in Clients, LoginReply(c)
  PROVE  ServicesStep
<1> DEFINE x == ContextCustomer[context[c]]
           told == {d \in Clients : customer[d] # None}
<1>1. /\ step[c] = "stored" /\ customer' = [customer EXCEPT ![c] = x]
      /\ UNCHANGED <<sessions, context, key, choiceVars, cipher, stream>>
  BY DEF LoginReply, Moves
<1>2. /\ key[c] # None /\ key[c] \in Keys /\ customer[c] = None
      /\ x \in Customers /\ x # None
  BY <1>1, JourneyAssumption, NoRowAssumption
  DEF Inv, TypeOK, KeysAreStored, ToldTheTruth
<1>3. StoredLogins' = StoredLogins /\ LobbyAnswers' = LobbyAnswers
  BY <1>1 DEF StoredLogins, LobbyAnswers
<1>4. StoredLogins[c] # LoginServer!Nothing
  BY <1>2, NoRowAssumption DEF StoredLogins, LoginServer!Nothing
<1>5. c \notin told /\ told' = told \cup {c}
  BY <1>1, <1>2 DEF Inv, TypeOK
<1>6. LoginServer!Next
  BY <1>1, <1>3, <1>4, <1>5 DEF LoginServer!Next, LoginServer!Tell
<1>7. QED
  BY <1>1, <1>3, <1>6 DEF ServicesStep, LobbyServer!vars, GameServer!vars

\* The lobby's reply: the row is there, usable, and what an earlier answer set
\* the cipher to.
LEMMA LobbyStep ==
  ASSUME Inv, NEW c \in Clients, LobbyConnect(c)
  PROVE  ServicesStep
<1> DEFINE x == PersonaOwner[persona[c]]
<1>1. /\ step[c] = "chosen" /\ sessions[x] \in UsableKeys
      /\ cipher' = [cipher EXCEPT ![c] = sessions[x]]
      /\ named' = [named EXCEPT ![c] = ReplyPersona]
      /\ UNCHANGED <<sessions, loginVars, shard, offered, persona, stream>>
  BY DEF LobbyConnect, Moves, Fetched, CustomerOf
<1>2. /\ sessions[x] = key[c] /\ key[c] # None /\ x \in Customers
      /\ named[c] = None /\ ReplyPersona # None
  BY <1>1, RowsFound, JourneyAssumption
  DEF Fetched, CustomerOf, Inv, ToldTheTruth, PersonasOf
<1>3. cipher[c] \in {None, sessions[x]}
  BY <1>2 DEF Inv, PlayersShareKeys
<1>4. LobbyServer!Takes(c, sessions[x])
  <2>1. CASE cipher[c] = None
    BY <1>1, <2>1 DEF LobbyServer!Takes
  <2>2. CASE cipher[c] # None
    <3>1. cipher' = cipher
      BY <1>1, <1>3, <2>2 DEF Inv, TypeOK
    <3>2. QED
      BY <2>2, <3>1 DEF LobbyServer!Takes
  <2>3. QED
    BY <2>1, <2>2
<1>5. LobbyAnswers[c] = LobbyServer!NoAnswer
  BY <1>2 DEF LobbyAnswers, LobbyServer!NoAnswer, Nothing
<1>6. LobbyAnswers' =
        [LobbyAnswers EXCEPT ![c] = [customer |-> x, key |-> sessions[x]]]
  BY <1>1, <1>2 DEF LobbyAnswers, Inv, TypeOK
<1>7. LobbyServer!Next
  BY <1>1, <1>2, <1>4, <1>5, <1>6
  DEF LobbyServer!Next, LobbyServer!Answered, LobbyServer!Serves, LobbyServer!Fetched
<1>8. StoredLogins' = StoredLogins
  BY <1>1 DEF StoredLogins
<1>9. QED
  BY <1>1, <1>7, <1>8 DEF ServicesStep, LoginServer!vars, GameServer!vars

LEMMA GameStep ==
  ASSUME Inv, NEW c \in Clients, GameConnect(c)
  PROVE  ServicesStep
<1> DEFINE x == customer[c]
<1>1. /\ step[c] \in {"chosen", "inLobby"} /\ sessions[x] \in UsableKeys
      /\ stream' = [stream EXCEPT ![c] = sessions[x]]
      /\ UNCHANGED <<sessions, clientVars, cipher>>
  BY RowsFound DEF GameConnect, Moves, Fetched
<1>2. sessions[x] # None /\ x \in Customers
  BY <1>1, RowsFound DEF Fetched, Inv, TypeOK
<1>3. GameServer!Unanswered(c, x)
  BY <1>1, <1>2
  DEF GameServer!Unanswered, GameServer!Serves, GameServer!Takes, GameServer!Fetched
<1>4. UNCHANGED LoginServer!vars /\ LobbyAnswers' = LobbyAnswers
  BY <1>1, KeysStep
<1>5. QED
  BY <1>1, <1>2, <1>3, <1>4 DEF ServicesStep, GameServer!Next, LobbyServer!vars

LEMMA CrashStep ==
  ASSUME Crash
  PROVE  ServicesStep
<1>1. /\ cipher' = [c \in Clients |-> None] /\ stream' = [c \in Clients |-> None]
      /\ UNCHANGED <<sessions, clientVars>>
  BY DEF Crash
<1>2. UNCHANGED LoginServer!vars /\ LobbyAnswers' = LobbyAnswers
  BY <1>1, KeysStep
<1>3. QED
  BY <1>1, <1>2
  DEF ServicesStep, LobbyServer!Next, LobbyServer!Forget,
      GameServer!Next, GameServer!Forget

\* What a client does on its own, or is told by the other servers.
LEMMA ClientStep ==
  ASSUME Inv, NEW c \in Clients,
         \/ GetTicket(c)
         \/ \E x \in Contexts : BringTicket(c, x)
         \/ \E s \in PossibleShards : PickShard(c, s)
         \/ LoginRefused(c) \/ LoginOverflows(c)
         \/ \E p \in Personas \cup {None} : ChoosePersona(c, p)
         \/ PersonaRequest(c)
         \/ LobbyRefused(c) \/ GameRefused(c)
         \/ SQLiteFails(c)
  PROVE  ServicesStep
<1>1. CASE GetTicket(c) \/ \E x \in Contexts : BringTicket(c, x)
  <2>1. /\ key[c] = None
        /\ \A d \in Clients \ {c} : context'[d] = context[d]
        /\ UNCHANGED <<sessions, key, customer, choiceVars, cipher, stream>>
    BY <1>1 DEF GetTicket, BringTicket, Moves, Inv, TypeOK, KeysAreStored
  <2>2. QED
    BY <2>1, StandingStill
<1>2. ASSUME NEW p \in Personas \cup {None}, ChoosePersona(c, p)
      PROVE  ServicesStep
  <2>1. /\ named[c] = None
        /\ \A d \in Clients \ {c} : persona'[d] = persona[d]
        /\ UNCHANGED <<sessions, loginVars, named, cipher, stream>>
    BY <1>2 DEF ChoosePersona, Moves, Inv, TypeOK, ToldTheTruth
  <2>2. QED
    BY <2>1, StandingStill
<1>3. CASE \/ \E s \in PossibleShards : PickShard(c, s)
           \/ LoginRefused(c) \/ LoginOverflows(c) \/ PersonaRequest(c)
           \/ LobbyRefused(c) \/ GameRefused(c) \/ SQLiteFails(c)
  <2>1. UNCHANGED <<sessions, loginVars, persona, named, cipher, stream>>
    BY <1>3 DEF PickShard, LoginRefused, LoginOverflows, PersonaRequest,
       LobbyRefused, GameRefused, SQLiteFails, vars
  <2>2. QED
    BY <2>1, StandingStill
<1>4. QED
  BY <1>1, <1>2, <1>3

LEMMA ServicesNext ==
  ASSUME Inv, [Next]_vars
  PROVE  ServicesStep
<1>1. CASE UNCHANGED vars \/ \E page \in Pages : PatchRequest(page)
  BY <1>1, StandingStill DEF vars, PatchRequest
<1>2. QED
  BY <1>1, LoginStep, LoginReplyStep, LobbyStep, GameStep, CrashStep, ClientStep
  DEF Next

\* A client's way is one through the services that LoginServer, LobbyServer and
\* the game server were shown to implement, on the same table.
THEOREM ServicesRefinement == Spec => ImplementsServices
<1>1. Init => LoginServer!Init /\ LobbyServer!Init /\ GameServer!Init
  BY DEF Init, LoginServer!Init, LoginServer!Tables, LoginServer!Nothing,
     LobbyServer!Init, LobbyServer!Tables, LobbyServer!NoAnswer, GameServer!Init,
     GameServer!Tables, GameServer!NoAnswer, Tables, StoredLogins, LobbyAnswers,
     Nothing
<1>2. Inv /\ [Next]_vars =>
        /\ [LoginServer!Next]_(LoginServer!vars)
        /\ [LobbyServer!Next]_(LobbyServer!vars)
        /\ [GameServer!Next]_(GameServer!vars)
  BY ServicesNext DEF ServicesStep
<1>3. QED
  BY <1>1, <1>2, Safety, PTL
  DEF Spec, ImplementsServices, LoginServer!Spec, LobbyServer!Spec, GameServer!Spec
==============================================================================
