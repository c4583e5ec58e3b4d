-------------------------- MODULE TCPManagerProofs ---------------------------
(***************************************************************************)
(* Proofs about TCPManager, for any customers, keys, addresses, sockets,   *)
(* messages and flags, from any table an earlier process may have left,    *)
(* under both policies for unhandled rejections.                           *)
(***************************************************************************)
EXTENDS TCPManager, PortConnectionsProofs

\* The streams of an object were made by the connect message that is its
\* appId, which is over and done with, from the row of that message's customer.
KeysOfConnects ==
  \A a \in Addresses :
    key[a] # None =>
      /\ appId[a] \in Messages
      /\ state[appId[a]] # "unsent"
      /\ message[appId[a]].address = a
      /\ message[appId[a]].customer \in Customers
      /\ sessions[message[appId[a]].customer] = key[a]

\* What a connect holds over its wait is still so when it goes on.
ConnectsWait ==
  \A m \in Messages :
    state[m] \in Waiting =>
      /\ message[m] # NoMessage
      /\ message[m].customer \in Customers
      /\ state[m] = "fetched" /\ row[m] # None
           => sessions[message[m].customer] = row[m]
      /\ message[m].flags \in {0, Heartbeat} \/ key[message[m].address] # None

\* The inductive invariant.
Inv == TypeOK /\ ConnectionsOK /\ KeysOfConnects /\ ConnectsWait

Sent == [socket : Sockets, address : Addresses, customer : Customers \cup {None},
         flags : Flags \cup {0}, early : BOOLEAN]

LEMMA InvImplies == Inv => KeyAndPersonaAgree /\ KeylessConnectsAreUnflagged
<1> SUFFICES ASSUME Inv PROVE KeyAndPersonaAgree /\ KeylessConnectsAreUnflagged
  OBVIOUS
<1>1. KeyAndPersonaAgree
  BY TCPAssumption DEF Inv, KeysOfConnects, KeyAndPersonaAgree
<1>2. KeylessConnectsAreUnflagged
  BY DEF Inv, ConnectsWait, KeylessConnectsAreUnflagged
<1>3. QED
  BY <1>1, <1>2

LEMMA InitInv == Init => Inv
<1> SUFFICES ASSUME Init PROVE Inv
  OBVIOUS
<1>1. ConnectionsTypeOK /\ ConnectionsOK
  BY ConnectionsStart DEF Init
<1>2. TypeOK
  BY <1>1 DEF Init, TypeOK, States, Waiting, ConnectionsInit
<1>3. KeysOfConnects /\ ConnectsWait
  BY DEF Init, KeysOfConnects, ConnectsWait, Waiting
<1>4. QED
  BY <1>1, <1>2, <1>3 DEF Inv

-----------------------------------------------------------------------------
(* The steps of the process.                                               *)

\* The process ends, whatever the states of its messages became before.
LEMMA DownInv ==
  ASSUME Inv, NEW s \in [Messages -> States], Down(s), UNCHANGED sessions,
         message' \in [Messages -> Sent \cup {NoMessage}],
         row' \in [Messages -> Keys \cup {None}]
  PROVE  Inv'
<1>1. (ConnectionsTypeOK /\ ConnectionsOK)'
  BY ConnectionsStep DEF Inv, TypeOK, Down, ConnectionsNext
<1>2. state' \in [Messages -> States] /\ \A m \in Messages : state'[m] \notin Waiting
  BY DEF Down, States, Waiting
<1>3. /\ key' = [a \in Addresses |-> None]
      /\ useEncryption' = [a \in Addresses |-> FALSE]
      /\ received' = [a \in Addresses |-> 0]
      /\ appId' = [a \in Addresses |-> None]
      /\ heard' = [a \in Addresses |-> {}]
      /\ stream' = [t \in Sockets |-> None]
      /\ unread' = [t \in Sockets |-> <<>>]
  BY DEF Down
<1>4. TypeOK'
  BY <1>1, <1>2, <1>3 DEF Inv, TypeOK, Sent
<1>5. KeysOfConnects' /\ ConnectsWait'
  BY <1>2, <1>3 DEF KeysOfConnects, ConnectsWait
<1>6. QED
  BY <1>1, <1>4, <1>5 DEF Inv

\* Steps of the connections and the clients alone.
LEMMA ConnectionInv ==
  ASSUME Inv,
         \/ \E s \in Sockets, a \in Addresses : Connect(s, a)
         \/ \E s \in Sockets : Close(s) \/ ReadAnswer(s)
         \/ Restart
  PROVE  Inv'
<1>1. /\ ConnectionsNext \/ UNCHANGED connectionVars
      /\ UNCHANGED <<sessions, objectVars, messageVars>>
  BY DEF Connect, Close, ReadAnswer, Restart, ConnectionsNext
<1>2. (ConnectionsTypeOK /\ ConnectionsOK)'
  BY <1>1, ConnectionsStep DEF Inv, TypeOK
<1>3. ~up' => ~up
  BY DEF Connect, Close, ReadAnswer, Restart, Accept, Leave, Start, connectionVars
<1>4. /\ stream' \in [Sockets -> [key : Rc4Keys, n : Nat] \cup {None}]
      /\ unread' \in [Sockets -> Seq(Rc4Keys)]
  <2>1. CASE UNCHANGED clientVars
    BY <2>1 DEF Inv, TypeOK, clientVars
  <2>2. ASSUME NEW s \in Sockets, Close(s)
        PROVE  /\ stream' \in [Sockets -> [key : Rc4Keys, n : Nat] \cup {None}]
               /\ unread' \in [Sockets -> Seq(Rc4Keys)]
    BY <2>2 DEF Inv, TypeOK, Close
  <2>3. ASSUME NEW s \in Sockets, ReadAnswer(s)
        PROVE  /\ stream' \in [Sockets -> [key : Rc4Keys, n : Nat] \cup {None}]
               /\ unread' \in [Sockets -> Seq(Rc4Keys)]
    <3>1. unread[s] \in Seq(Rc4Keys) /\ unread[s] # <<>>
      BY <2>3 DEF Inv, TypeOK, ReadAnswer
    <3>2. Head(unread[s]) \in Rc4Keys /\ Tail(unread[s]) \in Seq(Rc4Keys)
      BY <3>1
    <3>3. QED
      BY <2>3, <3>2 DEF Inv, TypeOK, ReadAnswer
  <2>4. QED
    BY <2>1, <2>2, <2>3 DEF Connect, Restart
<1>5. TypeOK'
  BY <1>1, <1>2, <1>3, <1>4 DEF Inv, TypeOK, objectVars, messageVars
<1>6. KeysOfConnects' /\ ConnectsWait'
  BY <1>1 DEF Inv, KeysOfConnects, ConnectsWait, objectVars, messageVars
<1>7. QED
  BY <1>2, <1>5, <1>6 DEF Inv

-----------------------------------------------------------------------------
(* A message comes in.                                                     *)

\* Where it came in.
LEMMA ReceivedType ==
  ASSUME Inv, NEW m \in Messages, NEW s \in open,
         NEW c \in Customers \cup {None}, NEW flags \in Flags \cup {0},
         Received(m, s, c, flags)
  PROVE  /\ home[s] \in Addresses /\ s \in Sockets
         /\ message' \in [Messages -> Sent \cup {NoMessage}]
         /\ message'[m] = [socket |-> s, address |-> home[s], customer |-> c,
                           flags |-> flags, early |-> unread[s] # <<>>]
         /\ message'[m].early = (unread[s] # <<>>)
         /\ message'[m] # NoMessage
         /\ \A n \in Messages \ {m} : message'[n] = message[n]
         /\ row' \in [Messages -> Keys \cup {None}] /\ row' = row
<1>1. home[s] \in Addresses /\ s \in Sockets
  BY DEF Inv, TypeOK, ConnectionsTypeOK, ConnectionsOK
<1>2. message \in [Messages -> Sent \cup {NoMessage}]
  BY DEF Inv, TypeOK, Sent
<1>3. /\ message'[m] = [socket |-> s, address |-> home[s], customer |-> c,
                        flags |-> flags, early |-> unread[s] # <<>>]
      /\ \A n \in Messages \ {m} : message'[n] = message[n]
  BY <1>2 DEF Received
<1>4. message'[m].early = (unread[s] # <<>>)
  <2> DEFINE early == unread[s] # <<>>
  <2>1. message'[m] = [socket |-> s, address |-> home[s], customer |-> c,
                       flags |-> flags, early |-> early]
    BY <1>3
  <2> HIDE DEF early
  <2>2. message'[m].early = early
    BY <2>1
  <2>3. QED
    BY <2>2 DEF early
<1>5. message' \in [Messages -> Sent \cup {NoMessage}] /\ message'[m] # NoMessage
  BY <1>1, <1>2, UnsetAssumption DEF Received, Sent, NoMessage
<1>6. QED
  BY <1>1, <1>3, <1>4, <1>5 DEF Inv, TypeOK, Received

\* What the client of its socket counts.
LEMMA CountsType ==
  ASSUME Inv, NEW s \in open, NEW flags \in Flags, Counts(s, flags)
  PROVE  stream' \in [Sockets -> [key : Rc4Keys, n : Nat] \cup {None}]
<1>1. s \in Sockets
  BY DEF Inv, TypeOK, ConnectionsTypeOK
<1>2. CASE Enciphered(s, flags)
  <2>1. stream[s] \in [key : Rc4Keys, n : Nat]
    BY <1>1, <1>2 DEF Inv, TypeOK, Enciphered
  <2>2. [stream[s] EXCEPT !.n = @ + 1] \in [key : Rc4Keys, n : Nat]
    BY <2>1
  <2>3. stream' = [stream EXCEPT ![s] = [stream[s] EXCEPT !.n = @ + 1]]
    BY <1>2 DEF Counts
  <2>4. QED
    BY <1>1, <2>2, <2>3 DEF Inv, TypeOK
<1>3. CASE ~Enciphered(s, flags)
  BY <1>3 DEF Inv, TypeOK, Counts
<1>4. QED
  BY <1>2, <1>3

\* What the message leaves on its object.
LEMMA PassedType ==
  ASSUME Inv, NEW m \in Messages, NEW s \in open, NEW flags \in Flags,
         Passed(m, s, home[s], flags)
  PROVE  /\ useEncryption' \in [Addresses -> BOOLEAN]
         /\ received' \in [Addresses -> Nat]
         /\ heard' \in [Addresses -> SUBSET Messages]
<1>1. home[s] \in Addresses /\ s \in Sockets
  BY DEF Inv, TypeOK, ConnectionsTypeOK, ConnectionsOK
<1>2. TurnedOn(home[s], flags) \in BOOLEAN
  BY <1>1 DEF Inv, TypeOK, TurnedOn
<1>3. useEncryption' \in [Addresses -> BOOLEAN]
  BY <1>1, <1>2 DEF Inv, TypeOK, Passed
<1>4. received' \in [Addresses -> Nat]
  BY <1>1 DEF Inv, TypeOK, Passed
<1>5. heard' \in [Addresses -> SUBSET Messages]
  BY <1>1 DEF Inv, TypeOK, Passed, Hears
<1>6. QED
  BY <1>3, <1>4, <1>5

\* What a message that is thrown away leaves behind.
Dropped(m, s, flags) ==
  /\ Counts(s, flags)
  /\ Hears(m, home[s])
  /\ UNCHANGED <<useEncryption, key, received, appId, unread>>

\* What any message may leave behind.
Leaves(m, s) ==
  \/ \E flags \in Flags : Passed(m, s, home[s], flags) \/ Dropped(m, s, flags)
  \/ UNCHANGED <<objectVars, clientVars>>

LEMMA LeavesType ==
  ASSUME Inv, NEW m \in Messages, NEW s \in open, Leaves(m, s)
  PROVE  /\ useEncryption' \in [Addresses -> BOOLEAN]
         /\ received' \in [Addresses -> Nat]
         /\ heard' \in [Addresses -> SUBSET Messages]
         /\ stream' \in [Sockets -> [key : Rc4Keys, n : Nat] \cup {None}]
         /\ UNCHANGED <<key, appId, unread>>
<1>1. ASSUME NEW flags \in Flags, Passed(m, s, home[s], flags)
      PROVE  Counts(s, flags) /\ UNCHANGED <<key, appId, unread>>
  BY <1>1 DEF Passed
<1>2. ASSUME NEW flags \in Flags, Dropped(m, s, flags)
      PROVE  /\ Counts(s, flags) /\ UNCHANGED <<useEncryption, received>>
             /\ heard' \in [Addresses -> SUBSET Messages]
             /\ UNCHANGED <<key, appId, unread>>
  BY <1>2 DEF Dropped, Hears, Inv, TypeOK
<1>3. CASE UNCHANGED <<objectVars, clientVars>>
  BY <1>3 DEF Inv, TypeOK, objectVars, clientVars
<1>4. QED
  BY <1>1, <1>2, <1>3, PassedType, CountsType DEF Leaves, Inv, TypeOK

\* A message that is handled at once, or starts to wait; the one that the
\* streams of an object came from is another.
LEMMA HandledInv ==
  ASSUME Inv, up, NEW m \in Messages, state[m] = "unsent", NEW s \in open,
         NEW c \in Customers \cup {None}, NEW f \in Flags \cup {0},
         Received(m, s, c, f),
         NEW outcome \in States,
         outcome \in Waiting =>
           /\ outcome = "fetching" /\ c \in Customers
           /\ f \in {0, Heartbeat} \/ key[home[s]] # None,
         state' = [state EXCEPT ![m] = outcome],
         Leaves(m, s),
         UNCHANGED <<sessions, connectionVars>>
  PROVE  Inv'
<1>1. (ConnectionsTypeOK /\ ConnectionsOK)'
  BY ConnectionsStep DEF Inv, TypeOK
<1>2. /\ useEncryption' \in [Addresses -> BOOLEAN]
      /\ received' \in [Addresses -> Nat]
      /\ heard' \in [Addresses -> SUBSET Messages]
      /\ stream' \in [Sockets -> [key : Rc4Keys, n : Nat] \cup {None}]
      /\ UNCHANGED <<key, appId, unread>>
  BY LeavesType
<1>3. /\ home[s] \in Addresses
      /\ message' \in [Messages -> Sent \cup {NoMessage}]
      /\ message'[m] = [socket |-> s, address |-> home[s], customer |-> c,
                        flags |-> f, early |-> unread[s] # <<>>]
      /\ message'[m] # NoMessage
      /\ \A n \in Messages \ {m} : message'[n] = message[n]
      /\ row' \in [Messages -> Keys \cup {None}] /\ row' = row
  BY ReceivedType
<1>4. state' \in [Messages -> States]
  BY DEF Inv, TypeOK
<1>5. TypeOK'
  BY <1>1, <1>2, <1>3, <1>4 DEF Inv, TypeOK, Sent, connectionVars
<1>6. KeysOfConnects'
  <2> SUFFICES ASSUME NEW a \in Addresses, key[a] # None
               PROVE  /\ appId[a] \in Messages
                      /\ state'[appId[a]] # "unsent"
                      /\ message'[appId[a]] = message[appId[a]]
                      /\ message[appId[a]].address = a
                      /\ message[appId[a]].customer \in Customers
                      /\ sessions[message[appId[a]].customer] = key[a]
    BY <1>2 DEF KeysOfConnects
  <2>1. /\ appId[a] \in Messages /\ appId[a] # m /\ state[appId[a]] # "unsent"
        /\ message[appId[a]].address = a
        /\ message[appId[a]].customer \in Customers
        /\ sessions[message[appId[a]].customer] = key[a]
    BY DEF Inv, KeysOfConnects
  <2>2. QED
    BY <1>3, <2>1 DEF Inv, TypeOK
<1>7. ConnectsWait'
  <2> SUFFICES ASSUME NEW n \in Messages, state'[n] \in Waiting
               PROVE  /\ message'[n] # NoMessage
                      /\ message'[n].customer \in Customers
                      /\ state'[n] = "fetched" /\ row[n] # None
                           => sessions[message'[n].customer] = row[n]
                      /\ \/ message'[n].flags \in {0, Heartbeat}
                         \/ key[message'[n].address] # None
    BY <1>2, <1>3 DEF ConnectsWait
  <2>1. CASE n = m
    BY <1>3, <2>1 DEF Inv, TypeOK
  <2>2. CASE n # m
    BY <1>3, <2>2 DEF Inv, TypeOK, ConnectsWait
  <2>3. QED
    BY <2>1, <2>2
<1>8. QED
  BY <1>1, <1>5, <1>6, <1>7 DEF Inv

\* A message whose handler throws.
LEMMA ThrownInv ==
  ASSUME Inv, up, NEW m \in Messages, state[m] = "unsent", NEW s \in open,
         Received(m, s, None, 0),
         NEW outcome \in States \ Waiting,
         NEW ACTION rest,
         rest => Leaves(m, s),
         Reject([state EXCEPT ![m] = outcome], rest),
         UNCHANGED sessions
  PROVE  Inv'
<1>1. CASE CrashOnRejection
  <2> DEFINE t == [state EXCEPT ![m] = outcome]
  <2>1. t \in [Messages -> States]
    BY DEF Inv, TypeOK
  <2>2. Down(t)
    BY <1>1 DEF Reject
  <2>3. /\ message' \in [Messages -> Sent \cup {NoMessage}]
        /\ row' \in [Messages -> Keys \cup {None}]
    BY ReceivedType
  <2> HIDE DEF t
  <2>4. QED
    BY <2>1, <2>2, <2>3, DownInv
<1>2. CASE ~CrashOnRejection
  <2>1. /\ state' = [state EXCEPT ![m] = outcome] /\ rest
        /\ UNCHANGED connectionVars
    BY <1>2 DEF Reject
  <2>2. QED
    BY <2>1, HandledInv
<1>3. QED
  BY <1>1, <1>2

LEMMA ReceiveInv ==
  ASSUME Inv, NEW m \in Messages, NEW s \in Sockets, NEW flags \in Flags,
         \/ ReceiveUnready(m, s, flags)
         \/ ReceiveNoise(m, s, flags)
         \/ ReceiveUnrouted(m, s, flags)
         \/ ReceiveUnknown(m, s, flags)
         \/ \E op \in Requests : ReceiveRequest(m, s, op, flags)
         \/ \E c \in Customers : ReceiveConnect(m, s, flags, c)
  PROVE  Inv'
<1>1. Passed(m, s, home[s], flags) => Leaves(m, s)
  BY DEF Leaves
<1>2. CASE \/ ReceiveUnready(m, s, flags)
           \/ ReceiveNoise(m, s, flags)
           \/ ReceiveUnknown(m, s, flags)
  <2>1. ASSUME NEW outcome \in {"unready", "outOfStep", "rejected"},
               up, state[m] = "unsent", s \in open,
               Reject([state EXCEPT ![m] = outcome], Passed(m, s, home[s], flags)),
               Received(m, s, None, 0), UNCHANGED sessions
        PROVE  Inv'
    BY <1>1, <2>1, ThrownInv DEF States, Waiting
  <2>2. QED
    BY <1>2, <2>1 DEF ReceiveUnready, ReceiveNoise, ReceiveUnknown, Routed
<1>3. CASE ReceiveUnrouted(m, s, flags)
  <2>1. /\ up /\ state[m] = "unsent" /\ s \in open
        /\ Reject([state EXCEPT ![m] = "unrouted"], Dropped(m, s, flags))
        /\ Received(m, s, None, 0) /\ UNCHANGED sessions
    BY <1>3 DEF ReceiveUnrouted, Reject, Dropped
  <2>2. "unrouted" \in States \ Waiting
    BY DEF States, Waiting
  <2>3. Dropped(m, s, flags) => Leaves(m, s)
    BY DEF Leaves
  <2>4. QED
    BY <2>1, <2>2, <2>3, ThrownInv
<1>4. ASSUME NEW op \in Requests, ReceiveRequest(m, s, op, flags)
      PROVE  Inv'
  <2> DEFINE outcome == Outcome(home[s], op, flags, key[home[s]])
  <2>1. outcome \in States \ Waiting
    BY DEF Outcome, States, Waiting
  <2>2. /\ up /\ state[m] = "unsent" /\ s \in open
        /\ IF outcome \in Thrown
           THEN Reject([state EXCEPT ![m] = outcome], Passed(m, s, home[s], flags))
           ELSE /\ state' = [state EXCEPT ![m] = outcome]
                /\ Passed(m, s, home[s], flags)
                /\ UNCHANGED connectionVars
        /\ Received(m, s, None, 0) /\ UNCHANGED sessions
    BY <1>4 DEF ReceiveRequest, Routed
  <2> HIDE DEF outcome
  <2>3. CASE outcome \in Thrown
    BY <1>1, <2>1, <2>2, <2>3, ThrownInv
  <2>4. CASE outcome \notin Thrown
    BY <1>1, <2>1, <2>2, <2>4, HandledInv
  <2>5. QED
    BY <2>3, <2>4
<1>5. ASSUME NEW c \in Customers, ReceiveConnect(m, s, flags, c)
      PROVE  Inv'
  <2>1. /\ up /\ state[m] = "unsent" /\ s \in open /\ Ready(home[s], flags)
        /\ state' = [state EXCEPT ![m] = "fetching"]
        /\ Passed(m, s, home[s], flags)
        /\ Received(m, s, c, flags)
        /\ UNCHANGED <<sessions, connectionVars>>
    BY <1>5 DEF ReceiveConnect, Routed
  <2>2. flags \in {0, Heartbeat} \/ key[home[s]] # None
    BY <2>1 DEF Ready, Guarded, TurnedOn
  <2>3. "fetching" \in States
    BY DEF States
  <2>4. QED
    BY <1>1, <2>1, <2>2, <2>3, HandledInv
<1>6. QED
  BY <1>2, <1>3, <1>4, <1>5

\* It is too short to be one.
LEMMA ShortInv ==
  ASSUME Inv, NEW m \in Messages, NEW s \in Sockets, ReceiveShort(m, s)
  PROVE  Inv'
<1>1. /\ up /\ state[m] = "unsent" /\ s \in open
      /\ Reject([state EXCEPT ![m] = "rejected"], UNCHANGED <<objectVars, clientVars>>)
      /\ Received(m, s, None, 0) /\ UNCHANGED sessions
  BY DEF ReceiveShort, Routed
<1>2. "rejected" \in States \ Waiting
  BY DEF States, Waiting
<1>3. UNCHANGED <<objectVars, clientVars>> => Leaves(m, s)
  BY DEF Leaves
<1>4. QED
  BY <1>1, <1>2, <1>3, ThrownInv

-----------------------------------------------------------------------------
(* A connect waits for SQLite and goes on.                                 *)

\* A key is stored where there was no row: nobody used one.
LEMMA StoreKeyInv ==
  ASSUME Inv, NEW c \in Customers, NEW k \in Keys, StoreKey(c, k)
  PROVE  Inv'
<1>1. /\ sessions' = [sessions EXCEPT ![c] = k] /\ sessions[c] = None
      /\ UNCHANGED <<connectionVars, objectVars, messageVars, clientVars>>
  BY DEF StoreKey, Insert, Accepts
<1>2. (ConnectionsTypeOK /\ ConnectionsOK)'
  BY <1>1, ConnectionsStep DEF Inv, TypeOK
<1>3. TypeOK'
  BY <1>1, <1>2
  DEF Inv, TypeOK, Tables, objectVars, messageVars, connectionVars, clientVars
<1>4. \A d \in Customers : sessions[d] # None => sessions'[d] = sessions[d]
  BY <1>1 DEF Inv, TypeOK, Tables
<1>5. KeysOfConnects'
  BY <1>1, <1>4 DEF Inv, KeysOfConnects, objectVars, messageVars
<1>6. ConnectsWait'
  BY <1>1, <1>4 DEF Inv, ConnectsWait, objectVars, messageVars
<1>7. QED
  BY <1>2, <1>3, <1>5, <1>6 DEF Inv

LEMMA FetchInv ==
  ASSUME Inv, NEW m \in Messages, FetchRow(m) \/ FetchFails(m)
  PROVE  Inv'
<1>1. /\ up /\ state[m] = "fetching" /\ message[m].customer \in Customers
      /\ \/ /\ state' = [state EXCEPT ![m] = "fetched"]
            /\ row' = [row EXCEPT ![m] = sessions[message[m].customer]]
         \/ state' = [state EXCEPT ![m] = "failed"] /\ row' = row
      /\ UNCHANGED <<sessions, connectionVars, objectVars, message, clientVars>>
  BY DEF Inv, ConnectsWait, Waiting, FetchRow, FetchFails, Fetched
<1>2. (ConnectionsTypeOK /\ ConnectionsOK)'
  BY <1>1, ConnectionsStep DEF Inv, TypeOK
<1>3. sessions[message[m].customer] \in Keys \cup {None}
  BY <1>1 DEF Inv, TypeOK, Tables
<1>4. TypeOK'
  BY <1>1, <1>2, <1>3 DEF Inv, TypeOK, States, objectVars, connectionVars, clientVars
<1>5. KeysOfConnects'
  BY <1>1 DEF Inv, TypeOK, KeysOfConnects, objectVars
<1>6. ConnectsWait'
  BY <1>1 DEF Inv, TypeOK, ConnectsWait, Waiting, objectVars
<1>7. QED
  BY <1>2, <1>4, <1>5, <1>6 DEF Inv

\* New streams and a new persona, both of message m, unless the process ends.
LEMMA Answering ==
  ASSUME Inv, NEW m \in Messages, AnswerConnect(m)
  PROVE  LET a == message[m].address
             c == message[m].socket
         IN  /\ up /\ state[m] = "fetched" /\ row[m] \in Rc4Keys /\ row[m] # None
             /\ row' = [row EXCEPT ![m] = None] /\ UNCHANGED <<sessions, message>>
             /\ message[m] \in Sent /\ a \in Addresses /\ c \in Sockets
             /\ message[m].customer \in Customers /\ message[m].customer # None
             /\ sessions[message[m].customer] = row[m]
             /\ \E outcome \in {"answered", "garbled", "strayed", "undelivered"} :
                  LET t == [state EXCEPT ![m] = outcome]
                  IN  \/ Down(t) /\ outcome = "undelivered"
                      \/ /\ state' = t /\ SetUp(a, m)
                         /\ UNCHANGED <<connectionVars, stream>>
                         /\ \/ /\ outcome \in {"strayed", "undelivered"}
                               /\ UNCHANGED unread
                            \/ /\ outcome \in {"answered", "garbled"}
                               /\ sock[a] = c /\ c \in open
                               /\ unread' = [unread EXCEPT ![c] = Append(@, row[m])]
<1> DEFINE a == message[m].address
           c == message[m].socket
           outcome == Outcome(a, "connect", message[m].flags, row[m])
<1>1. /\ up /\ state[m] = "fetched" /\ row[m] \in Rc4Keys
      /\ row' = [row EXCEPT ![m] = None] /\ UNCHANGED <<sessions, message>>
  BY DEF AnswerConnect, Keyed
<1>2. row[m] # None
  BY <1>1, NoRowAssumption, TCPAssumption
<1>3. /\ message[m] \in Sent /\ a \in Addresses /\ c \in Sockets
      /\ message[m].customer \in Customers
      /\ sessions[message[m].customer] = row[m]
  BY <1>1, <1>2 DEF Inv, TypeOK, ConnectsWait, Waiting, Sent
<1>4. message[m].customer # None
  BY <1>3, NoRowAssumption
<1>5. /\ outcome \in {"answered", "garbled", "undelivered"}
      /\ outcome # "undelivered" => sock[a] \in open
  BY <1>2 DEF Outcome, Writable
<1>6. \/ /\ outcome = "undelivered"
         /\ Reject([state EXCEPT ![m] = outcome], SetUp(a, m) /\ UNCHANGED clientVars)
      \/ /\ outcome # "undelivered"
         /\ state' = [state EXCEPT ![m] = IF sock[a] = c THEN outcome ELSE "strayed"]
         /\ SetUp(a, m) /\ UNCHANGED <<connectionVars, stream>>
         /\ unread' = IF sock[a] = c
                      THEN [unread EXCEPT ![c] = Append(@, row[m])]
                      ELSE unread
  BY DEF AnswerConnect
<1> HIDE DEF outcome
<1>7. CASE outcome = "undelivered"
  BY <1>1, <1>2, <1>3, <1>4, <1>6, <1>7 DEF Reject, clientVars
<1>8. CASE outcome # "undelivered" /\ sock[a] = c
  BY <1>1, <1>2, <1>3, <1>4, <1>5, <1>6, <1>8
<1>9. CASE outcome # "undelivered" /\ sock[a] # c
  BY <1>1, <1>2, <1>3, <1>4, <1>5, <1>6, <1>9
<1>10. QED
  BY <1>7, <1>8, <1>9

LEMMA AnswerInv ==
  ASSUME Inv, NEW m \in Messages, AnswerConnect(m)
  PROVE  Inv'
<1> DEFINE a == message[m].address
           c == message[m].socket
<1>1. /\ up /\ state[m] = "fetched" /\ row[m] \in Rc4Keys /\ row[m] # None
      /\ row' = [row EXCEPT ![m] = None] /\ UNCHANGED <<sessions, message>>
      /\ a \in Addresses /\ c \in Sockets
      /\ message[m].customer \in Customers
      /\ sessions[message[m].customer] = row[m]
  BY Answering
<1>2. PICK outcome \in {"answered", "garbled", "strayed", "undelivered"} :
        \/ Down([state EXCEPT ![m] = outcome])
        \/ /\ state' = [state EXCEPT ![m] = outcome] /\ SetUp(a, m)
           /\ UNCHANGED <<connectionVars, stream>>
           /\ \/ UNCHANGED unread
              \/ unread' = [unread EXCEPT ![c] = Append(@, row[m])]
  BY Answering
<1>3. outcome \in States \ (Waiting \cup {"unsent"})
  BY DEF States, Waiting
<1>4. /\ message' \in [Messages -> Sent \cup {NoMessage}]
      /\ row' \in [Messages -> Keys \cup {None}]
  BY <1>1 DEF Inv, TypeOK, Sent
<1>5. CASE Down([state EXCEPT ![m] = outcome])
  <2> DEFINE t == [state EXCEPT ![m] = outcome]
  <2>1. t \in [Messages -> States] /\ Down(t)
    BY <1>3, <1>5 DEF Inv, TypeOK
  <2> HIDE DEF t
  <2>2. QED
    BY <1>1, <1>4, <2>1, DownInv
<1>6. CASE /\ state' = [state EXCEPT ![m] = outcome] /\ SetUp(a, m)
           /\ UNCHANGED <<connectionVars, stream>>
           /\ \/ UNCHANGED unread
              \/ unread' = [unread EXCEPT ![c] = Append(@, row[m])]
  <2>1. (ConnectionsTypeOK /\ ConnectionsOK)'
    BY <1>6, ConnectionsStep DEF Inv, TypeOK
  <2>2. unread' \in [Sockets -> Seq(Rc4Keys)]
    <3>1. unread[c] \in Seq(Rc4Keys)
      BY <1>1 DEF Inv, TypeOK
    <3>2. Append(unread[c], row[m]) \in Seq(Rc4Keys)
      BY <1>1, <3>1
    <3>3. QED
      BY <1>1, <1>6, <3>2 DEF Inv, TypeOK
  <2>3. /\ key' = [key EXCEPT ![a] = row[m]]
        /\ received' = [received EXCEPT ![a] = 0]
        /\ appId' = [appId EXCEPT ![a] = m]
        /\ UNCHANGED <<useEncryption, heard>>
    BY <1>6 DEF SetUp
  <2>4. TypeOK'
    BY <1>1, <1>3, <1>4, <1>6, <2>1, <2>2, <2>3
    DEF Inv, TypeOK, Sent, connectionVars
  <2>5. KeysOfConnects'
    BY <1>1, <1>3, <1>6, <2>3 DEF Inv, TypeOK, KeysOfConnects
  <2>6. ConnectsWait'
    BY <1>1, <1>3, <1>6, <2>3 DEF Inv, TypeOK, ConnectsWait
  <2>7. QED
    BY <2>1, <2>4, <2>5, <2>6 DEF Inv
<1>7. QED
  BY <1>2, <1>5, <1>6

LEMMA RejectConnectInv ==
  ASSUME Inv, NEW m \in Messages, RejectConnect(m)
  PROVE  Inv'
<1> DEFINE t == [state EXCEPT ![m] = "rejected"]
<1>1. /\ t \in [Messages -> States]
      /\ \A n \in Messages : t[n] = state[n] \/ t[n] = "rejected"
  BY DEF Inv, TypeOK, States
<1>2. /\ up /\ Reject(t, UNCHANGED <<objectVars, clientVars>>)
      /\ row' = [row EXCEPT ![m] = None] /\ UNCHANGED <<sessions, message>>
  BY DEF RejectConnect
<1>3. /\ message' \in [Messages -> Sent \cup {NoMessage}]
      /\ row' \in [Messages -> Keys \cup {None}]
      /\ \A n \in Messages : row'[n] \in {row[n], None}
  BY <1>2 DEF Inv, TypeOK, Sent
<1> HIDE DEF t
<1>4. CASE CrashOnRejection
  <2>1. Down(t)
    BY <1>2, <1>4 DEF Reject
  <2>2. QED
    BY <1>1, <1>2, <1>3, <2>1, DownInv
<1>5. CASE ~CrashOnRejection
  <2>1. state' = t /\ UNCHANGED <<objectVars, clientVars>> /\ UNCHANGED connectionVars
    BY <1>2, <1>5 DEF Reject
  <2>2. (ConnectionsTypeOK /\ ConnectionsOK)'
    BY <2>1, ConnectionsStep DEF Inv, TypeOK
  <2>3. TypeOK'
    BY <1>1, <1>2, <1>3, <2>1, <2>2
    DEF Inv, TypeOK, Sent, objectVars, connectionVars, clientVars
  <2>4. KeysOfConnects'
    BY <1>1, <1>2, <2>1 DEF Inv, KeysOfConnects, objectVars
  <2>5. ConnectsWait'
    BY <1>1, <1>2, <1>3, <2>1 DEF Inv, ConnectsWait, Waiting, objectVars
  <2>6. QED
    BY <2>2, <2>3, <2>4, <2>5 DEF Inv
<1>6. QED
  BY <1>4, <1>5

LEMMA NextInv == Inv /\ [Next]_vars => Inv'
<1> SUFFICES ASSUME Inv, [Next]_vars PROVE Inv'
  OBVIOUS
<1>1. ASSUME NEW s \in Sockets,
             \/ \E a \in Addresses : Connect(s, a)
             \/ Close(s) \/ ReadAnswer(s)
             \/ \E m \in Messages : ReceiveShort(m, s)
      PROVE  Inv'
  BY <1>1, ConnectionInv, ShortInv
<1>2. CASE Restart
  BY <1>2, ConnectionInv
<1>3. ASSUME NEW s \in Sockets, NEW m \in Messages, NEW flags \in Flags,
             \/ ReceiveUnready(m, s, flags)
             \/ ReceiveNoise(m, s, flags)
             \/ ReceiveUnrouted(m, s, flags)
             \/ ReceiveUnknown(m, s, flags)
             \/ \E op \in Requests : ReceiveRequest(m, s, op, flags)
             \/ \E c \in Customers : ReceiveConnect(m, s, flags, c)
      PROVE  Inv'
  BY <1>3, ReceiveInv
<1>4. ASSUME NEW c \in Customers, NEW k \in Keys, StoreKey(c, k) PROVE Inv'
  BY <1>4, StoreKeyInv
<1>5. ASSUME NEW m \in Messages, FetchRow(m) \/ FetchFails(m) PROVE Inv'
  BY <1>5, FetchInv
<1>6. ASSUME NEW m \in Messages, AnswerConnect(m) \/ RejectConnect(m)
      PROVE  Inv'
  BY <1>6, AnswerInv, RejectConnectInv
<1>7. CASE Crash
  <2>1. /\ state \in [Messages -> States]
        /\ message' \in [Messages -> Sent \cup {NoMessage}]
        /\ row' \in [Messages -> Keys \cup {None}]
    BY <1>7 DEF Inv, TypeOK, Sent, Crash
  <2>2. QED
    BY <1>7, <2>1, DownInv DEF Crash
<1>8. CASE UNCHANGED vars
  BY <1>8 DEF vars, objectVars, messageVars, connectionVars, clientVars, Inv, TypeOK,
              ConnectionsTypeOK, ConnectionsOK, KeysOfConnects, ConnectsWait
<1>9. QED
  BY <1>1, <1>2, <1>3, <1>4, <1>5, <1>6, <1>7, <1>8 DEF Next

-----------------------------------------------------------------------------
(* The streams of a client and of the server.                              *)

\* A message counts as heard once it is sent, a connect from its wait on, on
\* the object of its socket; the connect that made an object's streams is over.
HeardMessages ==
  /\ \A a \in Addresses : \A n \in heard[a] :
       /\ state[n] # "unsent"
       /\ message[n].socket \in Sockets /\ home[message[n].socket] = a
  /\ \A m \in Messages : state[m] \in Waiting => m \in heard[message[m].address]
  /\ \A a \in Addresses :
       key[a] # None =>
         appId[a] \in heard[a] /\ state[appId[a]] \notin Waiting \cup {"unrouted"}

\* No message has put the client of s and the server apart.
Unspoilt(s) == \A n \in heard[home[s]] : ~Disturbs(n, s)

\* Where the two are then: the client has yet to read the answer that brings
\* the server's new streams, or there are no streams, or they are in step.
Together(s, a) ==
  /\ unread[s] # <<>> => key[a] = unread[s][Len(unread[s])] /\ received[a] = 0
  /\ unread[s] = <<>> /\ stream[s] = None => key[a] = None
  /\ unread[s] = <<>> /\ stream[s] # None => InStep(s, a)

ClientsInStep ==
  /\ \A s \in Sockets : s \notin open => stream[s] = None /\ unread[s] = <<>>
  /\ \A s \in open : Unspoilt(s) => Together(s, home[s])

Streams == HeardMessages /\ ClientsInStep

\* What becomes of the messages in any step of a process that lives on: one
\* that is sent stays what it is, and only those that wait move on.
Later ==
  \A n \in Messages :
    state[n] # "unsent" =>
      /\ message'[n] = message[n] /\ state'[n] # "unsent"
      /\ \/ state'[n] = state[n]
         \/ state[n] \in Waiting /\ state'[n] # "unrouted"

LEMMA StreamsInit == Init => Streams
BY DEF Init, ConnectionsInit, Streams, HeardMessages, ClientsInStep, Waiting

\* Nothing is left of either when the process ends.
LEMMA StreamsDown ==
  ASSUME NEW t, Down(t)
  PROVE  Streams'
<1>1. /\ \A a \in Addresses : heard'[a] = {} /\ key'[a] = None
      /\ \A s \in Sockets : stream'[s] = None /\ unread'[s] = <<>>
      /\ \A m \in Messages : state'[m] \notin Waiting
      /\ open' = {}
  BY DEF Down, Waiting, Stop
<1>2. QED
  BY <1>1 DEF Streams, HeardMessages, ClientsInStep

\* What an object has heard stays heard, and what disturbed a client does so
\* for the life of its socket.
LEMMA StaysSpoilt ==
  ASSUME Inv, Streams, Later, NEW t \in Sockets,
         home[t] \in Addresses, home'[t] = home[t],
         heard[home[t]] \subseteq heard'[home[t]],
         Unspoilt(t)'
  PROVE  Unspoilt(t)
<1> SUFFICES ASSUME NEW n \in heard[home[t]] PROVE ~Disturbs(n, t)
  BY DEF Unspoilt
<1>1. n \in Messages /\ state[n] # "unsent"
  BY DEF Inv, TypeOK, Streams, HeardMessages
<1>2. ~Disturbs(n, t)'
  BY DEF Unspoilt
<1>3. QED
  BY <1>1, <1>2 DEF Later, Disturbs, Waiting

\* Those messages are still heard, and still come from where they came from.
LEMMA StaysHeard ==
  ASSUME Inv, Streams, Later,
         \A s \in Sockets : home[s] # Unset => home'[s] = home[s],
         \A a \in Addresses : heard[a] \subseteq heard'[a],
         NEW a \in Addresses, NEW n \in heard[a]
  PROVE  /\ n \in Messages /\ n \in heard'[a] /\ state'[n] # "unsent"
         /\ message'[n] = message[n]
         /\ message[n].socket \in Sockets /\ home'[message[n].socket] = a
<1>1. /\ n \in Messages /\ state[n] # "unsent"
      /\ message[n].socket \in Sockets /\ home[message[n].socket] = a
  BY DEF Inv, TypeOK, Streams, HeardMessages
<1>2. QED
  BY <1>1, UnsetAssumption DEF Later

\* Steps in which no object hears a message or gets streams.
LEMMA HeardKept ==
  ASSUME Inv, Streams, Later, UNCHANGED <<key, appId, heard>>,
         \A s \in Sockets : home[s] # Unset => home'[s] = home[s],
         \A n \in Messages : state'[n] \in Waiting => state[n] \in Waiting
  PROVE  HeardMessages'
<1>1. ASSUME NEW a \in Addresses, NEW n \in heard[a]
      PROVE  /\ state'[n] # "unsent"
             /\ message'[n].socket \in Sockets /\ home'[message'[n].socket] = a
  BY StaysHeard
<1>2. ASSUME NEW m \in Messages, state'[m] \in Waiting
      PROVE  m \in heard[message'[m].address]
  <2>1. state[m] \in Waiting
    BY <1>2
  <2>2. message'[m] = message[m]
    BY <2>1 DEF Later, Waiting
  <2>3. QED
    BY <2>1, <2>2 DEF Streams, HeardMessages
<1>3. ASSUME NEW a \in Addresses, key[a] # None
      PROVE  /\ appId[a] \in heard[a]
             /\ state'[appId[a]] \notin Waiting \cup {"unrouted"}
  <2>1. appId[a] \in heard[a] /\ state[appId[a]] \notin Waiting \cup {"unrouted"}
    BY <1>3 DEF Streams, HeardMessages
  <2>2. appId[a] \in Messages /\ state[appId[a]] # "unsent"
    BY <2>1 DEF Inv, TypeOK, Streams, HeardMessages
  <2>3. QED
    BY <2>1, <2>2 DEF Later
<1>4. QED
  BY <1>1, <1>2, <1>3 DEF HeardMessages

\* Steps that leave all streams alone as well.
LEMMA StreamsKept ==
  ASSUME Inv, Streams, Later,
         UNCHANGED <<key, received, appId, heard, clientVars, home, open>>,
         \A n \in Messages : state'[n] \in Waiting => state[n] \in Waiting
  PROVE  Streams'
<1>1. HeardMessages'
  BY HeardKept
<1>2. ASSUME NEW s \in open, Unspoilt(s)'
      PROVE  Together(s, home[s])'
  <2>1. s \in Sockets /\ home[s] \in Addresses
    BY DEF Inv, TypeOK, ConnectionsTypeOK, ConnectionsOK
  <2>2. Unspoilt(s)
    BY <1>2, <2>1, StaysSpoilt
  <2>3. Together(s, home[s])
    BY <2>2 DEF Streams, ClientsInStep
  <2>4. QED
    BY <2>3 DEF Together, InStep, clientVars
<1>3. QED
  BY <1>1, <1>2 DEF Streams, ClientsInStep, clientVars

\* A client comes: if its object has streams, they are another client's.
LEMMA StreamsConnect ==
  ASSUME Inv, Streams, NEW s \in Sockets, NEW a \in Addresses, Connect(s, a)
  PROVE  Streams'
<1>1. /\ home[s] = Unset /\ home' = [home EXCEPT ![s] = a]
      /\ open' = open \cup {s} /\ s \notin open
      /\ UNCHANGED <<key, received, appId, heard, state, message, stream, unread>>
  BY DEF Connect, Accept, objectVars, messageVars, clientVars, Inv, ConnectionsOK
<1>2. Later /\ \A t \in Sockets : home[t] # Unset => home'[t] = home[t]
  BY <1>1 DEF Later, Inv, TypeOK, ConnectionsTypeOK
<1>3. HeardMessages'
  BY <1>1, <1>2, HeardKept
<1>4. ASSUME NEW t \in open', Unspoilt(t)'
      PROVE  Together(t, home[t])'
  <2>1. CASE t = s
    <3>1. stream[s] = None /\ unread[s] = <<>> /\ home'[s] = a
      BY <1>1 DEF Streams, ClientsInStep, Inv, TypeOK, ConnectionsTypeOK
    <3>2. key[a] = None
      <4> SUFFICES ASSUME key[a] # None PROVE FALSE
        OBVIOUS
      <4>1. appId[a] \in heard[a] /\ state[appId[a]] # "unrouted"
        BY DEF Streams, HeardMessages
      <4>2. home[message[appId[a]].socket] = a
        BY <4>1 DEF Streams, HeardMessages
      <4>3. message[appId[a]].socket # s
        BY <1>1, <4>2, UnsetAssumption
      <4>4. Disturbs(appId[a], s)'
        BY <1>1, <4>1, <4>3 DEF Disturbs
      <4>5. QED
        BY <1>1, <1>4, <2>1, <3>1, <4>1, <4>4 DEF Unspoilt
    <3>3. QED
      BY <1>1, <2>1, <3>1, <3>2 DEF Together
  <2>2. CASE t # s
    <3>1. t \in open /\ t \in Sockets /\ home[t] \in Addresses /\ home'[t] = home[t]
      BY <1>1, <2>2 DEF Inv, TypeOK, ConnectionsTypeOK, ConnectionsOK
    <3>2. Unspoilt(t)
      BY <1>1, <1>2, <1>4, <3>1, StaysSpoilt
    <3>3. Together(t, home[t])
      BY <3>1, <3>2 DEF Streams, ClientsInStep
    <3>4. QED
      BY <1>1, <3>1, <3>3 DEF Together, InStep
  <2>3. QED
    BY <2>1, <2>2
<1>5. QED
  BY <1>1, <1>3, <1>4 DEF Streams, ClientsInStep

\* A client goes, or reads an answer: of several, the last brings the streams
\* the server has.
LEMMA StreamsClient ==
  ASSUME Inv, Streams, NEW s \in Sockets, Close(s) \/ ReadAnswer(s)
  PROVE  Streams'
<1>1. /\ UNCHANGED <<home, key, received, appId, heard, state, message>>
      /\ open' \subseteq open /\ Later
      /\ \A t \in Sockets \ {s} : stream'[t] = stream[t] /\ unread'[t] = unread[t]
  BY DEF Close, Leave, ReadAnswer, objectVars, messageVars, connectionVars, Later,
         Inv, TypeOK
<1>2. HeardMessages'
  BY <1>1, HeardKept
<1>3. ASSUME NEW t \in open', Unspoilt(t)'
      PROVE  t \in Sockets /\ Together(t, home[t])
  <2>1. t \in open /\ t \in Sockets /\ home[t] \in Addresses
    BY <1>1 DEF Inv, TypeOK, ConnectionsTypeOK, ConnectionsOK
  <2>2. Unspoilt(t)
    BY <1>1, <1>3, <2>1, StaysSpoilt
  <2>3. QED
    BY <2>1, <2>2 DEF Streams, ClientsInStep
<1>4. CASE Close(s)
  <2>1. open' = open \ {s} /\ stream'[s] = None /\ unread'[s] = <<>>
    BY <1>4 DEF Close, Leave, Inv, TypeOK
  <2>2. \A t \in Sockets : t \notin open' => stream'[t] = None /\ unread'[t] = <<>>
    BY <1>1, <2>1 DEF Streams, ClientsInStep
  <2>3. \A t \in open' : Unspoilt(t)' => Together(t, home[t])'
    BY <1>1, <1>3, <2>1 DEF Together, InStep
  <2>4. QED
    BY <1>2, <2>2, <2>3 DEF Streams, ClientsInStep
<1>5. CASE ReadAnswer(s)
  <2>1. /\ open' = open /\ unread[s] # <<>> /\ unread[s] \in Seq(Rc4Keys)
        /\ stream'[s] = [key |-> Head(unread[s]), n |-> 0]
        /\ unread'[s] = Tail(unread[s])
    BY <1>5 DEF ReadAnswer, connectionVars, Inv, TypeOK
  <2>2. s \in open
    BY <2>1 DEF Streams, ClientsInStep
  <2>3. ASSUME NEW t \in open, Unspoilt(t)'
        PROVE  Together(t, home[t])'
    <3>1. Together(t, home[t]) /\ t \in Sockets
      BY <1>3, <2>1, <2>3
    <3>2. CASE t # s
      BY <1>1, <3>1, <3>2 DEF Together, InStep
    <3>3. CASE t = s
      <4>1. /\ key[home[s]] = unread[s][Len(unread[s])] /\ received[home[s]] = 0
        BY <2>1, <3>1, <3>3 DEF Together
      <4>2. CASE Tail(unread[s]) # <<>>
        <5>1. Tail(unread[s])[Len(Tail(unread[s]))] = unread[s][Len(unread[s])]
          BY <2>1, <4>2
        <5>2. QED
          BY <1>1, <2>1, <3>3, <4>1, <4>2, <5>1 DEF Together
      <4>3. CASE Tail(unread[s]) = <<>>
        <5>1. Head(unread[s]) = unread[s][Len(unread[s])]
          BY <2>1, <4>3
        <5>2. Head(unread[s]) \in Rc4Keys
          BY <2>1
        <5>3. stream'[s] # None
          BY <2>1, <5>2, TCPAssumption
        <5>4. QED
          BY <1>1, <2>1, <3>3, <4>1, <4>3, <5>1, <5>3 DEF Together, InStep
      <4>4. QED
        BY <4>2, <4>3
    <3>4. QED
      BY <3>2, <3>3
  <2>4. \A t \in Sockets : t \notin open' => stream'[t] = None /\ unread'[t] = <<>>
    BY <1>1, <2>1, <2>2 DEF Streams, ClientsInStep
  <2>5. QED
    BY <1>2, <2>1, <2>3, <2>4 DEF Streams, ClientsInStep
<1>6. QED
  BY <1>4, <1>5

-----------------------------------------------------------------------------
\* A message comes in at s: what it may become, and who hears it.
Arrival(m, s) ==
  /\ state[m] = "unsent" /\ s \in open
  /\ state'[m] \notin {"unsent", "fetched", "failed"}
  /\ \A n \in Messages \ {m} : state'[n] = state[n] /\ message'[n] = message[n]
  /\ message'[m].socket = s /\ message'[m].address = home[s]
  /\ message'[m].early = (unread[s] # <<>>)
  /\ UNCHANGED <<key, appId, unread, home, open>>
  /\ Hears(m, home[s])

LEMMA Arrives ==
  ASSUME Inv, NEW m \in Messages, state[m] = "unsent", NEW s \in open,
         NEW c \in Customers \cup {None}, NEW f \in Flags \cup {0},
         Received(m, s, c, f),
         NEW outcome \in States \ {"unsent", "fetched", "failed"},
         state' = [state EXCEPT ![m] = outcome], UNCHANGED connectionVars,
         NEW flags \in Flags,
         Passed(m, s, home[s], flags) \/ Dropped(m, s, flags)
  PROVE  Arrival(m, s)
<1>1. /\ message'[m] = [socket |-> s, address |-> home[s], customer |-> c,
                        flags |-> f, early |-> unread[s] # <<>>]
      /\ \A n \in Messages \ {m} : message'[n] = message[n]
      /\ message'[m].early = (unread[s] # <<>>)
  BY ReceivedType
<1>2. message'[m].socket = s /\ message'[m].address = home[s]
  BY <1>1
<1>3. Hears(m, home[s]) /\ UNCHANGED <<key, appId, unread, home, open>>
  BY DEF Passed, Dropped, connectionVars
<1>4. QED
  BY <1>1, <1>2, <1>3 DEF Arrival, Inv, TypeOK

\* What it does to the messages.
LEMMA HeardArrives ==
  ASSUME Inv, Streams, NEW m \in Messages, NEW s, Arrival(m, s)
  PROVE  /\ HeardMessages' /\ Later /\ s \in Sockets /\ home[s] \in Addresses
         /\ \A a \in Addresses : heard[a] \subseteq heard'[a]
         /\ m \in heard'[home[s]]
<1>1. s \in Sockets /\ home[s] \in Addresses /\ s \in open
  BY DEF Arrival, Inv, TypeOK, ConnectionsTypeOK, ConnectionsOK
<1>2. /\ heard' = [heard EXCEPT ![home[s]] = @ \cup {m}]
      /\ state[m] = "unsent" /\ home' = home
      /\ \A n \in Messages \ {m} : state'[n] = state[n] /\ message'[n] = message[n]
  BY DEF Arrival, Hears
<1>3. Later
  BY <1>2 DEF Later
<1>4. /\ \A a \in Addresses : heard[a] \subseteq heard'[a]
      /\ m \in heard'[home[s]]
  BY <1>1, <1>2 DEF Inv, TypeOK
<1>5. ASSUME NEW a \in Addresses, NEW n \in heard'[a]
      PROVE  /\ state'[n] # "unsent"
             /\ message'[n].socket \in Sockets /\ home'[message'[n].socket] = a
  <2>1. CASE n \in heard[a]
    BY <1>2, <1>3, <1>4, <2>1, StaysHeard
  <2>2. CASE n \notin heard[a]
    <3>1. n = m /\ a = home[s]
      BY <1>1, <1>2, <2>2 DEF Inv, TypeOK
    <3>2. QED
      BY <1>1, <1>2, <3>1 DEF Arrival
  <2>3. QED
    BY <2>1, <2>2
<1>6. ASSUME NEW n \in Messages, state'[n] \in Waiting
      PROVE  n \in heard'[message'[n].address]
  <2>1. CASE n = m
    BY <1>4, <2>1 DEF Arrival
  <2>2. CASE n # m
    <3>1. n \in heard[message[n].address] /\ message'[n] = message[n]
      BY <1>2, <1>6, <2>2 DEF Streams, HeardMessages
    <3>2. message[n].address \in Addresses
      BY <1>2, <1>6, <2>2 DEF Inv, TypeOK, ConnectsWait
    <3>3. QED
      BY <1>4, <3>1, <3>2
  <2>3. QED
    BY <2>1, <2>2
<1>7. ASSUME NEW a \in Addresses, key'[a] # None
      PROVE  /\ appId'[a] \in heard'[a]
             /\ state'[appId'[a]] \notin Waiting \cup {"unrouted"}
  <2>1. key[a] # None /\ appId'[a] = appId[a]
    BY <1>7 DEF Arrival
  <2>2. appId[a] \in heard[a] /\ state[appId[a]] \notin Waiting \cup {"unrouted"}
    BY <2>1 DEF Streams, HeardMessages
  <2>3. appId[a] \in Messages /\ appId[a] # m
    BY <1>2, <2>1, <2>2 DEF Inv, TypeOK, KeysOfConnects
  <2>4. QED
    BY <1>2, <1>4, <2>1, <2>2, <2>3
<1>8. QED
  BY <1>1, <1>3, <1>4, <1>5, <1>6, <1>7 DEF HeardMessages

\* A message that reaches its object: its client and the server both count it,
\* or neither does, or it was sent too early.
LEMMA StreamsPassed ==
  ASSUME Inv, Streams, NEW m \in Messages, NEW s, Arrival(m, s),
         NEW flags \in Flags, Passed(m, s, home[s], flags),
         state'[m] # "unrouted"
  PROVE  Streams'
<1> DEFINE b == home[s]
<1>1. /\ HeardMessages' /\ Later /\ s \in Sockets /\ b \in Addresses
      /\ \A a \in Addresses : heard[a] \subseteq heard'[a]
      /\ m \in heard'[b] /\ s \in open
  BY HeardArrives DEF Arrival
<1>2. UNCHANGED <<key, home, open, unread>>
  BY DEF Arrival
<1>3. /\ \A t \in Sockets \ {s} : stream'[t] = stream[t]
      /\ \A a \in Addresses \ {b} : received'[a] = received[a]
  BY <1>1 DEF Passed, Counts, Inv, TypeOK
<1>4. ASSUME NEW t \in open, Unspoilt(t)'
      PROVE  Together(t, home[t])'
  <2>1. t \in Sockets /\ home[t] \in Addresses
    BY DEF Inv, TypeOK, ConnectionsTypeOK, ConnectionsOK
  <2>2. Unspoilt(t)
    BY <1>1, <1>2, <1>4, <2>1, StaysSpoilt
  <2>3. Together(t, home[t])
    BY <2>2 DEF Streams, ClientsInStep
  <2>4. CASE home[t] # b
    BY <1>2, <1>3, <2>1, <2>3, <2>4 DEF Together, InStep
  <2>5. CASE home[t] = b
    <3>1. ~Disturbs(m, t)'
      BY <1>1, <1>2, <1>4, <2>5 DEF Unspoilt
    <3>2. t = s /\ unread[s] = <<>>
      BY <3>1 DEF Disturbs, Arrival
    <3>3. CASE stream[s] = None
      <4>1. key[b] = None
        BY <2>3, <2>5, <3>2, <3>3 DEF Together
      <4>2. stream' = stream
        BY <3>3 DEF Passed, Counts, Enciphered
      <4>3. QED
        BY <1>2, <2>5, <3>2, <3>3, <4>1, <4>2 DEF Together
    <3>4. CASE stream[s] # None
      <4>1. stream[s] = [key |-> key[b], n |-> received[b]]
        BY <2>3, <2>5, <3>2, <3>4 DEF Together, InStep
      <4>2. stream[s] \in [key : Rc4Keys, n : Nat]
        BY <1>1, <3>4 DEF Inv, TypeOK
      <4>3. key[b] # None
        <5>1. key[b] = stream[s].key
          BY <4>1
        <5>2. QED
          BY <4>2, <5>1, NoRowAssumption, TCPAssumption
      <4>4. Deciphered(b, flags) <=> Enciphered(s, flags)
        <5>1. flags \in Int
          BY TCPAssumption
        <5>2. flags - 8 >= 0 => flags # 0
          BY <5>1
        <5>3. QED
          BY <3>4, <4>3, <5>2 DEF Deciphered, Enciphered, Guarded, TurnedOn
      <4>5. CASE ~Enciphered(s, flags)
        <5>1. received' = received /\ stream' = stream
          BY <4>4, <4>5 DEF Passed, Counts
        <5>2. QED
          BY <1>2, <2>3, <2>5, <5>1 DEF Together, InStep
      <4>6. CASE Enciphered(s, flags)
        <5>1. received'[b] = received[b] + 1
          BY <1>1, <4>4, <4>6 DEF Passed, Inv, TypeOK
        <5>2. stream'[s] = [stream[s] EXCEPT !.n = @ + 1]
          BY <1>1, <4>6 DEF Passed, Counts, Inv, TypeOK
        <5>3. stream'[s] = [key |-> key[b], n |-> received[b] + 1]
          BY <4>1, <5>2
        <5>4. InStep(s, b)'
          BY <1>2, <5>1, <5>3 DEF InStep
        <5>5. stream'[s] # None
          <6>1. [stream[s] EXCEPT !.n = @ + 1] \in [key : Rc4Keys, n : Nat]
            BY <4>2
          <6>2. QED
            BY <5>2, <6>1, TCPAssumption
        <5>6. unread'[s] = <<>>
          BY <1>2, <3>2
        <5>7. Together(s, b)'
          BY <5>4, <5>5, <5>6 DEF Together
        <5>8. QED
          BY <1>2, <2>5, <3>2, <5>7
      <4>7. QED
        BY <4>5, <4>6
    <3>5. QED
      BY <3>3, <3>4
  <2>6. QED
    BY <2>4, <2>5
<1>5. \A t \in Sockets : t \notin open' => stream'[t] = None /\ unread'[t] = <<>>
  BY <1>1, <1>2, <1>3 DEF Streams, ClientsInStep
<1>6. QED
  BY <1>1, <1>2, <1>4, <1>5 DEF Streams, ClientsInStep

\* A message the listener drops: its client alone counts it.
LEMMA StreamsDropped ==
  ASSUME Inv, Streams, NEW m \in Messages, NEW s, Arrival(m, s),
         NEW flags \in Flags, Dropped(m, s, flags),
         state'[m] = "unrouted"
  PROVE  Streams'
<1>1. /\ HeardMessages' /\ Later /\ s \in Sockets /\ home[s] \in Addresses
      /\ \A a \in Addresses : heard[a] \subseteq heard'[a]
      /\ m \in heard'[home[s]] /\ s \in open
  BY HeardArrives DEF Arrival
<1>2. UNCHANGED <<key, received, home, open, unread>>
  BY DEF Arrival, Dropped
<1>3. \A t \in Sockets \ {s} : stream'[t] = stream[t]
  BY <1>1 DEF Dropped, Counts, Inv, TypeOK
<1>4. ASSUME NEW t \in open, Unspoilt(t)'
      PROVE  Together(t, home[t])'
  <2>1. t \in Sockets /\ home[t] \in Addresses
    BY DEF Inv, TypeOK, ConnectionsTypeOK, ConnectionsOK
  <2>2. Unspoilt(t)
    BY <1>1, <1>2, <1>4, <2>1, StaysSpoilt
  <2>3. Together(t, home[t])
    BY <2>2 DEF Streams, ClientsInStep
  <2>4. t # s
    <3>1. Disturbs(m, s)'
      BY DEF Disturbs, Arrival
    <3>2. QED
      BY <1>1, <1>2, <1>4, <3>1 DEF Unspoilt
  <2>5. QED
    BY <1>2, <1>3, <2>1, <2>3, <2>4 DEF Together, InStep
<1>5. \A t \in Sockets : t \notin open' => stream'[t] = None /\ unread'[t] = <<>>
  BY <1>1, <1>2, <1>3 DEF Streams, ClientsInStep
<1>6. QED
  BY <1>1, <1>2, <1>4, <1>5 DEF Streams, ClientsInStep

\* A message that ends in an error, in a process that lives on or does not.
LEMMA StreamsThrown ==
  ASSUME Inv, Streams, NEW m \in Messages, state[m] = "unsent", NEW s \in open,
         Received(m, s, None, 0),
         NEW flags \in Flags,
         NEW outcome \in States \ (Waiting \cup {"unsent"}),
         \/ /\ outcome # "unrouted"
            /\ Reject([state EXCEPT ![m] = outcome], Passed(m, s, home[s], flags))
         \/ /\ outcome = "unrouted"
            /\ Reject([state EXCEPT ![m] = outcome], Dropped(m, s, flags))
  PROVE  Streams'
<1>1. CASE CrashOnRejection
  BY <1>1, StreamsDown DEF Reject
<1>2. CASE ~CrashOnRejection
  <2>1. /\ state' = [state EXCEPT ![m] = outcome] /\ UNCHANGED connectionVars
        /\ \/ outcome # "unrouted" /\ Passed(m, s, home[s], flags)
           \/ outcome = "unrouted" /\ Dropped(m, s, flags)
    BY <1>2 DEF Reject
  <2>2. state'[m] = outcome
    BY <2>1 DEF Inv, TypeOK
  <2>3. Arrival(m, s)
    BY <2>1, Arrives DEF Waiting
  <2>4. QED
    BY <2>1, <2>2, <2>3, StreamsPassed, StreamsDropped
<1>3. QED
  BY <1>1, <1>2

LEMMA StreamsReceive ==
  ASSUME Inv, Streams, NEW m \in Messages, NEW s \in Sockets, NEW flags \in Flags,
         \/ ReceiveUnready(m, s, flags)
         \/ ReceiveNoise(m, s, flags)
         \/ ReceiveUnrouted(m, s, flags)
         \/ ReceiveUnknown(m, s, flags)
         \/ \E op \in Requests : ReceiveRequest(m, s, op, flags)
         \/ \E c \in Customers : ReceiveConnect(m, s, flags, c)
  PROVE  Streams'
<1>1. ASSUME NEW outcome \in {"unready", "outOfStep", "rejected"},
             state[m] = "unsent", s \in open, Received(m, s, None, 0),
             Reject([state EXCEPT ![m] = outcome], Passed(m, s, home[s], flags))
      PROVE  Streams'
  BY <1>1, StreamsThrown DEF States, Waiting
<1>2. CASE \/ ReceiveUnready(m, s, flags)
           \/ ReceiveNoise(m, s, flags)
           \/ ReceiveUnknown(m, s, flags)
  BY <1>1, <1>2 DEF ReceiveUnready, ReceiveNoise, ReceiveUnknown, Routed
<1>3. CASE ReceiveUnrouted(m, s, flags)
  <2>1. /\ state[m] = "unsent" /\ s \in open /\ Received(m, s, None, 0)
        /\ Reject([state EXCEPT ![m] = "unrouted"], Dropped(m, s, flags))
    BY <1>3 DEF ReceiveUnrouted, Reject, Dropped
  <2>2. "unrouted" \in States \ (Waiting \cup {"unsent"})
    BY DEF States, Waiting
  <2>3. QED
    BY <2>1, <2>2, StreamsThrown
<1>4. ASSUME NEW outcome \in States \ {"unsent", "fetched", "failed", "unrouted"},
             NEW c \in Customers \cup {None}, NEW f \in Flags \cup {0},
             state[m] = "unsent", s \in open, Received(m, s, c, f),
             state' = [state EXCEPT ![m] = outcome],
             Passed(m, s, home[s], flags), UNCHANGED connectionVars
      PROVE  Streams'
  <2>1. state'[m] # "unrouted"
    BY <1>4 DEF Inv, TypeOK
  <2>2. Arrival(m, s)
    BY <1>4, Arrives
  <2>3. QED
    BY <1>4, <2>1, <2>2, StreamsPassed
<1>5. ASSUME NEW op \in Requests, ReceiveRequest(m, s, op, flags)
      PROVE  Streams'
  <2> DEFINE outcome == Outcome(home[s], op, flags, key[home[s]])
  <2>1. /\ outcome \in {"silent", "rejected", "undelivered", "garbled", "answered"}
        /\ outcome \in States \ (Waiting \cup {"unsent", "unrouted"})
    BY DEF Outcome, States, Waiting
  <2>2. /\ state[m] = "unsent" /\ s \in open /\ Received(m, s, None, 0)
        /\ IF outcome \in Thrown
           THEN Reject([state EXCEPT ![m] = outcome], Passed(m, s, home[s], flags))
           ELSE /\ state' = [state EXCEPT ![m] = outcome]
                /\ Passed(m, s, home[s], flags)
                /\ UNCHANGED connectionVars
    BY <1>5 DEF ReceiveRequest, Routed
  <2> HIDE DEF outcome
  <2>3. CASE outcome \in Thrown
    BY <2>1, <2>2, <2>3, StreamsThrown
  <2>4. CASE outcome \notin Thrown
    BY <1>4, <2>1, <2>2, <2>4 DEF Waiting
  <2>5. QED
    BY <2>3, <2>4
<1>6. ASSUME NEW c \in Customers, ReceiveConnect(m, s, flags, c)
      PROVE  Streams'
  BY <1>4, <1>6 DEF ReceiveConnect, Routed, States
<1>7. QED
  BY <1>2, <1>3, <1>5, <1>6

\* New streams: the client that asked has an answer to read, or is disturbed
\* by its own connect as the other clients of the object are.
LEMMA StreamsAnswer ==
  ASSUME Inv, Streams, NEW m \in Messages, AnswerConnect(m)
  PROVE  Streams'
<1> DEFINE a == message[m].address
           c == message[m].socket
<1>1. /\ state[m] = "fetched" /\ row[m] \in Rc4Keys /\ message' = message
      /\ a \in Addresses /\ c \in Sockets
  BY Answering
<1>2. m \in heard[a] /\ home[c] = a
  BY <1>1 DEF Streams, HeardMessages, Waiting
<1>3. PICK outcome \in {"answered", "garbled", "strayed", "undelivered"} :
        \/ Down([state EXCEPT ![m] = outcome])
        \/ /\ state' = [state EXCEPT ![m] = outcome] /\ SetUp(a, m)
           /\ UNCHANGED <<connectionVars, stream>>
           /\ \/ outcome \in {"strayed", "undelivered"} /\ UNCHANGED unread
              \/ /\ outcome \in {"answered", "garbled"} /\ c \in open
                 /\ unread' = [unread EXCEPT ![c] = Append(@, row[m])]
  BY Answering
<1>4. CASE /\ state' = [state EXCEPT ![m] = outcome] /\ SetUp(a, m)
           /\ UNCHANGED <<connectionVars, stream>>
           /\ \/ outcome \in {"strayed", "undelivered"} /\ UNCHANGED unread
              \/ /\ outcome \in {"answered", "garbled"} /\ c \in open
                 /\ unread' = [unread EXCEPT ![c] = Append(@, row[m])]
  <2>1. /\ UNCHANGED <<heard, home, open, stream>>
        /\ key' = [key EXCEPT ![a] = row[m]]
        /\ received' = [received EXCEPT ![a] = 0]
        /\ appId' = [appId EXCEPT ![a] = m]
    BY <1>4 DEF SetUp, connectionVars
  <2>2. /\ state'[m] = outcome
        /\ outcome \notin Waiting \cup {"unsent", "unrouted"}
        /\ \A n \in Messages \ {m} : state'[n] = state[n]
    BY <1>4 DEF Inv, TypeOK, Waiting
  <2>3. Later
    BY <1>1, <2>2 DEF Later, Waiting
  <2>4. HeardMessages'
    <3>1. ASSUME NEW b \in Addresses, NEW n \in heard[b]
          PROVE  /\ state'[n] # "unsent"
                 /\ message[n].socket \in Sockets /\ home[message[n].socket] = b
      BY <2>1, <2>3, StaysHeard
    <3>2. ASSUME NEW n \in Messages, state'[n] \in Waiting
          PROVE  n \in heard[message[n].address]
      BY <2>2, <3>2 DEF Streams, HeardMessages
    <3>3. ASSUME NEW b \in Addresses, key'[b] # None
          PROVE  /\ appId'[b] \in heard[b]
                 /\ state'[appId'[b]] \notin Waiting \cup {"unrouted"}
      <4>1. CASE b = a
        <5>1. appId'[b] = m
          BY <1>1, <2>1, <4>1 DEF Inv, TypeOK
        <5>2. QED
          BY <1>2, <2>2, <4>1, <5>1
      <4>2. CASE b # a
        <5>1. key[b] # None /\ appId'[b] = appId[b]
          BY <2>1, <3>3, <4>2 DEF Inv, TypeOK
        <5>2. /\ appId[b] \in heard[b] /\ appId[b] \in Messages
              /\ state[appId[b]] \notin Waiting \cup {"unrouted"}
          BY <5>1 DEF Streams, HeardMessages, Inv, TypeOK
        <5>3. QED
          BY <1>1, <2>2, <5>1, <5>2 DEF Waiting
      <4>3. QED
        BY <4>1, <4>2
    <3>4. QED
      BY <1>1, <2>1, <3>1, <3>2, <3>3 DEF HeardMessages
  <2>5. ASSUME NEW t \in open, Unspoilt(t)'
        PROVE  Together(t, home[t])'
    <3>1. t \in Sockets /\ home[t] \in Addresses
      BY DEF Inv, TypeOK, ConnectionsTypeOK, ConnectionsOK
    <3>2. CASE home[t] # a
      <4>1. Unspoilt(t)
        BY <2>1, <2>3, <2>5, <3>1, StaysSpoilt
      <4>2. Together(t, home[t])
        BY <4>1 DEF Streams, ClientsInStep
      <4>3. /\ key'[home[t]] = key[home[t]]
            /\ received'[home[t]] = received[home[t]]
        BY <2>1, <3>1, <3>2 DEF Inv, TypeOK
      <4>4. t # c
        BY <1>2, <3>2
      <4>5. unread'[t] = unread[t]
        BY <1>4, <3>1, <4>4 DEF Inv, TypeOK
      <4>6. QED
        BY <2>1, <4>2, <4>3, <4>5 DEF Together, InStep
    <3>3. CASE home[t] = a
      <4>1. ~Disturbs(m, t)'
        BY <1>2, <2>1, <2>5, <3>3 DEF Unspoilt
      <4>2. t = c /\ outcome \in {"answered", "garbled"}
        BY <1>1, <1>3, <2>2, <4>1 DEF Disturbs
      <4>3. unread[c] \in Seq(Rc4Keys) /\ unread'[c] = Append(unread[c], row[m])
        BY <1>1, <1>4, <4>2 DEF Inv, TypeOK
      <4>4. unread'[c] # <<>> /\ unread'[c][Len(unread'[c])] = row[m]
        BY <1>1, <4>3
      <4>5. key'[a] = row[m] /\ received'[a] = 0
        BY <1>1, <2>1 DEF Inv, TypeOK
      <4>6. QED
        BY <2>1, <3>3, <4>2, <4>4, <4>5 DEF Together
    <3>4. QED
      BY <3>2, <3>3
  <2>6. \A t \in Sockets : t \notin open' => stream'[t] = None /\ unread'[t] = <<>>
    BY <1>1, <1>4, <2>1 DEF Streams, ClientsInStep, Inv, TypeOK
  <2>7. QED
    BY <2>1, <2>4, <2>5, <2>6 DEF Streams, ClientsInStep
<1>5. QED
  BY <1>3, <1>4, StreamsDown

LEMMA StreamsNext == Inv /\ Streams /\ [Next]_vars => Streams'
<1> SUFFICES ASSUME Inv, Streams, [Next]_vars PROVE Streams'
  OBVIOUS
<1>1. ASSUME NEW s \in Sockets, NEW a \in Addresses, Connect(s, a)
      PROVE  Streams'
  BY <1>1, StreamsConnect
<1>2. ASSUME NEW s \in Sockets, Close(s) \/ ReadAnswer(s)
      PROVE  Streams'
  BY <1>2, StreamsClient
<1>3. CASE \E s \in Sockets, m \in Messages, flags \in Flags :
             \/ ReceiveUnready(m, s, flags)
             \/ ReceiveNoise(m, s, flags)
             \/ ReceiveUnrouted(m, s, flags)
             \/ ReceiveUnknown(m, s, flags)
             \/ \E op \in Requests : ReceiveRequest(m, s, op, flags)
             \/ \E c \in Customers : ReceiveConnect(m, s, flags, c)
  BY <1>3, StreamsReceive
<1>4. ASSUME UNCHANGED <<state, message, objectVars, clientVars, home, open>>
      PROVE  Streams'
  <2>1. Later
    BY <1>4 DEF Later
  <2>2. QED
    BY <1>4, <2>1, StreamsKept DEF objectVars
<1>5. ASSUME NEW m \in Messages, NEW outcome \in States \ {"unsent", "fetching", "unrouted"},
             state[m] \in Waiting \cup {"unsent"},
             state[m] = "unsent" => outcome \notin Waiting,
             state' = [state EXCEPT ![m] = outcome],
             \A n \in Messages \ {m} : message'[n] = message[n],
             state[m] # "unsent" => message'[m] = message[m],
             UNCHANGED <<objectVars, clientVars, home, open>>
      PROVE  Streams'
  <2>1. Later /\ \A n \in Messages : state'[n] \in Waiting => state[n] \in Waiting
    BY <1>5 DEF Later, Inv, TypeOK
  <2>2. QED
    BY <1>5, <2>1, StreamsKept DEF objectVars
<1>6. ASSUME NEW m \in Messages, FetchRow(m) \/ FetchFails(m)
      PROVE  Streams'
  BY <1>5, <1>6 DEF FetchRow, FetchFails, Waiting, States, connectionVars
<1>7. ASSUME NEW m \in Messages, AnswerConnect(m) PROVE Streams'
  BY <1>7, StreamsAnswer
<1>8. ASSUME NEW m \in Messages,
             \/ RejectConnect(m)
             \/ \E s \in Sockets : ReceiveShort(m, s)
      PROVE  Streams'
  <2>1. /\ state[m] \in Waiting \cup {"unsent"}
        /\ \A n \in Messages \ {m} : message'[n] = message[n]
        /\ state[m] # "unsent" => message'[m] = message[m]
        /\ Reject([state EXCEPT ![m] = "rejected"],
                  UNCHANGED <<objectVars, clientVars>>)
    <3>1. CASE RejectConnect(m)
      BY <3>1 DEF RejectConnect, Waiting
    <3>2. ASSUME NEW s \in Sockets, ReceiveShort(m, s)
          PROVE  /\ state[m] = "unsent" /\ Received(m, s, None, 0)
                 /\ Reject([state EXCEPT ![m] = "rejected"],
                           UNCHANGED <<objectVars, clientVars>>)
      BY <3>2 DEF ReceiveShort
    <3>3. ASSUME NEW s \in Sockets, Received(m, s, None, 0)
          PROVE  \A n \in Messages \ {m} : message'[n] = message[n]
      BY <3>3 DEF Received, Inv, TypeOK
    <3>4. QED
      BY <1>8, <3>1, <3>2, <3>3
  <2>2. CASE CrashOnRejection
    BY <2>1, <2>2, StreamsDown DEF Reject
  <2>3. CASE ~CrashOnRejection
    <3>1. /\ state' = [state EXCEPT ![m] = "rejected"]
          /\ UNCHANGED <<objectVars, clientVars, home, open>>
      BY <2>1, <2>3 DEF Reject, connectionVars
    <3>2. "rejected" \in States \ (Waiting \cup {"unsent", "unrouted"})
      BY DEF States, Waiting
    <3>3. QED
      BY <1>5, <2>1, <3>1, <3>2 DEF Waiting
  <2>4. QED
    BY <2>2, <2>3
<1>9. CASE Crash
  BY <1>9, StreamsDown DEF Crash
<1>10. CASE \/ Restart \/ UNCHANGED vars
            \/ \E c \in Customers, k \in Keys : StoreKey(c, k)
  BY <1>4, <1>10 DEF Restart, Start, StoreKey, vars, messageVars, connectionVars
<1>11. QED
  BY <1>1, <1>2, <1>3, <1>6, <1>7, <1>8, <1>9, <1>10 DEF Next

\* Only one error shows the streams out of step.
LEMMA BecomesOutOfStep ==
  ASSUME Inv, [Next]_vars, NEW m \in Messages,
         state[m] = "unsent", state'[m] = "outOfStep"
  PROVE  \E s \in Sockets, flags \in Flags : ReceiveNoise(m, s, flags)
<1> DEFINE Ends(n, outcome) ==
             \/ state' = [state EXCEPT ![n] = outcome]
             \/ Down([state EXCEPT ![n] = outcome])
<1>1. ASSUME NEW n \in Messages, NEW outcome, Ends(n, outcome)
      PROVE  n = m /\ outcome = "outOfStep"
  BY <1>1 DEF Inv, TypeOK, Down, Waiting
<1>2. ~UNCHANGED state /\ ~Down(state)
  BY DEF Down, Waiting
<1>3. ASSUME NEW s \in Sockets, NEW n \in Messages, NEW flags \in Flags,
             \/ ReceiveUnready(n, s, flags) \/ ReceiveUnrouted(n, s, flags)
             \/ ReceiveUnknown(n, s, flags)
      PROVE  FALSE
  <2>1. Ends(n, "unready") \/ Ends(n, "unrouted") \/ Ends(n, "rejected")
    BY <1>3 DEF ReceiveUnready, ReceiveUnrouted, ReceiveUnknown, Reject
  <2> HIDE DEF Ends
  <2>2. QED
    BY <1>1, <2>1
<1>4. ASSUME NEW s \in Sockets, NEW n \in Messages, NEW flags \in Flags,
             NEW op \in Requests, ReceiveRequest(n, s, op, flags)
      PROVE  FALSE
  <2> DEFINE outcome == Outcome(home[s], op, flags, key[home[s]])
  <2>1. outcome # "outOfStep"
    BY DEF Outcome
  <2>2. Ends(n, outcome)
    BY <1>4 DEF ReceiveRequest, Reject
  <2> HIDE DEF Ends, outcome
  <2>3. QED
    BY <1>1, <2>1, <2>2
<1>5. ASSUME NEW s \in Sockets, NEW n \in Messages, NEW flags \in Flags,
             NEW c \in Customers, ReceiveConnect(n, s, flags, c)
      PROVE  FALSE
  <2>1. Ends(n, "fetching")
    BY <1>5 DEF ReceiveConnect
  <2> HIDE DEF Ends
  <2>2. QED
    BY <1>1, <2>1
<1>6. ASSUME NEW n \in Messages,
             \/ FetchRow(n) \/ FetchFails(n)
             \/ AnswerConnect(n) \/ RejectConnect(n)
             \/ \E s \in Sockets : ReceiveShort(n, s)
      PROVE  FALSE
  <2> DEFINE outcome == Outcome(message[n].address, "connect",
                                message[n].flags, row[n])
  <2>1. \/ Ends(n, "fetched") \/ Ends(n, "failed")
        \/ Ends(n, outcome) \/ Ends(n, "strayed") \/ Ends(n, "rejected")
    BY <1>6 DEF FetchRow, FetchFails, AnswerConnect, RejectConnect, ReceiveShort, Reject
  <2>2. outcome # "outOfStep"
    BY DEF Outcome
  <2> HIDE DEF Ends, outcome
  <2>3. QED
    BY <1>1, <2>1, <2>2
<1>7. ASSUME NEW s \in Sockets, NEW n \in Messages, NEW flags \in Flags,
             ReceiveNoise(n, s, flags)
      PROVE  n = m
  <2>1. Ends(n, "outOfStep")
    BY <1>7 DEF ReceiveNoise, Reject
  <2> HIDE DEF Ends
  <2>2. QED
    BY <1>1, <2>1
<1> HIDE DEF Ends
<1>8. CASE \/ \E s \in Sockets :
                (\E a \in Addresses : Connect(s, a)) \/ Close(s) \/ ReadAnswer(s)
           \/ \E c \in Customers, k \in Keys : StoreKey(c, k)
           \/ Crash \/ Restart \/ UNCHANGED vars
  BY <1>2, <1>8
  DEF Connect, Close, ReadAnswer, StoreKey, Crash, Restart, vars, messageVars
<1>9. QED
  BY <1>3, <1>4, <1>5, <1>6, <1>7, <1>8 DEF Next

-----------------------------------------------------------------------------
\* The invariant holds in every state of the game server.
THEOREM Safety == Spec => []Inv
BY InitInv, NextInv, PTL DEF Spec

\* The variables keep their types; a process that is down waits for nothing.
THEOREM TypeCorrect == Spec => []TypeOK
<1>1. Inv => TypeOK
  BY DEF Inv
<1>2. QED
  BY <1>1, Safety, PTL

\* Key, streams and persona of a connection are those of one connect message.
THEOREM KeyAndPersona == Spec => []KeyAndPersonaAgree
BY InvImplies, Safety, PTL

\* Nobody connects with flags on a connection without keys.
THEOREM KeylessConnects == Spec => []KeylessConnectsAreUnflagged
BY InvImplies, Safety, PTL

\* A client none of whose messages was dropped, sent too early or answered
\* elsewhere, on an object that handled nobody else's, has enciphered what the
\* server deciphered, or has the answer that brings its new streams to read.
THEOREM StreamsHang == Spec => []Streams
<1>1. Init => Streams
  BY StreamsInit
<1>2. Inv /\ Streams /\ [Next]_vars => Streams'
  BY StreamsNext
<1>3. QED
  BY <1>1, <1>2, Safety, PTL DEF Spec

\* What a message out of step says of the messages heard before it.
OutOfStepExplained(m) ==
  state'[m] = "outOfStep" /\ state[m] = "unsent" =>
    \/ message'[m].early
    \/ \E n \in heard[message'[m].address] : Disturbs(n, message'[m].socket)

\* A message that deciphers to noise was sent before an answer was read, or
\* comes after one that put its client and the server apart: connects, further
\* connects and enciphered messages alone never do.
THEOREM LoneClient == Spec => LoneClientInStep
<1>1. ASSUME Inv, Streams, [Next]_vars, NEW m \in Messages
      PROVE  OutOfStepExplained(m)
  <2> SUFFICES ASSUME state'[m] = "outOfStep", state[m] = "unsent"
               PROVE  \/ message'[m].early
                      \/ \E n \in heard[message'[m].address] :
                           Disturbs(n, message'[m].socket)
    BY DEF OutOfStepExplained
  <2>1. PICK s \in Sockets, flags \in Flags : ReceiveNoise(m, s, flags)
    BY <1>1, BecomesOutOfStep
  <2>2. /\ s \in open /\ Received(m, s, None, 0)
        /\ key[home[s]] # None /\ ~InStep(s, home[s])
    BY <2>1 DEF ReceiveNoise, Routed, Legible, Deciphered
  <2>3. unread[s] # <<>> \/ ~Unspoilt(s)
    BY <1>1, <2>2 DEF Streams, ClientsInStep, Together
  <2>4. /\ message'[m] = [socket |-> s, address |-> home[s], customer |-> None,
                          flags |-> 0, early |-> unread[s] # <<>>]
        /\ message'[m].early = (unread[s] # <<>>)
    BY <1>1, <2>2, ReceivedType
  <2>5. message'[m].socket = s /\ message'[m].address = home[s]
    BY <2>4
  <2>6. QED
    BY <2>3, <2>4, <2>5 DEF Unspoilt
<1>2. Inv /\ Streams /\ [Next]_vars =>
        \A m \in Messages : OutOfStepExplained(m)
  BY <1>1
<1>3. Spec => [][\A m \in Messages : OutOfStepExplained(m)]_vars
  BY <1>2, Safety, StreamsHang, PTL DEF Spec
<1>4. QED
  BY <1>3 DEF LoneClientInStep, OutOfStepExplained

-----------------------------------------------------------------------------
(* The handlers, with their waits, implement a service that reads a row,   *)
(* makes the streams and answers in one step.                              *)

\* A connect that was answered has its customer's row to show for it.
RepliedHaveRows ==
  \A m \in Messages : Replied(m) => sessions[message[m].customer] # None

\* A step that replies to no connect: the table stays, the keys stay or are
\* forgotten together.
Quiet ==
  /\ UNCHANGED sessions
  /\ UNCHANGED key \/ key' = [a \in Addresses |-> None]
  /\ \A m \in Messages :
       /\ Replied(m)' <=> Replied(m)
       /\ Replied(m) => message'[m] = message[m]

\* A message that has come in, and was not a connect or is not answered yet.
LEMMA QuietReceived ==
  ASSUME Inv, NEW m \in Messages, state[m] = "unsent", NEW s,
         NEW c, NEW f, Received(m, s, c, f),
         NEW t \in [Messages -> States],
         \A n \in Messages \ {m} : t[n] = state[n],
         c # None => t[m] = "fetching",
         UNCHANGED sessions,
         \/ Down(t)
         \/ state' = t /\ UNCHANGED key
  PROVE  Quiet
<1>1. \A n \in Messages : t[n] # state'[n] => t[n] \in Waiting /\ state'[n] = "lost"
  BY DEF Down
<1>2. \A n \in Messages \ {m} : message'[n] = message[n]
  BY DEF Received
<1>3. message'[m].customer = c
  BY DEF Received, Inv, TypeOK
<1>4. ~Replied(m) /\ ~Replied(m)'
  BY <1>1, <1>3 DEF Replied, Waiting
<1>5. \A n \in Messages \ {m} : Replied(n)' <=> Replied(n)
  BY <1>1, <1>2 DEF Replied, Waiting
<1>6. QED
  BY <1>2, <1>4, <1>5 DEF Quiet, Down

LEMMA QuietReceive ==
  ASSUME Inv, NEW m \in Messages, NEW s \in Sockets, NEW flags \in Flags,
         \/ ReceiveUnready(m, s, flags)
         \/ ReceiveNoise(m, s, flags)
         \/ ReceiveUnrouted(m, s, flags)
         \/ ReceiveUnknown(m, s, flags)
         \/ \E op \in Requests : ReceiveRequest(m, s, op, flags)
         \/ \E c \in Customers : ReceiveConnect(m, s, flags, c)
  PROVE  Quiet
<1>1. state \in [Messages -> States] /\ state[m] = "unsent"
  BY DEF Inv, TypeOK, ReceiveUnready, ReceiveNoise, ReceiveUnrouted, ReceiveUnknown,
     ReceiveRequest, ReceiveConnect
<1>2. PICK outcome \in States, c \in Customers \cup {None}, f \in Flags \cup {0} :
        /\ Received(m, s, c, f) /\ UNCHANGED sessions
        /\ c # None => outcome = "fetching"
        /\ \/ Down([state EXCEPT ![m] = outcome])
           \/ state' = [state EXCEPT ![m] = outcome] /\ UNCHANGED key
  <2>1. CASE \/ ReceiveUnready(m, s, flags)
             \/ ReceiveNoise(m, s, flags)
             \/ ReceiveUnrouted(m, s, flags)
             \/ ReceiveUnknown(m, s, flags)
    <3>1. PICK outcome \in {"unready", "outOfStep", "unrouted", "rejected"} :
            \/ Down([state EXCEPT ![m] = outcome])
            \/ state' = [state EXCEPT ![m] = outcome] /\ UNCHANGED key
      BY <2>1 DEF ReceiveUnready, ReceiveNoise, ReceiveUnrouted, ReceiveUnknown,
                  Reject, Passed
    <3>2. Received(m, s, None, 0) /\ UNCHANGED sessions
      BY <2>1 DEF ReceiveUnready, ReceiveNoise, ReceiveUnrouted, ReceiveUnknown
    <3>3. outcome \in States
      BY DEF States
    <3>4. QED
      BY <3>1, <3>2, <3>3
  <2>2. ASSUME NEW op \in Requests, ReceiveRequest(m, s, op, flags)
        PROVE  \E outcome \in States :
                 /\ Received(m, s, None, 0) /\ UNCHANGED sessions
                 /\ \/ Down([state EXCEPT ![m] = outcome])
                    \/ state' = [state EXCEPT ![m] = outcome] /\ UNCHANGED key
    <3> DEFINE outcome == Outcome(home[s], op, flags, key[home[s]])
    <3>1. outcome \in States
      BY DEF Outcome, States
    <3>2. /\ Received(m, s, None, 0) /\ UNCHANGED sessions
          /\ \/ Reject([state EXCEPT ![m] = outcome], Passed(m, s, home[s], flags))
             \/ state' = [state EXCEPT ![m] = outcome] /\ Passed(m, s, home[s], flags)
      BY <2>2 DEF ReceiveRequest
    <3> HIDE DEF outcome
    <3>3. QED
      BY <3>1, <3>2 DEF Reject, Passed
  <2>3. ASSUME NEW c \in Customers, ReceiveConnect(m, s, flags, c)
        PROVE  /\ Received(m, s, c, flags) /\ UNCHANGED sessions
               /\ state' = [state EXCEPT ![m] = "fetching"] /\ UNCHANGED key
    BY <2>3 DEF ReceiveConnect, Passed
  <2>4. "fetching" \in States
    BY DEF States
  <2>5. QED
    BY <2>1, <2>2, <2>3, <2>4
<1> DEFINE t == [state EXCEPT ![m] = outcome]
<1>3. /\ t \in [Messages -> States] /\ t[m] = outcome
      /\ \A n \in Messages \ {m} : t[n] = state[n]
  BY <1>1
<1>4. Down(t) \/ (state' = t /\ UNCHANGED key)
  BY <1>2
<1> HIDE DEF t
<1>5. QED
  BY <1>1, <1>2, <1>3, <1>4, QuietReceived

\* Steps that change no message.
LEMMA QuietStates ==
  ASSUME Inv, UNCHANGED <<sessions, message>>,
         NEW t \in [Messages -> States],
         \A n \in Messages :
           \/ t[n] = state[n]
           \/ {t[n], state[n]} \cap {"answered", "garbled", "strayed"} = {},
         \/ Down(t)
         \/ state' = t /\ UNCHANGED key
  PROVE  Quiet
<1>1. \A n \in Messages : t[n] # state'[n] => t[n] \in Waiting /\ state'[n] = "lost"
  BY DEF Down
<1>2. \A n \in Messages : Replied(n)' <=> Replied(n)
  BY <1>1 DEF Replied, Waiting
<1>3. QED
  BY <1>2 DEF Quiet, Down

\* Of the steps that are not quiet there are two kinds.
LEMMA StepKinds ==
  ASSUME Inv, [Next]_vars
  PROVE  \/ Quiet
         \/ /\ \E c \in Customers, k \in Keys : Insert(c, k)
            /\ UNCHANGED <<key, state, message>>
         \/ \E m \in Messages : AnswerConnect(m)
<1>1. state \in [Messages -> States]
  BY DEF Inv, TypeOK
<1>2. ASSUME NEW m \in Messages, NEW s \in Sockets, NEW flags \in Flags,
             \/ ReceiveUnready(m, s, flags)
             \/ ReceiveNoise(m, s, flags)
             \/ ReceiveUnrouted(m, s, flags)
             \/ ReceiveUnknown(m, s, flags)
             \/ \E op \in Requests : ReceiveRequest(m, s, op, flags)
             \/ \E c \in Customers : ReceiveConnect(m, s, flags, c)
      PROVE  Quiet
  BY <1>2, QuietReceive
<1>3. CASE \/ UNCHANGED vars \/ Restart
           \/ \E s \in Sockets :
                Close(s) \/ ReadAnswer(s) \/ \E a \in Addresses : Connect(s, a)
  <2>1. UNCHANGED <<sessions, message, state, key>>
    BY <1>3 DEF vars, objectVars, messageVars, Restart, Close, ReadAnswer, Connect
  <2>2. QED
    BY <1>1, <2>1, QuietStates
<1>4. ASSUME NEW m \in Messages, FetchRow(m) \/ FetchFails(m) \/ RejectConnect(m)
      PROVE  Quiet
  <2>1. PICK outcome \in {"fetched", "failed", "rejected"} :
          \/ Reject([state EXCEPT ![m] = outcome], UNCHANGED <<objectVars, clientVars>>)
          \/ state' = [state EXCEPT ![m] = outcome] /\ UNCHANGED objectVars
    BY <1>4 DEF FetchRow, FetchFails, RejectConnect
  <2>2. state[m] \in Waiting /\ UNCHANGED <<sessions, message>>
    BY <1>4 DEF FetchRow, FetchFails, RejectConnect, Waiting
  <2> DEFINE t == [state EXCEPT ![m] = outcome]
  <2>3. /\ t \in [Messages -> States] /\ t[m] = outcome
        /\ \A n \in Messages \ {m} : t[n] = state[n]
    BY <1>1 DEF States
  <2>4. Down(t) \/ (state' = t /\ UNCHANGED key)
    BY <2>1 DEF Reject, objectVars
  <2> HIDE DEF t
  <2>5. QED
    BY <2>2, <2>3, <2>4, QuietStates DEF Waiting
<1>5. CASE Crash
  BY <1>1, <1>5, QuietStates DEF Crash
<1>6. ASSUME NEW c \in Customers, NEW k \in Keys, StoreKey(c, k)
      PROVE  Insert(c, k) /\ UNCHANGED <<key, state, message>>
  BY <1>6 DEF StoreKey, objectVars, messageVars
<1>7. ASSUME NEW m \in Messages, NEW s \in Sockets, ReceiveShort(m, s)
      PROVE  Quiet
  <2> DEFINE t == [state EXCEPT ![m] = "rejected"]
  <2>1. /\ state[m] = "unsent" /\ Received(m, s, None, 0) /\ UNCHANGED sessions
        /\ Down(t) \/ (state' = t /\ UNCHANGED key)
    BY <1>7 DEF ReceiveShort, Reject, objectVars
  <2>2. t \in [Messages -> States] /\ \A n \in Messages \ {m} : t[n] = state[n]
    BY <1>1 DEF States
  <2> HIDE DEF t
  <2>3. QED
    BY <2>1, <2>2, QuietReceived
<1>8. QED
  BY <1>2, <1>3, <1>4, <1>5, <1>6, <1>7 DEF Next

\* The row a connect was answered from is its customer's.
LEMMA AnswerFromRow ==
  ASSUME Inv, NEW m \in Messages, AnswerConnect(m)
  PROVE  /\ state[m] = "fetched" /\ message[m].address \in Addresses
         /\ message[m].customer \in Customers /\ message[m].customer # None
         /\ sessions[message[m].customer] = row[m]
         /\ row[m] \in Rc4Keys /\ row[m] # None
         /\ UNCHANGED <<sessions, message>>
         /\ \/ /\ key' = [key EXCEPT ![message[m].address] = row[m]]
               /\ state'[m] \in {"answered", "garbled", "strayed", "undelivered"}
               /\ \A n \in Messages \ {m} : state'[n] = state[n]
            \/ Quiet
<1>1. /\ state[m] = "fetched" /\ message[m].address \in Addresses
      /\ message[m].customer \in Customers /\ message[m].customer # None
      /\ sessions[message[m].customer] = row[m]
      /\ row[m] \in Rc4Keys /\ row[m] # None
      /\ UNCHANGED <<sessions, message>>
  BY Answering
<1>2. PICK outcome \in {"answered", "garbled", "strayed", "undelivered"} :
        \/ Down([state EXCEPT ![m] = outcome]) /\ outcome = "undelivered"
        \/ /\ state' = [state EXCEPT ![m] = outcome]
           /\ SetUp(message[m].address, m)
  BY Answering
<1> DEFINE t == [state EXCEPT ![m] = outcome]
<1>3. /\ t \in [Messages -> States] /\ t[m] = outcome
      /\ \A n \in Messages \ {m} : t[n] = state[n]
  BY DEF Inv, TypeOK, States
<1>4. \/ Down(t) /\ outcome = "undelivered"
      \/ state' = t /\ key' = [key EXCEPT ![message[m].address] = row[m]]
  BY <1>2 DEF SetUp
<1> HIDE DEF t
<1>5. CASE Down(t) /\ outcome = "undelivered"
  BY <1>1, <1>3, <1>5, QuietStates
<1>6. QED
  BY <1>1, <1>2, <1>3, <1>4, <1>5

LEMMA RepliedNext ==
  ASSUME Inv, RepliedHaveRows, [Next]_vars
  PROVE  RepliedHaveRows'
<1>1. CASE Quiet
  BY <1>1 DEF Quiet, RepliedHaveRows
<1>2. ASSUME NEW c \in Customers, NEW k \in Keys, Insert(c, k),
             UNCHANGED <<key, state, message>>
      PROVE  RepliedHaveRows'
  BY <1>2, NoRowAssumption
  DEF Insert, RepliedHaveRows, Replied, Inv, TypeOK, Tables
<1>3. ASSUME NEW m \in Messages, AnswerConnect(m)
      PROVE  RepliedHaveRows'
  BY <1>1, <1>3, AnswerFromRow DEF RepliedHaveRows, Replied
<1>4. QED
  BY <1>1, <1>2, <1>3, StepKinds

LEMMA ServiceQuiet ==
  ASSUME Quiet
  PROVE  [Service!Next]_(Service!vars)
<1>1. Answers' = Answers
  BY DEF Quiet, Answers
<1>2. QED
  BY <1>1 DEF Quiet, Service!Next, Service!Forget, Service!vars

LEMMA ServiceStep ==
  ASSUME Inv, RepliedHaveRows, [Next]_vars
  PROVE  [Service!Next]_(Service!vars)
<1>1. ASSUME NEW c \in Customers, NEW k \in Keys, Insert(c, k),
             UNCHANGED <<key, state, message>>
      PROVE  Service!Next
  <2>1. \A m \in Messages :
          Replied(m) => /\ message[m].customer # c
                        /\ message[m].customer \in Customers
    BY <1>1 DEF RepliedHaveRows, Insert, Accepts, Replied, Inv, TypeOK, NoMessage
  <2>2. Answers' = Answers
    BY <1>1, <2>1 DEF Answers, Replied, Insert, Inv, TypeOK, Tables
  <2>3. QED
    BY <1>1, <2>2
    DEF Service!Next, Service!Stored, Service!Insert, Service!Accepts, Insert, Accepts
<1>2. ASSUME NEW m \in Messages, AnswerConnect(m)
      PROVE  [Service!Next]_(Service!vars)
  <2> DEFINE a == message[m].address
             c == message[m].customer
  <2>1. CASE Quiet
    BY <2>1, ServiceQuiet
  <2>2. CASE /\ key' = [key EXCEPT ![a] = row[m]]
             /\ state'[m] \in {"answered", "garbled", "strayed", "undelivered"}
             /\ \A n \in Messages \ {m} : state'[n] = state[n]
    <3>1. /\ a \in Addresses /\ c \in Customers /\ c # None
          /\ sessions[c] = row[m] /\ row[m] \in Rc4Keys /\ row[m] # None
          /\ UNCHANGED <<sessions, message>> /\ state[m] = "fetched"
      BY <1>2, AnswerFromRow
    <3>2. Service!Serves(a, c) /\ Service!Fetched(c) = sessions[c]
      BY <2>2, <3>1 DEF Service!Serves, Service!Takes, Service!Fetched
    <3>3. \A n \in Messages \ {m} : Replied(n)' <=> Replied(n)
      BY <2>2, <3>1 DEF Replied
    <3>4. ~Replied(m) /\ Answers[m] = Service!NoAnswer
      BY <3>1 DEF Answers, Replied, Service!NoAnswer
    <3>5. CASE state'[m] = "undelivered"
      <4>1. Answers' = Answers
        BY <3>1, <3>3, <3>4, <3>5 DEF Answers, Replied
      <4>2. QED
        BY <3>1, <3>2, <4>1 DEF Service!Next, Service!Unanswered
    <3>6. CASE state'[m] \in {"answered", "garbled", "strayed"}
      <4>1. Answers' = [Answers EXCEPT ![m] = [customer |-> c, key |-> sessions[c]]]
        BY <3>1, <3>3, <3>6 DEF Answers, Replied
      <4>2. QED
        BY <3>1, <3>2, <3>4, <4>1 DEF Service!Next, Service!Answered
    <3>7. QED
      BY <2>2, <3>5, <3>6
  <2>3. QED
    BY <1>2, <2>1, <2>2, AnswerFromRow
<1>3. QED
  BY <1>1, <1>2, ServiceQuiet, StepKinds

\* A connect is served as if its row were read when its streams are made.
THEOREM KeyServiceRefinement == Spec => ImplementsKeyService
<1>1. Init => RepliedHaveRows /\ Service!Init
  BY DEF Init, RepliedHaveRows, Replied, Answers, Service!Init, Service!Tables,
     Tables, Service!NoAnswer
<1>2. Inv /\ RepliedHaveRows /\ [Next]_vars => RepliedHaveRows'
  BY RepliedNext
<1>3. Inv /\ RepliedHaveRows /\ [Next]_vars => [Service!Next]_(Service!vars)
  BY ServiceStep
<1>4. QED
  BY <1>1, <1>2, <1>3, Safety, PTL DEF Spec, ImplementsKeyService, Service!Spec

-----------------------------------------------------------------------------
(* What the game server takes from its neighbours, and leaves them.        *)

\* A handler that throws leaves the connections alone, or ends the process.
LEMMA RejectParts ==
  ASSUME NEW s, NEW ACTION rest, Reject(s, rest)
  PROVE  [ConnectionsNext]_connectionVars
BY DEF Reject, Down, ConnectionsNext

LEMMA PartsStep ==
  ASSUME [Next]_vars
  PROVE  [ConnectionsNext]_connectionVars /\ [WriteOnceNext]_sessions
<1> USE DEF connectionVars
<1>1. CASE UNCHANGED vars
  BY <1>1 DEF vars
<1>2. ASSUME NEW s \in Sockets, NEW a \in Addresses, Connect(s, a)
      PROVE  ConnectionsNext /\ UNCHANGED sessions
  BY <1>2 DEF Connect, ConnectionsNext
<1>3. ASSUME NEW s \in Sockets, Close(s) \/ ReadAnswer(s)
      PROVE  [ConnectionsNext]_connectionVars /\ UNCHANGED sessions
  BY <1>3 DEF Close, ReadAnswer, ConnectionsNext
<1>4. CASE Crash \/ Restart
  BY <1>4 DEF Crash, Down, Restart, ConnectionsNext
<1>5. ASSUME NEW c \in Customers, NEW k \in Keys, StoreKey(c, k)
      PROVE  WriteOnceNext /\ UNCHANGED connectionVars
  BY <1>5 DEF StoreKey, WriteOnceNext
<1>6. ASSUME NEW m \in Messages, FetchRow(m) \/ FetchFails(m)
      PROVE  UNCHANGED <<sessions, connectionVars>>
  BY <1>6 DEF FetchRow, FetchFails
<1>7. ASSUME NEW m \in Messages,
             \/ AnswerConnect(m) \/ RejectConnect(m)
             \/ \E s \in Sockets : ReceiveShort(m, s)
      PROVE  [ConnectionsNext]_connectionVars /\ UNCHANGED sessions
  BY <1>7, RejectParts DEF AnswerConnect, RejectConnect, ReceiveShort
<1>8. ASSUME NEW m \in Messages, NEW s \in Sockets, NEW flags \in Flags,
             \/ ReceiveUnready(m, s, flags)
             \/ ReceiveNoise(m, s, flags)
             \/ ReceiveUnrouted(m, s, flags)
             \/ ReceiveUnknown(m, s, flags)
      PROVE  [ConnectionsNext]_connectionVars /\ UNCHANGED sessions
  BY <1>8, RejectParts
  DEF ReceiveUnready, ReceiveNoise, ReceiveUnrouted, ReceiveUnknown
<1>9. ASSUME NEW m \in Messages, NEW s \in Sockets, NEW flags \in Flags,
             \/ \E op \in Requests : ReceiveRequest(m, s, op, flags)
             \/ \E c \in Customers : ReceiveConnect(m, s, flags, c)
      PROVE  [ConnectionsNext]_connectionVars /\ UNCHANGED sessions
  BY <1>9, RejectParts DEF ReceiveRequest, ReceiveConnect
<1>10. QED
  BY <1>1, <1>2, <1>3, <1>4, <1>5, <1>6, <1>7, <1>8, <1>9 DEF Next

\* The game server leaves the objects of its port to the registry and the rows
\* to the table: what it assumes of the two, SessionManager and LoginServer
\* guarantee (PortsRefinement and Refinement of their proofs).
THEOREM Neighbours == Spec => ConnectionsSpec /\ WriteOnceSpec
<1>1. Init => ConnectionsInit /\ WriteOnceInit
  BY DEF Init, WriteOnceInit
<1>2. [Next]_vars => [ConnectionsNext]_connectionVars /\ [WriteOnceNext]_sessions
  BY PartsStep
<1>3. QED
  BY <1>1, <1>2, PTL DEF Spec, ConnectionsSpec, WriteOnceSpec

-----------------------------------------------------------------------------
(* Which replies encrypt leaves whole.                                     *)

\* Those whose codes have bytes below 128 only.
LEMMA SurvivingReplies ==
  ASSUME NEW op \in DOMAIN Reply
  PROVE  Survives(op) <=> op \in {"options", "physical", "lobbies"}
<1> DEFINE Small(x) == x % 256 < 128 /\ x \div 256 < 128
<1>1. /\ Small(101) /\ Small(109) /\ Small(266) /\ Small(325) /\ Small(324)
      /\ ~Small(438) /\ ~Small(213) /\ ~Small(440) /\ ~Small(141)
  OBVIOUS
<1>2. op \in {"connect", "login", "options", "tracking", "physical", "stockcar",
              "lobbies"}
  BY DEF Reply
<1>3. Reply[op] = CASE op = "connect"  -> <<101, 438>>
                    [] op = "login"    -> <<213, 105>>
                    [] op = "options"  -> <<101, 109>>
                    [] op = "tracking" -> <<101, 440>>
                    [] op = "physical" -> <<101, 266>>
                    [] op = "stockcar" -> <<141, 200>>
                    [] op = "lobbies"  -> <<325, 324>>
  BY <1>2 DEF Reply, StockCarInfo
<1>4. \A x, y : DOMAIN <<x, y>> = {1, 2} /\ <<x, y>>[1] = x /\ <<x, y>>[2] = y
  OBVIOUS
<1>5. \A x, y : Reply[op] = <<x, y>> => (Survives(op) <=> Small(x) /\ Small(y))
  BY <1>4 DEF Survives
<1> HIDE DEF Small
<1>6. QED
  BY <1>1, <1>2, <1>3, <1>5

\* Without the flag for encryption no reply is enciphered but that to a request
\* for the lobbies.
LEMMA PlainOutcome ==
  ASSUME NEW a \in Addresses, NEW op \in Operations, NEW f \in Int, f < 8, NEW k
  PROVE  Outcome(a, op, f, k) # "garbled"
<1>1. CASE op = "lobbies"
  BY <1>1, SurvivingReplies DEF Outcome, Reply
<1>2. CASE op # "lobbies"
  BY <1>2 DEF Outcome, ReplyEncrypted, ReplyFlags
<1>3. QED
  BY <1>1, <1>2

\* If no client flags a message for encryption, every enciphered reply comes
\* through: the finding of that property's run needs a flagged request.
THEOREM PlainRepliesSurvive ==
  (\A f \in Flags : f < 8) => (Spec => []EncryptedReplySurvives)
<1> SUFFICES ASSUME \A f \in Flags : f < 8
             PROVE  Spec => []EncryptedReplySurvives
  OBVIOUS
<1>1. Init => EncryptedReplySurvives
  BY DEF Init, EncryptedReplySurvives
<1>2. ASSUME Inv, EncryptedReplySurvives, [Next]_vars
      PROVE  EncryptedReplySurvives'
  <2>1. state \in [Messages -> States]
    BY <1>2 DEF Inv, TypeOK
  <2>2. ASSUME NEW m \in Messages, NEW outcome, outcome # "garbled",
               \/ Down([state EXCEPT ![m] = outcome])
               \/ state' = [state EXCEPT ![m] = outcome]
        PROVE  EncryptedReplySurvives'
    BY <1>2, <2>1, <2>2 DEF Down, EncryptedReplySurvives
  <2>3. ASSUME NEW m \in Messages, NEW s \in Sockets, NEW flags \in Flags,
               \/ ReceiveUnready(m, s, flags)
               \/ ReceiveNoise(m, s, flags)
               \/ ReceiveUnrouted(m, s, flags)
               \/ ReceiveUnknown(m, s, flags)
               \/ \E c \in Customers : ReceiveConnect(m, s, flags, c)
        PROVE  EncryptedReplySurvives'
    <3>1. \E outcome \in {"unready", "rejected", "outOfStep", "unrouted", "fetching"} :
            \/ Down([state EXCEPT ![m] = outcome])
            \/ state' = [state EXCEPT ![m] = outcome]
      BY <2>3 DEF ReceiveUnready, ReceiveNoise, ReceiveUnrouted, ReceiveUnknown,
                  ReceiveConnect, Reject
    <3>2. QED
      BY <2>2, <3>1
  <2>4. ASSUME NEW m \in Messages, NEW s \in Sockets, NEW flags \in Flags,
               NEW op \in Requests, ReceiveRequest(m, s, op, flags)
        PROVE  EncryptedReplySurvives'
    <3> DEFINE outcome == Outcome(home[s], op, flags, key[home[s]])
    <3>1. home[s] \in Addresses /\ flags \in Int /\ op \in Operations
      BY <1>2, <2>4, TCPAssumption, RequestsAssumption
      DEF ReceiveRequest, Routed, Inv, TypeOK, ConnectionsTypeOK, ConnectionsOK
    <3>2. outcome # "garbled"
      BY <3>1, PlainOutcome
    <3>3. \/ Down([state EXCEPT ![m] = outcome])
          \/ state' = [state EXCEPT ![m] = outcome]
      BY <2>4 DEF ReceiveRequest, Reject
    <3> HIDE DEF outcome
    <3>4. QED
      BY <2>2, <3>2, <3>3
  <2>5. ASSUME NEW m \in Messages, AnswerConnect(m)
        PROVE  EncryptedReplySurvives'
    <3> DEFINE outcome == Outcome(message[m].address, "connect", message[m].flags, row[m])
    <3>1. message[m] \in Sent
      BY <1>2, <2>5 DEF AnswerConnect, Inv, TypeOK, ConnectsWait, Waiting, Sent
    <3>2. /\ message[m].address \in Addresses /\ message[m].flags \in Int
          /\ message[m].flags < 8 /\ "connect" \in Operations
      <4>1. message[m].address \in Addresses /\ message[m].flags \in Flags \cup {0}
        BY <3>1 DEF Sent
      <4>2. \A f \in Flags \cup {0} : f \in Int /\ f < 8
        BY TCPAssumption
      <4>3. "connect" \in Operations
        BY DEF Operations, Reply
      <4>4. QED
        BY <4>1, <4>2, <4>3
    <3>3. outcome # "garbled"
      BY <3>2, PlainOutcome
    <3>4. \E end \in {outcome, "strayed"} :
            \/ Down([state EXCEPT ![m] = end])
            \/ state' = [state EXCEPT ![m] = end]
      BY <2>5 DEF AnswerConnect, Reject
    <3> HIDE DEF outcome
    <3>5. QED
      BY <2>2, <3>3, <3>4
  <2>6. ASSUME NEW m \in Messages,
               \/ FetchRow(m) \/ FetchFails(m) \/ RejectConnect(m)
               \/ \E s \in Sockets : ReceiveShort(m, s)
        PROVE  EncryptedReplySurvives'
    <3>1. \E outcome \in {"fetched", "failed", "rejected"} :
            \/ Down([state EXCEPT ![m] = outcome])
            \/ state' = [state EXCEPT ![m] = outcome]
      BY <2>6 DEF FetchRow, FetchFails, RejectConnect, ReceiveShort, Reject
    <3>2. QED
      BY <2>2, <3>1
  <2>7. CASE Crash
    BY <1>2, <2>7 DEF Crash, Down, EncryptedReplySurvives
  <2>8. CASE \/ UNCHANGED vars \/ Restart
             \/ \E s \in Sockets :
                  Close(s) \/ ReadAnswer(s) \/ \E a \in Addresses : Connect(s, a)
             \/ \E c \in Customers, k \in Keys : StoreKey(c, k)
    BY <1>2, <2>8 DEF vars, messageVars, Restart, Close, ReadAnswer, Connect, StoreKey,
       EncryptedReplySurvives
  <2>9. QED
    BY <1>2, <2>3, <2>4, <2>5, <2>6, <2>7, <2>8 DEF Next
<1>3. QED
  BY <1>1, <1>2, Safety, PTL DEF Spec
==============================================================================
