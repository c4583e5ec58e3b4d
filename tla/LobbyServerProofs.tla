-------------------------- MODULE LobbyServerProofs --------------------------
(***************************************************************************)
(* Proofs about LobbyServer, for any customers, keys, addresses, sockets   *)
(* and requests, from any table an earlier process may have left, under    *)
(* both policies for unhandled rejections.                                 *)
(***************************************************************************)
EXTENDS LobbyServer, PortConnectionsProofs

\* Ciphers are made from the row of their owner, and that row stays.
CiphersFromRows ==
  \A a \in Addresses :
    /\ (cipher[a] = None) = (owner[a] = None)
    /\ cipher[a] # None => sessions[owner[a]] = cipher[a]

\* What a handler holds over its wait is still so when it goes on: its
\* object, and its customer's row if it found one.
RowsHold ==
  \A r \in Requests :
    /\ state[r] \in Waiting \cup {"answered"} => request[r] # NoRequest
    /\ state[r] \in {"fetched", "answered"} /\ row[r] # None
         => sessions[request[r].customer] = row[r]
    /\ state[r] = "answered" => row[r] # None

\* The inductive invariant.
Inv == TypeOK /\ ConnectionsOK /\ CiphersFromRows /\ RowsHold

LEMMA InvImplies == Inv => OwnerRepliesMatchCipher
<1> SUFFICES ASSUME Inv, NEW r \in Requests, state[r] = "answered",
                    owner[request[r].address] = request[r].customer
             PROVE  row[r] = cipher[request[r].address]
  BY DEF OwnerRepliesMatchCipher
<1>1. /\ request[r].address \in Addresses /\ request[r].customer \in Customers
      /\ row[r] # None /\ sessions[request[r].customer] = row[r]
  BY DEF Inv, TypeOK, RowsHold
<1>2. cipher[request[r].address] # None
  BY <1>1, NoRowAssumption DEF Inv, CiphersFromRows
<1>3. QED
  BY <1>1, <1>2 DEF Inv, CiphersFromRows

LEMMA InitInv == Init => Inv
<1> SUFFICES ASSUME Init PROVE Inv
  OBVIOUS
<1>1. ConnectionsTypeOK /\ ConnectionsOK
  BY ConnectionsStart DEF Init
<1>2. TypeOK
  BY <1>1 DEF Init, TypeOK, States, Waiting, Block, ConnectionsInit
<1>3. CiphersFromRows /\ RowsHold
  BY DEF Init, CiphersFromRows, RowsHold, Waiting
<1>4. QED
  BY <1>1, <1>2, <1>3 DEF Inv

-----------------------------------------------------------------------------
(* The steps of the process.                                               *)

\* The process ends, whatever the states of its requests became before.
LEMMA DownInv ==
  ASSUME Inv, NEW s \in [Requests -> States],
         \A r \in Requests : s[r] = "answered" => state[r] = "answered",
         Down(s), UNCHANGED <<sessions, request, row>>
  PROVE  Inv'
<1>1. (ConnectionsTypeOK /\ ConnectionsOK)'
  BY ConnectionsStep DEF Inv, TypeOK, Down, ConnectionsNext
<1>2. \A r \in Requests :
        /\ state'[r] \in States /\ state'[r] \notin Waiting
        /\ state'[r] \in {s[r], "lost"}
        /\ state'[r] # "fetched"
  BY DEF Down, States, Waiting
<1>3. /\ cipher' = [a \in Addresses |-> None] /\ held' = [a \in Addresses |-> 0]
      /\ owner' = [a \in Addresses |-> None] /\ state' \in [Requests -> States]
  BY <1>2 DEF Down
<1>4. TypeOK'
  BY <1>1, <1>2, <1>3 DEF Inv, TypeOK, Block
<1>5. CiphersFromRows'
  BY <1>3 DEF CiphersFromRows
<1>6. RowsHold'
  BY <1>2 DEF Inv, RowsHold
<1>7. QED
  BY <1>1, <1>4, <1>5, <1>6 DEF Inv

\* A rejection that leaves the object's ciphers alone: its request, if any, is
\* over.
LEMMA RejectInv ==
  ASSUME Inv, up, NEW s \in [Requests -> States],
         \A r \in Requests : s[r] = state[r] \/ s[r] = "rejected",
         Reject(s, UNCHANGED objectVars), UNCHANGED <<sessions, request, row>>
  PROVE  Inv'
<1>1. CASE CrashOnRejection
  <2>1. \A r \in Requests : s[r] = "answered" => state[r] = "answered"
    OBVIOUS
  <2>2. Down(s)
    BY <1>1 DEF Reject
  <2>3. QED
    BY <2>1, <2>2, DownInv
<1>2. CASE ~CrashOnRejection
  <2>1. state' = s /\ UNCHANGED objectVars /\ UNCHANGED connectionVars
    BY <1>2 DEF Reject
  <2>2. (ConnectionsTypeOK /\ ConnectionsOK)'
    BY <2>1, ConnectionsStep DEF Inv, TypeOK
  <2>3. TypeOK'
    BY <2>1, <2>2 DEF Inv, TypeOK, objectVars, connectionVars
  <2>4. CiphersFromRows'
    BY <2>1 DEF Inv, CiphersFromRows, objectVars
  <2>5. RowsHold'
    BY <2>1 DEF Inv, RowsHold, Waiting
  <2>6. QED
    BY <2>2, <2>3, <2>4, <2>5 DEF Inv
<1>3. QED
  BY <1>1, <1>2

\* Steps that are those of the connections alone.
LEMMA ConnectionInv ==
  ASSUME Inv,
         \/ \E s \in Sockets, a \in Addresses : Connect(s, a)
         \/ \E s \in Sockets : Close(s)
         \/ Restart
  PROVE  Inv'
<1>1. ConnectionsNext /\ UNCHANGED <<sessions, objectVars, requestVars>>
  BY DEF Connect, Close, Restart, ConnectionsNext
<1>2. (ConnectionsTypeOK /\ ConnectionsOK)'
  BY <1>1, ConnectionsStep DEF Inv, TypeOK
<1>3. up' => up \/ \A r \in Requests : state[r] \notin Waiting
  BY DEF Inv, TypeOK
<1>4. ~up' => ~up
  BY DEF Connect, Close, Restart, Accept, Leave, Start
<1>5. TypeOK'
  BY <1>1, <1>2, <1>4 DEF Inv, TypeOK, objectVars, requestVars
<1>6. CiphersFromRows' /\ RowsHold'
  BY <1>1 DEF Inv, CiphersFromRows, RowsHold, objectVars, requestVars
<1>7. QED
  BY <1>2, <1>5, <1>6 DEF Inv

-----------------------------------------------------------------------------
(* The steps of a request.                                                 *)

\* A key is stored where there was no row: nobody used one.
LEMMA StoreKeyInv ==
  ASSUME Inv, NEW c \in Customers, NEW k \in Keys, StoreKey(c, k)
  PROVE  Inv'
<1>1. /\ sessions' = [sessions EXCEPT ![c] = k] /\ sessions[c] = None
      /\ UNCHANGED <<connectionVars, objectVars, requestVars>>
  BY DEF StoreKey, Insert, Accepts
<1>2. (ConnectionsTypeOK /\ ConnectionsOK)'
  BY <1>1, ConnectionsStep DEF Inv, TypeOK
<1>3. TypeOK'
  BY <1>1, <1>2 DEF Inv, TypeOK, Tables, objectVars, requestVars, connectionVars
<1>4. \A d \in Customers : sessions[d] # None => sessions'[d] = sessions[d]
  BY <1>1 DEF Inv, TypeOK, Tables
<1>5. CiphersFromRows'
  BY <1>1, <1>4 DEF Inv, TypeOK, CiphersFromRows, objectVars
<1>6. RowsHold'
  BY <1>1, <1>4 DEF Inv, TypeOK, RowsHold, requestVars, Waiting
<1>7. QED
  BY <1>2, <1>3, <1>5, <1>6 DEF Inv

LEMMA ReceiveConnectInv ==
  ASSUME Inv, NEW r \in Requests, NEW s \in Sockets, NEW c \in Customers,
         ReceiveConnect(r, s, c)
  PROVE  Inv'
<1>1. /\ home[s] \in Addresses /\ up
      /\ state' = [state EXCEPT ![r] = "fetching"]
      /\ request' = [request EXCEPT ![r] = [address |-> home[s], customer |-> c]]
      /\ UNCHANGED <<sessions, connectionVars, objectVars, row>>
  BY DEF Inv, TypeOK, ConnectionsTypeOK, ConnectionsOK, ReceiveConnect, Routed
<1>2. (ConnectionsTypeOK /\ ConnectionsOK)'
  BY <1>1, ConnectionsStep DEF Inv, TypeOK
<1>3. TypeOK'
  BY <1>1, <1>2 DEF Inv, TypeOK, States, objectVars, connectionVars
<1>4. CiphersFromRows'
  BY <1>1 DEF Inv, CiphersFromRows, objectVars
<1>5. request'[r] # NoRequest
  BY <1>1, UnsetAssumption DEF Inv, TypeOK, NoRequest
<1>6. RowsHold'
  BY <1>1, <1>5 DEF Inv, TypeOK, RowsHold, Waiting
<1>7. QED
  BY <1>2, <1>3, <1>4, <1>6 DEF Inv

LEMMA FetchInv ==
  ASSUME Inv, NEW r \in Requests, SQLite(r)
  PROVE  Inv'
<1>1. /\ up /\ state[r] = "fetching" /\ request[r] # NoRequest
      /\ \/ /\ state' = [state EXCEPT ![r] = "fetched"]
            /\ row' = [row EXCEPT ![r] = sessions[request[r].customer]]
         \/ state' = [state EXCEPT ![r] = "failed"] /\ row' = row
      /\ UNCHANGED <<sessions, connectionVars, objectVars, request>>
  BY DEF Inv, RowsHold, Waiting, SQLite, FetchRow, FetchFails, Fetched
<1>2. (ConnectionsTypeOK /\ ConnectionsOK)'
  BY <1>1, ConnectionsStep DEF Inv, TypeOK
<1>3. sessions[request[r].customer] \in Keys \cup {None}
  BY <1>1 DEF Inv, TypeOK, Tables
<1>4. TypeOK'
  BY <1>1, <1>2, <1>3 DEF Inv, TypeOK, States, objectVars, connectionVars
<1>5. CiphersFromRows'
  BY <1>1 DEF Inv, CiphersFromRows, objectVars
<1>6. RowsHold'
  BY <1>1 DEF Inv, TypeOK, RowsHold, Waiting
<1>7. QED
  BY <1>2, <1>4, <1>5, <1>6 DEF Inv

\* What answering request r does to the ciphers, once the row it fetched is
\* known to be its customer's still.
LEMMA KeyOnceInv ==
  ASSUME Inv, NEW r \in Requests, state[r] = "fetched", Usable(r),
         KeyOnce(request[r].address, r), UNCHANGED sessions
  PROVE  /\ cipher' \in [Addresses -> DesKeys \cup {None}]
         /\ owner' \in [Addresses -> Customers \cup {None}]
         /\ CiphersFromRows'
<1>1. /\ request[r].address \in Addresses /\ request[r].customer \in Customers
      /\ row[r] # None /\ sessions[request[r].customer] = row[r]
  BY DEF Inv, TypeOK, RowsHold, Waiting, Usable
<1>2. CASE UNCHANGED <<cipher, owner>>
  BY <1>2 DEF Inv, TypeOK, CiphersFromRows
<1>3. CASE /\ row[r] \in DesKeys
           /\ cipher' = [cipher EXCEPT ![request[r].address] = row[r]]
           /\ owner' = [owner EXCEPT ![request[r].address] = request[r].customer]
  BY <1>1, <1>3, NoRowAssumption DEF Inv, TypeOK, CiphersFromRows
<1>4. QED
  BY <1>2, <1>3 DEF KeyOnce

LEMMA AnswerInv ==
  ASSUME Inv, NEW r \in Requests, AnswerConnect(r)
  PROVE  Inv'
<1>1. /\ up /\ state[r] = "fetched" /\ Usable(r)
      /\ state' = [state EXCEPT ![r] = "answered"]
      /\ KeyOnce(request[r].address, r)
      /\ UNCHANGED <<sessions, connectionVars, held, request, row>>
  BY DEF AnswerConnect
<1>2. (ConnectionsTypeOK /\ ConnectionsOK)'
  BY <1>1, ConnectionsStep DEF Inv, TypeOK
<1>3. /\ cipher' \in [Addresses -> DesKeys \cup {None}]
      /\ owner' \in [Addresses -> Customers \cup {None}]
      /\ CiphersFromRows'
  BY <1>1, KeyOnceInv
<1>4. TypeOK'
  BY <1>1, <1>2, <1>3 DEF Inv, TypeOK, States, connectionVars
<1>5. RowsHold'
  BY <1>1 DEF Inv, TypeOK, RowsHold, Usable, Waiting
<1>6. QED
  BY <1>2, <1>3, <1>4, <1>5 DEF Inv

LEMMA AnswerNobodyInv ==
  ASSUME Inv, NEW r \in Requests, AnswerNobody(r)
  PROVE  Inv'
<1> DEFINE s == [state EXCEPT ![r] = "undelivered"]
           rest == KeyOnce(request[r].address, r) /\ UNCHANGED held
<1>1. /\ up /\ state[r] = "fetched" /\ Usable(r)
      /\ Reject(s, rest) /\ UNCHANGED <<sessions, request, row>>
  BY DEF AnswerNobody
<1>2. /\ s \in [Requests -> States]
      /\ \A q \in Requests : s[q] = "answered" => state[q] = "answered"
      /\ \A q \in Requests : s[q] = state[q] \/ s[q] = "undelivered"
  BY DEF Inv, TypeOK, States
<1> HIDE DEF s
<1>3. CASE CrashOnRejection
  <2>1. Down(s)
    BY <1>1, <1>3 DEF Reject
  <2>2. QED
    BY <1>1, <1>2, <2>1, DownInv
<1>4. CASE ~CrashOnRejection
  <2>1. state' = s /\ KeyOnce(request[r].address, r) /\ UNCHANGED held
        /\ UNCHANGED connectionVars
    BY <1>1, <1>4 DEF Reject
  <2>2. (ConnectionsTypeOK /\ ConnectionsOK)'
    BY <2>1, ConnectionsStep DEF Inv, TypeOK
  <2>3. /\ cipher' \in [Addresses -> DesKeys \cup {None}]
        /\ owner' \in [Addresses -> Customers \cup {None}]
        /\ CiphersFromRows'
    BY <1>1, <2>1, KeyOnceInv
  <2>4. TypeOK'
    BY <1>1, <1>2, <2>1, <2>2, <2>3 DEF Inv, TypeOK, connectionVars
  <2>5. RowsHold'
    BY <1>1, <1>2, <2>1 DEF Inv, RowsHold, Waiting
  <2>6. QED
    BY <2>2, <2>3, <2>4, <2>5 DEF Inv
<1>5. QED
  BY <1>3, <1>4

LEMMA RejectConnectInv ==
  ASSUME Inv, NEW r \in Requests, RejectConnect(r)
  PROVE  Inv'
<1> DEFINE s == [state EXCEPT ![r] = "rejected"]
<1>1. /\ s \in [Requests -> States]
      /\ \A q \in Requests : s[q] = state[q] \/ s[q] = "rejected"
  BY DEF Inv, TypeOK, States
<1>2. /\ up /\ Reject(s, UNCHANGED objectVars)
      /\ UNCHANGED <<sessions, request, row>>
  BY DEF RejectConnect
<1> HIDE DEF s
<1>3. QED
  BY <1>1, <1>2, RejectInv

-----------------------------------------------------------------------------
LEMMA CommandInv ==
  ASSUME Inv, NEW s \in Sockets, Command(s)
  PROVE  Inv'
<1>1. /\ home[s] \in Addresses
      /\ held' = [held EXCEPT ![home[s]] = (@ + Content) % Block]
      /\ UNCHANGED <<sessions, connectionVars, cipher, owner, requestVars>>
  BY DEF Inv, TypeOK, ConnectionsTypeOK, ConnectionsOK, Command, Routed
<1>2. (held[home[s]] + Content) % Block \in 0 .. Block - 1
  BY <1>1 DEF Inv, TypeOK, Block, Content
<1>3. (ConnectionsTypeOK /\ ConnectionsOK)'
  BY <1>1, ConnectionsStep DEF Inv, TypeOK
<1>4. TypeOK'
  BY <1>1, <1>2, <1>3 DEF Inv, TypeOK, requestVars, connectionVars
<1>5. CiphersFromRows' /\ RowsHold'
  BY <1>1 DEF Inv, CiphersFromRows, RowsHold, requestVars
<1>6. QED
  BY <1>3, <1>4, <1>5 DEF Inv

LEMMA NextInv == Inv /\ [Next]_vars => Inv'
<1> SUFFICES ASSUME Inv, [Next]_vars PROVE Inv'
  OBVIOUS
<1>1. ASSUME NEW s \in Sockets, \/ \E a \in Addresses : Connect(s, a)
                                \/ Close(s)
      PROVE  Inv'
  BY <1>1, ConnectionInv
<1>2. CASE Restart
  BY <1>2, ConnectionInv
<1>3. ASSUME NEW s \in Sockets, NEW r \in Requests, NEW c \in Customers,
             ReceiveConnect(r, s, c)
      PROVE  Inv'
  BY <1>3, ReceiveConnectInv
<1>4. ASSUME NEW s \in Sockets, Command(s) PROVE Inv'
  BY <1>4, CommandInv
<1>5. CASE UNCHANGED vars
  BY <1>5 DEF vars, Inv, TypeOK, ConnectionsTypeOK, ConnectionsOK,
              CiphersFromRows, RowsHold
<1>6. ASSUME NEW s \in Sockets, Heartbeat(s) PROVE Inv'
  BY <1>5, <1>6 DEF Heartbeat
<1>7. ASSUME NEW s \in Sockets, PacketRejected(s) PROVE Inv'
  <2>1. state \in [Requests -> States]
    BY DEF Inv, TypeOK
  <2>2. QED
    BY <1>7, <2>1, RejectInv DEF PacketRejected
<1>8. ASSUME NEW c \in Customers, NEW k \in Keys, StoreKey(c, k) PROVE Inv'
  BY <1>8, StoreKeyInv
<1>9. ASSUME NEW r \in Requests, FetchRow(r) \/ FetchFails(r) PROVE Inv'
  BY <1>9, FetchInv DEF SQLite
<1>10. ASSUME NEW r \in Requests,
              AnswerConnect(r) \/ AnswerNobody(r) \/ RejectConnect(r)
       PROVE  Inv'
  BY <1>10, AnswerInv, AnswerNobodyInv, RejectConnectInv
<1>11. CASE Crash
  <2>1. state \in [Requests -> States]
    BY DEF Inv, TypeOK
  <2>2. QED
    BY <1>11, <2>1, DownInv DEF Crash
<1>12. QED
  BY <1>1, <1>2, <1>3, <1>4, <1>5, <1>6, <1>7, <1>8, <1>9, <1>10, <1>11
  DEF Next

-----------------------------------------------------------------------------
\* The invariant holds in every state of the lobby server.
THEOREM Safety == Spec => []Inv
BY InitInv, NextInv, PTL DEF Spec

\* The variables keep their types; a process that is down waits for nothing.
THEOREM TypeCorrect == Spec => []TypeOK
<1>1. Inv => TypeOK
  BY DEF Inv
<1>2. QED
  BY <1>1, Safety, PTL

\* A reply to the customer the ciphers were made for carries their key.
THEOREM RepliesMatch == Spec => []OwnerRepliesMatchCipher
BY InvImplies, Safety, PTL

\* Ciphers, once made, stay until the process ends.
THEOREM CiphersStay == Spec => CiphersNeverReplaced
<1>1. ASSUME Inv, [Next]_vars
      PROVE  [\A a \in Addresses :
                cipher[a] # None /\ up' => cipher'[a] = cipher[a]]_vars
  <2> SUFFICES ASSUME NEW a \in Addresses, cipher[a] # None, up'
               PROVE  cipher'[a] = cipher[a]
    OBVIOUS
  <2>1. ASSUME NEW r \in Requests, KeyOnce(request[r].address, r)
        PROVE  cipher'[a] = cipher[a]
    BY <1>1, <2>1 DEF KeyOnce, Inv, TypeOK
  <2>2. ASSUME NEW r \in Requests, AnswerConnect(r) \/ AnswerNobody(r)
        PROVE  cipher'[a] = cipher[a]
    BY <2>1, <2>2 DEF AnswerConnect, AnswerNobody, Reject, Down, Stop
  <2>3. CASE \A r \in Requests : ~AnswerConnect(r) /\ ~AnswerNobody(r)
    <3>1. cipher' = cipher
      BY <1>1, <2>3
      DEF Next, vars, objectVars, Connect, Close, ReceiveConnect, Command,
          Heartbeat, PacketRejected, StoreKey, FetchRow, FetchFails,
          RejectConnect, Crash, Restart, Reject, Down, Stop
    <3>2. QED
      BY <3>1
  <2>4. QED
    BY <2>2, <2>3
<1>2. QED
  BY <1>1, Safety, PTL DEF Spec, CiphersNeverReplaced

-----------------------------------------------------------------------------
(* The handlers, with their waits, implement a service that reads a row     *)
(* and answers in one step.                                                *)

\* A step that leaves the ciphers and the replies alone is a key stored, or
\* nothing.
LEMMA ServiceStays ==
  ASSUME UNCHANGED cipher,
         \/ UNCHANGED sessions
         \/ \E c \in Customers, k \in Keys : Insert(c, k),
         Answers' = Answers
  PROVE  [Service!Next]_(Service!vars)
<1>1. CASE UNCHANGED sessions
  BY <1>1 DEF Service!vars
<1>2. ASSUME NEW c \in Customers, NEW k \in Keys, Insert(c, k)
      PROVE  Service!Next
  BY <1>2 DEF Service!Next, Service!Stored, Service!Insert, Service!Accepts,
              Insert, Accepts
<1>3. QED
  BY <1>1, <1>2

\* Only a reply counts.
LEMMA AnswersStay ==
  ASSUME NEW s \in [Requests -> States], state' = s,
         \A r \in Requests :
           /\ s[r] = "answered" <=> state[r] = "answered"
           /\ state[r] = "answered" =>
                request'[r] = request[r] /\ row'[r] = row[r]
  PROVE  Answers' = Answers
BY DEF Answers

\* When the process ends the ciphers are forgotten and the replies are not.
LEMMA ServiceDown ==
  ASSUME NEW s \in [Requests -> States],
         \A r \in Requests : s[r] = "answered" <=> state[r] = "answered",
         Down(s), UNCHANGED <<sessions, request, row>>
  PROVE  Service!Next
<1>1. \A r \in Requests : state'[r] = "answered" <=> state[r] = "answered"
  BY DEF Down, Waiting
<1>2. Answers' = Answers
  BY <1>1 DEF Answers
<1>3. cipher' = [a \in Addresses |-> None]
  BY DEF Down
<1>4. QED
  BY <1>2, <1>3 DEF Service!Next, Service!Forget

\* What is done with a row that was fetched is what would be done with the one
\* there is now.
LEMMA RowIsCurrent ==
  ASSUME Inv, NEW r \in Requests, state[r] = "fetched", Usable(r),
         KeyOnce(request[r].address, r), UNCHANGED sessions
  PROVE  /\ request[r].address \in Addresses /\ request[r].customer \in Customers
         /\ Service!Serves(request[r].address, request[r].customer)
         /\ Service!Fetched(request[r].customer) = row[r]
<1>1. /\ request[r].address \in Addresses /\ request[r].customer \in Customers
      /\ row[r] # None /\ sessions[request[r].customer] = row[r]
  BY DEF Inv, TypeOK, RowsHold, Waiting, Usable
<1>2. Service!Takes(request[r].address, row[r])
  BY DEF Service!Takes, KeyOnce
<1>3. QED
  BY <1>1, <1>2 DEF Service!Serves, Service!Fetched

LEMMA ServiceAnswers ==
  ASSUME Inv, NEW r \in Requests, AnswerConnect(r)
  PROVE  Service!Next
<1> DEFINE a == request[r].address
           c == request[r].customer
<1>1. /\ state[r] = "fetched" /\ state' = [state EXCEPT ![r] = "answered"]
      /\ UNCHANGED <<sessions, request, row>>
      /\ state \in [Requests -> States]
  BY DEF AnswerConnect, Inv, TypeOK
<1>2. a \in Addresses /\ c \in Customers /\ Service!Serves(a, c)
      /\ Service!Fetched(c) = row[r]
  BY RowIsCurrent DEF AnswerConnect
<1>3. Answers[r] = Service!NoAnswer
  BY <1>1 DEF Answers, Service!NoAnswer
<1>4. Answers' = [Answers EXCEPT ![r] = [customer |-> c, key |-> row[r]]]
  BY <1>1 DEF Answers
<1>5. Service!Answered(r, a, c)
  BY <1>2, <1>3, <1>4 DEF Service!Answered
<1>6. QED
  BY <1>2, <1>5 DEF Service!Next

LEMMA ServiceAnswersNobody ==
  ASSUME Inv, NEW r \in Requests, AnswerNobody(r)
  PROVE  Service!Next
<1> DEFINE a == request[r].address
           c == request[r].customer
           s == [state EXCEPT ![r] = "undelivered"]
<1>1. /\ state[r] = "fetched" /\ Usable(r)
      /\ Reject(s, KeyOnce(a, r) /\ UNCHANGED held)
      /\ UNCHANGED <<sessions, request, row>>
      /\ state \in [Requests -> States]
  BY DEF AnswerNobody, Inv, TypeOK
<1>2. /\ s \in [Requests -> States]
      /\ \A q \in Requests : s[q] = "answered" <=> state[q] = "answered"
  BY <1>1 DEF States
<1> HIDE DEF s
<1>3. CASE CrashOnRejection
  BY <1>1, <1>2, <1>3, ServiceDown DEF Reject
<1>4. CASE ~CrashOnRejection
  <2>1. KeyOnce(a, r) /\ state' = s
    BY <1>1, <1>4 DEF Reject
  <2>2. a \in Addresses /\ c \in Customers /\ Service!Serves(a, c)
    BY <1>1, <2>1, RowIsCurrent
  <2>3. Answers' = Answers
    BY <1>1, <1>2, <2>1, AnswersStay
  <2>4. QED
    BY <2>2, <2>3 DEF Service!Next, Service!Unanswered
<1>5. QED
  BY <1>3, <1>4

\* A handler that throws before it has touched its object.
LEMMA ServiceRejects ==
  ASSUME NEW s \in [Requests -> States],
         \A r \in Requests : s[r] = "answered" <=> state[r] = "answered",
         Reject(s, UNCHANGED objectVars), UNCHANGED <<sessions, request, row>>
  PROVE  [Service!Next]_(Service!vars)
<1>1. CASE CrashOnRejection
  BY <1>1, ServiceDown DEF Reject
<1>2. CASE ~CrashOnRejection
  <2>1. state' = s /\ cipher' = cipher
    BY <1>2 DEF Reject, objectVars
  <2>2. QED
    BY <2>1, AnswersStay, ServiceStays
<1>3. QED
  BY <1>1, <1>2

\* The detailed steps are steps of the service, or change nothing in it.
LEMMA ServiceStep ==
  ASSUME Inv, [Next]_vars
  PROVE  [Service!Next]_(Service!vars)
<1> USE DEF objectVars, requestVars
<1>1. state \in [Requests -> States]
  BY DEF Inv, TypeOK
<1>2. CASE UNCHANGED <<cipher, state, request, row>>
           /\ (UNCHANGED sessions
                 \/ \E c \in Customers, k \in Keys : Insert(c, k))
  BY <1>2, ServiceStays DEF Answers
<1>3. CASE \/ UNCHANGED vars \/ Restart
           \/ \E s \in Sockets :
                \/ \E a \in Addresses : Connect(s, a)
                \/ Close(s) \/ Command(s) \/ Heartbeat(s)
           \/ \E c \in Customers, k \in Keys : StoreKey(c, k)
  BY <1>2, <1>3 DEF vars, Restart, Connect, Close, Command, Heartbeat, StoreKey
<1>4. ASSUME NEW r \in Requests, NEW s \in Sockets, NEW c \in Customers,
             ReceiveConnect(r, s, c)
      PROVE  [Service!Next]_(Service!vars)
  <2>1. /\ state' = [state EXCEPT ![r] = "fetching"] /\ state[r] = "unsent"
        /\ \A q \in Requests : q # r => request'[q] = request[q]
        /\ UNCHANGED <<sessions, cipher, row>>
    BY <1>4 DEF ReceiveConnect, Inv, TypeOK
  <2>2. Answers' = Answers
    BY <1>1, <2>1 DEF Answers
  <2>3. QED
    BY <2>1, <2>2, ServiceStays
<1>5. ASSUME NEW r \in Requests, FetchRow(r) \/ FetchFails(r)
      PROVE  [Service!Next]_(Service!vars)
  <2>1. /\ state'[r] \in {"fetched", "failed"} /\ state[r] = "fetching"
        /\ \A q \in Requests : q # r => row'[q] = row[q] /\ state'[q] = state[q]
        /\ UNCHANGED <<sessions, cipher, request>>
    BY <1>1, <1>5 DEF FetchRow, FetchFails, Inv, TypeOK
  <2>2. Answers' = Answers
    BY <2>1 DEF Answers
  <2>3. QED
    BY <2>1, <2>2, ServiceStays
<1>6. ASSUME NEW r \in Requests, RejectConnect(r)
      PROVE  [Service!Next]_(Service!vars)
  <2> DEFINE s == [state EXCEPT ![r] = "rejected"]
  <2>1. /\ s \in [Requests -> States]
        /\ \A q \in Requests : s[q] = "answered" <=> state[q] = "answered"
    BY <1>1, <1>6 DEF RejectConnect, States
  <2>2. Reject(s, UNCHANGED objectVars) /\ UNCHANGED <<sessions, request, row>>
    BY <1>6 DEF RejectConnect
  <2> HIDE DEF s
  <2>3. QED
    BY <2>1, <2>2, ServiceRejects
<1>7. ASSUME NEW s \in Sockets, PacketRejected(s)
      PROVE  [Service!Next]_(Service!vars)
  BY <1>1, <1>7, ServiceRejects DEF PacketRejected
<1>8. CASE Crash
  BY <1>1, <1>8, ServiceDown DEF Crash
<1>9. ASSUME NEW r \in Requests, AnswerConnect(r) \/ AnswerNobody(r)
      PROVE  [Service!Next]_(Service!vars)
  BY <1>9, ServiceAnswers, ServiceAnswersNobody
<1>10. QED
  BY <1>3, <1>4, <1>5, <1>6, <1>7, <1>8, <1>9 DEF Next

\* Reading the row before the wait cannot be told from reading it after.
THEOREM KeyServiceRefinement == Spec => ImplementsKeyService
<1>1. Init => Service!Init
  BY DEF Init, Service!Init, Service!Tables, Tables, Answers, Service!NoAnswer
<1>2. QED
  BY <1>1, ServiceStep, Safety, PTL DEF Spec, ImplementsKeyService, Service!Spec

-----------------------------------------------------------------------------
(* What the lobby server takes from its neighbours, and leaves them.       *)

\* A handler that throws leaves the connections alone, or ends the process.
LEMMA RejectParts ==
  ASSUME NEW s, NEW ACTION rest, Reject(s, rest)
  PROVE  [ConnectionsNext]_connectionVars
BY DEF Reject, Down, ConnectionsNext

LEMMA PartsStep ==
  ASSUME [Next]_vars
  PROVE  [ConnectionsNext]_connectionVars /\ [WriteOnceNext]_sessions
<1> USE DEF connectionVars
<1>1. CASE UNCHANGED vars
  BY <1>1 DEF vars
<1>2. ASSUME NEW s \in Sockets, NEW a \in Addresses, Connect(s, a)
      PROVE  ConnectionsNext /\ UNCHANGED sessions
  BY <1>2 DEF Connect, ConnectionsNext
<1>3. ASSUME NEW s \in Sockets, Close(s)
      PROVE  ConnectionsNext /\ UNCHANGED sessions
  BY <1>3 DEF Close, ConnectionsNext
<1>4. CASE Crash \/ Restart
  BY <1>4 DEF Crash, Down, Restart, ConnectionsNext
<1>5. ASSUME NEW c \in Customers, NEW k \in Keys, StoreKey(c, k)
      PROVE  WriteOnceNext /\ UNCHANGED connectionVars
  BY <1>5 DEF StoreKey, WriteOnceNext
<1>6. ASSUME NEW r \in Requests,
             \/ FetchRow(r) \/ FetchFails(r) \/ AnswerConnect(r)
             \/ \E s \in Sockets, c \in Customers : ReceiveConnect(r, s, c)
      PROVE  UNCHANGED <<sessions, connectionVars>>
  BY <1>6 DEF FetchRow, FetchFails, AnswerConnect, ReceiveConnect
<1>7. ASSUME NEW s \in Sockets, Command(s) \/ Heartbeat(s)
      PROVE  UNCHANGED <<sessions, connectionVars>>
  BY <1>7 DEF Command, Heartbeat, vars
<1>8. ASSUME NEW s \in Sockets, PacketRejected(s)
      PROVE  [ConnectionsNext]_connectionVars /\ UNCHANGED sessions
  BY <1>8, RejectParts DEF PacketRejected
<1>9. ASSUME NEW r \in Requests, AnswerNobody(r) \/ RejectConnect(r)
      PROVE  [ConnectionsNext]_connectionVars /\ UNCHANGED sessions
  BY <1>9, RejectParts DEF AnswerNobody, RejectConnect
<1>10. QED
  BY <1>1, <1>2, <1>3, <1>4, <1>5, <1>6, <1>7, <1>8, <1>9 DEF Next

\* The lobby server leaves the objects of its port to the registry and the rows
\* to the table: what it assumes of the two, SessionManager and LoginServer
\* guarantee (PortsRefinement and Refinement of their proofs).
THEOREM Neighbours == Spec => ConnectionsSpec /\ WriteOnceSpec
<1>1. Init => ConnectionsInit /\ WriteOnceInit
  BY DEF Init, WriteOnceInit
<1>2. [Next]_vars => [ConnectionsNext]_connectionVars /\ [WriteOnceNext]_sessions
  BY PartsStep
<1>3. QED
  BY <1>1, <1>2, PTL DEF Spec, ConnectionsSpec, WriteOnceSpec
==============================================================================
