----------------------------- MODULE TCPManager -----------------------------
(***************************************************************************)
(* The game server on port 43300: tcp-manager.ts, the handlers of          *)
(* MCOTServer and the RC4 streams of EncryptionManager.                    *)
(*                                                                         *)
(* A client connect message (438) names a customer; the server fetches the *)
(* customer's session key and starts both RC4 streams of the connection    *)
(* with it.  Every other message is answered without a wait.  The flags of *)
(* a message decide whether it is deciphered, and those of a reply (most   *)
(* copy the request's) whether it is enciphered.                           *)
(*                                                                         *)
(* The client of a socket enciphers with a stream of its own, which it     *)
(* starts when it reads the answer to a connect; what it sends before that *)
(* comes in after the server has new streams.                              *)
(*                                                                         *)
(* A connection object is identified with its address (PortConnections).   *)
(* A persona id is that of the connect message that brought it.  Operators *)
(* marked "wrong on purpose" are for the mutant runs (README, "Mutants").  *)
(***************************************************************************)
EXTENDS SessionTable, PortConnections, Integers, Sequences

CONSTANTS
  Messages,          \* the packets clients send, each handled at most once
  Flags,             \* the values of the flags byte clients send
  Requests,          \* the messages they send besides connects
  Rc4Keys,           \* the keys createDecipheriv takes for rc4
  CrashOnRejection   \* an unhandled rejection ends the process (Node >= 15)

ASSUME TCPAssumption ==
  /\ Flags \subseteq -128 .. 127
  /\ Rc4Keys \subseteq Keys
  /\ None \notin Messages \cup [key : Rc4Keys, n : Nat]
  /\ CrashOnRejection \in BOOLEAN

VARIABLES
  useEncryption,   \* TCPConnection.useEncryption
  key,             \* EncryptionManager: the key of both streams; None before
                   \* isSetupComplete
  received,        \* messages the in stream has deciphered since it was made
  appId,           \* TCPConnection.appId: a connect message, None for 0
  state,           \* how far the handling of each message has come
  message,         \* what each message is and where it came in
  row,             \* the row SQLite answered a waiting connect with
  stream,          \* external, the client of each socket: the key and the
                   \* number of messages it has enciphered, None before it has
                   \* read the answer to a connect
  unread,          \* external, the network: the answers to the connects of each
                   \* socket that its client has not read, by their keys
  heard            \* history: the messages each object has received

objectVars  == <<useEncryption, key, received, appId, heard>>
messageVars == <<state, message, row>>
clientVars  == <<stream, unread>>
vars == <<sessions, connectionVars, objectVars, messageVars, clientVars>>

Heartbeat == 80

\* The stock cars: the message number and their starter cash.
StockCarInfo == <<141, 200>>

\* The codes in the body of a reply: its message number and what it replies to.
Reply == [connect  |-> <<101, 438>>, login    |-> <<213, 105>>,
          options  |-> <<101, 109>>, tracking |-> <<101, 440>>,
          physical |-> <<101, 266>>, stockcar |-> StockCarInfo,
          lobbies  |-> <<325, 324>>]

Operations == DOMAIN Reply \cup {"logout", "unknown"}

ASSUME RequestsAssumption == Requests \subseteq Operations \ {"connect", "unknown"}

NoMessage ==
  [socket |-> Unset, address |-> Unset, customer |-> None, flags |-> 0,
   early |-> FALSE]

States ==
  {"unsent",
   "fetching",      \* a connect, waiting for SQLite
   "fetched",       \* SQLite has run the SELECT, its callback is due
   "failed",        \* SQLite failed, its callback is due
   "answered",      \* the reply was written as it was built
   "garbled",       \* the reply was written, enciphered from other bytes
   "strayed",       \* the answer to a connect was written to another socket
   "silent",        \* handled, and nothing to write
   "undelivered",   \* the object's sock was closed: the handler threw
   "unready",       \* "Decrypt() not yet setup! Disconnecting..."
   "outOfStep",     \* the client's and the server's streams differ
   "unrouted",      \* the object's sock was closed: no port to route it by
   "rejected",      \* the handler threw for another reason
   "lost"}          \* the process ended first

Waiting == {"fetching", "fetched", "failed"}

Init ==
  /\ sessions \in Tables
  /\ ConnectionsInit
  /\ useEncryption = [a \in Addresses |-> FALSE]
  /\ key = [a \in Addresses |-> None]
  /\ received = [a \in Addresses |-> 0]
  /\ appId = [a \in Addresses |-> None]
  /\ heard = [a \in Addresses |-> {}]
  /\ state = [m \in Messages |-> "unsent"]
  /\ message = [m \in Messages |-> NoMessage]
  /\ row = [m \in Messages |-> None]
  /\ stream = [s \in Sockets |-> None]
  /\ unread = [s \in Sockets |-> <<>>]

-----------------------------------------------------------------------------
\* The process ends: its objects and requests are gone, the replies it has
\* written stay written.
Down(s) ==
  /\ Stop
  /\ useEncryption' = [a \in Addresses |-> FALSE]
  /\ key' = [a \in Addresses |-> None]
  /\ received' = [a \in Addresses |-> 0]
  /\ appId' = [a \in Addresses |-> None]
  /\ heard' = [a \in Addresses |-> {}]
  /\ stream' = [t \in Sockets |-> None]
  /\ unread' = [t \in Sockets |-> <<>>]
  /\ state' = [m \in Messages |-> IF s[m] \in Waiting THEN "lost" ELSE s[m]]

\* A promise nobody handles is rejected; s is the state of the messages then,
\* rest what the handler did to its object.
Reject(s, rest) ==
  IF CrashOnRejection
  THEN Down(s)
  ELSE state' = s /\ rest /\ UNCHANGED connectionVars

-----------------------------------------------------------------------------
(* The listener, and the other server that uses the table.                 *)

Connect(s, a) ==
  /\ Accept(s, a)
  /\ UNCHANGED <<sessions, objectVars, messageVars, clientVars>>

\* The client is gone, with its streams and what it has not read.
Close(s) ==
  /\ Leave(s)
  /\ stream' = [stream EXCEPT ![s] = None]
  /\ unread' = [unread EXCEPT ![s] = <<>>]
  /\ UNCHANGED <<sessions, objectVars, messageVars>>

\* The client of s reads the answer to a connect, and starts its streams.
ReadAnswer(s) ==
  /\ unread[s] # <<>>
  /\ stream' = [stream EXCEPT ![s] = [key |-> Head(unread[s]), n |-> 0]]
  /\ unread' = [unread EXCEPT ![s] = Tail(@)]
  /\ UNCHANGED <<sessions, connectionVars, objectVars, messageVars>>

\* LoginServer stores a key.
StoreKey(c, k) ==
  /\ up
  /\ Insert(c, k)
  /\ UNCHANGED <<connectionVars, objectVars, messageVars, clientVars>>

-----------------------------------------------------------------------------
(* messageReceived: what happens to a message before it is dispatched.     *)

\* "message.flags && 0x08": any flag turns the encryption on.
TurnedOn(a, flags) == useEncryption[a] \/ flags # 0

\* The message is not a heartbeat on a connection with encryption.
Guarded(a, flags) == flags # Heartbeat /\ TurnedOn(a, flags)

\* Wrong on purpose: keys are not waited for.
ReadyAlways(a, flags) == TRUE

Ready(a, flags) == Guarded(a, flags) => key[a] # None

Deciphered(a, flags) == Guarded(a, flags) /\ key[a] # None /\ flags - 8 >= 0

\* The client has enciphered the message, if it does that by now.
Enciphered(s, flags) == flags # Heartbeat /\ flags - 8 >= 0 /\ stream[s] # None

InStep(s, a) == stream[s] = [key |-> key[a], n |-> received[a]]

Legible(s, a, flags) == Deciphered(a, flags) => InStep(s, a)

\* What is kept of a message: the customer and the flags of a connect, for its
\* callback, and whether its client sent it with an answer still to be read.
Received(m, s, c, flags) ==
  /\ message' = [message EXCEPT ![m] =
                   [socket |-> s, address |-> home[s], customer |-> c,
                    flags |-> flags, early |-> unread[s] # <<>>]]
  /\ row' = row

\* The client's stream counts the message it sends.
Counts(s, flags) ==
  stream' = IF Enciphered(s, flags) THEN [stream EXCEPT ![s].n = @ + 1] ELSE stream

Hears(m, a) == heard' = [heard EXCEPT ![a] = @ \cup {m}]

\* What a message that is ready leaves behind on its object and its client.
Passed(m, s, a, flags) ==
  /\ useEncryption' = [useEncryption EXCEPT ![a] = TurnedOn(a, flags)]
  /\ received' = IF Deciphered(a, flags) THEN [received EXCEPT ![a] = @ + 1]
                 ELSE received
  /\ Counts(s, flags)
  /\ Hears(m, a)
  /\ UNCHANGED <<key, appId, unread>>

\* The connection has no keys yet.
ReceiveUnready(m, s, flags) ==
  LET a == home[s]
  IN  /\ up /\ state[m] = "unsent" /\ Routed(s)
      /\ ~Ready(a, flags)
      /\ Reject([state EXCEPT ![m] = "unready"], Passed(m, s, a, flags))
      /\ Received(m, s, None, 0)
      /\ UNCHANGED sessions

\* Deciphering gives noise, which is taken for the error it ends in: no
\* message number, or one that is not handled.
ReceiveNoise(m, s, flags) ==
  LET a == home[s]
  IN  /\ up /\ state[m] = "unsent" /\ Routed(s)
      /\ Ready(a, flags) /\ ~Legible(s, a, flags)
      /\ Reject([state EXCEPT ![m] = "outOfStep"], Passed(m, s, a, flags))
      /\ Received(m, s, None, 0)
      /\ UNCHANGED sessions

\* The sock of the object is another socket, which is closed: processData finds
\* no port and throws, and only the client has counted the message.
ReceiveUnrouted(m, s, flags) ==
  /\ up /\ state[m] = "unsent" /\ s \in open /\ ~Routed(s)
  /\ Reject([state EXCEPT ![m] = "unrouted"],
            /\ Counts(s, flags)
            /\ Hears(m, home[s])
            /\ UNCHANGED <<useEncryption, key, received, appId, unread>>)
  /\ Received(m, s, None, 0)
  /\ UNCHANGED sessions

\* Too short for a header and a message number, so nothing of it is enciphered:
\* deserialize throws before the object is touched.
ReceiveShort(m, s) ==
  /\ up /\ state[m] = "unsent" /\ Routed(s)
  /\ Reject([state EXCEPT ![m] = "rejected"], UNCHANGED <<objectVars, clientVars>>)
  /\ Received(m, s, None, 0)
  /\ UNCHANGED sessions

\* The number of a message that is not handled.
ReceiveUnknown(m, s, flags) ==
  LET a == home[s]
  IN  /\ up /\ state[m] = "unsent" /\ Routed(s)
      /\ Ready(a, flags) /\ Legible(s, a, flags)
      /\ Reject([state EXCEPT ![m] = "rejected"], Passed(m, s, a, flags))
      /\ Received(m, s, None, 0)
      /\ UNCHANGED sessions

-----------------------------------------------------------------------------
(* processInput and socketWriteIfOpen.                                     *)

\* _getLobbies builds a packet of its own, the others start from the request.
ReplyFlags(op, flags) == IF op = "lobbies" THEN 9 ELSE flags

ReplyEncrypted(op, flags) == ReplyFlags(op, flags) - 8 >= 0

\* EncryptionManager.encrypt makes a UTF-8 string of the body and takes it for
\* Latin-1: only bytes below 128 come through.
Survives(op) ==
  \A i \in DOMAIN Reply[op] :
    Reply[op][i] % 256 < 128 /\ Reply[op][i] \div 256 < 128

\* How a reply ends on object a, k being the key of its streams.
Outcome(a, op, flags, k) ==
  IF op = "logout" THEN "silent"
  ELSE IF ReplyEncrypted(op, flags) /\ k = None THEN "rejected"
  ELSE IF ~Writable(a) THEN "undelivered"
  ELSE IF ReplyEncrypted(op, flags) /\ ~Survives(op) THEN "garbled"
  ELSE "answered"

Thrown == {"rejected", "undelivered"}

\* Any message that is handled without a wait.
ReceiveRequest(m, s, op, flags) ==
  LET a == home[s]
      outcome == Outcome(a, op, flags, key[a])
      s2 == [state EXCEPT ![m] = outcome]
  IN  /\ up /\ state[m] = "unsent" /\ Routed(s)
      /\ Ready(a, flags) /\ Legible(s, a, flags)
      /\ IF outcome \in Thrown
         THEN Reject(s2, Passed(m, s, a, flags))
         ELSE /\ state' = s2
              /\ Passed(m, s, a, flags)
              /\ UNCHANGED connectionVars
      /\ Received(m, s, None, 0)
      /\ UNCHANGED sessions

\* clientConnect up to the SELECT.
ReceiveConnect(m, s, flags, c) ==
  LET a == home[s]
  IN  /\ up /\ state[m] = "unsent" /\ Routed(s)
      /\ Ready(a, flags) /\ Legible(s, a, flags)
      /\ state' = [state EXCEPT ![m] = "fetching"]
      /\ Passed(m, s, a, flags)
      /\ Received(m, s, c, flags)
      /\ UNCHANGED <<sessions, connectionVars>>

\* SQLite's worker.
FetchRow(m) ==
  /\ up
  /\ state[m] = "fetching"
  /\ row' = [row EXCEPT ![m] = Fetched(message[m].customer)]
  /\ state' = [state EXCEPT ![m] = "fetched"]
  /\ UNCHANGED <<sessions, connectionVars, objectVars, message, clientVars>>

FetchFails(m) ==
  /\ up
  /\ state[m] = "fetching"
  /\ state' = [state EXCEPT ![m] = "failed"]
  /\ UNCHANGED <<sessions, connectionVars, objectVars, message, row, clientVars>>

\* Wrong on purpose: a connection that has a persona keeps it.
SetUpFirstAppId(a, m) ==
  /\ key' = [key EXCEPT ![a] = row[m]]
  /\ received' = [received EXCEPT ![a] = 0]
  /\ appId' = [appId EXCEPT ![a] = IF @ = None THEN m ELSE @]
  /\ UNCHANGED <<useEncryption, heard>>

\* Wrong on purpose: streams that are there go on where they are.
SetUpInMidStream(a, m) ==
  /\ key' = [key EXCEPT ![a] = row[m]]
  /\ appId' = [appId EXCEPT ![a] = m]
  /\ UNCHANGED <<useEncryption, received, heard>>

\* The callback of clientConnect: new streams and a new appId.
SetUp(a, m) ==
  /\ key' = [key EXCEPT ![a] = row[m]]
  /\ received' = [received EXCEPT ![a] = 0]
  /\ appId' = [appId EXCEPT ![a] = m]
  /\ UNCHANGED <<useEncryption, heard>>

\* Wrong on purpose: the row is not looked at.
KeyedAnyway(m) == TRUE

\* The customer has a row, with a key setEncryptionKey takes.
Keyed(m) == row[m] \in Rc4Keys

\* The reply goes to the socket the object has now, which may be another than
\* asked: the client that asked has no answer then.
AnswerConnect(m) ==
  LET a == message[m].address
      s == message[m].socket
      outcome == Outcome(a, "connect", message[m].flags, row[m])
  IN  /\ up
      /\ state[m] = "fetched"
      /\ Keyed(m)
      /\ \/ /\ outcome = "undelivered"
            /\ Reject([state EXCEPT ![m] = outcome],
                      SetUp(a, m) /\ UNCHANGED clientVars)
         \/ /\ outcome # "undelivered"
            /\ state' = [state EXCEPT ![m] = IF sock[a] = s THEN outcome ELSE "strayed"]
            /\ SetUp(a, m)
            /\ unread' = IF sock[a] = s
                         THEN [unread EXCEPT ![s] = Append(@, row[m])]
                         ELSE unread
            /\ UNCHANGED <<connectionVars, stream>>
      /\ row' = [row EXCEPT ![m] = None]
      /\ UNCHANGED <<sessions, message>>

\* SQLite failed, the customer has no row (the callback is given undefined),
\* or its key is none for RC4.
RejectConnect(m) ==
  /\ up
  /\ state[m] = "failed" \/ (state[m] = "fetched" /\ ~Keyed(m))
  /\ Reject([state EXCEPT ![m] = "rejected"], UNCHANGED <<objectVars, clientVars>>)
  /\ row' = [row EXCEPT ![m] = None]
  /\ UNCHANGED <<sessions, message>>

-----------------------------------------------------------------------------
\* The process is killed, or another server's rejection ends it.
Crash ==
  /\ up
  /\ Down(state)
  /\ row' = [m \in Messages |-> None]
  /\ UNCHANGED <<sessions, message>>

Restart == Start /\ UNCHANGED <<sessions, objectVars, messageVars, clientVars>>

Next ==
  \/ \E s \in Sockets :
       \/ \E a \in Addresses : Connect(s, a)
       \/ Close(s)
       \/ ReadAnswer(s)
       \/ \E m \in Messages : ReceiveShort(m, s)
       \/ \E m \in Messages, flags \in Flags :
            \/ ReceiveUnready(m, s, flags)
            \/ ReceiveNoise(m, s, flags)
            \/ ReceiveUnrouted(m, s, flags)
            \/ ReceiveUnknown(m, s, flags)
            \/ \E op \in Requests : ReceiveRequest(m, s, op, flags)
            \/ \E c \in Customers : ReceiveConnect(m, s, flags, c)
  \/ \E c \in Customers, k \in Keys : StoreKey(c, k)
  \/ \E m \in Messages :
       \/ FetchRow(m)
       \/ FetchFails(m)
       \/ AnswerConnect(m)
       \/ RejectConnect(m)
  \/ Crash
  \/ Restart

Spec == Init /\ [][Next]_vars

-----------------------------------------------------------------------------
(* Properties.                                                             *)

\* The values the variables take.
TypeOK ==
  /\ sessions \in Tables
  /\ ConnectionsTypeOK
  /\ useEncryption \in [Addresses -> BOOLEAN]
  /\ key \in [Addresses -> Rc4Keys \cup {None}]
  /\ received \in [Addresses -> Nat]
  /\ appId \in [Addresses -> Messages \cup {None}]
  /\ heard \in [Addresses -> SUBSET Messages]
  /\ state \in [Messages -> States]
  /\ message \in [Messages -> [socket : Sockets, address : Addresses,
                               customer : Customers \cup {None},
                               flags : Flags \cup {0},
                               early : BOOLEAN] \cup {NoMessage}]
  /\ row \in [Messages -> Keys \cup {None}]
  /\ stream \in [Sockets -> [key : Rc4Keys, n : Nat] \cup {None}]
  /\ unread \in [Sockets -> Seq(Rc4Keys)]
  /\ ~up => \A m \in Messages : state[m] \notin Waiting

\* A connection's streams and its persona are those of one connect message,
\* the one answered last, and the key is the one stored for its customer:
\* connects of two customers that overlap at SQLite, on one object, never mix
\* (tcp-manager.ts:213).
KeyAndPersonaAgree ==
  \A a \in Addresses :
    key[a] # None =>
      /\ appId[a] # None
      /\ message[appId[a]].address = a
      /\ sessions[message[appId[a]].customer] = key[a]

\* A connect message that waits for SQLite, or was answered, came in either
\* flagged as a heartbeat, or unflagged, or on a connection that had its keys:
\* on a connection without keys any other flag shuts the client out
\* (tcp-manager.ts:397).
KeylessConnectsAreUnflagged ==
  \A m \in Messages :
    state[m] \in Waiting =>
      \/ message[m].flags \in {0, Heartbeat}
      \/ key[message[m].address] # None

\* Message n puts the streams of the client of s and of the server apart: it is
\* of another socket and was handled; or it is the client's own and was dropped
\* by the listener, was sent before the answer to a connect was read, or is a
\* connect whose answer went elsewhere.
Disturbs(n, s) ==
  IF message[n].socket = s
  THEN message[n].early \/ state[n] \in {"unrouted", "strayed", "undelivered"}
  ELSE state[n] # "unrouted"

\* Nothing else does: a client that waits for its answers is understood, however
\* often it connects and enciphers, and whoever shares its address without a
\* message of theirs being handled, until one of its own messages is dropped
\* because the newest socket of the object is closed, or an answer goes to that
\* one (listener-thread.ts:33, tcp-manager.ts:215, 413).
LoneClientInStep ==
  [][\A m \in Messages :
       state'[m] = "outOfStep" /\ state[m] = "unsent" =>
         \/ message'[m].early
         \/ \E n \in heard[message'[m].address] :
              Disturbs(n, message'[m].socket)]_vars

\* A connect that was answered, legibly or not, and if to another socket.
Replied(m) ==
  state[m] \in {"answered", "garbled", "strayed"} /\ message[m].customer # None

\* Their customers, with those keys.
Answers ==
  [m \in Messages |->
     IF Replied(m)
     THEN [customer |-> message[m].customer,
           key |-> sessions[message[m].customer]]
     ELSE [customer |-> None, key |-> None]]

Service == INSTANCE KeyService
  WITH Requests <- Messages, Connections <- Addresses, UsableKeys <- Rc4Keys,
       Rekeys <- TRUE, answer <- Answers

\* Although clientConnect reads the row, waits and then uses what it read,
\* while keys are stored and other connects re-key its connection, every
\* connect is served as if the row were read when the streams are made: the
\* last one answered has its customer's key, and none is answered that did not
\* set one (tcp-manager.ts:213).
ImplementsKeyService == Service!Spec

\* "Encrypt plaintext and return the ciphertext" (encryption-mgr.ts:76): an
\* enciphered reply deciphers to the reply.
EncryptedReplySurvives == \A m \in Messages : state[m] # "garbled"
=============================================================================
