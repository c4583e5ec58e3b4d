------------------------------ MODULE GameWire ------------------------------
(***************************************************************************)
(* The bytes below TCPManager: how one client's packets to port 43300 are  *)
(* cut out of TCP's stream, and where the four ends of the two RC4 streams *)
(* stand.                                                                  *)
(*                                                                         *)
(* A 'data' event brings what has arrived, and MessageNode.deserialize     *)
(* takes all of it for one message, whatever its length field says.  So    *)
(* packets that arrive together are one message to the server: its body is *)
(* the first one's, followed by the others with their headers.             *)
(*                                                                         *)
(* One connection object, one customer and one key: a stream is where it   *)
(* stands.  Rejected promises are warnings; where they end the process,    *)
(* nothing follows.  A packet is never split over two events.  The client  *)
(* is modelled from its packets in docs/reference/packets.txt: it connects *)
(* unflagged, waits for the answer, then enciphers everything.  Operators  *)
(* marked "wrong on purpose" are for the mutant runs (README, "Mutants").  *)
(***************************************************************************)
EXTENDS Naturals, Sequences

CONSTANTS
  Body,        \* the length of the body of each request, by its name
  MaxPackets   \* the packets the client sends, a bound for TLC

Requests == DOMAIN Body

ASSUME WireAssumption ==
  /\ "connect" \notin Requests
  /\ \A op \in Requests : Body[op] \in Nat \ {0}
  /\ MaxPackets \in Nat

VARIABLES
  client,      \* external: "away" has no socket, "open" has not asked for
               \* keys, "connecting" waits for them, "started" has streams
  clientOut,   \* external: the bytes the client has enciphered
  clientIn,    \* external: and deciphered
  toServer,    \* the chunks on their way, each to be one 'data' event
  serverIn,    \* EncryptionManager.in: the bytes deciphered
  serverOut,   \* EncryptionManager.out: the bytes enciphered
  toClient,    \* the replies on their way
  waiting,     \* the connects at SQLite
  sent,        \* the packets sent, at most MaxPackets
  heard,       \* history: the enciphered replies the client has read since it
               \* started
  merged,      \* history: since the keys were made, a chunk of several
               \* packets was handled
  overlapped   \* history: the client's socket was opened while a connect of an
               \* earlier one was at SQLite

clientVars  == <<client, clientOut, clientIn, sent>>
serverVars  == <<serverIn, serverOut, waiting>>
historyVars == <<heard, merged, overlapped>>
vars == <<clientVars, toServer, serverVars, toClient, historyVars>>

Init ==
  /\ client = "away" /\ clientOut = 0 /\ clientIn = 0 /\ sent = 0
  /\ toServer = <<>> /\ toClient = <<>>
  /\ serverIn = 0 /\ serverOut = 0 /\ waiting = 0
  /\ heard = 0 /\ merged = FALSE /\ overlapped = FALSE

-----------------------------------------------------------------------------
(* MessageNode and the messages in it.                                     *)

\* dataLength, signature, sequence number, four bytes unused up to the flags,
\* flags.
Header == 11

\* Wrong on purpose: the length of a body and its header without the two bytes
\* that hold it, which is how the client counts.
DataLengthExact(n) == 9 + n

\* updateBuffer, for a body of n bytes.
DataLength(n) == 10 + n

\* The body the client sees in a packet, its own packets having one of
\* dataLength - 9 bytes.
Framed(length) == length - 9

ConnectBody == 40

\* Of the three cars the server offers.
StockCarInfo == 3 * (17 + 9)

ReplyBody(op) == IF op = "stockcar" THEN StockCarInfo ELSE 16

-----------------------------------------------------------------------------
(* The client.                                                             *)

Open ==
  /\ client = "away"
  /\ client' = "open"
  /\ overlapped' = (waiting # 0)
  /\ UNCHANGED <<clientOut, clientIn, sent, toServer, serverVars, toClient,
                 heard, merged>>

\* What is on its way is lost.
Close ==
  /\ client # "away"
  /\ client' = "away"
  /\ toServer' = <<>>
  /\ toClient' = <<>>
  /\ UNCHANGED <<clientOut, clientIn, sent, serverVars, historyVars>>

\* Chunk c with another packet behind it, of n bytes of body, k of them
\* enciphered.
Joined(c, n, k) == [c EXCEPT !.extra = @ + Header + n, !.to = @ + k]

\* Such a packet is an event of its own or joins the ones before it.
Sent(op, n, k) ==
  \/ toServer' = Append(toServer, [op |-> op, body |-> n, extra |-> 0,
                                   at |-> clientOut, to |-> clientOut + k])
  \/ /\ toServer # <<>>
     /\ toServer' = [toServer EXCEPT ![Len(toServer)] = Joined(@, n, k)]

\* MC_CLIENT_CONNECT_MSG, unflagged; the client may connect again.
SendConnect ==
  /\ client \in {"open", "started"} /\ sent < MaxPackets
  /\ Sent("connect", ConnectBody, 0)
  /\ client' = "connecting"
  /\ sent' = sent + 1
  /\ UNCHANGED <<clientOut, clientIn, serverVars, toClient, historyVars>>

SendRequest(op) ==
  /\ client = "started" /\ sent < MaxPackets
  /\ Sent(op, Body[op], Body[op])
  /\ clientOut' = clientOut + Body[op]
  /\ sent' = sent + 1
  /\ UNCHANGED <<client, clientIn, serverVars, toClient, historyVars>>

\* The answer to a connect: the client's streams start, if it waits for one.
ReadConnected ==
  /\ toClient # <<>> /\ Head(toClient).op = "connect"
  /\ toClient' = Tail(toClient)
  /\ IF client = "connecting"
     THEN /\ client' = "started"
          /\ clientOut' = 0 /\ clientIn' = 0 /\ heard' = 0
     ELSE UNCHANGED <<client, clientOut, clientIn, heard>>
  /\ UNCHANGED <<sent, toServer, serverVars, merged, overlapped>>

ReadReply ==
  /\ toClient # <<>> /\ Head(toClient).op # "connect"
  /\ toClient' = Tail(toClient)
  /\ clientIn' = clientIn + Framed(DataLength(Head(toClient).body))
  /\ heard' = heard + 1
  /\ UNCHANGED <<client, clientOut, sent, toServer, serverVars, merged,
                 overlapped>>

-----------------------------------------------------------------------------
(* The server, which knows chunks only.                                    *)

\* Wrong on purpose: deciphering starts at the header.
TakenFromHeader(c) == Header + c.body + c.extra

\* Wrong on purpose: the chunk is cut by its length field.
TakenByLength(c) == c.body

\* deserialize: the data of a message are all that follows its header.
Taken(c) == c.body + c.extra

Received ==
  /\ toServer # <<>>
  /\ toServer' = Tail(toServer)
  /\ merged' = (merged \/ Head(toServer).extra # 0)
  /\ UNCHANGED <<clientVars, heard, overlapped>>

\* clientConnect up to the SELECT; it is not deciphered.
ReceiveConnect ==
  /\ Received /\ Head(toServer).op = "connect"
  /\ waiting' = waiting + 1
  /\ UNCHANGED <<serverIn, serverOut, toClient>>

\* A request is deciphered where the client enciphered it; all but a logout
\* are answered, and the reply is enciphered.
ReceiveRequest ==
  /\ Received /\ Head(toServer).op # "connect"
  /\ Head(toServer).at = serverIn
  /\ serverIn' = serverIn + Taken(Head(toServer))
  /\ IF Head(toServer).op = "logout"
     THEN UNCHANGED <<serverOut, toClient>>
     ELSE LET n == ReplyBody(Head(toServer).op)
          IN  /\ serverOut' = serverOut + n
              /\ toClient' = Append(toClient, [op |-> Head(toServer).op,
                                               body |-> n, at |-> serverOut])
  /\ UNCHANGED waiting

\* Deciphered anywhere else it is noise, which is taken for the error it ends
\* in; the stream has moved on.
ReceiveNoise ==
  /\ Received /\ Head(toServer).op # "connect"
  /\ Head(toServer).at # serverIn
  /\ serverIn' = serverIn + Taken(Head(toServer))
  /\ UNCHANGED <<serverOut, waiting, toClient>>

\* clientConnect after the SELECT: new streams, and a reply that is not
\* enciphered, to the socket the object has by now.
AnswerConnect ==
  /\ waiting # 0
  /\ waiting' = waiting - 1
  /\ serverIn' = 0 /\ serverOut' = 0
  /\ merged' = FALSE
  /\ toClient' = IF client = "away" THEN toClient
                 ELSE Append(toClient, [op |-> "connect", body |-> 16, at |-> 0])
  /\ UNCHANGED <<clientVars, toServer, heard, overlapped>>

\* Wrong on purpose: the callback of SQLite comes twice.
ConnectFailsAgain ==
  /\ client = "connecting"
  /\ waiting' = waiting - 1
  /\ UNCHANGED <<clientVars, toServer, serverIn, serverOut, toClient, historyVars>>

\* SQLite failed, the customer has no row, or its key is none for RC4.
ConnectFails ==
  /\ waiting # 0
  /\ waiting' = waiting - 1
  /\ UNCHANGED <<clientVars, toServer, serverIn, serverOut, toClient, historyVars>>

Next ==
  \/ Open
  \/ Close
  \/ SendConnect
  \/ \E op \in Requests : SendRequest(op)
  \/ ReadConnected
  \/ ReadReply
  \/ ReceiveConnect
  \/ ReceiveRequest
  \/ ReceiveNoise
  \/ AnswerConnect
  \/ ConnectFails

Spec == Init /\ [][Next]_vars

-----------------------------------------------------------------------------
(* Properties.                                                             *)

Chunks == [op : Requests \cup {"connect"}, body : Nat, extra : Nat,
           at : Nat, to : Nat]

Replies == [op : Requests \cup {"connect"}, body : Nat, at : Nat]

\* The values the variables take.
TypeOK ==
  /\ client \in {"away", "open", "connecting", "started"}
  /\ clientOut \in Nat /\ clientIn \in Nat /\ sent \in 0 .. MaxPackets
  /\ toServer \in Seq(Chunks)
  /\ toClient \in Seq(Replies)
  /\ serverIn \in Nat /\ serverOut \in Nat /\ waiting \in Nat
  /\ heard \in Nat /\ merged \in BOOLEAN /\ overlapped \in BOOLEAN

\* Where the client enciphered the packet the server receives next, and where
\* the server enciphered the reply the client reads next.
NextRequestAt == IF toServer = <<>> THEN clientOut ELSE Head(toServer).at

NextReplyAt == IF toClient = <<>> THEN serverOut ELSE Head(toClient).at

\* A client with streams, its socket not opened while a connect of an earlier
\* one was waiting.
Settled == client = "started" /\ ~overlapped

\* Such a client and the server agree, byte for byte, on where the next
\* message is enciphered, through reconnects and second connects, as long as no
\* two packets came in one event (tcp-manager.ts:433).
InStepUnlessMerged ==
  Settled /\ ~merged => serverIn = NextRequestAt

\* Once two packets came in one event the server has deciphered a header and
\* is ahead: no message of the client is understood before it has connected
\* again, whatever it sends (message-node.ts:74).
MergedShutsOut ==
  Settled /\ merged => serverIn >= NextRequestAt + Header

\* Replies drift too.  updateBuffer counts one byte more than the client does
\* in its own packets, so the client deciphers one byte more than the server
\* enciphered with every reply and understands the first only
\* (message-node.ts:155).
OneByteAheadPerReply ==
  Settled => clientIn = NextReplyAt + heard
=============================================================================
