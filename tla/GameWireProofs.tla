--------------------------- MODULE GameWireProofs ---------------------------
(***************************************************************************)
(* Proofs about GameWire, for any requests and lengths.  The invariant     *)
(* says what is on the way in each stage of the client: that is what makes *)
(* the positions of the two ends comparable.                               *)
(***************************************************************************)
EXTENDS GameWire, TLAPS

\* A chunk of one packet holds what the client enciphered; one of several at
\* least a header more.
Grown ==
  \A i \in 1 .. Len(toServer) :
    LET c == toServer[i]
    IN  c.op # "connect" =>
          \/ c.extra = 0 /\ c.to = c.at + c.body
          \/ c.extra # 0 /\ c.at + c.body + c.extra >= c.to + Header

\* Nothing is on its way to or from a client without a socket.
NothingAway == client = "away" => toServer = <<>> /\ toClient = <<>>

\* Nor for one that has just come.
NothingOpen ==
  client = "open" /\ ~overlapped =>
    toServer = <<>> /\ toClient = <<>> /\ waiting = 0

\* One connect is on its way, as the last packet, at SQLite or answered, unless
\* it was lost on the way.
OneConnect ==
  client = "connecting" /\ ~overlapped =>
    /\ \A i \in 1 .. Len(toServer) - 1 : toServer[i].op # "connect"
    /\ waiting \in {0, 1}
    /\ toServer # <<>> => waiting = 0
    /\ \A i \in 1 .. Len(toClient) - 1 : toClient[i].op # "connect"
    /\ toClient # <<>> /\ toClient[Len(toClient)].op = "connect" =>
         /\ toServer = <<>> /\ waiting = 0
         /\ serverIn = 0 /\ serverOut = 0 /\ ~merged

\* A settled client has no connect on its way, and what is on its way was
\* enciphered without a gap.
RequestsChained ==
  Settled =>
    /\ waiting = 0
    /\ \A i \in 1 .. Len(toServer) : toServer[i].op # "connect"
    /\ \A i \in 1 .. Len(toServer) - 1 : toServer[i].to = toServer[i + 1].at
    /\ toServer # <<>> => toServer[Len(toServer)].to = clientOut

RepliesChained ==
  Settled =>
    /\ \A i \in 1 .. Len(toClient) : toClient[i].op # "connect"
    /\ \A i \in 1 .. Len(toClient) - 1 :
         toClient[i].at + toClient[i].body = toClient[i + 1].at
    /\ toClient # <<>> =>
         toClient[Len(toClient)].at + toClient[Len(toClient)].body = serverOut

Stages ==
  /\ Grown /\ NothingAway /\ NothingOpen /\ OneConnect
  /\ RequestsChained /\ RepliesChained

Positions == InStepUnlessMerged /\ MergedShutsOut /\ OneByteAheadPerReply

IInv == TypeOK /\ Stages /\ Positions

-----------------------------------------------------------------------------
(* Sequences.                                                              *)

\* What Append leaves where.
LEMMA AppendIs ==
  ASSUME NEW S, NEW q \in Seq(S), NEW x \in S
  PROVE  /\ Append(q, x) \in Seq(S)
         /\ Append(q, x) # <<>>
         /\ Len(Append(q, x)) = Len(q) + 1
         /\ \A i \in 1 .. Len(q) : Append(q, x)[i] = q[i]
         /\ Append(q, x)[Len(q) + 1] = x
  OBVIOUS

\* Only the empty sequence has no elements.
LEMMA EmptyIs ==
  ASSUME NEW S, NEW q \in Seq(S)
  PROVE  q = <<>> <=> Len(q) = 0
  OBVIOUS

\* What Tail leaves where.
LEMMA TailIs ==
  ASSUME NEW S, NEW q \in Seq(S), q # <<>>
  PROVE  /\ Tail(q) \in Seq(S)
         /\ Head(q) = q[1]
         /\ Len(q) \in Nat /\ Len(q) >= 1
         /\ Len(Tail(q)) = Len(q) - 1
         /\ \A i \in 1 .. Len(q) - 1 : Tail(q)[i] = q[i + 1]
         /\ Tail(q) = <<>> <=> Len(q) = 1
<1>1. Len(q) \in Nat /\ Len(q) # 0 /\ Head(q) = q[1]
  OBVIOUS
<1>2. Tail(q) \in Seq(S)
  OBVIOUS
<1>3. Len(Tail(q)) = Len(q) - 1
  OBVIOUS
<1>4. \A i \in 1 .. Len(q) - 1 : Tail(q)[i] = q[i + 1]
  OBVIOUS
<1>5. Tail(q) = <<>> <=> Len(Tail(q)) = 0
  BY <1>2, EmptyIs
<1> QED
  BY <1>1, <1>2, <1>3, <1>4, <1>5

\* The elements of a sequence are of its type, and an empty one has none.
LEMMA ElementsAre ==
  ASSUME NEW S, NEW q \in Seq(S)
  PROVE  /\ Len(q) \in Nat
         /\ q = <<>> <=> Len(q) = 0
         /\ \A i \in 1 .. Len(q) : q[i] \in S
         /\ q # <<>> => Head(q) = q[1] /\ q[1] \in S /\ q[Len(q)] \in S
  OBVIOUS

\* Replacing the last element changes nothing else.
LEMMA LastReplaced ==
  ASSUME NEW S, NEW q \in Seq(S), q # <<>>, NEW x \in S,
         NEW r, r = [q EXCEPT ![Len(q)] = x]
  PROVE  /\ r \in Seq(S)
         /\ r # <<>>
         /\ Len(r) = Len(q) /\ Len(q) \in Nat /\ Len(q) >= 1
         /\ \A i \in 1 .. Len(q) - 1 : r[i] = q[i]
         /\ r[Len(q)] = x
  OBVIOUS

-----------------------------------------------------------------------------
(* Types.                                                                  *)

Ops == Requests \cup {"connect"}

\* The chunk of a packet of its own.
Single(op, n, k) == [op |-> op, body |-> n, extra |-> 0,
                     at |-> clientOut, to |-> clientOut + k]

\* A chunk with a packet more is a chunk.
LEMMA JoinedIs ==
  ASSUME NEW c \in Chunks, NEW n \in Nat, NEW k \in Nat
  PROVE  /\ Joined(c, n, k) \in Chunks
         /\ Joined(c, n, k).op = c.op
         /\ Joined(c, n, k).body = c.body
         /\ Joined(c, n, k).at = c.at
         /\ Joined(c, n, k).extra = c.extra + Header + n
         /\ Joined(c, n, k).to = c.to + k
<1>1. c.op \in Ops /\ c.body \in Nat /\ c.extra \in Nat /\ c.at \in Nat /\ c.to \in Nat
  BY DEF Chunks, Ops
<1> DEFINE x == c.extra + Header + n
           y == c.to + k
           d == [c EXCEPT !.extra = x]
<1>2. x \in Nat /\ y \in Nat
  BY <1>1 DEF Header
<1>3. Joined(c, n, k) = [d EXCEPT !.to = y]
  BY DEF Joined
<1> HIDE DEF x, y
<1>4. /\ d \in Chunks /\ d.extra = x
      /\ d.op = c.op /\ d.body = c.body /\ d.at = c.at /\ d.to = c.to
  BY <1>2 DEF Chunks
<1> HIDE DEF d
<1>5. /\ [d EXCEPT !.to = y] \in Chunks
      /\ [d EXCEPT !.to = y].to = y
      /\ [d EXCEPT !.to = y].extra = d.extra
      /\ [d EXCEPT !.to = y].op = d.op
      /\ [d EXCEPT !.to = y].body = d.body
      /\ [d EXCEPT !.to = y].at = d.at
  BY <1>2, <1>4 DEF Chunks
<1> QED
  BY <1>3, <1>4, <1>5 DEF x, y

\* The two ways to send a packet, element by element.
LEMMA SentIs ==
  ASSUME TypeOK, NEW op \in Ops, NEW n \in Nat, NEW k \in Nat, Sent(op, n, k)
  PROVE  /\ toServer' \in Seq(Chunks) /\ toServer' # <<>>
         /\ Len(toServer) \in Nat
         /\ \/ /\ Len(toServer') = Len(toServer) + 1
               /\ \A i \in 1 .. Len(toServer) : toServer'[i] = toServer[i]
               /\ toServer'[Len(toServer) + 1] = Single(op, n, k)
            \/ /\ toServer # <<>> /\ Len(toServer) >= 1
               /\ Len(toServer') = Len(toServer)
               /\ \A i \in 1 .. Len(toServer) - 1 : toServer'[i] = toServer[i]
               /\ toServer'[Len(toServer)]
                    = Joined(toServer[Len(toServer)], n, k)
<1>1. toServer \in Seq(Chunks) /\ clientOut \in Nat
  BY DEF TypeOK
<1>2. Single(op, n, k) \in Chunks
  BY <1>1 DEF Single, Chunks, Ops
<1>3. CASE toServer' = Append(toServer, Single(op, n, k))
  BY <1>1, <1>2, <1>3, AppendIs, ElementsAre
<1>4. CASE /\ toServer # <<>>
           /\ toServer' = [toServer EXCEPT ![Len(toServer)] = Joined(@, n, k)]
  <2>1. toServer[Len(toServer)] \in Chunks
    BY <1>1, <1>4, ElementsAre
  <2>2. Joined(toServer[Len(toServer)], n, k) \in Chunks
    BY <2>1, JoinedIs
  <2> DEFINE z == Joined(toServer[Len(toServer)], n, k)
  <2>3. toServer' = [toServer EXCEPT ![Len(toServer)] = z]
    BY <1>4
  <2>4. z \in Chunks
    BY <2>2
  <2> HIDE DEF z
  <2>5. /\ toServer' \in Seq(Chunks)
        /\ toServer' # <<>>
        /\ Len(toServer') = Len(toServer) /\ Len(toServer) \in Nat /\ Len(toServer) >= 1
        /\ \A i \in 1 .. Len(toServer) - 1 : toServer'[i] = toServer[i]
        /\ toServer'[Len(toServer)] = z
    BY <1>1, <1>4, <2>3, <2>4, LastReplaced
  <2> QED
    BY <2>5, <1>4 DEF z
<1> QED
  BY <1>3, <1>4 DEF Sent, Single

\* The server takes the first chunk.
LEMMA ReceivedIs ==
  ASSUME TypeOK, Received
  PROVE  /\ toServer' \in Seq(Chunks)
         /\ Head(toServer) = toServer[1] /\ toServer[1] \in Chunks
         /\ Len(toServer) \in Nat /\ Len(toServer) >= 1
         /\ Len(toServer') = Len(toServer) - 1
         /\ \A i \in 1 .. Len(toServer) - 1 : toServer'[i] = toServer[i + 1]
         /\ toServer' = <<>> <=> Len(toServer) = 1
<1>1. toServer \in Seq(Chunks) /\ toServer # <<>> /\ toServer' = Tail(toServer)
  BY DEF TypeOK, Received
<1>2. toServer[1] \in Chunks
  BY <1>1, ElementsAre
<1> QED
  BY <1>1, <1>2, TailIs

\* The client takes the first reply.
LEMMA ReadIs ==
  ASSUME TypeOK, toClient # <<>>, toClient' = Tail(toClient)
  PROVE  /\ toClient' \in Seq(Replies)
         /\ Head(toClient) = toClient[1] /\ toClient[1] \in Replies
         /\ Len(toClient) \in Nat /\ Len(toClient) >= 1
         /\ Len(toClient') = Len(toClient) - 1
         /\ \A i \in 1 .. Len(toClient) - 1 : toClient'[i] = toClient[i + 1]
         /\ toClient' = <<>> <=> Len(toClient) = 1
<1>1. toClient \in Seq(Replies)
  BY DEF TypeOK
<1>2. toClient[1] \in Replies
  BY <1>1, ElementsAre
<1> QED
  BY <1>1, <1>2, TailIs

\* The server adds a reply.
LEMMA AnsweredIs ==
  ASSUME TypeOK, NEW op \in Ops, NEW n \in Nat, NEW k \in Nat,
         toClient' = Append(toClient, [op |-> op, body |-> n, at |-> k])
  PROVE  /\ toClient' \in Seq(Replies) /\ toClient' # <<>>
         /\ Len(toClient) \in Nat
         /\ Len(toClient') = Len(toClient) + 1
         /\ \A i \in 1 .. Len(toClient) : toClient'[i] = toClient[i]
         /\ toClient'[Len(toClient) + 1].op = op
         /\ toClient'[Len(toClient) + 1].body = n
         /\ toClient'[Len(toClient) + 1].at = k
<1>1. toClient \in Seq(Replies)
  BY DEF TypeOK
<1>2. [op |-> op, body |-> n, at |-> k] \in Replies
  BY DEF Replies, Ops
<1> QED
  BY <1>1, <1>2, AppendIs, ElementsAre

\* The length of every reply.
LEMMA RepliesHaveLengths ==
  \A op \in Ops : ReplyBody(op) \in Nat
  BY DEF ReplyBody, StockCarInfo

\* Every variable keeps its type.
LEMMA TypeNext ==
  TypeOK /\ [Next]_vars => TypeOK'
<1> SUFFICES ASSUME TypeOK, [Next]_vars PROVE TypeOK'
  OBVIOUS
<1> USE WireAssumption
<1>1. CASE Open
  BY <1>1 DEF Open, TypeOK, serverVars
<1>2. CASE Close
  BY <1>2 DEF Close, TypeOK, serverVars, historyVars
<1>3. CASE SendConnect
  <2>1. "connect" \in Ops /\ ConnectBody \in Nat /\ 0 \in Nat
    BY DEF Ops, ConnectBody
  <2>2. toServer' \in Seq(Chunks)
    BY <1>3, <2>1, SentIs DEF SendConnect
  <2> QED
    BY <1>3, <2>2 DEF SendConnect, TypeOK, serverVars, historyVars
<1>4. ASSUME NEW op \in Requests, SendRequest(op) PROVE TypeOK'
  <2>1. op \in Ops /\ Body[op] \in Nat
    BY DEF Ops
  <2>2. toServer' \in Seq(Chunks)
    BY <1>4, <2>1, SentIs DEF SendRequest
  <2> QED
    BY <1>4, <2>1, <2>2 DEF SendRequest, TypeOK, serverVars, historyVars
<1>5. CASE ReadConnected
  <2>1. toClient' \in Seq(Replies)
    BY <1>5, ReadIs DEF ReadConnected
  <2> QED
    BY <1>5, <2>1 DEF ReadConnected, TypeOK, serverVars
<1>6. CASE ReadReply
  <2>1. toClient' \in Seq(Replies) /\ Head(toClient) \in Replies
    BY <1>6, ReadIs DEF ReadReply
  <2>2. Framed(DataLength(Head(toClient).body)) \in Nat
    BY <2>1 DEF Replies, Framed, DataLength
  <2> QED
    BY <1>6, <2>1, <2>2 DEF ReadReply, TypeOK, serverVars
<1>7. CASE ReceiveConnect
  <2>1. toServer' \in Seq(Chunks)
    BY <1>7, ReceivedIs DEF ReceiveConnect
  <2> QED
    BY <1>7, <2>1 DEF ReceiveConnect, Received, TypeOK, clientVars
<1>8. CASE ReceiveRequest
  <2>1. toServer' \in Seq(Chunks) /\ Head(toServer) \in Chunks
    BY <1>8, ReceivedIs DEF ReceiveRequest
  <2>2. Taken(Head(toServer)) \in Nat /\ Head(toServer).op \in Ops
    BY <2>1 DEF Chunks, Taken, Ops
  <2>3. ReplyBody(Head(toServer).op) \in Nat
    BY <2>2, RepliesHaveLengths
  <2>4. serverOut \in Nat
    BY DEF TypeOK
  <2>5. toClient' \in Seq(Replies) /\ serverOut' \in Nat
    <3>1. CASE Head(toServer).op = "logout"
      BY <1>8, <3>1 DEF ReceiveRequest, TypeOK
    <3>2. CASE Head(toServer).op # "logout"
      <4>1. /\ serverOut' = serverOut + ReplyBody(Head(toServer).op)
            /\ toClient' = Append(toClient,
                  [op |-> Head(toServer).op,
                   body |-> ReplyBody(Head(toServer).op), at |-> serverOut])
        BY <1>8, <3>2 DEF ReceiveRequest
      <4> QED
        BY <4>1, <2>2, <2>3, <2>4, AnsweredIs
    <3> QED
      BY <3>1, <3>2
  <2> QED
    BY <1>8, <2>1, <2>2, <2>5 DEF ReceiveRequest, Received, TypeOK, clientVars
<1>9. CASE ReceiveNoise
  <2>1. toServer' \in Seq(Chunks) /\ Head(toServer) \in Chunks
    BY <1>9, ReceivedIs DEF ReceiveNoise
  <2>2. Taken(Head(toServer)) \in Nat
    BY <2>1 DEF Chunks, Taken
  <2> QED
    BY <1>9, <2>1, <2>2 DEF ReceiveNoise, Received, TypeOK, clientVars
<1>10. CASE AnswerConnect
  <2>1. toClient' \in Seq(Replies)
    <3>1. CASE client = "away"
      BY <1>10, <3>1 DEF AnswerConnect, TypeOK
    <3>2. CASE client # "away"
      <4>1. "connect" \in Ops
        BY DEF Ops
      <4>2. toClient' = Append(toClient, [op |-> "connect", body |-> 16, at |-> 0])
        BY <1>10, <3>2 DEF AnswerConnect
      <4> QED
        BY <4>1, <4>2, AnsweredIs
    <3> QED
      BY <3>1, <3>2
  <2>2. waiting' \in Nat
    BY <1>10 DEF AnswerConnect, TypeOK
  <2> QED
    BY <1>10, <2>1, <2>2 DEF AnswerConnect, TypeOK, clientVars
<1>11. CASE ConnectFails
  BY <1>11 DEF ConnectFails, TypeOK, clientVars, historyVars
<1>12. CASE UNCHANGED vars
  BY <1>12 DEF vars, clientVars, serverVars, historyVars, TypeOK
<1> QED
  BY <1>1, <1>2, <1>3, <1>4, <1>5, <1>6, <1>7, <1>8, <1>9, <1>10, <1>11, <1>12
     DEF Next

-----------------------------------------------------------------------------
(* The stages and the positions.                                           *)

\* The positions, read off the sequences.
LEMMA NextAtIs ==
  ASSUME TypeOK
  PROVE  /\ NextRequestAt = IF Len(toServer) = 0 THEN clientOut ELSE toServer[1].at
         /\ NextReplyAt = IF Len(toClient) = 0 THEN serverOut ELSE toClient[1].at
         /\ Len(toServer) \in Nat /\ Len(toClient) \in Nat
         /\ toServer = <<>> <=> Len(toServer) = 0
         /\ toClient = <<>> <=> Len(toClient) = 0
         /\ \A i \in 1 .. Len(toServer) : toServer[i] \in Chunks
         /\ \A i \in 1 .. Len(toClient) : toClient[i] \in Replies
         /\ clientOut \in Nat /\ clientIn \in Nat /\ serverIn \in Nat
         /\ serverOut \in Nat /\ heard \in Nat /\ waiting \in Nat
<1>1. toServer \in Seq(Chunks) /\ toClient \in Seq(Replies)
  BY DEF TypeOK
<1>2. /\ Len(toServer) \in Nat /\ (toServer = <<>> <=> Len(toServer) = 0)
      /\ \A i \in 1 .. Len(toServer) : toServer[i] \in Chunks
      /\ toServer # <<>> => Head(toServer) = toServer[1]
  BY <1>1, ElementsAre
<1>3. /\ Len(toClient) \in Nat /\ (toClient = <<>> <=> Len(toClient) = 0)
      /\ \A i \in 1 .. Len(toClient) : toClient[i] \in Replies
      /\ toClient # <<>> => Head(toClient) = toClient[1]
  BY <1>1, ElementsAre
<1> QED
  BY <1>2, <1>3 DEF TypeOK, NextRequestAt, NextReplyAt

\* Sending keeps the chunks well formed.
LEMMA SentGrown ==
  ASSUME TypeOK, Grown, NEW op \in Ops, NEW n \in Nat, NEW k \in Nat,
         k <= n, op # "connect" => k = n, Sent(op, n, k)
  PROVE  Grown'
<1> SUFFICES ASSUME NEW i \in 1 .. Len(toServer'), toServer'[i].op # "connect"
             PROVE  LET c == toServer'[i]
                    IN  \/ c.extra = 0 /\ c.to = c.at + c.body
                        \/ c.extra # 0 /\ c.at + c.body + c.extra >= c.to + Header
  BY DEF Grown
<1>1. CASE /\ Len(toServer) \in Nat /\ Len(toServer') = Len(toServer) + 1
           /\ \A j \in 1 .. Len(toServer) : toServer'[j] = toServer[j]
           /\ toServer'[Len(toServer) + 1] = Single(op, n, k)
  <2>1. CASE i = Len(toServer) + 1
    BY <1>1, <2>1, NextAtIs DEF Single
  <2>2. CASE i # Len(toServer) + 1
    <3>1. i \in 1 .. Len(toServer) /\ toServer'[i] = toServer[i]
      BY <1>1, <2>2
    <3> QED
      BY <3>1 DEF Grown
  <2> QED
    BY <2>1, <2>2
<1>2. CASE /\ Len(toServer) \in Nat /\ Len(toServer) >= 1
           /\ Len(toServer') = Len(toServer)
           /\ \A j \in 1 .. Len(toServer) - 1 : toServer'[j] = toServer[j]
           /\ toServer'[Len(toServer)] = Joined(toServer[Len(toServer)], n, k)
  <2>1. CASE i = Len(toServer)
    <3> DEFINE c == toServer[Len(toServer)]
               d == Joined(c, n, k)
    <3>1. c \in Chunks
      BY <1>2, NextAtIs
    <3>2. d.op = c.op /\ d.body = c.body /\ d.at = c.at
          /\ d.extra = c.extra + Header + n /\ d.to = c.to + k
      BY <3>1, JoinedIs
    <3>3. c.body \in Nat /\ c.extra \in Nat /\ c.at \in Nat /\ c.to \in Nat
      BY <3>1 DEF Chunks
    <3>4. toServer'[i] = d
      BY <1>2, <2>1
    <3>5. c.op # "connect"
      BY <3>2, <3>4
    <3>6. \/ c.extra = 0 /\ c.to = c.at + c.body
          \/ c.extra # 0 /\ c.at + c.body + c.extra >= c.to + Header
      BY <1>2, <3>5 DEF Grown
    <3>7. /\ c.extra + Header + n # 0
          /\ c.at + c.body + (c.extra + Header + n) >= c.to + k + Header
      <4> HIDE DEF c
      <4>1. c.at + c.body + c.extra >= c.to
        BY <3>3, <3>6 DEF Header
      <4> DEFINE s == c.at + c.body
                 x == c.extra
                 z == c.to
      <4>2. s \in Nat /\ x \in Nat /\ z \in Nat /\ s + x >= z
        BY <3>3, <4>1
      <4> HIDE DEF s, x, z
      <4>3. x + 11 + n # 0 /\ s + (x + 11 + n) >= z + k + 11
        BY <4>2
      <4> QED
        BY <4>3 DEF s, x, z, Header
    <3> HIDE DEF c, d
    <3>8. d.extra # 0 /\ d.at + d.body + d.extra >= d.to + Header
      BY <3>2, <3>7
    <3> QED
      BY <3>4, <3>8
  <2>2. CASE i # Len(toServer)
    <3>1. i \in 1 .. Len(toServer) /\ toServer'[i] = toServer[i]
      BY <1>2, <2>2
    <3> QED
      BY <3>1 DEF Grown
  <2> QED
    BY <2>1, <2>2
<1> QED
  BY <1>1, <1>2, SentIs

\* So does receiving.
LEMMA ReceivedGrown ==
  ASSUME TypeOK, Grown, Received
  PROVE  Grown'
<1> SUFFICES ASSUME NEW i \in 1 .. Len(toServer'), toServer'[i].op # "connect"
             PROVE  LET c == toServer'[i]
                    IN  \/ c.extra = 0 /\ c.to = c.at + c.body
                        \/ c.extra # 0 /\ c.at + c.body + c.extra >= c.to + Header
  BY DEF Grown
<1>1. i + 1 \in 1 .. Len(toServer) /\ toServer'[i] = toServer[i + 1]
  BY ReceivedIs
<1> QED
  BY <1>1 DEF Grown

\* A socket comes, or goes: nothing is on the way.
LEMMA SocketSteps ==
  ASSUME IInv, Open \/ Close
  PROVE  (Stages /\ Positions)'
<1>1. CASE Open
  BY <1>1 DEF Open, IInv, Stages, Positions, Grown, NothingAway, NothingOpen,
     OneConnect, RequestsChained, RepliesChained, InStepUnlessMerged,
     MergedShutsOut, OneByteAheadPerReply, Settled, serverVars
<1>2. CASE Close
  <2>1. client' = "away" /\ toServer' = <<>> /\ toClient' = <<>>
    BY <1>2 DEF Close
  <2>2. Len(toServer') = 0
    BY <2>1
  <2>3. Grown'
    BY <2>2 DEF Grown
  <2> QED
    BY <2>1, <2>3 DEF Stages, Positions, NothingAway, NothingOpen,
       OneConnect, RequestsChained, RepliesChained, InStepUnlessMerged,
       MergedShutsOut, OneByteAheadPerReply, Settled
<1> QED
  BY <1>1, <1>2

\* A connect goes out, behind whatever the client sent before it.
LEMMA SendConnectStep ==
  ASSUME IInv, SendConnect
  PROVE  (Stages /\ Positions)'
<1> USE DEF IInv, Stages, Positions
<1>1. /\ client \in {"open", "started"} /\ client' = "connecting"
      /\ Sent("connect", ConnectBody, 0)
      /\ UNCHANGED <<clientOut, clientIn, serverVars, toClient, historyVars>>
  BY DEF SendConnect
<1>2. "connect" \in Ops /\ ConnectBody \in Nat /\ 0 \in Nat /\ 0 <= ConnectBody
  BY DEF Ops, ConnectBody
<1>3. Grown'
  BY <1>1, <1>2, SentGrown
<1>4. OneConnect'
  <2> SUFFICES ASSUME ~overlapped'
               PROVE /\ \A i \in 1 .. Len(toServer') - 1 : toServer'[i].op # "connect"
                     /\ waiting' = 0
                     /\ \A i \in 1 .. Len(toClient) : toClient[i].op # "connect"
                     /\ toClient' = toClient
    <3>1. Len(toClient) \in Nat /\ (toClient = <<>> <=> Len(toClient) = 0)
      BY NextAtIs
    <3> QED
      BY <3>1, <1>1 DEF OneConnect
  <2>1. /\ ~overlapped /\ waiting' = waiting /\ toClient' = toClient
    BY <1>1 DEF serverVars, historyVars
  <2>2. /\ waiting = 0
        /\ \A i \in 1 .. Len(toServer) : toServer[i].op # "connect"
        /\ \A i \in 1 .. Len(toClient) : toClient[i].op # "connect"
    <3>1. CASE client = "open"
      <4>1. toServer = <<>> /\ toClient = <<>> /\ waiting = 0
        BY <3>1, <2>1 DEF NothingOpen
      <4>2. Len(toServer) = 0 /\ Len(toClient) = 0
        BY <4>1
      <4> QED
        BY <4>1, <4>2
    <3>2. CASE client = "started"
      BY <3>2, <2>1 DEF RequestsChained, RepliesChained, Settled
    <3> QED
      BY <3>1, <3>2, <1>1
  <2>3. \A i \in 1 .. Len(toServer') - 1 :
          i \in 1 .. Len(toServer) /\ toServer'[i] = toServer[i]
    BY <1>1, <1>2, SentIs
  <2> QED
    BY <2>1, <2>2, <2>3
<1> QED
  BY <1>1, <1>3, <1>4 DEF NothingAway, NothingOpen, RequestsChained,
     RepliesChained, InStepUnlessMerged, MergedShutsOut, OneByteAheadPerReply,
     Settled

\* A request goes out where the one before it ended.
LEMMA SendRequestStep ==
  ASSUME IInv, NEW op \in Requests, SendRequest(op)
  PROVE  (Stages /\ Positions)'
<1> USE DEF IInv, Stages, Positions
<1>1. /\ client = "started" /\ client' = "started"
      /\ Sent(op, Body[op], Body[op])
      /\ clientOut' = clientOut + Body[op]
      /\ UNCHANGED <<clientIn, serverVars, toClient, historyVars>>
  BY DEF SendRequest
<1>2. op \in Ops /\ op # "connect" /\ Body[op] \in Nat /\ Body[op] <= Body[op]
  BY WireAssumption DEF Ops
<1>3. TypeOK'
  BY TypeNext DEF Next
<1>4. Grown'
  BY <1>1, <1>2, SentGrown
<1>5. /\ Settled' = Settled /\ merged' = merged /\ serverIn' = serverIn
      /\ serverOut' = serverOut /\ waiting' = waiting /\ heard' = heard
  BY <1>1 DEF Settled, serverVars, historyVars
<1>6. Settled => RequestsChained' /\ NextRequestAt' = NextRequestAt
  <2> SUFFICES ASSUME Settled PROVE RequestsChained' /\ NextRequestAt' = NextRequestAt
    OBVIOUS
  <2>1. /\ waiting = 0
        /\ \A i \in 1 .. Len(toServer) : toServer[i].op # "connect"
        /\ \A i \in 1 .. Len(toServer) - 1 : toServer[i].to = toServer[i + 1].at
        /\ toServer # <<>> => toServer[Len(toServer)].to = clientOut
    BY DEF RequestsChained
  <2>2. /\ NextRequestAt = IF Len(toServer) = 0 THEN clientOut ELSE toServer[1].at
        /\ Len(toServer) \in Nat /\ clientOut \in Nat
        /\ toServer = <<>> <=> Len(toServer) = 0
        /\ \A i \in 1 .. Len(toServer) : toServer[i] \in Chunks
    BY NextAtIs
  <2>3. /\ NextRequestAt' = IF Len(toServer') = 0 THEN clientOut' ELSE toServer'[1].at
        /\ toServer' = <<>> <=> Len(toServer') = 0
    <3>1. toServer' \in Seq(Chunks)
      BY <1>3 DEF TypeOK
    <3>2. /\ toServer' = <<>> <=> Len(toServer') = 0
          /\ toServer' # <<>> => Head(toServer') = toServer'[1]
      BY <3>1, ElementsAre
    <3> QED
      BY <3>2 DEF NextRequestAt
  <2>4. CASE /\ Len(toServer') = Len(toServer) + 1
             /\ \A i \in 1 .. Len(toServer) : toServer'[i] = toServer[i]
             /\ toServer'[Len(toServer) + 1] = Single(op, Body[op], Body[op])
    <3> DEFINE z == Single(op, Body[op], Body[op])
    <3>1. z.op = op /\ z.at = clientOut /\ z.to = clientOut'
      BY <1>1 DEF Single
    <3> HIDE DEF z
    <3>2. \A i \in 1 .. Len(toServer') : toServer'[i].op # "connect"
      BY <3>1, <2>1, <2>2, <2>4, <1>2 DEF z
    <3>3. \A i \in 1 .. Len(toServer') - 1 : toServer'[i].to = toServer'[i + 1].at
      <4> SUFFICES ASSUME NEW i \in 1 .. Len(toServer') - 1
                   PROVE toServer'[i].to = toServer'[i + 1].at
        OBVIOUS
      <4>1. CASE i = Len(toServer)
        BY <4>1, <3>1, <2>1, <2>2, <2>4 DEF z
      <4>2. CASE i # Len(toServer)
        <5>1. /\ i \in 1 .. Len(toServer) - 1
              /\ i \in 1 .. Len(toServer) /\ i + 1 \in 1 .. Len(toServer)
          BY <4>2, <2>2, <2>4
        <5> QED
          BY <5>1, <2>1, <2>4
      <4> QED
        BY <4>1, <4>2
    <3>4. toServer'[Len(toServer')].to = clientOut'
      BY <3>1, <2>4 DEF z
    <3>5. NextRequestAt' = NextRequestAt
      BY <3>1, <2>2, <2>3, <2>4 DEF z
    <3> QED
      BY <3>2, <3>3, <3>4, <3>5, <2>1, <1>5 DEF RequestsChained
  <2>5. CASE /\ toServer # <<>> /\ Len(toServer) >= 1
             /\ Len(toServer') = Len(toServer)
             /\ \A i \in 1 .. Len(toServer) - 1 : toServer'[i] = toServer[i]
             /\ toServer'[Len(toServer)]
                  = Joined(toServer[Len(toServer)], Body[op], Body[op])
    <3> DEFINE c == toServer[Len(toServer)]
               z == Joined(c, Body[op], Body[op])
    <3>1. c \in Chunks
      BY <2>2, <2>5
    <3>2. z.op = c.op /\ z.at = c.at /\ z.to = clientOut'
      BY <3>1, <2>1, <2>5, <1>1, <1>2, JoinedIs
    <3> HIDE DEF z
    <3>3. \A i \in 1 .. Len(toServer') : /\ toServer'[i].op = toServer[i].op
                                        /\ toServer'[i].at = toServer[i].at
      BY <3>2, <2>2, <2>5 DEF z
    <3>4. \A i \in 1 .. Len(toServer') - 1 : toServer'[i].to = toServer'[i + 1].at
      BY <3>3, <2>1, <2>2, <2>5
    <3>5. toServer'[Len(toServer')].to = clientOut'
      BY <3>2, <2>5 DEF z
    <3>6. NextRequestAt' = NextRequestAt
      BY <3>3, <2>2, <2>3, <2>5
    <3> QED
      BY <3>3, <3>4, <3>5, <3>6, <2>1, <2>5, <1>5 DEF RequestsChained
  <2> QED
    BY <2>4, <2>5, <1>1, <1>2, SentIs
<1>7. RepliesChained' /\ NextReplyAt' = NextReplyAt
  BY <1>1, <1>5 DEF RepliesChained, NextReplyAt
<1> QED
  BY <1>1, <1>4, <1>5, <1>6, <1>7 DEF NothingAway, NothingOpen, OneConnect,
     RequestsChained, InStepUnlessMerged, MergedShutsOut, OneByteAheadPerReply

\* The server takes a connect to SQLite: the client has no streams, or
\* another connect is about.
LEMMA ReceiveConnectStep ==
  ASSUME IInv, ReceiveConnect
  PROVE  (Stages /\ Positions)'
<1> USE DEF IInv, Stages, Positions
<1>1. /\ Received /\ toServer[1].op = "connect"
      /\ waiting' = waiting + 1
      /\ UNCHANGED <<serverIn, serverOut, toClient, clientVars, heard, overlapped>>
  BY ReceivedIs DEF ReceiveConnect, Received
<1>2. Grown'
  BY <1>1, ReceivedGrown
<1>3. /\ Len(toServer) \in Nat /\ Len(toServer) >= 1 /\ toServer # <<>>
      /\ toServer' = <<>> <=> Len(toServer) = 1
      /\ toServer' = <<>> => Len(toServer') = 0
  BY <1>1, ReceivedIs DEF Received
<1>4. ~Settled
  BY <1>1, <1>3 DEF RequestsChained
<1>5. client # "away" /\ ~(client = "open" /\ ~overlapped)
  BY <1>3 DEF NothingAway, NothingOpen
<1>6. OneConnect'
  <2> SUFFICES ASSUME client = "connecting", ~overlapped PROVE OneConnect'
    BY <1>1 DEF OneConnect, clientVars
  <2>1. /\ \A i \in 1 .. Len(toServer) - 1 : toServer[i].op # "connect"
        /\ waiting = 0
        /\ \A i \in 1 .. Len(toClient) - 1 : toClient[i].op # "connect"
        /\ ~(toClient # <<>> /\ toClient[Len(toClient)].op = "connect")
    BY <1>3 DEF OneConnect
  <2>2. Len(toServer) = 1
    <3> SUFFICES ASSUME Len(toServer) # 1 PROVE FALSE
      OBVIOUS
    <3>1. 1 \in 1 .. Len(toServer) - 1
      <4>1. \A n \in Nat : n >= 1 /\ n # 1 => 1 \in 1 .. n - 1
        OBVIOUS
      <4> QED
        BY <4>1, <1>3
    <3> QED
      BY <3>1, <2>1, <1>1
  <2>3. toServer' = <<>> /\ Len(toServer') = 0 /\ waiting' = 1 /\ toClient' = toClient
    BY <2>1, <2>2, <1>1, <1>3
  <2> QED
    BY <2>1, <2>3 DEF OneConnect
<1>7. client' = client /\ Settled' = Settled /\ overlapped' = overlapped
  BY <1>1 DEF clientVars, Settled
<1> QED
  BY <1>2, <1>4, <1>5, <1>6, <1>7 DEF NothingAway, NothingOpen, RequestsChained,
     RepliesChained, InStepUnlessMerged, MergedShutsOut, OneByteAheadPerReply

\* What a settled client sees of a request that is taken: the next position is
\* the end of the chunk, and the server is there, or a header ahead.
LEMMA RequestTaken ==
  ASSUME IInv, Received, Head(toServer).op # "connect",
         serverIn' = serverIn + Taken(Head(toServer)), waiting' = waiting,
         Settled
  PROVE  RequestsChained' /\ InStepUnlessMerged' /\ MergedShutsOut'
<1> USE DEF IInv, Stages, Positions
<1> DEFINE c == toServer[1]
<1>1. /\ toServer' \in Seq(Chunks)
      /\ Head(toServer) = c /\ c \in Chunks
      /\ Len(toServer) \in Nat /\ Len(toServer) >= 1
      /\ Len(toServer') = Len(toServer) - 1
      /\ \A i \in 1 .. Len(toServer) - 1 : toServer'[i] = toServer[i + 1]
      /\ toServer' = <<>> <=> Len(toServer) = 1
      /\ toServer # <<>>
  BY ReceivedIs DEF Received
<1>2. /\ client' = client /\ clientOut' = clientOut /\ overlapped' = overlapped
      /\ merged' = (merged \/ c.extra # 0)
      /\ Settled' = Settled
  BY <1>1 DEF Received, clientVars, Settled
<1>3. /\ waiting = 0
      /\ \A i \in 1 .. Len(toServer) : toServer[i].op # "connect"
      /\ \A i \in 1 .. Len(toServer) - 1 : toServer[i].to = toServer[i + 1].at
      /\ toServer[Len(toServer)].to = clientOut
  BY <1>1 DEF RequestsChained
<1>4. RequestsChained'
  <2>1. \A i \in 1 .. Len(toServer') :
          i + 1 \in 1 .. Len(toServer) /\ toServer'[i] = toServer[i + 1]
    BY <1>1
  <2>2. \A i \in 1 .. Len(toServer') - 1 :
          /\ i + 1 \in 1 .. Len(toServer) - 1
          /\ toServer'[i] = toServer[i + 1] /\ toServer'[i + 1] = toServer[(i + 1) + 1]
    BY <1>1
  <2>3. \A i \in 1 .. Len(toServer') - 1 : toServer'[i].to = toServer'[i + 1].at
    BY <2>2, <1>3
  <2>4. toServer' # <<>> => toServer'[Len(toServer')].to = clientOut
    BY <1>1, <1>3
  <2> QED
    BY <2>1, <2>3, <2>4, <1>2, <1>3 DEF RequestsChained
<1>5. NextRequestAt' = c.to
  <2>1. CASE Len(toServer) = 1
    BY <2>1, <1>1, <1>2, <1>3 DEF NextRequestAt
  <2>2. CASE Len(toServer) # 1
    <3>1. toServer' # <<>> /\ toServer'[1] = toServer[2] /\ toServer[1].to = toServer[2].at
      BY <2>2, <1>1, <1>3
    <3>2. Head(toServer') = toServer'[1]
      BY <3>1, <1>1, ElementsAre
    <3> QED
      BY <3>1, <3>2 DEF NextRequestAt
  <2> QED
    BY <2>1, <2>2
<1>6. NextRequestAt = c.at
  BY <1>1 DEF NextRequestAt
<1>7. /\ c.body \in Nat /\ c.extra \in Nat /\ c.at \in Nat /\ c.to \in Nat
      /\ serverIn \in Nat /\ serverIn' = serverIn + (c.body + c.extra)
  BY <1>1 DEF Chunks, TypeOK, Taken
<1>8. \/ c.extra = 0 /\ c.to = c.at + c.body
      \/ c.extra # 0 /\ c.at + c.body + c.extra >= c.to + Header
  BY <1>1, <1>3 DEF Grown
<1>9. /\ ~merged => serverIn = c.at
      /\ merged => serverIn >= c.at + Header
  BY <1>6 DEF InStepUnlessMerged, MergedShutsOut
<1> HIDE DEF c
<1>10. ~merged /\ c.extra = 0 => serverIn' = c.to
  BY <1>7, <1>8, <1>9
<1>11. merged \/ c.extra # 0 => serverIn' >= c.to + Header
  BY <1>7, <1>8, <1>9 DEF Header
<1> QED
  BY <1>2, <1>4, <1>5, <1>10, <1>11 DEF InStepUnlessMerged, MergedShutsOut

\* What a connecting client sees of it.
LEMMA RequestPassed ==
  ASSUME IInv, Received, Head(toServer).op # "connect", waiting' = waiting,
         client = "connecting", ~overlapped
  PROVE  /\ \A i \in 1 .. Len(toServer') - 1 : toServer'[i].op # "connect"
         /\ waiting' = 0
         /\ \A i \in 1 .. Len(toClient) : toClient[i].op # "connect"
<1> USE DEF IInv, Stages, Positions
<1>1. /\ Len(toServer) \in Nat /\ Len(toServer) >= 1 /\ toServer # <<>>
      /\ Len(toServer') = Len(toServer) - 1
      /\ \A i \in 1 .. Len(toServer) - 1 : toServer'[i] = toServer[i + 1]
  BY ReceivedIs DEF Received
<1>2. /\ \A i \in 1 .. Len(toServer) - 1 : toServer[i].op # "connect"
      /\ waiting = 0
      /\ \A i \in 1 .. Len(toClient) - 1 : toClient[i].op # "connect"
      /\ ~(toClient # <<>> /\ toClient[Len(toClient)].op = "connect")
  BY <1>1 DEF OneConnect
<1>3. Len(toClient) \in Nat /\ (toClient = <<>> <=> Len(toClient) = 0)
  BY NextAtIs
<1>4. \A i \in 1 .. Len(toServer') - 1 :
        i + 1 \in 1 .. Len(toServer) - 1 /\ toServer'[i] = toServer[i + 1]
  BY <1>1
<1>5. \A i \in 1 .. Len(toClient) : toClient[i].op # "connect"
  BY <1>2, <1>3
<1> QED
  BY <1>2, <1>4, <1>5

\* A request that is understood, and its reply.
LEMMA ReceiveRequestStep ==
  ASSUME IInv, ReceiveRequest
  PROVE  (Stages /\ Positions)'
<1> USE DEF IInv, Stages, Positions
<1>1. /\ Received /\ Head(toServer).op # "connect"
      /\ serverIn' = serverIn + Taken(Head(toServer))
      /\ waiting' = waiting
      /\ client' = client /\ clientIn' = clientIn /\ heard' = heard
      /\ overlapped' = overlapped /\ toServer # <<>>
      /\ Settled' = Settled
  BY DEF ReceiveRequest, Received, clientVars, Settled
<1>2. Grown'
  BY <1>1, ReceivedGrown
<1>3. client # "away" /\ ~(client = "open" /\ ~overlapped)
  BY <1>1 DEF NothingAway, NothingOpen
<1>4. Settled => RequestsChained' /\ InStepUnlessMerged' /\ MergedShutsOut'
  BY <1>1, RequestTaken
<1>5. CASE Head(toServer).op = "logout"
  <2>1. serverOut' = serverOut /\ toClient' = toClient
    BY <1>5 DEF ReceiveRequest
  <2>2. OneConnect'
    <3> SUFFICES ASSUME client = "connecting", ~overlapped PROVE OneConnect'
      BY <1>1 DEF OneConnect
    <3>1. /\ \A i \in 1 .. Len(toServer') - 1 : toServer'[i].op # "connect"
          /\ waiting' = 0
          /\ \A i \in 1 .. Len(toClient) : toClient[i].op # "connect"
      BY <1>1, RequestPassed
    <3>2. Len(toClient) \in Nat /\ (toClient = <<>> <=> Len(toClient) = 0)
      BY NextAtIs
    <3> QED
      BY <3>1, <3>2, <2>1 DEF OneConnect
  <2>3. RepliesChained' /\ OneByteAheadPerReply'
    BY <2>1, <1>1 DEF RepliesChained, OneByteAheadPerReply, NextReplyAt
  <2> QED
    BY <2>2, <2>3, <1>1, <1>2, <1>3, <1>4 DEF NothingAway, NothingOpen,
       RequestsChained, InStepUnlessMerged, MergedShutsOut
<1>6. CASE Head(toServer).op # "logout"
  <2> DEFINE op == Head(toServer).op
             n == ReplyBody(op)
  <2>1. /\ serverOut' = serverOut + n
        /\ toClient' = Append(toClient, [op |-> op, body |-> n, at |-> serverOut])
    BY <1>6 DEF ReceiveRequest
  <2>2. op \in Ops /\ op # "connect" /\ serverOut \in Nat /\ n \in Nat
    <3>1. Head(toServer) \in Chunks
      BY <1>1, ReceivedIs
    <3>2. op \in Ops
      BY <3>1 DEF Chunks, Ops
    <3> QED
      BY <3>2, <1>1, RepliesHaveLengths DEF TypeOK
  <2> HIDE DEF op, n
  <2>3. /\ toClient' # <<>> /\ toClient' \in Seq(Replies)
        /\ Len(toClient) \in Nat
        /\ Len(toClient') = Len(toClient) + 1
        /\ \A i \in 1 .. Len(toClient) : toClient'[i] = toClient[i]
        /\ toClient'[Len(toClient) + 1].op = op
        /\ toClient'[Len(toClient) + 1].body = n
        /\ toClient'[Len(toClient) + 1].at = serverOut
    BY <2>1, <2>2, AnsweredIs
  <2>4. (\A i \in 1 .. Len(toClient) : toClient[i].op # "connect")
          => \A i \in 1 .. Len(toClient') : toClient'[i].op # "connect"
    BY <2>2, <2>3
  <2>5. OneConnect'
    <3> SUFFICES ASSUME client = "connecting", ~overlapped PROVE OneConnect'
      BY <1>1 DEF OneConnect
    <3>1. /\ \A i \in 1 .. Len(toServer') - 1 : toServer'[i].op # "connect"
          /\ waiting' = 0
          /\ \A i \in 1 .. Len(toClient) : toClient[i].op # "connect"
      BY <1>1, RequestPassed
    <3>2. Len(toClient') \in Nat /\ Len(toClient') >= 1
      BY <2>3
    <3>3. /\ \A i \in 1 .. Len(toClient') - 1 : toClient'[i].op # "connect"
          /\ toClient'[Len(toClient')].op # "connect"
      BY <3>1, <3>2, <2>4
    <3> QED
      BY <3>1, <3>3 DEF OneConnect
  <2>6. RepliesChained'
    <3> SUFFICES ASSUME Settled PROVE RepliesChained'
      BY <1>1 DEF RepliesChained
    <3>1. /\ \A i \in 1 .. Len(toClient) : toClient[i].op # "connect"
          /\ \A i \in 1 .. Len(toClient) - 1 :
               toClient[i].at + toClient[i].body = toClient[i + 1].at
          /\ toClient # <<>> =>
               toClient[Len(toClient)].at + toClient[Len(toClient)].body = serverOut
      BY DEF RepliesChained
    <3>2. \A i \in 1 .. Len(toClient') - 1 :
            toClient'[i].at + toClient'[i].body = toClient'[i + 1].at
      <4> SUFFICES ASSUME NEW i \in 1 .. Len(toClient') - 1
                   PROVE toClient'[i].at + toClient'[i].body = toClient'[i + 1].at
        OBVIOUS
      <4>1. CASE i = Len(toClient)
        <5>1. toClient # <<>> /\ i \in 1 .. Len(toClient)
          BY <4>1, <2>3, NextAtIs
        <5> QED
          BY <4>1, <5>1, <3>1, <2>3
      <4>2. CASE i # Len(toClient)
        <5>1. /\ i \in 1 .. Len(toClient) - 1
              /\ i \in 1 .. Len(toClient) /\ i + 1 \in 1 .. Len(toClient)
          BY <4>2, <2>3
        <5> QED
          BY <5>1, <3>1, <2>3
      <4> QED
        BY <4>1, <4>2
    <3>3. toClient'[Len(toClient')].at + toClient'[Len(toClient')].body = serverOut'
      BY <2>1, <2>2, <2>3
    <3> QED
      BY <3>1, <3>2, <3>3, <2>4 DEF RepliesChained
  <2>7. NextReplyAt' = NextReplyAt
    <3>1. Head(toClient') = toClient'[1]
      BY <2>3, ElementsAre
    <3>2. CASE Len(toClient) = 0
      BY <3>1, <3>2, <2>3, NextAtIs DEF NextReplyAt
    <3>3. CASE Len(toClient) # 0
      <4>1. /\ toClient # <<>> /\ Head(toClient) = toClient[1]
            /\ toClient'[1] = toClient[1]
        BY <3>3, <2>3, ElementsAre DEF TypeOK
      <4> QED
        BY <4>1, <3>1, <2>3 DEF NextReplyAt
    <3> QED
      BY <3>2, <3>3
  <2> QED
    BY <2>5, <2>6, <2>7, <1>1, <1>2, <1>3, <1>4 DEF NothingAway, NothingOpen,
       RequestsChained, InStepUnlessMerged, MergedShutsOut, OneByteAheadPerReply
<1> QED
  BY <1>5, <1>6

\* One that is not.
LEMMA ReceiveNoiseStep ==
  ASSUME IInv, ReceiveNoise
  PROVE  (Stages /\ Positions)'
<1> USE DEF IInv, Stages, Positions
<1>1. /\ Received /\ Head(toServer).op # "connect"
      /\ serverIn' = serverIn + Taken(Head(toServer))
      /\ waiting' = waiting
      /\ client' = client /\ clientIn' = clientIn /\ heard' = heard
      /\ overlapped' = overlapped /\ toServer # <<>>
      /\ serverOut' = serverOut /\ toClient' = toClient
      /\ Settled' = Settled
  BY DEF ReceiveNoise, Received, clientVars, Settled
<1>2. Grown'
  BY <1>1, ReceivedGrown
<1>3. client # "away" /\ ~(client = "open" /\ ~overlapped)
  BY <1>1 DEF NothingAway, NothingOpen
<1>4. Settled => RequestsChained' /\ InStepUnlessMerged' /\ MergedShutsOut'
  BY <1>1, RequestTaken
<1>5. OneConnect'
  <2> SUFFICES ASSUME client = "connecting", ~overlapped PROVE OneConnect'
    BY <1>1 DEF OneConnect
  <2>1. /\ \A i \in 1 .. Len(toServer') - 1 : toServer'[i].op # "connect"
        /\ waiting' = 0
        /\ \A i \in 1 .. Len(toClient) : toClient[i].op # "connect"
    BY <1>1, RequestPassed
  <2>2. Len(toClient) \in Nat /\ (toClient = <<>> <=> Len(toClient) = 0)
    BY NextAtIs
  <2> QED
    BY <2>1, <2>2, <1>1 DEF OneConnect
<1>6. RepliesChained' /\ OneByteAheadPerReply'
  BY <1>1 DEF RepliesChained, OneByteAheadPerReply, NextReplyAt
<1> QED
  BY <1>1, <1>2, <1>3, <1>4, <1>5, <1>6 DEF NothingAway, NothingOpen,
     RequestsChained, InStepUnlessMerged, MergedShutsOut

\* A connect is answered: to a client that waits for it, or to one whose
\* socket came while it was waiting.
LEMMA AnswerConnectStep ==
  ASSUME IInv, AnswerConnect
  PROVE  (Stages /\ Positions)'
<1> USE DEF IInv, Stages, Positions
<1>1. /\ waiting # 0 /\ waiting' = waiting - 1
      /\ serverIn' = 0 /\ serverOut' = 0 /\ ~merged'
      /\ client' = client /\ overlapped' = overlapped /\ toServer' = toServer
      /\ Settled' = Settled
  BY DEF AnswerConnect, clientVars, Settled
<1>2. ~Settled /\ ~(client = "open" /\ ~overlapped)
  BY <1>1 DEF RequestsChained, NothingOpen
<1>3. Grown'
  BY <1>1 DEF Grown
<1>4. NothingAway'
  BY <1>1 DEF NothingAway, AnswerConnect
<1>5. OneConnect'
  <2> SUFFICES ASSUME client = "connecting", ~overlapped PROVE OneConnect'
    BY <1>1 DEF OneConnect
  <2>1. /\ waiting = 1 /\ toServer = <<>>
        /\ \A i \in 1 .. Len(toClient) - 1 : toClient[i].op # "connect"
        /\ ~(toClient # <<>> /\ toClient[Len(toClient)].op = "connect")
    BY <1>1 DEF OneConnect
  <2>2. toClient' = Append(toClient, [op |-> "connect", body |-> 16, at |-> 0])
    BY DEF AnswerConnect
  <2>3. "connect" \in Ops
    BY DEF Ops
  <2>4. /\ Len(toClient) \in Nat
        /\ Len(toClient') = Len(toClient) + 1
        /\ \A i \in 1 .. Len(toClient) : toClient'[i] = toClient[i]
    BY <2>2, <2>3, AnsweredIs
  <2>5. toClient = <<>> <=> Len(toClient) = 0
    BY NextAtIs
  <2>6. \A i \in 1 .. Len(toClient') - 1 :
          i \in 1 .. Len(toClient) /\ toClient'[i] = toClient[i]
    BY <2>4
  <2>7. \A i \in 1 .. Len(toClient) : toClient[i].op # "connect"
    BY <2>1, <2>4, <2>5
  <2>8. Len(toServer) = 0 /\ waiting' = 0
    BY <2>1, <1>1
  <2> QED
    BY <2>1, <2>6, <2>7, <2>8, <1>1 DEF OneConnect
<1> QED
  BY <1>1, <1>2, <1>3, <1>4, <1>5 DEF NothingOpen, RequestsChained,
     RepliesChained, InStepUnlessMerged, MergedShutsOut, OneByteAheadPerReply

\* Or not.
LEMMA ConnectFailsStep ==
  ASSUME IInv, ConnectFails
  PROVE  (Stages /\ Positions)'
<1> USE DEF IInv, Stages, Positions
<1>1. /\ waiting # 0 /\ waiting' = waiting - 1
      /\ UNCHANGED <<clientVars, toServer, serverIn, serverOut, toClient, historyVars>>
  BY DEF ConnectFails
<1>2. ~Settled /\ ~(client = "open" /\ ~overlapped)
  BY <1>1 DEF RequestsChained, NothingOpen
<1>3. /\ Settled' = Settled /\ client' = client /\ overlapped' = overlapped
      /\ merged' = merged
  BY <1>1 DEF clientVars, historyVars, Settled
<1>4. Grown' /\ NothingAway'
  BY <1>1, <1>3 DEF Grown, NothingAway
<1>5. OneConnect'
  BY <1>1, <1>3 DEF OneConnect
<1> QED
  BY <1>2, <1>3, <1>4, <1>5 DEF NothingOpen, RequestsChained,
     RepliesChained, InStepUnlessMerged, MergedShutsOut, OneByteAheadPerReply

\* The client starts its streams where the server has put its own.
LEMMA ReadConnectedStep ==
  ASSUME IInv, ReadConnected
  PROVE  (Stages /\ Positions)'
<1> USE DEF IInv, Stages, Positions
<1>1. /\ toClient # <<>> /\ toClient' = Tail(toClient)
      /\ overlapped' = overlapped /\ merged' = merged /\ toServer' = toServer
      /\ serverIn' = serverIn /\ serverOut' = serverOut /\ waiting' = waiting
  BY DEF ReadConnected, serverVars
<1>2. /\ Len(toClient) \in Nat /\ Len(toClient) >= 1
      /\ toClient[1].op = "connect"
      /\ toClient' = <<>> <=> Len(toClient) = 1
  BY <1>1, ReadIs DEF ReadConnected
<1>3. ~Settled
  BY <1>2 DEF RepliesChained
<1>4. client # "away" /\ ~(client = "open" /\ ~overlapped)
  BY <1>1 DEF NothingAway, NothingOpen
<1>5. Grown'
  BY <1>1 DEF Grown
<1>6. CASE client = "connecting"
  <2>1. client' = "started" /\ clientOut' = 0 /\ clientIn' = 0 /\ heard' = 0
    BY <1>6 DEF ReadConnected
  <2>2. ASSUME ~overlapped
        PROVE  /\ toClient' = <<>> /\ toServer = <<>> /\ waiting = 0
               /\ serverIn = 0 /\ serverOut = 0 /\ ~merged
    <3>1. /\ \A i \in 1 .. Len(toClient) - 1 : toClient[i].op # "connect"
          /\ toClient[Len(toClient)].op = "connect" =>
               /\ toServer = <<>> /\ waiting = 0
               /\ serverIn = 0 /\ serverOut = 0 /\ ~merged
      BY <1>1, <1>6, <2>2 DEF OneConnect
    <3>2. Len(toClient) = 1
      <4>1. \A n \in Nat : n >= 1 /\ n # 1 => 1 \in 1 .. n - 1
        OBVIOUS
      <4> QED
        BY <4>1, <3>1, <1>2
    <3> QED
      BY <3>1, <3>2, <1>2
  <2>3. ASSUME ~overlapped
        PROVE  /\ Len(toClient') = 0 /\ Len(toServer') = 0
               /\ NextRequestAt' = 0 /\ NextReplyAt' = 0
    BY <2>1, <2>2, <2>3, <1>1 DEF NextRequestAt, NextReplyAt
  <2>4. RequestsChained' /\ RepliesChained'
    BY <2>2, <2>3, <1>1 DEF RequestsChained, RepliesChained, Settled
  <2>5. InStepUnlessMerged' /\ MergedShutsOut' /\ OneByteAheadPerReply'
    BY <2>1, <2>2, <2>3, <1>1
       DEF InStepUnlessMerged, MergedShutsOut, OneByteAheadPerReply, Settled
  <2> QED
    BY <2>1, <2>4, <2>5, <1>5 DEF NothingAway, NothingOpen, OneConnect
<1>7. CASE client # "connecting"
  <2>1. client' = client
    BY <1>7 DEF ReadConnected
  <2>2. ~Settled'
    BY <2>1, <1>1, <1>3 DEF Settled
  <2> QED
    BY <2>1, <2>2, <1>1, <1>4, <1>5, <1>7 DEF NothingAway, NothingOpen, OneConnect,
       RequestsChained, RepliesChained, InStepUnlessMerged, MergedShutsOut,
       OneByteAheadPerReply
<1> QED
  BY <1>6, <1>7

\* The client deciphers a reply, and a byte more.
LEMMA ReadReplyStep ==
  ASSUME IInv, ReadReply
  PROVE  (Stages /\ Positions)'
<1> USE DEF IInv, Stages, Positions
<1> DEFINE r == toClient[1]
<1>1. /\ toClient # <<>> /\ toClient' = Tail(toClient) /\ client' = client
      /\ overlapped' = overlapped /\ merged' = merged /\ toServer' = toServer
      /\ serverIn' = serverIn /\ serverOut' = serverOut /\ waiting' = waiting
      /\ clientOut' = clientOut /\ heard' = heard + 1
      /\ Settled' = Settled
  BY DEF ReadReply, serverVars, Settled
<1>2. /\ toClient' \in Seq(Replies)
      /\ Len(toClient) \in Nat /\ Len(toClient) >= 1
      /\ r \in Replies /\ r.op # "connect"
      /\ Len(toClient') = Len(toClient) - 1
      /\ \A i \in 1 .. Len(toClient) - 1 : toClient'[i] = toClient[i + 1]
      /\ toClient' = <<>> <=> Len(toClient) = 1
      /\ Head(toClient) = r
  BY <1>1, ReadIs DEF ReadReply
<1>3. \A i \in 1 .. Len(toClient') :
        i + 1 \in 1 .. Len(toClient) /\ toClient'[i] = toClient[i + 1]
  BY <1>2
<1>4. \A i \in 1 .. Len(toClient') - 1 :
        /\ i + 1 \in 1 .. Len(toClient) - 1
        /\ toClient'[i] = toClient[i + 1] /\ toClient'[i + 1] = toClient[(i + 1) + 1]
  BY <1>2
<1>5. toClient' # <<>> => toClient'[Len(toClient')] = toClient[Len(toClient)]
  BY <1>2
<1>6. Grown' /\ InStepUnlessMerged' /\ MergedShutsOut' /\ RequestsChained'
  BY <1>1 DEF Grown, InStepUnlessMerged, MergedShutsOut, NextRequestAt,
     RequestsChained
<1>7. NothingAway' /\ NothingOpen'
  BY <1>1 DEF NothingAway, NothingOpen
<1>8. OneConnect'
  <2> SUFFICES ASSUME client = "connecting", ~overlapped PROVE OneConnect'
    BY <1>1 DEF OneConnect
  <2>1. \A i \in 1 .. Len(toClient) - 1 : toClient[i].op # "connect"
    BY DEF OneConnect
  <2>2. \A i \in 1 .. Len(toClient') - 1 : toClient'[i].op # "connect"
    BY <2>1, <1>4
  <2> QED
    BY <2>2, <1>1, <1>5 DEF OneConnect
<1>9. RepliesChained' /\ OneByteAheadPerReply'
  <2> SUFFICES ASSUME Settled PROVE RepliesChained' /\ OneByteAheadPerReply'
    BY <1>1 DEF RepliesChained, OneByteAheadPerReply
  <2>1. /\ \A i \in 1 .. Len(toClient) : toClient[i].op # "connect"
        /\ \A i \in 1 .. Len(toClient) - 1 :
             toClient[i].at + toClient[i].body = toClient[i + 1].at
        /\ toClient[Len(toClient)].at + toClient[Len(toClient)].body = serverOut
    BY <1>1 DEF RepliesChained
  <2>2. RepliesChained'
    BY <2>1, <1>1, <1>3, <1>4, <1>5 DEF RepliesChained
  <2>3. NextReplyAt' = r.at + r.body
    <3>1. CASE Len(toClient) = 1
      BY <3>1, <2>1, <1>1, <1>2 DEF NextReplyAt
    <3>2. CASE Len(toClient) # 1
      <4>1. /\ toClient' # <<>> /\ toClient'[1] = toClient[2]
            /\ r.at + r.body = toClient[2].at
        BY <3>2, <2>1, <1>2
      <4>2. Head(toClient') = toClient'[1]
        BY <4>1, <1>2, ElementsAre
      <4> QED
        BY <4>1, <4>2 DEF NextReplyAt
    <3> QED
      BY <3>1, <3>2
  <2>4. clientIn = r.at + heard
    BY <1>1, <1>2 DEF OneByteAheadPerReply, NextReplyAt
  <2>5. clientIn' = clientIn + Framed(DataLength(r.body))
    BY <1>2 DEF ReadReply
  <2>6. r.at \in Nat /\ r.body \in Nat /\ heard \in Nat
    BY <1>2 DEF Replies, TypeOK
  <2>7. clientIn' = (r.at + r.body) + heard'
    <3> HIDE DEF r
    <3>1. DataLength(r.body) = 10 + r.body
      BY DEF DataLength
    <3>2. Framed(DataLength(r.body)) = r.body + 1
      BY <3>1, <2>6 DEF Framed
    <3>3. clientIn' = (r.at + heard) + (r.body + 1)
      BY <2>4, <2>5, <3>2
    <3>4. heard' = heard + 1
      BY <1>2 DEF ReadReply
    <3> QED
      BY <3>3, <3>4, <2>6
  <2> QED
    BY <2>2, <2>3, <2>7 DEF OneByteAheadPerReply
<1> QED
  BY <1>6, <1>7, <1>8, <1>9

\* Every step keeps the invariant.
LEMMA InvNext ==
  IInv /\ [Next]_vars => IInv'
<1> SUFFICES ASSUME IInv, [Next]_vars PROVE IInv'
  OBVIOUS
<1>1. TypeOK'
  BY TypeNext DEF IInv
<1>2. CASE UNCHANGED vars
  BY <1>2 DEF vars, clientVars, serverVars, historyVars, IInv, TypeOK, Stages,
     Positions, Grown, NothingAway, NothingOpen, OneConnect, RequestsChained,
     RepliesChained, InStepUnlessMerged, MergedShutsOut, OneByteAheadPerReply,
     Settled, NextRequestAt, NextReplyAt
<1>3. CASE Next
  <2>1. (Stages /\ Positions)'
    BY <1>3, SocketSteps, SendConnectStep, SendRequestStep, ReadConnectedStep,
       ReadReplyStep, ReceiveConnectStep, ReceiveRequestStep, ReceiveNoiseStep,
       AnswerConnectStep, ConnectFailsStep DEF Next
  <2> QED
    BY <2>1, <1>1 DEF IInv
<1> QED
  BY <1>2, <1>3

\* So does the start.
LEMMA InvInit ==
  Init => IInv
<1> SUFFICES ASSUME Init PROVE IInv
  OBVIOUS
<1>1. TypeOK
  <2>1. <<>> \in Seq(Chunks) /\ <<>> \in Seq(Replies)
    OBVIOUS
  <2>2. 0 \in 0 .. MaxPackets
    BY WireAssumption
  <2>3. toServer \in Seq(Chunks) /\ toClient \in Seq(Replies)
    BY <2>1 DEF Init
  <2>4. sent \in 0 .. MaxPackets
    BY <2>2 DEF Init
  <2> QED
    BY <2>3, <2>4 DEF Init, TypeOK
<1>2. Len(toServer) = 0
  BY DEF Init
<1>3. Stages /\ Positions
  BY <1>2 DEF Init, Stages, Positions, Grown, NothingAway, NothingOpen,
     OneConnect, RequestsChained, RepliesChained, InStepUnlessMerged,
     MergedShutsOut, OneByteAheadPerReply, Settled
<1> QED
  BY <1>1, <1>3 DEF IInv

\* The invariant of the wire holds in every reachable state.
THEOREM Safety == Spec => []IInv
  BY InvInit, InvNext, PTL DEF Spec

\* Every variable keeps its type, for any requests and lengths.
THEOREM TypeCorrect == Spec => []TypeOK
<1>1. IInv => TypeOK
  BY DEF IInv
<1> QED
  BY <1>1, Safety, PTL

\* However long the session and the bodies, client and server are in step
\* unless two packets came in one event (tcp-manager.ts:433).
THEOREM InStep == Spec => []InStepUnlessMerged
<1>1. IInv => InStepUnlessMerged
  BY DEF IInv, Positions
<1> QED
  BY <1>1, Safety, PTL

\* And if they did, nothing brings them together again but new keys, whatever
\* the client sends and however it is cut (message-node.ts:74).
THEOREM ShutOut == Spec => []MergedShutsOut
<1>1. IInv => MergedShutsOut
  BY DEF IInv, Positions
<1> QED
  BY <1>1, Safety, PTL

\* The client is ahead of the server's replies by their number
\* (message-node.ts:155).
THEOREM RepliesDrift == Spec => []OneByteAheadPerReply
<1>1. IInv => OneByteAheadPerReply
  BY DEF IInv, Positions
<1> QED
  BY <1>1, Safety, PTL
=============================================================================
