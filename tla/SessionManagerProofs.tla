------------------------ MODULE SessionManagerProofs ------------------------
(***************************************************************************)
(* Proofs about SessionManager, for any number of sockets, addresses and   *)
(* ports and for both values of LookupThrows and CrashOnRejection.         *)
(***************************************************************************)
EXTENDS SessionManager, SequenceTheorems, FiniteSetTheorems, TLAPS

\* RemoveAt closes the gap it leaves.
LEMMA RemoveAtProperties ==
  ASSUME NEW S, NEW seq \in Seq(S), NEW i \in 1 .. Len(seq)
  PROVE  /\ RemoveAt(seq, i) \in Seq(S)
         /\ Len(RemoveAt(seq, i)) = Len(seq) - 1
         /\ \A j \in 1 .. Len(seq) - 1 :
              RemoveAt(seq, i)[j] = IF j < i THEN seq[j] ELSE seq[j + 1]
<1> DEFINE before == SubSeq(seq, 1, i - 1)
           after  == SubSeq(seq, i + 1, Len(seq))
<1>1. /\ before \in Seq(S)
      /\ Len(before) = i - 1
      /\ \A j \in 1 .. i - 1 : before[j] = seq[j]
  BY SubSeqProperties, SMT
<1>2. /\ after \in Seq(S)
      /\ Len(after) = Len(seq) - i
      /\ \A j \in 1 .. Len(seq) - i : after[j] = seq[i + j]
  BY SubSeqProperties, SMT
<1>3. RemoveAt(seq, i) = before \o after
  BY DEF RemoveAt
<1> HIDE DEF before, after
<1>4. /\ before \o after \in Seq(S)
      /\ Len(before \o after) = Len(seq) - 1
  <2>1. /\ before \o after \in Seq(S)
        /\ Len(before \o after) = Len(before) + Len(after)
    BY <1>1, <1>2, ConcatProperties
  <2>2. (i - 1) + (Len(seq) - i) = Len(seq) - 1
    BY SMT
  <2>3. QED
    BY <2>1, <2>2, <1>1, <1>2
<1>5. ASSUME NEW j \in 1 .. Len(seq) - 1
      PROVE  (before \o after)[j] = IF j < i THEN seq[j] ELSE seq[j + 1]
  <2>1. CASE j < i
    BY <2>1, <1>1, <1>2, SMT
  <2>2. CASE ~(j < i)
    <3>1. (before \o after)[j] = after[j - (i - 1)]
      BY <2>2, <1>1, <1>2, SMT
    <3>2. after[j - (i - 1)] = seq[i + (j - (i - 1))]
      BY <2>2, <1>2, SMT
    <3>3. i + (j - (i - 1)) = j + 1
      BY SMT
    <3>4. QED
      BY <2>2, <3>1, <3>2, <3>3, SMT
  <2>3. QED
    BY <2>1, <2>2
<1>6. QED
  BY <1>3, <1>4, <1>5

-----------------------------------------------------------------------------
\* The inductive invariant.
Inv ==
  /\ TypeOK
  /\ EndpointsUnique
  /\ CapturedRegistered
  /\ SocketsMatchObjects

LEMMA RegisteredAreSockets == TypeOK => Registered \subseteq Sockets
  BY ElementOfSeq DEF TypeOK, Registered, ToSet

\* findIndex on a registry with one entry per address and port.
LEMMA IndexOfProperties ==
  ASSUME TypeOK, EndpointsUnique, NEW key \in Endpoints
  PROVE  \/ /\ IndexOf(key) \in DOMAIN connections
            /\ endpoint[connections[IndexOf(key)]] = key
         \/ /\ IndexOf(key) = 0
            /\ \A i \in DOMAIN connections : endpoint[connections[i]] # key
<1>1. CASE \E i \in DOMAIN connections : endpoint[connections[i]] = key
  <2>1. PICK i \in DOMAIN connections : endpoint[connections[i]] = key
    BY <1>1
  <2>2. /\ Len(connections) \in Nat
        /\ DOMAIN connections = 1 .. Len(connections)
    BY DEF TypeOK
  <2>3. ASSUME NEW j \in 1 .. i - 1
        PROVE  endpoint[connections[j]] # key
    <3>1. j \in DOMAIN connections /\ j # i
      BY <2>2, SMT
    <3>2. QED
      BY <2>1, <3>1 DEF EndpointsUnique
  <2>4. \E k \in DOMAIN connections :
          /\ Matches(connections[k], key)
          /\ \A j \in 1 .. k - 1 : ~Matches(connections[j], key)
    BY <2>1, <2>3 DEF Matches
  <2>5. /\ IndexOf(key) \in DOMAIN connections
        /\ Matches(connections[IndexOf(key)], key)
    BY <2>1, <2>4 DEF IndexOf, Matches
  <2>6. QED
    BY <2>5 DEF Matches
<1>2. CASE ~ \E i \in DOMAIN connections : endpoint[connections[i]] = key
  BY <1>2 DEF IndexOf, Matches
<1>3. QED
  BY <1>1, <1>2

\* _updateConnectionByAddressAndPort with a registered object moves it to the
\* end: the splice takes out the object itself and nothing is lost.
LEMMA UpdateProperties ==
  ASSUME TypeOK, EndpointsUnique, NEW o \in Registered,
         endpoint[o] \in Endpoints, UpdateConnection(o)
  PROVE  /\ connections' \in Seq(Sockets)
         /\ ToSet(connections') = Registered
         /\ \A i, j \in DOMAIN connections' :
              endpoint[connections'[i]] = endpoint[connections'[j]] => i = j
<1> DEFINE at == IndexOf(endpoint[o])
           n == Len(connections)
           rest == RemoveAt(connections, at)
<1>1. /\ connections \in Seq(Sockets) /\ n \in Nat
      /\ DOMAIN connections = 1 .. n
  BY DEF TypeOK
<1>2. PICK k \in DOMAIN connections : connections[k] = o
  BY DEF Registered, ToSet
<1>3. at \in 1 .. n /\ connections[at] = o
  <2>1. at \in DOMAIN connections /\ endpoint[connections[at]] = endpoint[o]
    BY <1>2, IndexOfProperties
  <2>2. at = k
    BY <2>1, <1>2 DEF EndpointsUnique
  <2>3. QED
    BY <2>1, <2>2, <1>1, <1>2
<1>4. Spliced(at) = rest
  BY <1>1, <1>3, SMT DEF Spliced
<1>5. /\ rest \in Seq(Sockets) /\ Len(rest) = n - 1
      /\ \A j \in 1 .. n - 1 :
           rest[j] = IF j < at THEN connections[j] ELSE connections[j + 1]
  BY <1>1, <1>3, RemoveAtProperties
<1>6. connections' = Append(rest, o) /\ o \in Sockets
  BY <1>1, <1>2, <1>4, ElementOfSeq DEF UpdateConnection
<1> HIDE DEF at, n, rest
<1>7. /\ connections' \in Seq(Sockets)
      /\ DOMAIN connections' = 1 .. n
      /\ \A j \in 1 .. n : connections'[j] =
           IF j = n THEN o
           ELSE IF j < at THEN connections[j] ELSE connections[j + 1]
  <2>1. /\ connections' \in Seq(Sockets)
        /\ Len(connections') = Len(rest) + 1
        /\ \A j \in 1 .. Len(rest) : connections'[j] = rest[j]
        /\ connections'[Len(rest) + 1] = o
    BY <1>5, <1>6, AppendProperties
  <2>2. Len(connections') = n /\ connections'[n] = o
    BY <2>1, <1>1, <1>5, SMT
  <2>3. DOMAIN connections' = 1 .. n
    BY <2>1, <2>2, LenProperties
  <2>4. ASSUME NEW j \in 1 .. n, j # n
        PROVE  connections'[j] =
                 IF j < at THEN connections[j] ELSE connections[j + 1]
    <3>1. j \in 1 .. n - 1
      BY <2>4, <1>1, SMT
    <3>2. QED
      BY <3>1, <2>1, <1>5
  <2>5. QED
    BY <2>1, <2>2, <2>3, <2>4
<1>8. ToSet(connections') = Registered
  <2>1. ASSUME NEW j \in 1 .. n PROVE connections'[j] \in Registered
    BY <1>1, <1>3, <1>7, SMT DEF Registered, ToSet
  <2>2. ASSUME NEW j \in 1 .. n
        PROVE  \E i \in 1 .. n : connections'[i] = connections[j]
    <3>1. CASE j < at
      BY <3>1, <1>1, <1>3, <1>7, SMT
    <3>2. CASE j = at
      BY <3>2, <1>1, <1>3, <1>7, SMT
    <3>3. CASE j > at
      <4>1. connections'[j - 1] = connections[j]
        BY <3>3, <1>1, <1>3, <1>7, SMT
      <4>2. QED
        BY <4>1, <3>3, <1>1, <1>3, SMT
    <3>4. QED
      BY <3>1, <3>2, <3>3, <1>1, <1>3, SMT
  <2>3. QED
    BY <2>1, <2>2, <1>1, <1>7 DEF Registered, ToSet
<1>9. ASSUME NEW i \in 1 .. n, NEW j \in 1 .. n,
             endpoint[connections'[i]] = endpoint[connections'[j]]
      PROVE  i = j
  <2> DEFINE old(x) == IF x = n THEN at ELSE IF x < at THEN x ELSE x + 1
  <2>1. /\ old(i) \in 1 .. n /\ connections'[i] = connections[old(i)]
        /\ old(j) \in 1 .. n /\ connections'[j] = connections[old(j)]
    BY <1>1, <1>3, <1>7, SMT
  <2>2. old(i) = old(j)
    BY <2>1, <1>9, <1>1 DEF EndpointsUnique
  <2>3. QED
    BY <2>2, <1>1, <1>3, SMT
<1>10. QED
  BY <1>7, <1>8, <1>9

-----------------------------------------------------------------------------
LEMMA InitInv == Init => Inv
<1> SUFFICES ASSUME Init PROVE Inv
  OBVIOUS
<1>1. connections = <<>> /\ connections \in Seq(Sockets) /\ Registered = {}
  BY DEF Init, Registered, ToSet
<1>2. TypeOK
  BY <1>1 DEF Init, TypeOK
<1>3. EndpointsUnique
  BY <1>1 DEF EndpointsUnique
<1>4. CapturedRegistered /\ SocketsMatchObjects
  BY <1>1, NoneAssumption DEF Init, CapturedRegistered, SocketsMatchObjects
<1>5. QED
  BY <1>2, <1>3, <1>4 DEF Inv

\* The end of the process leaves nothing that could disagree.
LEMMA CrashInv ==
  ASSUME Inv, NEW error \in UncaughtErrors, NEW accepting,
         Crash(error, accepting)
  PROVE  Inv'
<1>1. connections' = <<>> /\ connections' \in Seq(Sockets) /\ Registered' = {}
  BY DEF Crash, Registered, ToSet
<1>2. TypeOK'
  BY <1>1 DEF Crash, Inv, TypeOK
<1>3. EndpointsUnique'
  BY <1>1 DEF EndpointsUnique
<1>4. CapturedRegistered' /\ SocketsMatchObjects'
  BY <1>1, NoneAssumption DEF Crash, CapturedRegistered, SocketsMatchObjects
<1>5. QED
  BY <1>2, <1>3, <1>4 DEF Inv

\* The registry part of a step that ends with the object of socket s put back.
LEMMA HandledInv ==
  ASSUME Inv, NEW s \in Sockets, captured[s] # None,
         UpdateConnection(captured[s]),
         UNCHANGED <<fault, socket, endpoint, captured, sock, inQueue>>,
         sent' \in [Sockets -> Nat], awaiting' \subseteq awaiting
  PROVE  Inv'
<1> DEFINE o == captured[s]
<1>1. o \in Registered /\ endpoint[o] \in Endpoints
  BY DEF Inv, CapturedRegistered, SocketsMatchObjects
<1>2. /\ connections' \in Seq(Sockets)
      /\ ToSet(connections') = Registered
      /\ \A i, j \in DOMAIN connections' :
           endpoint[connections'[i]] = endpoint[connections'[j]] => i = j
  BY <1>1, UpdateProperties DEF Inv
<1>3. TypeOK'
  BY <1>2 DEF Inv, TypeOK
<1>4. EndpointsUnique'
  BY <1>2 DEF EndpointsUnique
<1>5. Registered' = Registered
  BY <1>2 DEF Registered
<1>6. CapturedRegistered' /\ SocketsMatchObjects'
  BY <1>5 DEF Inv, CapturedRegistered, SocketsMatchObjects
<1>7. QED
  BY <1>3, <1>4, <1>6 DEF Inv

\* A rejected request leaves the registry alone, or ends the process.
LEMMA RejectInv ==
  ASSUME Inv, NEW ACTION rest,
         Reject(rest),
         rest => sent' \in [Sockets -> Nat] /\ awaiting' \subseteq awaiting
  PROVE  Inv'
<1>1. CASE CrashOnRejection
  BY <1>1, CrashInv DEF Reject, UncaughtErrors
<1>2. CASE ~CrashOnRejection
  <2>1. /\ UNCHANGED <<fault, socket, endpoint, captured, connections, sock,
                       inQueue>>
        /\ sent' \in [Sockets -> Nat] /\ awaiting' \subseteq awaiting
    BY <1>2 DEF Reject
  <2>2. QED
    BY <2>1 DEF Inv, TypeOK, EndpointsUnique, CapturedRegistered,
                SocketsMatchObjects, Registered
<1>3. QED
  BY <1>1, <1>2

\* A client whose address and port are registered takes the object over.
LEMMA AcceptKnownInv ==
  ASSUME Inv, NEW s \in Sockets, NEW key \in Endpoints, AcceptKnown(s, key)
  PROVE  Inv'
<1> DEFINE o == connections[IndexOf(key)]
<1>1. o \in Registered /\ o \in Sockets /\ endpoint[o] = key
  <2>1. IndexOf(key) \in DOMAIN connections /\ endpoint[o] = key
    BY IndexOfProperties DEF Inv, AcceptKnown
  <2>2. QED
    BY <2>1, ElementOfSeq DEF Inv, TypeOK, Registered, ToSet
<1>2. /\ socket[s] = "fresh" /\ Attach(s, key, o)
      /\ connections' = connections /\ Registered' = Registered
  BY DEF AcceptKnown, Registered
<1> HIDE DEF o
<1>3. o # s /\ captured[s] = None /\ s \notin Registered
  BY <1>1, <1>2, NoneAssumption DEF Inv, SocketsMatchObjects
<1>4. TypeOK'
  BY <1>1, <1>2 DEF Inv, TypeOK, Attach
<1>5. EndpointsUnique'
  <2>1. \A i \in DOMAIN connections :
          endpoint'[connections[i]] = endpoint[connections[i]]
    BY <1>2, <1>3 DEF Inv, TypeOK, Attach, Registered, ToSet
  <2>2. QED
    BY <1>2, <2>1 DEF Inv, EndpointsUnique
<1>6. CapturedRegistered'
  BY <1>1, <1>2 DEF Inv, TypeOK, CapturedRegistered, Attach
<1>7. SocketsMatchObjects'
  <2>1. ASSUME NEW t \in Sockets
        PROVE  /\ captured'[t] # None =>
                    /\ endpoint'[t] \in Endpoints
                    /\ endpoint'[captured'[t]] = endpoint'[t]
               /\ endpoint'[t] # None \/ socket'[t] = "open" => captured'[t] # None
               /\ socket'[t] = "fresh" =>
                    captured'[t] = None /\ endpoint'[t] = None
    BY <1>1, <1>2, <1>3, NoneAssumption
    DEF Inv, TypeOK, Attach, SocketsMatchObjects, CapturedRegistered
  <2>2. ASSUME NEW r \in awaiting' PROVE captured'[r[1]] # None
    BY <1>1, <1>2, NoneAssumption
    DEF Inv, TypeOK, Requests, Attach, SocketsMatchObjects
  <2>3. ASSUME NEW p \in Registered'
        PROVE  /\ captured'[p] = p
               /\ sock'[p] # None /\ captured'[sock'[p]] = p
    <3>1. p \in Registered /\ p \in Sockets /\ p # s /\ sock[p] # s
      BY <1>2, <1>3, <2>3, NoneAssumption
      DEF Inv, TypeOK, SocketsMatchObjects, Registered, ToSet
    <3>2. QED
      BY <1>1, <1>2, <1>3, <3>1, NoneAssumption
      DEF Inv, TypeOK, Attach, SocketsMatchObjects
  <2>4. QED
    BY <2>1, <2>2, <2>3 DEF SocketsMatchObjects
<1>8. QED
  BY <1>4, <1>5, <1>6, <1>7 DEF Inv

\* A new entry is for an address and port that had none.
LEMMA NewIsUnknown ==
  ASSUME Inv, NEW s \in Sockets, NEW key \in Endpoints, AcceptNew(s, key)
  PROVE  \A i \in DOMAIN connections : endpoint[connections[i]] # key
<1>1. 0 \notin DOMAIN connections /\ IndexOf(key) = 0
  BY DEF Inv, TypeOK, AcceptNew
<1>2. QED
  BY <1>1, IndexOfProperties DEF Inv

\* It is pushed behind the others.
LEMMA NewRegistered ==
  ASSUME Inv, NEW s \in Sockets, NEW key \in Endpoints, AcceptNew(s, key)
  PROVE  /\ connections' \in Seq(Sockets)
         /\ DOMAIN connections' = DOMAIN connections \cup {Len(connections) + 1}
         /\ \A i \in DOMAIN connections : connections'[i] = connections[i]
         /\ connections'[Len(connections) + 1] = s
         /\ Registered' = Registered \cup {s}
<1>1. /\ connections' \in Seq(Sockets)
      /\ Len(connections) \in Nat
      /\ DOMAIN connections = 1 .. Len(connections)
      /\ DOMAIN connections' = 1 .. Len(connections) + 1
      /\ \A i \in DOMAIN connections : connections'[i] = connections[i]
      /\ connections'[Len(connections) + 1] = s
  BY AppendProperties, LenProperties DEF Inv, TypeOK, AcceptNew
<1>2. DOMAIN connections' = DOMAIN connections \cup {Len(connections) + 1}
  BY <1>1, SMT
<1>3. Registered' = Registered \cup {s}
  BY <1>1, <1>2 DEF Registered, ToSet
<1>4. QED
  BY <1>1, <1>2, <1>3

\* A client whose address and port are not registered gets an object.
LEMMA AcceptNewInv ==
  ASSUME Inv, NEW s \in Sockets, NEW key \in Endpoints, AcceptNew(s, key)
  PROVE  Inv'
<1>1. /\ socket[s] = "fresh" /\ Attach(s, key, s)
      /\ connections' = Append(connections, s)
  BY DEF AcceptNew
<1>2. \A i \in DOMAIN connections : endpoint[connections[i]] # key
  BY NewIsUnknown
<1>3. captured[s] = None /\ s \notin Registered
  BY <1>1, NoneAssumption DEF Inv, SocketsMatchObjects
<1>4. /\ connections' \in Seq(Sockets)
      /\ \A i \in DOMAIN connections : connections'[i] = connections[i]
      /\ connections'[Len(connections) + 1] = s
  BY NewRegistered
<1>5. \A i \in DOMAIN connections' :
        i \in DOMAIN connections \/ i = Len(connections) + 1
  BY NewRegistered
<1>6. Registered' = Registered \cup {s}
  BY NewRegistered
<1>7. TypeOK'
  BY <1>1, <1>4 DEF Inv, TypeOK, Attach
<1>8. EndpointsUnique'
  <2>1. \A i \in DOMAIN connections :
          endpoint'[connections'[i]] = endpoint[connections[i]]
    BY <1>1, <1>3, <1>4 DEF Inv, TypeOK, Attach, Registered, ToSet
  <2>2. endpoint'[connections'[Len(connections) + 1]] = key
    BY <1>1, <1>4 DEF Inv, TypeOK, Attach
  <2>3. ASSUME NEW i \in DOMAIN connections', NEW j \in DOMAIN connections',
               endpoint'[connections'[i]] = endpoint'[connections'[j]]
        PROVE  i = j
    BY <1>2, <1>5, <2>1, <2>2, <2>3 DEF Inv, EndpointsUnique
  <2>4. QED
    BY <2>3 DEF EndpointsUnique
<1>9. CapturedRegistered'
  BY <1>1, <1>6 DEF Inv, TypeOK, CapturedRegistered, Attach
<1>10. SocketsMatchObjects'
  <2>1. ASSUME NEW t \in Sockets
        PROVE  /\ captured'[t] # None =>
                    /\ endpoint'[t] \in Endpoints
                    /\ endpoint'[captured'[t]] = endpoint'[t]
               /\ endpoint'[t] # None \/ socket'[t] = "open" => captured'[t] # None
               /\ socket'[t] = "fresh" =>
                    captured'[t] = None /\ endpoint'[t] = None
    BY <1>1, <1>3, NoneAssumption
    DEF Inv, TypeOK, Attach, SocketsMatchObjects, CapturedRegistered
  <2>2. ASSUME NEW r \in awaiting' PROVE captured'[r[1]] # None
    BY <1>1, NoneAssumption
    DEF Inv, TypeOK, Requests, Attach, SocketsMatchObjects
  <2>3. ASSUME NEW p \in Registered'
        PROVE  /\ captured'[p] = p
               /\ sock'[p] # None /\ captured'[sock'[p]] = p
    <3>1. CASE p = s
      BY <3>1, <1>1, NoneAssumption DEF Inv, TypeOK, Attach
    <3>2. CASE p # s
      <4>1. p \in Registered /\ p \in Sockets
        BY <1>6, <2>3, <3>2, RegisteredAreSockets DEF Inv
      <4>2. /\ sock[p] \in Sockets \cup {None} /\ captured[p] = p
            /\ sock[p] # None /\ captured[sock[p]] = p
        BY <4>1 DEF Inv, TypeOK, SocketsMatchObjects
      <4>3. sock[p] # s
        BY <1>3, <4>1, <4>2, NoneAssumption
      <4>4. QED
        BY <1>1, <3>2, <4>1, <4>2, <4>3 DEF Inv, TypeOK, Attach
    <3>3. QED
      BY <3>1, <3>2
  <2>4. QED
    BY <2>1, <2>2, <2>3 DEF SocketsMatchObjects
<1>11. QED
  BY <1>7, <1>8, <1>9, <1>10 DEF Inv

\* Steps that leave the registry, the objects and the sockets' endpoints.
LEMMA FrameInv ==
  ASSUME Inv,
         fault' \in UncaughtErrors \cup {"none"},
         socket' \in [Sockets -> {"fresh", "open", "closed"}],
         \A s \in Sockets : socket'[s] # "closed" => socket'[s] = socket[s],
         sent' \in [Sockets -> Nat],
         inQueue' \in [Sockets -> BOOLEAN],
         awaiting' \subseteq Requests,
         \A r \in awaiting' : captured[r[1]] # None,
         UNCHANGED <<endpoint, captured, connections, sock>>
  PROVE  Inv'
<1>1. Registered' = Registered
  BY DEF Registered
<1>2. TypeOK' /\ EndpointsUnique'
  BY DEF Inv, TypeOK, EndpointsUnique
<1>3. CapturedRegistered' /\ SocketsMatchObjects'
  BY <1>1 DEF Inv, CapturedRegistered, SocketsMatchObjects
<1>4. QED
  BY <1>2, <1>3 DEF Inv

\* A data event, in each of its outcomes.
LEMMA DataInv ==
  ASSUME Inv, NEW s \in Sockets,
         DataHandled(s) \/ DataAwaits(s) \/ DataRejected(s)
  PROVE  Inv'
<1>1. captured[s] # None /\ sent[s] \in Nat /\ sent[s] < MaxData
  BY DEF Inv, TypeOK, SocketsMatchObjects, Deliver, DataHandled, DataAwaits,
         DataRejected
<1>2. [sent EXCEPT ![s] = @ + 1] \in [Sockets -> Nat]
  BY <1>1 DEF Inv, TypeOK
<1>3. CASE DataHandled(s)
  BY <1>1, <1>2, <1>3, HandledInv DEF DataHandled
<1>4. CASE DataAwaits(s)
  <2>1. <<s, sent[s] + 1>> \in Requests
    BY <1>1, BoundAssumption, SMT DEF Requests
  <2>2. awaiting' = awaiting \cup {<<s, sent[s] + 1>>}
    BY <1>4 DEF DataAwaits
  <2>3. /\ awaiting' \subseteq Requests
        /\ \A r \in awaiting : captured[r[1]] # None
    BY <2>1, <2>2 DEF Inv, TypeOK, SocketsMatchObjects
  <2>4. ASSUME NEW r \in awaiting' PROVE captured[r[1]] # None
    <3>1. CASE r = <<s, sent[s] + 1>>
      BY <1>1, <3>1
    <3>2. QED
      BY <2>2, <2>3, <2>4, <3>1
  <2>5. QED
    BY <1>2, <1>4, <2>3, <2>4, FrameInv DEF Inv, TypeOK, DataAwaits
<1>5. CASE DataRejected(s)
  <2>1. Reject(sent' = [sent EXCEPT ![s] = @ + 1] /\ awaiting' = awaiting)
    BY <1>5 DEF DataRejected
  <2>2. QED
    BY <1>2, <2>1, RejectInv
<1>6. QED
  BY <1>3, <1>4, <1>5

LEMMA ResumeInv ==
  ASSUME Inv, NEW r \in Requests, Resume(r)
  PROVE  Inv'
<1>1. r[1] \in Sockets /\ captured[r[1]] # None
  BY DEF Requests, Resume, Inv, SocketsMatchObjects
<1>2. awaiting \ {r} \subseteq awaiting /\ sent \in [Sockets -> Nat]
  BY DEF Inv, TypeOK
<1>3. CASE /\ UpdateConnection(captured[r[1]])
           /\ awaiting' = awaiting \ {r}
           /\ UNCHANGED <<fault, socket, endpoint, captured, sent, sock,
                          inQueue>>
  BY <1>1, <1>2, <1>3, HandledInv
<1>4. CASE Reject(awaiting' = awaiting \ {r} /\ sent' = sent)
  BY <1>2, <1>4, RejectInv
<1>5. QED
  BY <1>3, <1>4 DEF Resume

LEMMA NextInv == Inv /\ [Next]_vars => Inv'
<1> SUFFICES ASSUME Inv, [Next]_vars PROVE Inv'
  OBVIOUS
<1>1. ASSUME NEW s \in Sockets, NEW key \in Endpoints,
             AcceptKnown(s, key) \/ AcceptNew(s, key) \/ AcceptUnknown(s, key)
      PROVE  Inv'
  BY <1>1, AcceptKnownInv, AcceptNewInv, CrashInv
  DEF AcceptUnknown, UncaughtErrors
<1>2. ASSUME NEW s \in Sockets, AcceptGone(s) \/ SocketError(s)
      PROVE  Inv'
  BY <1>2, CrashInv DEF AcceptGone, SocketError, UncaughtErrors
<1>3. ASSUME NEW s \in Sockets,
             DataHandled(s) \/ DataAwaits(s) \/ DataRejected(s)
      PROVE  Inv'
  BY <1>3, DataInv
<1>4. ASSUME NEW s \in Sockets, Close(s)
      PROVE  Inv'
  BY <1>4, FrameInv DEF Inv, TypeOK, SocketsMatchObjects, Close
<1>5. ASSUME NEW r \in Requests, Resume(r)
      PROVE  Inv'
  BY <1>5, ResumeInv
<1>6. CASE ResetAllQueueState
  BY <1>6, FrameInv DEF Inv, TypeOK, SocketsMatchObjects, ResetAllQueueState
<1>7. CASE Restart
  BY <1>7, FrameInv DEF Inv, TypeOK, SocketsMatchObjects, Restart
<1>8. CASE UNCHANGED vars
  BY <1>8, FrameInv DEF Inv, TypeOK, SocketsMatchObjects, vars
<1>9. QED
  BY <1>1, <1>2, <1>3, <1>4, <1>5, <1>6, <1>7, <1>8 DEF Next

-----------------------------------------------------------------------------
\* Every state of the server has the inductive invariant: the array has one
\* entry for an address and port, every open socket and waiting request finds
\* its object in it, and objects and sockets agree about their endpoints.
THEOREM Safety == Spec => []Inv
<1>1. Init => Inv
  BY InitInv
<1>2. Inv /\ [Next]_vars => Inv'
  BY NextInv
<1>3. QED
  BY <1>1, <1>2, PTL DEF Spec

\* The variables keep their types, in every process and after every crash.
THEOREM TypeCorrect == Spec => []TypeOK
<1>1. Inv => TypeOK
  BY DEF Inv
<1>2. QED
  BY <1>1, Safety, PTL

\* One entry for an address and port, in whatever order overlapping handlers
\* take out and push back their entries.
THEOREM EndpointsStayUnique == Spec => []EndpointsUnique
<1>1. Inv => EndpointsUnique
  BY DEF Inv
<1>2. QED
  BY <1>1, Safety, PTL

\* One entry for each address and port, and none without a client of this
\* process: counting the entries counts those.
LEMMA SizeCounts == Inv => RegistrySize
<1> DEFINE n == Len(connections)
           E == {endpoint[s] : s \in Sockets} \ {None}
           f == [i \in 1 .. n |-> endpoint[connections[i]]]
<1> SUFFICES ASSUME Inv PROVE n = Cardinality(E)
  BY DEF RegistrySize
<1>1. /\ n \in Nat /\ DOMAIN connections = 1 .. n
      /\ \A i \in 1 .. n : connections[i] \in Sockets /\ connections[i] \in Registered
  BY DEF Inv, TypeOK, Registered, ToSet
<1>2. \A i \in 1 .. n : endpoint[connections[i]] \in E
  BY <1>1, NoneAssumption DEF Inv, TypeOK, SocketsMatchObjects, Endpoints
<1>3. f \in [1 .. n -> E]
  BY <1>2
<1>4. \A i, j \in 1 .. n : f[i] = f[j] => i = j
  BY <1>1 DEF Inv, EndpointsUnique
<1>5. ASSUME NEW e \in E PROVE \E i \in 1 .. n : f[i] = e
  <2>1. PICK s \in Sockets : endpoint[s] = e /\ endpoint[s] # None
    BY <1>5
  <2>2. captured[s] # None
    BY <2>1 DEF Inv, SocketsMatchObjects, TypeOK
  <2>3. captured[s] \in Registered /\ endpoint[captured[s]] = e
    BY <2>1, <2>2 DEF Inv, CapturedRegistered, SocketsMatchObjects
  <2>4. QED
    BY <1>1, <2>3 DEF Registered, ToSet
<1>6. f \in Bijection(1 .. n, E)
  BY <1>3, <1>4, <1>5 DEF Bijection, Injection, Surjection, IsInjective
<1>7. QED
  BY <1>1, <1>6, FS_CountingElements DEF ExistsBijection

\* The array is exactly as long as there are addresses and ports in use.
THEOREM SizeIsUse == Spec => []RegistrySize
BY SizeCounts, Safety, PTL

\* splice is never called with the index -1 of a failed search.
THEOREM CapturedStayRegistered == Spec => []CapturedRegistered
<1>1. Inv => CapturedRegistered
  BY DEF Inv
<1>2. QED
  BY <1>1, Safety, PTL

\* Sockets, the objects they closed over and the objects' own sockets agree.
THEOREM SocketsMatch == Spec => []SocketsMatchObjects
<1>1. Inv => SocketsMatchObjects
  BY DEF Inv
<1>2. QED
  BY <1>1, Safety, PTL

\* A reply goes to the address and port its request came from.
THEOREM RepliesStay == Spec => []RepliesStayAtAddress
<1>1. Inv => RepliesStayAtAddress
  <2> SUFFICES ASSUME Inv, NEW s \in Sockets, captured[s] # None
               PROVE  endpoint[sock[captured[s]]] = endpoint[s]
    BY DEF RepliesStayAtAddress
  <2> DEFINE o == captured[s]
  <2>1. o \in Registered /\ endpoint[o] = endpoint[s]
    BY DEF Inv, CapturedRegistered, SocketsMatchObjects
  <2>2. sock[o] \in Sockets /\ captured[sock[o]] = o /\ o \in Sockets
    BY <2>1, RegisteredAreSockets DEF Inv, TypeOK, SocketsMatchObjects
  <2>3. endpoint[sock[o]] = endpoint[o]
    BY <2>2, NoneAssumption DEF Inv, SocketsMatchObjects
  <2>4. QED
    BY <2>1, <2>3
<1>2. QED
  BY <1>1, Safety, PTL

-----------------------------------------------------------------------------
\* The table the array stands for.
TableOf == {<<endpoint[o], o>> : o \in Registered}

\* A step that keeps the registered objects and their endpoints.
LEMMA TableKept ==
  ASSUME Registered' = Registered,
         \A o \in Registered : endpoint'[o] = endpoint[o]
  PROVE  TableOf' = TableOf
BY DEF TableOf

\* The array implements the table: a request, a reconnect, a reset and a
\* closed socket leave it alone, a new client adds an entry for a key that
\* had none, and only the end of the process empties it.
THEOREM Refinement == Spec => ImplementsTable
<1>1. Init => Table!TableInit
  BY DEF Init, Table!TableInit, Registered, ToSet
<1>2. ASSUME Inv, [Next]_vars
      PROVE  [Table!TableNext]_TableOf
  <2>1. ASSUME NEW error, NEW accepting, Crash(error, accepting)
        PROVE  Table!TableNext
    <3>1. TableOf' = {}
      BY <2>1 DEF Crash, TableOf, Registered, ToSet
    <3>2. QED
      BY <3>1 DEF Table!TableNext, Table!Clear, TableOf
  <2>2. ASSUME NEW s \in Sockets, captured[s] # None,
               UpdateConnection(captured[s]), endpoint' = endpoint
        PROVE  TableOf' = TableOf
    <3>1. captured[s] \in Registered /\ endpoint[captured[s]] \in Endpoints
      BY <1>2, <2>2 DEF Inv, CapturedRegistered, SocketsMatchObjects
    <3>2. Registered' = Registered
      BY <1>2, <2>2, <3>1, UpdateProperties DEF Inv, Registered
    <3>3. QED
      BY <2>2, <3>2, TableKept
  <2>3. ASSUME connections' = connections, endpoint' = endpoint
        PROVE  TableOf' = TableOf
    BY <2>3 DEF TableOf, Registered
  <2>4. ASSUME NEW ACTION rest, Reject(rest)
        PROVE  [Table!TableNext]_TableOf
    BY <2>1, <2>3, <2>4 DEF Reject
  <2>5. ASSUME NEW s \in Sockets, NEW key \in Endpoints, AcceptKnown(s, key)
        PROVE  TableOf' = TableOf
    <3>1. Registered' = Registered /\ socket[s] = "fresh"
      BY <2>5 DEF AcceptKnown, Registered
    <3>2. s \notin Registered
      BY <1>2, <3>1, NoneAssumption DEF Inv, SocketsMatchObjects
    <3>3. \A o \in Registered : endpoint'[o] = endpoint[o]
      BY <1>2, <2>5, <3>2, RegisteredAreSockets
      DEF Inv, TypeOK, AcceptKnown, Attach
    <3>4. QED
      BY <3>1, <3>3, TableKept
  <2>6. ASSUME NEW s \in Sockets, NEW key \in Endpoints, AcceptNew(s, key)
        PROVE  Table!TableNext
    <3>1. s \notin Registered /\ socket[s] = "fresh"
      BY <1>2, <2>6, NoneAssumption DEF Inv, SocketsMatchObjects, AcceptNew
    <3>2. \A o \in Registered : endpoint'[o] = endpoint[o]
      BY <1>2, <2>6, <3>1, RegisteredAreSockets
      DEF Inv, TypeOK, AcceptNew, Attach
    <3>3. Registered' = Registered \cup {s} /\ endpoint'[s] = key
      BY <1>2, <2>6, NewRegistered DEF Inv, TypeOK, AcceptNew, Attach
    <3>4. \A o \in Registered : endpoint[o] # key
      BY <1>2, <2>6, NewIsUnknown DEF Registered, ToSet
    <3>5. TableOf' = TableOf \cup {<<key, s>>}
      BY <3>2, <3>3 DEF TableOf
    <3>6. \A entry \in TableOf : entry[1] # key /\ entry[2] # s
      BY <3>1, <3>4 DEF TableOf
    <3>7. Table!Add(key, s)
      BY <3>5, <3>6 DEF Table!Add, TableOf
    <3>8. QED
      BY <3>7 DEF Table!TableNext
  <2>7. CASE \E s \in Sockets : DataHandled(s) \/ DataAwaits(s) \/ DataRejected(s)
    BY <1>2, <2>2, <2>3, <2>4, <2>7
    DEF Inv, SocketsMatchObjects, DataHandled, DataAwaits, DataRejected, Deliver
  <2>8. CASE \E r \in Requests : Resume(r)
    <3>1. PICK r \in Requests : Resume(r)
      BY <2>8
    <3>2. r[1] \in Sockets /\ captured[r[1]] # None
      BY <1>2, <3>1 DEF Requests, Resume, Inv, SocketsMatchObjects
    <3>3. QED
      BY <3>1, <3>2, <2>2, <2>4 DEF Resume
  <2>9. CASE \E s \in Sockets, key \in Endpoints :
               AcceptKnown(s, key) \/ AcceptNew(s, key) \/ AcceptUnknown(s, key)
    BY <2>1, <2>5, <2>6, <2>9 DEF AcceptUnknown
  <2>10. CASE \E s \in Sockets : AcceptGone(s) \/ SocketError(s) \/ Close(s)
    BY <2>1, <2>3, <2>10 DEF AcceptGone, SocketError, Close
  <2>11. CASE ResetAllQueueState \/ Restart \/ UNCHANGED vars
    BY <2>3, <2>11 DEF ResetAllQueueState, Restart, vars
  <2>12. QED
    BY <1>2, <2>7, <2>8, <2>9, <2>10, <2>11 DEF Next
<1>3. QED
  BY <1>1, <1>2, Safety, PTL
  DEF Spec, ImplementsTable, Table!TableSpec, TableOf

-----------------------------------------------------------------------------
\* What the registry shows the handlers of port p: the address of each socket
\* of the port, its open sockets, and the sock of each address's object.
HomeOf(p) == [s \in Sockets |->
                IF endpoint[s] # None /\ endpoint[s][2] = p
                THEN endpoint[s][1] ELSE None]

OpenOf(p) == {s \in Sockets : socket[s] = "open" /\ endpoint[s][2] = p}

SockOf(p) == [a \in Addresses |->
                IF \E o \in Registered : Matches(o, <<a, p>>)
                THEN sock[CHOOSE o \in Registered : Matches(o, <<a, p>>)]
                ELSE None]

\* With one object for an endpoint, the object chosen for it is that one.
LEMMA ChosenByEndpoint ==
  ASSUME NEW objects, NEW e, \A x, y \in objects : e[x] = e[y] => x = y,
         NEW o \in objects
  PROVE  (CHOOSE x \in objects : e[x] = e[o]) = o
OBVIOUS

\* The array's uniqueness, said of its elements, before and after a step.
LEMMA OneObjectEach ==
  /\ EndpointsUnique =>
       \A x, y \in Registered : endpoint[x] = endpoint[y] => x = y
  /\ EndpointsUnique' =>
       \A x, y \in Registered' : endpoint'[x] = endpoint'[y] => x = y
BY DEF EndpointsUnique, Registered, ToSet

\* A step that keeps the registered objects, their sockets and endpoints.
LEMMA PortKept ==
  ASSUME Registered' = Registered, UNCHANGED <<fault, socket, endpoint, sock>>
  PROVE  \A p \in Ports : UNCHANGED Port(p)!connectionVars
BY DEF Port!connectionVars, Up, Matches

\* The end of the process stops every port.
LEMMA PortStops ==
  ASSUME Up, NEW error \in UncaughtErrors, NEW accepting,
         Crash(error, accepting), NEW p \in Ports
  PROVE  Port(p)!Stop
<1>1. ~Up' /\ Registered' = {}
  <2>1. error # "none"
    BY DEF UncaughtErrors
  <2>2. fault' = error /\ connections' = <<>>
    BY DEF Crash
  <2>3. QED
    BY <2>1, <2>2 DEF Up, Registered, ToSet
<1>2. /\ HomeOf(p)' = [s \in Sockets |-> None]
      /\ OpenOf(p)' = {}
      /\ SockOf(p)' = [a \in Addresses |-> None]
  BY <1>1 DEF Crash, HomeOf, OpenOf, SockOf
<1>3. QED
  BY <1>1, <1>2 DEF Port!Stop, HomeOf, OpenOf, SockOf

\* A client that connects is accepted on its port and not seen on the others,
\* whether its object o is new or that of an earlier socket.
LEMMA PortAccepts ==
  ASSUME Inv, Inv', Up, NEW s \in Sockets, NEW q \in Ports, NEW b \in Addresses,
         NEW o \in Sockets, socket[s] = "fresh", Attach(s, <<b, q>>, o),
         Registered' = Registered \cup {o}, endpoint'[o] = <<b, q>>,
         NEW p \in Ports
  PROVE  Port(p)!ConnectionsNext \/ UNCHANGED Port(p)!connectionVars
<1>1. endpoint[s] = None /\ captured[s] = None /\ s \notin Registered
  BY NoneAssumption DEF Inv, SocketsMatchObjects
<1>2. /\ fault' = fault /\ Up'
      /\ endpoint' = [endpoint EXCEPT ![s] = <<b, q>>]
      /\ socket' = [socket EXCEPT ![s] = "open"]
      /\ sock' = [sock EXCEPT ![o] = s]
      /\ <<b, q>> # None
  BY NoneAssumption DEF Attach, Up, Endpoints
<1>3. Registered \subseteq Sockets
  BY RegisteredAreSockets DEF Inv
<1>4. ASSUME NEW a \in Addresses, <<a, p>> # <<b, q>>
      PROVE  SockOf(p)'[a] = SockOf(p)[a]
  <2>1. ASSUME NEW x \in Registered, endpoint[x] = <<a, p>>
        PROVE  SockOf(p)'[a] = SockOf(p)[a]
    <3>1. x # s /\ x \in Sockets /\ endpoint'[x] = endpoint[x]
      BY <1>1, <1>2, <1>3, <2>1 DEF Inv, TypeOK
    <3>2. x # o /\ sock'[x] = sock[x]
      BY <1>2, <1>4, <2>1, <3>1 DEF Inv, TypeOK
    <3>3. SockOf(p)[a] = sock[x]
      <4>1. (CHOOSE y \in Registered : endpoint[y] = endpoint[x]) = x
        BY OneObjectEach, ChosenByEndpoint DEF Inv
      <4>2. QED
        BY <2>1, <4>1 DEF SockOf, Matches
    <3>4. SockOf(p)'[a] = sock'[x]
      <4>1. (CHOOSE y \in Registered' : endpoint'[y] = endpoint'[x]) = x
        BY OneObjectEach, ChosenByEndpoint DEF Inv
      <4>2. endpoint'[x] = <<a, p>> /\ x \in Registered'
        BY <2>1, <3>1
      <4>3. QED
        BY <4>1, <4>2 DEF SockOf, Matches
    <3>5. QED
      BY <3>2, <3>3, <3>4
  <2>2. CASE \A x \in Registered : endpoint[x] # <<a, p>>
    <3>1. \A x \in Registered' : endpoint'[x] # <<a, p>>
      BY <1>1, <1>2, <1>3, <1>4, <2>2 DEF Inv, TypeOK
    <3>2. SockOf(p)[a] = None /\ SockOf(p)'[a] = None
      BY <2>2, <3>1 DEF SockOf, Matches
    <3>3. QED
      BY <3>2
  <2>3. QED
    BY <2>1, <2>2
<1>5. CASE p = q
  <2>1. HomeOf(p)[s] = None /\ HomeOf(p)' = [HomeOf(p) EXCEPT ![s] = b]
    BY <1>1, <1>2, <1>5 DEF HomeOf, Inv, TypeOK
  <2>2. OpenOf(p)' = OpenOf(p) \cup {s}
    BY <1>1, <1>2, <1>5 DEF OpenOf, Inv, TypeOK
  <2>3. SockOf(p)'[b] = s
    <3>1. (CHOOSE y \in Registered' : endpoint'[y] = endpoint'[o]) = o
      BY OneObjectEach, ChosenByEndpoint DEF Inv
    <3>2. sock'[o] = s
      BY <1>2 DEF Inv, TypeOK
    <3>3. QED
      BY <1>5, <3>1, <3>2 DEF SockOf, Matches
  <2>4. SockOf(p)' = [SockOf(p) EXCEPT ![b] = s]
    <3>1. \A a \in Addresses : a # b => SockOf(p)'[a] = SockOf(p)[a]
      BY <1>4
    <3>2. QED
      BY <2>3, <3>1 DEF SockOf
  <2>5. Port(p)!Accept(s, b)
    BY <1>2, <2>1, <2>2, <2>4
    DEF Port!Accept, HomeOf, OpenOf, SockOf, Up
  <2>6. QED
    BY <2>5 DEF Port!ConnectionsNext
<1>6. CASE p # q
  <2>1. HomeOf(p)' = HomeOf(p)
    BY <1>1, <1>2, <1>6 DEF HomeOf, Inv, TypeOK
  <2>2. OpenOf(p)' = OpenOf(p)
    BY <1>1, <1>2, <1>6 DEF OpenOf, Inv, TypeOK
  <2>3. SockOf(p)' = SockOf(p)
    <3>1. \A a \in Addresses : SockOf(p)'[a] = SockOf(p)[a]
      BY <1>4, <1>6
    <3>2. QED
      BY <3>1 DEF SockOf
  <2>4. QED
    BY <1>2, <2>1, <2>2, <2>3
    DEF Port!connectionVars, HomeOf, OpenOf, SockOf, Up
<1>7. QED
  BY <1>5, <1>6

\* A socket that closes leaves its port, and its object keeps it.
LEMMA PortLeaves ==
  ASSUME Inv, NEW s \in Sockets, Close(s), NEW p \in Ports
  PROVE  Port(p)!ConnectionsNext \/ UNCHANGED Port(p)!connectionVars
<1>1. /\ UNCHANGED <<fault, endpoint, connections, sock>>
      /\ Registered' = Registered
      /\ HomeOf(p)' = HomeOf(p) /\ SockOf(p)' = SockOf(p)
  BY DEF Close, Registered, HomeOf, SockOf, Matches
<1>2. CASE endpoint[s][2] = p
  <2>1. s \in OpenOf(p) /\ OpenOf(p)' = OpenOf(p) \ {s}
    BY <1>1, <1>2 DEF Close, OpenOf, Inv, TypeOK
  <2>2. Port(p)!Leave(s)
    BY <1>1, <2>1 DEF Port!Leave, Close, HomeOf, OpenOf, SockOf, Up
  <2>3. QED
    BY <2>2 DEF Port!ConnectionsNext
<1>3. CASE endpoint[s][2] # p
  <2>1. OpenOf(p)' = OpenOf(p)
    BY <1>1, <1>3 DEF Close, OpenOf, Inv, TypeOK
  <2>2. QED
    BY <1>1, <2>1 DEF Port!connectionVars, HomeOf, OpenOf, SockOf, Up
<1>4. QED
  BY <1>2, <1>3

\* The registry implements the connections each port's handlers are built on,
\* for any number of ports: the array's order, the splices, the sockets of
\* other ports and the late answers of SQLite do not show.
THEOREM PortsRefinement == Spec => ImplementsPorts
<1> DEFINE Steps == \A p \in Ports :
             Port(p)!ConnectionsNext \/ UNCHANGED Port(p)!connectionVars
<1>1. ASSUME Init, NEW p \in Ports
      PROVE  Port(p)!ConnectionsInit
  BY <1>1 DEF Init, Port!ConnectionsInit, Up, Registered, ToSet
<1>2. ASSUME Inv, Inv', [Next]_vars
      PROVE  Steps
  <2>1. ASSUME Up, NEW error \in UncaughtErrors, NEW accepting,
               Crash(error, accepting)
        PROVE  Steps
    BY <2>1, PortStops DEF Port!ConnectionsNext
  <2>2. ASSUME NEW s \in Sockets, captured[s] # None,
               UpdateConnection(captured[s]),
               UNCHANGED <<fault, socket, endpoint, sock>>
        PROVE  Steps
    <3>1. captured[s] \in Registered /\ endpoint[captured[s]] \in Endpoints
      BY <1>2, <2>2 DEF Inv, CapturedRegistered, SocketsMatchObjects
    <3>2. Registered' = Registered
      BY <1>2, <2>2, <3>1, UpdateProperties DEF Inv, Registered
    <3>3. QED
      BY <2>2, <3>2, PortKept
  <2>3. ASSUME UNCHANGED <<fault, socket, endpoint, connections, sock>>
        PROVE  Steps
    BY <2>3, PortKept DEF Registered
  <2>4. ASSUME Up, NEW ACTION rest, Reject(rest)
        PROVE  Steps
    BY <2>1, <2>3, <2>4 DEF Reject, UncaughtErrors
  <2>5. ASSUME NEW s \in Sockets, NEW key \in Endpoints,
               AcceptKnown(s, key) \/ AcceptNew(s, key)
        PROVE  Steps
    <3>1. PICK b \in Addresses, q \in Ports : key = <<b, q>>
      BY DEF Endpoints
    <3>2. \E o \in Sockets :
            /\ Up /\ socket[s] = "fresh" /\ Attach(s, key, o)
            /\ Registered' = Registered \cup {o} /\ endpoint'[o] = key
      <4>1. CASE AcceptNew(s, key)
        BY <1>2, <4>1, NewRegistered DEF Inv, TypeOK, AcceptNew, Attach
      <4>2. CASE AcceptKnown(s, key)
        <5> DEFINE o == connections[IndexOf(key)]
        <5>1. o \in Registered /\ endpoint[o] = key
          BY <1>2, <4>2, IndexOfProperties
          DEF Inv, AcceptKnown, Registered, ToSet
        <5>2. o \in Sockets /\ Registered' = Registered
          BY <1>2, <4>2, <5>1, RegisteredAreSockets
          DEF Inv, AcceptKnown, Registered
        <5>3. endpoint'[o] = key
          BY <1>2, <4>2, <5>1, <5>2 DEF Inv, TypeOK, AcceptKnown, Attach
        <5>4. Up /\ socket[s] = "fresh" /\ Attach(s, key, o)
          BY <4>2 DEF AcceptKnown
        <5>5. QED
          BY <5>1, <5>2, <5>3, <5>4
      <4>3. QED
        BY <2>5, <4>1, <4>2
    <3>3. QED
      BY <1>2, <3>1, <3>2, PortAccepts
  <2>6. ASSUME NEW s \in Sockets, NEW key \in Endpoints, AcceptUnknown(s, key)
        PROVE  Steps
    BY <2>1, <2>6 DEF AcceptUnknown, UncaughtErrors
  <2>7. ASSUME NEW s \in Sockets, AcceptGone(s) \/ SocketError(s)
        PROVE  Steps
    BY <2>1, <2>7 DEF AcceptGone, SocketError, UncaughtErrors
  <2>8. ASSUME NEW s \in Sockets,
               DataHandled(s) \/ DataAwaits(s) \/ DataRejected(s)
        PROVE  Steps
    <3>1. Up /\ captured[s] # None
      BY <1>2, <2>8 DEF Inv, SocketsMatchObjects, DataHandled, DataAwaits,
                        DataRejected, Deliver
    <3>2. QED
      BY <2>2, <2>3, <2>4, <2>8, <3>1 DEF DataHandled, DataAwaits, DataRejected
  <2>9. ASSUME NEW r \in Requests, Resume(r)
        PROVE  Steps
    <3>1. Up /\ r[1] \in Sockets /\ captured[r[1]] # None
      BY <1>2, <2>9 DEF Requests, Resume, Inv, SocketsMatchObjects
    <3>2. QED
      BY <2>2, <2>4, <2>9, <3>1 DEF Resume
  <2>10. ASSUME NEW s \in Sockets, Close(s)
         PROVE  Steps
    BY <1>2, <2>10, PortLeaves
  <2>11. CASE Restart
    <3>1. Registered' = Registered
      BY <2>11 DEF Restart, Registered
    <3>2. ~Up /\ Up' /\ UNCHANGED <<socket, endpoint, sock>>
      BY <2>11 DEF Restart, Up
    <3>3. ASSUME NEW p \in Ports PROVE Port(p)!Start
      BY <3>1, <3>2 DEF Port!Start, Matches
    <3>4. QED
      BY <3>3 DEF Port!ConnectionsNext
  <2>12. CASE ResetAllQueueState \/ UNCHANGED vars
    BY <2>3, <2>12 DEF ResetAllQueueState, vars
  <2> HIDE DEF Steps
  <2>13. QED
    BY <1>2, <2>5, <2>6, <2>7, <2>8, <2>9, <2>10, <2>11, <2>12 DEF Next
<1>3. Init => \A p \in Ports : Port(p)!ConnectionsInit
  BY <1>1
<1>4. Inv /\ Inv' /\ [Next]_vars => Steps
  BY <1>2
<1>5. QED
  BY <1>3, <1>4, Safety, PTL DEF Spec, ImplementsPorts

-----------------------------------------------------------------------------
\* A connection leaves the queue when a client of its own connects to the
\* lobby port, and in no other step.
THEOREM QueueLeft == Spec => QueueLeftByLobbyConnectOnly
<1> DEFINE Leaves(o) ==
             inQueue[o] /\ ~inQueue'[o] =>
               \E s \in Sockets :
                 /\ captured[s] = None /\ captured'[s] = o
                 /\ endpoint'[s] = endpoint'[o] /\ endpoint'[s][2] = LobbyPort
<1>1. ASSUME Inv, [Next]_vars, NEW o \in Sockets
      PROVE  Leaves(o)
  <2>1. ASSUME NEW s \in Sockets, NEW key \in Endpoints, NEW p \in Sockets,
               socket[s] = "fresh", Attach(s, key, p),
               p # s => endpoint[p] = key
        PROVE  Leaves(o)
    <3>1. captured[s] = None
      BY <1>1, <2>1 DEF Inv, SocketsMatchObjects
    <3>2. /\ captured'[s] = p /\ endpoint'[s] = key /\ endpoint'[p] = key
          /\ inQueue[o] /\ ~inQueue'[o] => o = p /\ key[2] = LobbyPort
      BY <1>1, <2>1 DEF Inv, TypeOK, Attach
    <3>3. QED
      BY <3>1, <3>2, <2>1
  <2>2. ASSUME NEW s \in Sockets, NEW key \in Endpoints,
               AcceptKnown(s, key) \/ AcceptNew(s, key)
        PROVE  Leaves(o)
    <3>1. CASE AcceptNew(s, key)
      <4>1. socket[s] = "fresh" /\ Attach(s, key, s)
        BY <3>1 DEF AcceptNew
      <4>2. QED
        BY <2>1, <4>1
    <3>2. CASE AcceptKnown(s, key)
      <4> DEFINE p == connections[IndexOf(key)]
      <4>1. p \in Registered /\ endpoint[p] = key
        BY <1>1, <3>2, IndexOfProperties
        DEF Inv, AcceptKnown, Registered, ToSet
      <4>2. p \in Sockets /\ p # s
        BY <1>1, <3>2, <4>1, RegisteredAreSockets, NoneAssumption
        DEF Inv, SocketsMatchObjects, AcceptKnown
      <4>3. QED
        BY <2>1, <3>2, <4>1, <4>2 DEF AcceptKnown
    <3>3. QED
      BY <2>2, <3>1, <3>2
  <2>3. ASSUME NEW error, NEW accepting, Crash(error, accepting)
        PROVE  Leaves(o)
    BY <2>3 DEF Crash
  <2>4. ASSUME UNCHANGED inQueue PROVE Leaves(o)
    BY <2>4
  <2>5. CASE ResetAllQueueState
    BY <2>5 DEF ResetAllQueueState
  <2>6. CASE \E s \in Sockets :
               \/ AcceptGone(s) \/ DataHandled(s) \/ DataAwaits(s)
               \/ DataRejected(s) \/ Close(s) \/ SocketError(s)
    BY <2>3, <2>4, <2>6 DEF AcceptGone, DataHandled, DataAwaits, DataRejected,
                            Close, SocketError, Reject
  <2>7. CASE \E r \in Requests : Resume(r)
    BY <2>3, <2>4, <2>7 DEF Resume, Reject
  <2>8. CASE \E s \in Sockets, key \in Endpoints :
               AcceptKnown(s, key) \/ AcceptNew(s, key) \/ AcceptUnknown(s, key)
    BY <2>2, <2>3, <2>8 DEF AcceptUnknown
  <2>9. CASE Restart \/ UNCHANGED vars
    BY <2>4, <2>9 DEF Restart, vars
  <2>10. QED
    BY <1>1, <2>5, <2>6, <2>7, <2>8, <2>9 DEF Next
<1>2. Inv /\ [Next]_vars => \A o \in Sockets : Leaves(o)
  BY <1>1
<1>3. QED
  BY <1>2, Safety, PTL DEF Spec, QueueLeftByLobbyConnectOnly

\* As shipped, no client is ever given a connection: the array a process
\* starts with stays empty.
THEOREM NobodyServed == Spec => []ThrowingLookupServesNobody
<1> DEFINE Idle == /\ connections = <<>> /\ awaiting = {}
                   /\ \A s \in Sockets : socket[s] # "open"
<1>1. Init => Idle
  BY DEF Init
<1>2. ASSUME Idle, [Next]_vars, LookupThrows
      PROVE  Idle'
  <2>1. ASSUME NEW error, NEW accepting, Crash(error, accepting)
        PROVE  Idle'
    BY <2>1 DEF Crash
  <2>2. \A key : IndexOf(key) = 0
    BY <1>2 DEF IndexOf
  <2>3. CASE \E s \in Sockets, key \in Endpoints :
               AcceptKnown(s, key) \/ AcceptNew(s, key) \/ AcceptUnknown(s, key)
    BY <1>2, <2>1, <2>2, <2>3 DEF AcceptKnown, AcceptNew, AcceptUnknown
  <2>4. CASE \E s \in Sockets :
               \/ AcceptGone(s) \/ DataHandled(s) \/ DataAwaits(s)
               \/ DataRejected(s) \/ Close(s) \/ SocketError(s)
    BY <1>2, <2>1, <2>4 DEF AcceptGone, DataHandled, DataAwaits, DataRejected,
                            Close, SocketError, Deliver
  <2>5. CASE \E r \in Requests : Resume(r)
    BY <1>2, <2>5 DEF Resume
  <2>6. CASE Restart \/ ResetAllQueueState \/ UNCHANGED vars
    BY <1>2, <2>6 DEF Restart, ResetAllQueueState, vars
  <2>7. QED
    BY <1>2, <2>3, <2>4, <2>5, <2>6 DEF Next
<1>3. (LookupThrows => Idle) => ThrowingLookupServesNobody
  BY DEF ThrowingLookupServesNobody
<1>4. Init => (LookupThrows => Idle)
  BY <1>1
<1>5. (LookupThrows => Idle) /\ [Next]_vars => (LookupThrows => Idle)'
  BY <1>2
<1> HIDE DEF Idle
<1>6. QED
  BY <1>3, <1>4, <1>5, PTL DEF Spec
=============================================================================
