# TLA+ models and proofs of mco-server

mco-server is an emulator of the servers of the game *Motor City Online*: one
Node process that listens on some forty TCP ports for game clients and on a few
HTTP(S) ports for the patcher, the shard list, the login ticket and an
administrator. This directory models the part of it that carries state and
concurrency, checks it with TLC on small instances, and proves the central
invariants with TLAPS for every instance.

Paths below are relative to `src/src/services/` unless they start with `src/`.

## 1. Inventory

| component | state it keeps | operations | what makes it right |
|---|---|---|---|
| **Connection registry** `MCServer/connection-mgr.ts`, `tcpConnection.ts` | the array `connections` of `TCPConnection` objects; per object `sock`, `inQueue`, `useEncryption`, `appId`, the ciphers | `findOrNewConnection`, `_updateConnectionByAddressAndPort` (after every packet), `resetAllQueueState`, lookups | one object per remote address and local port; nobody's entry is lost; replies stay at the address that asked |
| **TCP listener** `MCServer/listener-thread.ts` | none of its own; each `data` callback closes over a connection object | `connection`, `data` (promise not awaited), `end`, `error` | every request that waits for SQLite is taken up again; an error does not reach other clients |
| **Session table** `shared/database-manager.ts` | the file `db/mco.db`, table `sessions`, primary key `customer_id` | INSERT (`_updateSessionKey`), SELECT | survives the process; a row is never changed |
| **LoginServer** `LoginServer/` (8226) | none in memory | packet 0x501: decrypt the session key, look up the customer, INSERT, reply | who is answered is stored; every login ends |
| **PersonaServer** `PersonaServer/` (8228) | a constant list of personas | packets 0x503, 0x507, 0x50f, 0x532, 0x533, 0x534 | a client can read its personas in the reply; customers match LoginServer's |
| **LobbyServer** `LobbyServer/` (7003) | `encLobby` of the connection: two DES-CBC streams | 0x100 (SELECT, make the ciphers, reply), 0x1101 (encrypted commands), 0x217 (heartbeat) | ciphers made once, from the row of the customer they are for; streams stay in step |
| **Game server** `MCOTS/` (43300) | `useEncryption`, `appId`, the RC4 streams of the connection | 438 client connect (SELECT, make the streams, reply), 105, 106, 109, 141, 266, 324, 440, heartbeat | key and persona of one connect; nobody gets in without keys; streams in step; replies decipher |
| **EncryptionManager** `MCServer/encryption-mgr.ts` | key and two RC4 streams | `setEncryptionKey`, `encrypt`, `decrypt` | decipher after encipher is the identity, at the same position of the stream |
| **NPS packet routing** `MCServer/nps-packet-manager.ts` | none | `processNPSPacket` | the handler of the port |
| **Wire formats** `MCOTS/message-node.ts`, `nps-msg.ts`, `lobby-*.ts`, `login-msg.ts`, `stock-car*.ts`, `MCServer/*-msg.ts` | none | serialize, deserialize | lengths and offsets agree, a packet is a message |
| **PatchAndShard** `PatchAndShard/` (HTTP) | a ban list and `possibleShards`, both never read | shard list, patch files, certificate, registry file | the shards listed are those personas are on |
| **AuthLogin** `AuthLogin/` (HTTPS) | none | one constant ticket | the ticket is one LoginServer knows |
| **AdminServer** `AdminServer/` (HTTPS) | none | dumps, `resetAllQueueState` | resets are not undone by late requests |
| **Start and configuration** `src/app.ts`, `src/server.ts` | none | builds the managers, starts the servers | - |

How they interact. A client's socket reaches `ListenerThread._listener`, which asks
the registry for the object of its address and port and closes over it. Each `data`
event runs `SessionManager.processData`, which switches on the port: NPS ports go
to Login, Persona or Lobby, 43300 to MCOTS. LoginServer writes the session table;
LobbyServer and MCOTS read it, make the connection's ciphers of the row they got,
and write to `connection.sock`, the socket the *object* has by then. When the
handler is done the listener takes the object's array entry out and pushes it
back.

Before any of this a client gets a ticket from AuthLogin and the shard list, with the addresses
of the other servers, from PatchServer.

What is hard. Node runs one callback at a time, so handlers interleave only where
they wait for SQLite: at the INSERT of a login, at the SELECT of a lobby connect
and of a game connect. There they overlap with reconnects (which replace `sock`),
with other clients of the same address (which share the object), with logins and
with the administrator. The promise of a `data` callback is not awaited, so an
error in a handler is an unhandled rejection: it is printed by Node 12 and 14 and
ends the process from Node 15 on (`package.json` allows 12, 14 and 16). The table
survives the process, nothing else does.
Below the messages is TCP: a `data` event brings what has arrived, one packet or
several, and MessageNode takes all of it for one message, while the RC4 streams of
client and server have to stay at the same byte.
`PROJECT.json` lists each of these hazards at its line.

## 2. Modules

| module | models | state → code |
|---|---|---|
| `SessionManager` | registry and listener | `connections` the array (a sequence), `sock`, `inQueue` the fields of the objects, `captured` what the `data` callbacks closed over, `awaiting` the `_onData` calls waiting for SQLite, `fault` the error that ended the process |
| `ConnectionTable` | abstract: what the registry promises its callers | `table` |
| `PortConnections` | abstract: what registry and listener give the handlers of one port | `home`, `open` the sockets, `sock` the field of each address's object |
| `SessionTable` | the `sessions` table; its abstract form, a write-once table | `sessions` |
| `KeyService` | abstract: a server that takes a customer's key for a connection and answers, in one step | `key` of each connection, `answer` what each request was answered for |
| `LoginService` | abstract: a server that stores a login's key, and tells it so | `stored`, `told` |
| `LoginServer` | LoginServer over `SessionTable` | `state`: where each packet's handler is, `packet` its arguments |
| `LobbyServer` | LobbyServer over `SessionTable` and `PortConnections` | `cipher` for `encLobby`, `held` the bytes in `cipher.update`, `state`, `request`, `row` a handler and its local variables |
| `TCPManager` | the game server over the same two, with EncryptionManager | `useEncryption`, `appId`, `key` and `received` the streams, `state`, `message`, `row`; `stream` the external clients, `unread` the answers on their way to them, `heard` a history |
| `GameWire` | one client's packets to the game server in TCP's stream, `MessageNode`, and the positions of the four ends of the two RC4 streams | `serverIn`, `serverOut` how far `EncryptionManager.in` and `.out` have come, `waiting` the connects at SQLite; `clientIn`, `clientOut`, `toServer`, `toClient` the external client and the network |
| `PersonaServer` | the list of personas and its lookups; no state | - |
| `PersonaMaps` | which write the bytes of a persona list come from; no state | - |
| `PatchServer` | the shard list and the other pages; no state | - |
| `Journey` | a client's way through AuthLogin, PatchServer, LoginServer, PersonaServer, LobbyServer and the game server, over `SessionTable`, `PersonaServer`, `PersonaMaps` and `PatchServer` | `step` how far each client has come, `context`, `key`, `shard`, `customer`, `offered`, `persona`, `named` what the external client holds or was told, `cipher` and `stream` the keys of its two connections |
| `*Proofs` | the proofs of the module they are named after | |
| `MC*` | the instances TLC checks | |

Composition. The servers are built on `PortConnections`, and
`SessionManager!ImplementsPorts` checks that the detailed registry — array, splices,
sockets of other ports, late answers — implements it for every port at once. So a
connection object is identified with its address in `LobbyServer` and `TCPManager`
without assuming anything the registry does not deliver. `SessionTable` is shared in
the same way: `LoginServer!WritesOnce` shows that the login server uses it as a
write-once table, and the other two let a login (`StoreKey`) write it at any moment.
What each module assumes of its neighbours is what they guarantee: the theorems
`Neighbours` of `LobbyServerProofs` and `TCPManagerProofs` say that the steps of both
servers are steps of `PortConnections` and of the write-once table, the interfaces that
`PortsRefinement` and `LoginServerProofs!Refinement` show the other side to keep.

Upwards, the servers implement two services. `KeyService` serves a request for a key in
one step, with the row as it is then; `LobbyServer!ImplementsKeyService` and
`TCPManager!ImplementsKeyService` say that reading the row, waiting for SQLite and using
what was read cannot be told from that. The abstract `key` is `cipher`, or the key of the
RC4 streams; `Rekeys` is the difference between the two servers, the lobby keeping the
first key of a connection while the game server takes that of every connect. The abstract
`answer` is read off the handler: a request that is over and was answered was served its
customer's row. `LoginService` stores a login in one step and tells the client in another;
`LoginServer!ImplementsLoginService` maps a login to the packet it has stored.

`Journey` is built on these services: it takes a login's INSERT and reply as two steps,
because a crash may come between, and a request of the lobby or the game server as one.
`Journey!ImplementsServices` says so: it implements `LoginService` once and `KeyService`
twice, all on one table, so what holds of the composition rests on nothing the detailed
servers do not show. (The reply of the game server is a constant, so there every request
counts as unanswered.) Each client has an address of its own there; what
clients of one address do to each other is in `LobbyServer` and `TCPManager`. An error
that ends the process is a refusal followed by `Crash` there. A client that holds its
ticket, its shard or the answer to its login when the process ends goes on with the next
one, which has the rows and nothing else; one between its INSERT and its reply, or on a
connection to the lobby or the game server, is retired.

The clients of `TCPManager`. The server starts new streams when it answers a connect, the
client when it reads that answer (`ReadAnswer`), and whatever the client sent in between
(`early` in its record) comes in on streams it was not enciphered for. A packet on a
socket whose object has a newer one that is closed is dropped before anything is
deciphered (`ReceiveUnrouted`): only its client has counted it. And an answer goes to the
newest socket of the object, so that it may miss the client that asked ("strayed",
"undelivered"). `Disturbs` names these and the messages of other clients of the object,
and `LoneClientInStep` says that nothing else ever puts a client out of step: not the
number of its connects or of its messages, not their flags, not a socket that opens and
closes beside it as long as nothing of the client's is lost to it.

`GameWire` is below `TCPManager`: there a message arrives whole and is deciphered in step
or not, here it is seen when it is. It has one object, one customer and one key, so that a
stream is its position, and a client that behaves as the one recorded in
`docs/reference/packets.txt`: it connects unflagged, waits for the answer, then
enciphers everything. A packet may join the ones before it in one `data` event; that one
is split over two is left out, and so is what an earlier socket's data do to the object
(`TCPManager` has that). A client that opens a socket while a connect of its last one is
still at SQLite is marked `overlapped` and nothing is promised of it: the late answer is
taken for the new one's. The bytes that count are the bodies of the packets, the 11 of a
header, and the one by which `updateBuffer` and the client disagree.

`PersonaMaps` has the persona list as the writes that make it up: byte `q` is that of
the last write that covers it. Names are buffers of 30 bytes in records with room for 16,
so the order of the writes is what keeps the ids.

Atomicity. An action is what Node runs without a break: from the `data` event to the
first wait, from SQLite's callback to the end of the handler. A statement is split
into the call, SQLite's own step on its worker thread, and the callback, because
other callbacks run in between. Everything a handler does after its callback,
including what is done before it throws, is one action.

Errors. `Reject` is the promise of `_onData` being rejected; `CrashOnRejection`
chooses between the two policies of Node. Under TRUE the process ends with all its
connections and requests, under FALSE the handler just stops. The passing runs of
the servers use FALSE, which has more behaviours (the process may still be killed
and restarted at any time); the theorems hold for both.

The lookup. `findConnectionByAddressAndPort` throws when it finds nothing, and its
only relevant caller tests for `undefined` instead, so as shipped the first client
of a process ends it. `LookupThrows = TRUE` is the code as written, and the runs
`registry_shipped` and `registry_first_client` and the theorem `NobodyServed` say
what follows. Everything else about the registry is checked with
`LookupThrows = FALSE`, the lookup its caller is written for: otherwise there would
be nothing to check.

Data. Session keys, customers, packets and addresses are model values. A key is in
`DesKeys` or `Rc4Keys` when Node's crypto accepts it. The bodies of replies are only
their codes (`TCPManager!Reply`), because `encrypt` damages bytes from 128 up.
Deciphering with a stream out of step gives noise, modelled as the error it ends in.

### Mutants

Operators whose comment says "wrong on purpose" (`SplicedLast`, `KeyAlways`, ...) are
plausible bugs: a dropped guard, a reset left out, a swapped order. No definition uses
them. Each is put in the place of the operator below it to see that a property then
fails; `PROJECT.json` pairs them with the properties they break.

## 3. Runs

| run | configuration | what it shows |
|---|---|---|
| `registry` | 3 sockets, 1 address, 3 ports (lobby, game, one without a handler), 1 packet per socket; 41 730 states | the registry's invariants, its size, both abstractions, and that waiting requests resume |
| `registry_shipped` | 6 sockets, the lookup as written, rejections fatal | no client of any process is served |
| `registry_first_client` | the same, smaller; violated | the lookup's error reaches a client that should be added |
| `login` | 3 packets, 2 customers (one with an id over 2^31-1), 2 keys; 251 538 states | answered logins are stored, one per customer, every login ends, and all is as `LoginService` says |
| `login_repeated` | 2 packets of 1 customer; violated | the second login is refused |
| `login_overflow` | 1 packet, 2 customers; violated | stored but not answered |
| `lobby` | 1 address, 2 sockets, 2 requests, 2 customers, 3 keys (one DES refuses); 128 632 states | ciphers made once, reply and ciphers agree, requests are served as by `KeyService`, every request ends |
| `lobby_reply` | 1 of each; violated | bytes of a command's reply stay in the cipher |
| `game` | 1 address; 3 sockets and 3 messages of 1 customer, or 2 and 2 of 2 customers; flags 0, 8 and 80, 2 keys; 1 977 150 states up to symmetry | key and persona agree, who can connect, who stays in step while other sockets of the object come and go, connects are served as by `KeyService` |
| `game_garbled` | 2 messages; violated | the enciphered reply to a tracking message is damaged |
| `game_wire` | at most 6 packets of one client that may reconnect and connect again, requests of 39, 10 and 10 bytes; 76 479 states | in step unless packets were merged, shut out then, replies a byte off each |
| `journey` | 3 clients, the shipped 2 users, 3 personas, their 3 customers and 2 shards, 3 keys (one too short); 35 064 states up to symmetry | whoever was told of a login is offered its personas and served to the end, with the key it chose; one client per customer; the three services are used as they are specified |

The violated runs are disagreements between the code and its own comments, messages
or tests; `findings` in `PROJECT.json` quotes both sides.

Why the bounds are enough. All interleavings come from pairs: two sockets on one object,
a reconnect, a request that overlaps another. Three sockets on one address give two on
one object plus one on another port, or a reconnect of a reconnect; with one address all
sockets compete for the same entries, and clients of different addresses touch different
entries (`EndpointsUnique` is proved for any number of them). `MaxData` bounds the
packets of a socket: a second packet of a socket behaves as one of a second socket of
the object. Two overlapping requests are all that compete for the ciphers; the third
message of `game` is the one that finds the streams out of step: after two connects, or
after a connect and an enciphered message. The third socket is needed because a packet is
dropped only while the newest socket is closed, and its loss shows only when a still newer
one is open: two silent sockets beside the client's. Whose connect it is does not matter
to the streams, so `game` has these with one customer; a second one, who matters to keys
and personas, comes with two sockets and two messages at most (`Bounded` in
`MCTCPManager`), which gives two connects of two customers that overlap at SQLite on one
object, before and after a reconnect. The two values of an expression the code tells apart
are in the sets: no flag, 8 or more, the heartbeat's 80 (a flag from 1 to 7 turns the
encryption on as 8 does and is read in the clear as 0 is; the proofs are for every flag);
a key the cipher takes and one it does not; an id that fits and
one that does not. `journey` has the tables of the code as they are, and three clients,
so that two compete for the ticket everyone gets while one comes with the other; its
symmetry is of clients and of usable keys, which nothing tells apart. Six packets in
`game_wire` are a connect, two requests that are merged, one that shows the streams
apart, a second connect and one that shows them together again; the three requests are
the three kinds of reply (16 bytes, 78, none). Every invariant and every action property
is also proved without bounds.

Fairness. `FairSpec` asks for two things: that node-sqlite3 runs and calls back every
statement it was given, and that Node's event loop runs the callback. No fairness is
assumed of clients, of the administrator, of crashes or of restarts. `SQLite(l)` and
`Callback(l)` are the disjunctions of the outcomes, so it is never assumed which
outcome occurs. `Restart` is not fair: a process that ended may stay down, and its
requests count as settled ("lost"). `TCPManager` has no liveness property, and its run
can use symmetry. Its connects wait and settle as LobbyServer's requests do.

## 4. Proofs

All proofs are for arbitrary sets of sockets, addresses, ports, customers, keys and
packets, both policies for rejections, both lookups, and any table an earlier process
left. The assumptions are the named ASSUMEs of the modules: that None is none of the
other values, that the routed ports are among the ports, that usable keys are keys.

* `SessionManagerProofs`. The invariant is `TypeOK`, `EndpointsUnique`,
  `CapturedRegistered` and `SocketsMatchObjects` together. None of the middle two is
  inductive: that `splice(findIndex(...))` takes out the object that is pushed back
  needs the object to be registered, its endpoint to be its own, and no other entry
  to have that endpoint. `UpdateProperties` is the lemma at the centre: taking out
  and pushing back is a permutation of the array. From the invariant follow
  `EndpointsStayUnique`, `CapturedStayRegistered`, `RepliesStay`, `QueueLeft`,
  `NobodyServed` and `Refinement` (the array implements `ConnectionTable`).
  `PortsRefinement` is the refinement the server modules rest on: for every port the
  registry is a `PortConnections`. `PortAccepts` is its one hard step: the object an
  accepted socket is attached to, new or old, is the one the registry finds for the
  address, and no other address of the port sees a change. `SizeIsUse` counts the array:
  the function from its places to the endpoints in use is a bijection, onto them because
  every object a callback closed over is registered, and one to one because endpoints are
  unique. It is why `SocketsMatchObjects` says that a socket with an endpoint has an object.
* `LoginServerProofs`. `SavedRows` adds to `AnsweredIsStored` that inserted but
  unanswered packets are stored too, and that a waiting handler still has its packet;
  then an INSERT, accepted only without a row, cannot touch another packet's row.
  `LoginServiceRefinement` needs the same: a packet's own key is what `stored` shows, before
  and after the wait. `UnansweredLogins` and `FittingLoginsAreAnswered` delimit the finding
  of `login_overflow`: a login that was stored goes unanswered only when the process ended or
  its customer's id does not fit, and where every id fits the violated property holds.
* `PortConnectionsProofs`. `ConnectionsOK`: an open socket has an address, that
  address an object, the object a socket of that address. Used by the two below.
* `LobbyServerProofs`. Ciphers are the row of their owner, and the row a handler
  fetched before its wait is still the customer's row after it, because rows are
  written once: this is what makes reading before and using after the wait safe.
  `KeyServiceRefinement` draws the conclusion: the abstract step is the callback's, and the
  row it finds in the table is the one the handler has carried through the wait. Every other
  step of a handler is a stutter, also those that end in an error; a step that throws after
  the ciphers were made, because the client has left, is `Unanswered`.
* `TCPManagerProofs`. The key of an object is the row of the customer of the message
  that is its `appId`, and that message is over; a waiting connect has no flag that
  a connection without keys would have refused, and keys once made stay. `Streams` is
  what `LoneClientInStep` needs. As long as no message heard on the object disturbs the
  client of a socket (`Unspoilt`), the two are `Together`: with answers to read, the last
  of them brings the key the server has, and the server has deciphered nothing under it;
  without, there are no streams at all or both sides have counted the same messages. Each
  step keeps that or disturbs the client for good (`StaysSpoilt`). A new socket on an
  object with keys is disturbed from the start, because the connect they came from was
  heard on another socket (`HeardMessages`). Noise then needs a key the client's stream
  is not in step with, hence an answer still to be read or a message that disturbs.
  `KeyServiceRefinement` is as for the lobby, over `RepliedHaveRows`: the customer of a
  connect that was answered has a row. `PlainRepliesSurvive` delimits the finding of
  `game_garbled`: where no client sends a flag of 8 or more, the violated property holds.
* `JourneyProofs`. A client with a key has it in the row of its customer, and no other
  client with a key has that customer (`KeysAreStored`); what it was told is true and
  the persona it chose is that customer's (`ToldTheTruth`). So the row the lobby finds
  through the persona and the row the game server finds through the message are both
  the client's. `ServicesRefinement` shows three refinements at once; for the lobby's
  answers, the row of the persona's customer must be what it was at the reply, which
  `ToldTheTruth` and the write-once table give. The tables are any that `JourneyAssumption` and `TablesAgree` allow; TLC
  evaluates both on the shipped ones.
* `PersonaMapsProofs`. Any number of records: fields of a record are apart
  (`Layout`), and only the name of the record before reaches into it, which was written
  earlier. `IdsReadBack` is what `JourneyProofs` uses to show that a client is offered all
  its personas (`ListIsRead`), in whatever order they are listed.
* `GameWireProofs`. Any requests, lengths and number of packets. The properties are not
  inductive: what is on its way has to be known too. `RequestsChained` and
  `RepliesChained` say that each packet on its way starts where the one before it ended
  and the last where the sender stands; `Stages` says what can be on its way at each
  stage of the client, `OneConnect` that a client that waits has one connect
  outstanding, which is what makes the answer it gets its own.

Two theorems about `Spec` have a hypothesis beyond the ASSUMEs of the modules, and it is
part of the statement: `FittingLoginsAreAnswered` (no customer id above 2^31 - 1, while
one of the two users has such an id) and `PlainRepliesSurvive` (no flags from 8 up). They
say how far the two findings reach; the properties without them are false.

Only model-checked: the three liveness properties (`AwaitingSettles`, `LoginSettles`,
`ConnectSettles`), since TLAPS does not reason about fairness here. Every other property
of a passing run is stated by a theorem.

## 5. Not modelled

* Certificates, configuration files and logging: I/O.
* `LobbyInfo`, `LobbyMessage` and `LoginMessage` (`MCOTS/lobby-*.ts`, `login-msg.ts`): no
  service builds or reads one. `src/structures.ts`, `src/types.ts` and the packet in
  `LoginServer/packet.ts` are declarations and data.
* `NPSMessage` beyond its content: twelve bytes of header that no behaviour depends on;
  its lengths are signed 16 bits, far above every message a service sends.
* `possibleShards`, which is only written, and the ban lists, whose functions nobody
  calls.
* The chaining value of DES and the header of a reply of the game server, of which only
  the flags are modelled.
* The `lobbies` table and `fetchSessionKeyByConnectionId`, which nothing uses.
* A packet that TCP splits over two `data` events: the recorded packets are far below a
  segment, and the game server throws both halves away in ways of its own for every
  length.

## 6. Plan

1. *Done:* registry and listener, session table, login, lobby and game servers, with
   their proofs.
2. *Done:* `Journey`, the composition of the servers a client passes through, with the
   shard list, the bytes of the persona list and the persona the lobby names.
3. *Done:* `GameWire`, the stream below the game server's messages.
4. *Done:* the proofs of `ImplementsPorts` (the abstraction all servers rest on) and of
   `LoneClientInStep`; every safety property is proved.
5. *Done:* the services the servers implement (`KeyService`, `LoginService`), the proofs
   that they do and that `Journey` is built on nothing else; the size of the registry; the
   theorems that delimit two findings.
6. Where the DES streams of a connection stand after a reconnect (`LobbyServer/index.ts:290`);
   a packet split over two `data` events; liveness of a game connect.
