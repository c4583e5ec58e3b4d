----------------------------- MODULE LoginServer -----------------------------
(***************************************************************************)
(* LoginServer (port 8226): a login packet carries a context id and an     *)
(* encrypted session key; the server looks the customer up, stores the     *)
(* key and answers with the customer's id.  Handlers that wait for the     *)
(* INSERT overlap, also for one customer; the process may end at any time  *)
(* and the table survives it.  Operators marked "wrong on purpose" are for *)
(* the mutant runs (README, "Mutants").                                    *)
(***************************************************************************)
EXTENDS SessionTable

CONSTANTS
  Logins,            \* the packets clients send, each handled at most once
  SignedCustomers,   \* the customers whose id writeInt32BE accepts
  CrashOnRejection   \* an unhandled rejection ends the process (Node >= 15)

ASSUME LoginAssumption ==
  SignedCustomers \subseteq Customers /\ CrashOnRejection \in BOOLEAN

VARIABLES
  up,      \* the process runs
  state,   \* how far the handling of each packet has come
  packet,  \* the customer and the session key of each packet
  saved    \* history: the packets whose INSERT took effect

vars == <<sessions, up, state, packet, saved>>

NoPacket == [customer |-> None, key |-> None]
Packets  == [customer : Customers, key : Keys]

States ==
  {"unsent",
   "inserting",    \* waiting for SQLite
   "inserted",     \* SQLite has inserted the row, its callback is due
   "duplicate",    \* SQLite found a row of the customer, its callback is due
   "failed",       \* SQLite failed in another way, its callback is due
   "answered",     \* the handler replied
   "rejected",     \* the handler threw
   "refused",      \* the handler threw because the customer has a row
   "ignored",      \* not a login packet: nothing is sent
   "lost"}         \* the process ended first

Waiting == {"inserting", "inserted", "duplicate", "failed"}

Init ==
  /\ sessions \in Tables
  /\ up = TRUE
  /\ state = [l \in Logins |-> "unsent"]
  /\ packet = [l \in Logins |-> NoPacket]
  /\ saved = {}

-----------------------------------------------------------------------------
\* The process ends; what it was handling is never answered.
Crashed(s) == [l \in Logins |-> IF s[l] \in Waiting THEN "lost" ELSE s[l]]

\* The handler of l throws: nobody handles the promise of _onData.
Reject(l, outcome) ==
  /\ up' = ~CrashOnRejection
  /\ state' = LET s == [state EXCEPT ![l] = outcome]
              IN  IF CrashOnRejection THEN Crashed(s) ELSE s
  /\ UNCHANGED <<packet, saved>>

\* A packet that is not a login (0x501) is logged and left unanswered.
ReceiveOther(l) ==
  /\ up
  /\ state[l] = "unsent"
  /\ state' = [state EXCEPT ![l] = "ignored"]
  /\ UNCHANGED <<sessions, up, packet, saved>>

\* Wrong on purpose: an unknown user is not rejected but stored.
InvalidTakenUp(l) ==
  /\ up
  /\ state[l] = "unsent"
  /\ state' = [state EXCEPT ![l] = "inserting"]
  /\ \E key \in Keys :
       packet' = [packet EXCEPT ![l] = [customer |-> None, key |-> key]]
  /\ UNCHANGED <<sessions, up, saved>>

\* A login whose session key does not decrypt, or whose context id is not one
\* of the two users.
ReceiveInvalid(l) ==
  /\ up
  /\ state[l] = "unsent"
  /\ Reject(l, "rejected")
  /\ UNCHANGED sessions

\* A login of customer c with a session key: _userLogin up to the INSERT.
ReceiveLogin(l, c, key) ==
  /\ up
  /\ state[l] = "unsent"
  /\ state' = [state EXCEPT ![l] = "inserting"]
  /\ packet' = [packet EXCEPT ![l] = [customer |-> c, key |-> key]]
  /\ UNCHANGED <<sessions, up, saved>>

-----------------------------------------------------------------------------
(* SQLite's worker.                                                        *)

\* Wrong on purpose: INSERT OR REPLACE.
UpsertRow(l) ==
  /\ up
  /\ state[l] = "inserting"
  /\ sessions' = [sessions EXCEPT ![packet[l].customer] = packet[l].key]
  /\ state' = [state EXCEPT ![l] = "inserted"]
  /\ saved' = saved \cup {l}
  /\ UNCHANGED <<up, packet>>

InsertRow(l) ==
  /\ up
  /\ state[l] = "inserting"
  /\ Insert(packet[l].customer, packet[l].key)
  /\ state' = [state EXCEPT ![l] = "inserted"]
  /\ saved' = saved \cup {l}
  /\ UNCHANGED <<up, packet>>

InsertDuplicate(l) ==
  /\ up
  /\ state[l] = "inserting"
  /\ ~Accepts(packet[l].customer)
  /\ state' = [state EXCEPT ![l] = "duplicate"]
  /\ UNCHANGED <<sessions, up, packet, saved>>

\* A locked or full file, a value that does not bind.
InsertFails(l) ==
  /\ up
  /\ state[l] = "inserting"
  /\ state' = [state EXCEPT ![l] = "failed"]
  /\ UNCHANGED <<sessions, up, packet, saved>>

-----------------------------------------------------------------------------
(* The callback, and the rest of _userLogin and dataHandler.               *)

\* Wrong on purpose: the callback's error is not looked at.
AnswerUnchecked(l) ==
  /\ up
  /\ state[l] \in {"inserted", "duplicate"}
  /\ packet[l].customer \in SignedCustomers
  /\ state' = [state EXCEPT ![l] = "answered"]
  /\ UNCHANGED <<sessions, up, packet, saved>>

\* The reply is written: two copies of the packet in one buffer.
Answer(l) ==
  /\ up
  /\ state[l] = "inserted"
  /\ packet[l].customer \in SignedCustomers
  /\ state' = [state EXCEPT ![l] = "answered"]
  /\ UNCHANGED <<sessions, up, packet, saved>>

\* writeInt32BE throws for an id above 2^31 - 1; the row stays.
AnswerOverflows(l) ==
  /\ up
  /\ state[l] = "inserted"
  /\ packet[l].customer \notin SignedCustomers
  /\ Reject(l, "rejected")
  /\ UNCHANGED sessions

\* Wrong on purpose: an error of SQLite other than a duplicate settles nothing.
RejectedDuplicate(l) ==
  /\ up
  /\ state[l] = "duplicate"
  /\ Reject(l, "refused")
  /\ UNCHANGED sessions

InsertRejected(l) ==
  /\ up
  /\ state[l] \in {"duplicate", "failed"}
  /\ Reject(l, IF state[l] = "duplicate" THEN "refused" ELSE "rejected")
  /\ UNCHANGED sessions

-----------------------------------------------------------------------------
\* The process is killed, or another server's rejection ends it.
Crash ==
  /\ up
  /\ up' = FALSE
  /\ state' = Crashed(state)
  /\ UNCHANGED <<sessions, packet, saved>>

Restart ==
  /\ ~up
  /\ up' = TRUE
  /\ UNCHANGED <<sessions, state, packet, saved>>

SQLite(l) == InsertRow(l) \/ InsertDuplicate(l) \/ InsertFails(l)

Callback(l) == Answer(l) \/ AnswerOverflows(l) \/ InsertRejected(l)

Next ==
  \/ \E l \in Logins :
       \/ ReceiveOther(l)
       \/ ReceiveInvalid(l)
       \/ \E c \in Customers, key \in Keys : ReceiveLogin(l, c, key)
       \/ InsertRow(l)
       \/ InsertDuplicate(l)
       \/ InsertFails(l)
       \/ Answer(l)
       \/ AnswerOverflows(l)
       \/ InsertRejected(l)
  \/ Crash
  \/ Restart

Spec == Init /\ [][Next]_vars

\* SQLite runs every statement it is given, and the event loop every callback.
FairSpec ==
  /\ Spec
  /\ \A l \in Logins : WF_vars(SQLite(l)) /\ WF_vars(Callback(l))

-----------------------------------------------------------------------------
(* Properties.                                                             *)

\* The values the variables take.
TypeOK ==
  /\ sessions \in Tables
  /\ up \in BOOLEAN
  /\ state \in [Logins -> States]
  /\ packet \in [Logins -> Packets \cup {NoPacket}]
  /\ saved \subseteq Logins
  /\ ~up => \A l \in Logins : state[l] \notin Waiting

\* A customer who was told that the login succeeded can rely on the key it
\* sent: that key is the customer's row, whatever logins of the same customer
\* overlap with it, and still after the process has died and come back
\* (LoginServer/index.ts:199).
AnsweredIsStored ==
  \A l \in Logins :
    state[l] = "answered" => sessions[packet[l].customer] = packet[l].key

\* A customer logs in at most once in the life of the database file.  The
\* INSERT never replaces a row, so when the server dies after storing a key
\* and before answering, or cannot write the customer's id, no later login of
\* that customer is ever answered (database-manager.ts:181).
OneLoginPerCustomer ==
  \A l \in saved, m \in Logins :
    /\ m \in saved \/ state[m] = "answered"
    /\ packet[l].customer = packet[m].customer
    => l = m

\* The login server's use of the table is write-once: no login, failure, crash
\* or restart changes the key of a customer who has one.
WritesOnce == WriteOnceSpec

StoredPackets == [l \in Logins |-> IF l \in saved THEN packet[l] ELSE NoPacket]

Told == {l \in Logins : state[l] = "answered"}

Service == INSTANCE LoginService WITH stored <- StoredPackets, told <- Told

\* A login is stored in one step, whole, at most once, and only what was
\* stored is told: nothing that overlaps, fails or dies in between shows in the
\* table or in a reply (LoginServer/index.ts:199).
ImplementsLoginService == Service!Spec

\* Every login that reached the INSERT comes to an end
\* (database-manager.ts:185).
LoginSettles ==
  \A l \in Logins : state[l] \in Waiting ~> state[l] \notin Waiting

\* "Debug sends the login request twice, so we need to reply twice"
\* (LoginServer/index.ts:229): the server copes with a repeated login.
RepeatedLoginIsHandled == \A l \in Logins : state[l] # "refused"

\* "Process a UserLogin packet.  Should return a NPSMsg object"
\* (LoginServer/index.ts:154): a login whose key was stored does not end in
\* an error.
StoredLoginIsAnswered == \A l \in saved : state[l] # "rejected"
=============================================================================
