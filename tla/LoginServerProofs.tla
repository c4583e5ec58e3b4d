-------------------------- MODULE LoginServerProofs --------------------------
(***************************************************************************)
(* Proofs about LoginServer, for any customers, keys and packets, from any *)
(* table an earlier process may have left, under both policies for         *)
(* unhandled rejections.                                                   *)
(***************************************************************************)
EXTENDS LoginServer, TLAPS

\* What the handlers know about a packet whose INSERT took effect.
SavedRows ==
  /\ \A l \in Logins : state[l] \in Waiting => packet[l] \in Packets
  /\ \A l \in Logins : state[l] \in {"inserted", "answered"} => l \in saved
  /\ \A l \in saved :
       /\ state[l] \notin {"unsent", "inserting"}
       /\ packet[l] \in Packets
       /\ sessions[packet[l].customer] = packet[l].key
  /\ \A l, m \in saved : packet[l].customer = packet[m].customer => l = m

\* The inductive invariant.
Inv == TypeOK /\ SavedRows

LEMMA InvImplies == Inv => AnsweredIsStored /\ OneLoginPerCustomer
BY DEF Inv, SavedRows, AnsweredIsStored, OneLoginPerCustomer

LEMMA InitInv == Init => Inv
BY DEF Init, Inv, TypeOK, SavedRows, States, Waiting, NoPacket

\* A handler that throws ends its own packet, and under Node 15 the process.
LEMMA RejectInv ==
  ASSUME Inv, up, NEW l \in Logins,
         state[l] \notin {"inserting", "answered"},
         NEW outcome \in {"rejected", "refused"},
         Reject(l, outcome), UNCHANGED sessions
  PROVE  Inv'
<1>1. /\ packet' = packet /\ saved' = saved /\ sessions' = sessions
      /\ up' = ~CrashOnRejection
  BY DEF Reject
<1>2. ASSUME NEW m \in Logins
      PROVE  /\ state'[m] \in {state[m], "lost", outcome}
             /\ state'[m] = state[m] \/ state'[m] \in {"lost", outcome}
             /\ CrashOnRejection => state'[m] \notin Waiting
  BY DEF Inv, TypeOK, Reject, Crashed, Waiting
<1>3. state' \in [Logins -> States]
  BY <1>2 DEF Inv, TypeOK, Reject, Crashed, States
<1>4. TypeOK'
  BY <1>1, <1>2, <1>3, LoginAssumption DEF Inv, TypeOK
<1>5. SavedRows'
  BY <1>1, <1>2 DEF Inv, TypeOK, SavedRows, Waiting
<1>6. QED
  BY <1>4, <1>5 DEF Inv

\* A packet that is taken up, and one that is left alone.
LEMMA ReceiveInv ==
  ASSUME Inv, NEW l \in Logins,
         \/ ReceiveOther(l)
         \/ ReceiveInvalid(l)
         \/ \E c \in Customers, key \in Keys : ReceiveLogin(l, c, key)
  PROVE  Inv'
<1>1. CASE ReceiveOther(l)
  <2>1. TypeOK'
    BY <1>1 DEF Inv, TypeOK, ReceiveOther, States, Waiting
  <2>2. SavedRows'
    BY <1>1 DEF Inv, TypeOK, SavedRows, ReceiveOther, Waiting
  <2>3. QED
    BY <2>1, <2>2 DEF Inv
<1>2. CASE ReceiveInvalid(l)
  BY <1>2, RejectInv DEF ReceiveInvalid
<1>3. CASE \E c \in Customers, key \in Keys : ReceiveLogin(l, c, key)
  <2>1. PICK c \in Customers, key \in Keys : ReceiveLogin(l, c, key)
    BY <1>3
  <2>2. /\ l \notin saved /\ packet'[l] \in Packets
        /\ \A m \in Logins : m # l => packet'[m] = packet[m] /\ state'[m] = state[m]
    BY <2>1 DEF Inv, TypeOK, SavedRows, ReceiveLogin, Packets
  <2>3. TypeOK'
    BY <2>1 DEF Inv, TypeOK, ReceiveLogin, States, Packets
  <2>4. SavedRows'
    BY <2>1, <2>2 DEF Inv, TypeOK, SavedRows, ReceiveLogin, Waiting
  <2>5. QED
    BY <2>3, <2>4 DEF Inv
<1>4. QED
  BY <1>1, <1>2, <1>3

\* SQLite inserts only where there is no row: it breaks nobody else's row.
LEMMA InsertInv ==
  ASSUME Inv, NEW l \in Logins, InsertRow(l)
  PROVE  Inv'
<1> DEFINE c == packet[l].customer
           key == packet[l].key
<1>1. /\ packet[l] \in Packets /\ c \in Customers /\ key \in Keys
      /\ state[l] = "inserting" /\ l \notin saved /\ sessions[c] = None
  BY DEF Inv, SavedRows, Waiting, InsertRow, Insert, Accepts, Packets
<1>2. /\ sessions' = [sessions EXCEPT ![c] = key]
      /\ state' = [state EXCEPT ![l] = "inserted"]
      /\ saved' = saved \cup {l} /\ packet' = packet /\ up' = up /\ up
  BY DEF InsertRow, Insert
<1>3. ASSUME NEW m \in saved
      PROVE  /\ packet[m].customer # c
             /\ sessions'[packet[m].customer] = packet[m].key
  BY <1>1, <1>2, NoRowAssumption
  DEF Inv, TypeOK, SavedRows, Packets, Tables
<1>4. sessions'[c] = key
  BY <1>1, <1>2 DEF Inv, TypeOK, Tables
<1>5. TypeOK'
  BY <1>1, <1>2 DEF Inv, TypeOK, Tables, States
<1>6. SavedRows'
  BY <1>1, <1>2, <1>3, <1>4 DEF Inv, TypeOK, SavedRows, Waiting
<1>7. QED
  BY <1>5, <1>6 DEF Inv

LEMMA NextInv == Inv /\ [Next]_vars => Inv'
<1> SUFFICES ASSUME Inv, [Next]_vars PROVE Inv'
  OBVIOUS
<1>1. ASSUME NEW l \in Logins,
             \/ ReceiveOther(l)
             \/ ReceiveInvalid(l)
             \/ \E c \in Customers, key \in Keys : ReceiveLogin(l, c, key)
      PROVE  Inv'
  BY <1>1, ReceiveInv
<1>2. ASSUME NEW l \in Logins, InsertRow(l)
      PROVE  Inv'
  BY <1>2, InsertInv
<1>3. ASSUME NEW l \in Logins,
             InsertDuplicate(l) \/ InsertFails(l) \/ Answer(l)
      PROVE  Inv'
  <2>1. TypeOK'
    BY <1>3 DEF Inv, TypeOK, InsertDuplicate, InsertFails, Answer, States,
                Waiting
  <2>2. SavedRows'
    BY <1>3 DEF Inv, TypeOK, SavedRows, InsertDuplicate, InsertFails, Answer,
                Waiting
  <2>3. QED
    BY <2>1, <2>2 DEF Inv
<1>4. ASSUME NEW l \in Logins, AnswerOverflows(l) \/ InsertRejected(l)
      PROVE  Inv'
  BY <1>4, RejectInv DEF AnswerOverflows, InsertRejected
<1>5. CASE Crash
  <2>1. \A m \in Logins :
          /\ state'[m] \in {state[m], "lost"}
          /\ state'[m] \notin Waiting
    BY <1>5 DEF Inv, TypeOK, Crash, Crashed, Waiting
  <2>2. TypeOK'
    BY <1>5, <2>1 DEF Inv, TypeOK, Crash, Crashed, States
  <2>3. SavedRows'
    BY <1>5, <2>1 DEF Inv, TypeOK, SavedRows, Crash
  <2>4. QED
    BY <2>2, <2>3 DEF Inv
<1>6. CASE Restart
  BY <1>6 DEF Inv, TypeOK, SavedRows, Restart
<1>7. CASE UNCHANGED vars
  BY <1>7 DEF Inv, TypeOK, SavedRows, vars
<1>8. QED
  BY <1>1, <1>2, <1>3, <1>4, <1>5, <1>6, <1>7 DEF Next

-----------------------------------------------------------------------------
\* The invariant holds in every state of the login server.
THEOREM Safety == Spec => []Inv
BY InitInv, NextInv, PTL DEF Spec

\* The variables keep their types; a process that is down handles nothing.
THEOREM TypeCorrect == Spec => []TypeOK
<1>1. Inv => TypeOK
  BY DEF Inv
<1>2. QED
  BY <1>1, Safety, PTL

\* The key of an answered login is, and stays, the customer's row.
THEOREM AnswersAreDurable == Spec => []AnsweredIsStored
BY InvImplies, Safety, PTL

\* No customer is answered, or stored, for two logins.
THEOREM SingleLogin == Spec => []OneLoginPerCustomer
BY InvImplies, Safety, PTL

\* The login server implements the write-once table.
THEOREM Refinement == Spec => WritesOnce
<1>1. Init => WriteOnceInit
  BY DEF Init, WriteOnceInit
<1>2. ASSUME Inv, [Next]_vars
      PROVE  [WriteOnceNext]_sessions
  <2>1. ASSUME NEW l \in Logins, InsertRow(l)
        PROVE  WriteOnceNext
    <3>1. packet[l].customer \in Customers /\ packet[l].key \in Keys
      BY <1>2, <2>1 DEF Inv, SavedRows, Waiting, InsertRow, Packets
    <3>2. QED
      BY <2>1, <3>1 DEF InsertRow, WriteOnceNext
  <2>2. CASE \A l \in Logins : ~InsertRow(l)
    <3>1. UNCHANGED sessions
      BY <1>2, <2>2
      DEF Next, vars, ReceiveOther, ReceiveInvalid, ReceiveLogin,
          InsertDuplicate, InsertFails, Answer, AnswerOverflows,
          InsertRejected, Crash, Restart
    <3>2. QED
      BY <3>1
  <2>3. QED
    BY <2>1, <2>2
<1>3. QED
  BY <1>1, <1>2, Safety, PTL DEF Spec, WritesOnce, WriteOnceSpec

-----------------------------------------------------------------------------
(* The handlers, with their waits, failures and deaths, implement a service *)
(* that stores a login in one step and tells only what it stored.          *)

\* A handler that throws was waiting, or had not begun: it had not answered.
LEMMA RejectTells ==
  ASSUME Inv, NEW l \in Logins, state[l] # "answered",
         NEW outcome \in {"rejected", "refused"}, Reject(l, outcome)
  PROVE  UNCHANGED <<StoredPackets, Told>>
<1>1. \A m \in Logins : state'[m] = "answered" <=> state[m] = "answered"
  BY DEF Inv, TypeOK, Reject, Crashed, Waiting
<1>2. QED
  BY <1>1 DEF Reject, StoredPackets, Told

\* A step that neither inserts nor answers does not show.
LEMMA ServiceStays ==
  ASSUME Inv, [Next]_vars,
         \A l \in Logins : ~InsertRow(l) /\ ~Answer(l)
  PROVE  UNCHANGED Service!vars
<1> SUFFICES UNCHANGED <<sessions, StoredPackets, Told>>
  BY DEF Service!vars
<1>1. CASE UNCHANGED vars \/ Restart
  BY <1>1 DEF vars, Restart, StoredPackets, Told
<1>2. ASSUME NEW l \in Logins,
             ReceiveInvalid(l) \/ AnswerOverflows(l) \/ InsertRejected(l)
      PROVE  UNCHANGED <<sessions, StoredPackets, Told>>
  BY <1>2, RejectTells DEF ReceiveInvalid, AnswerOverflows, InsertRejected
<1>3. ASSUME NEW l \in Logins, ReceiveOther(l) \/ InsertDuplicate(l) \/ InsertFails(l)
      PROVE  UNCHANGED <<sessions, StoredPackets, Told>>
  BY <1>3 DEF ReceiveOther, InsertDuplicate, InsertFails, StoredPackets, Told,
     Inv, TypeOK
<1>4. ASSUME NEW l \in Logins, NEW c \in Customers, NEW k \in Keys,
             ReceiveLogin(l, c, k)
      PROVE  UNCHANGED <<sessions, StoredPackets, Told>>
  <2>1. l \notin saved /\ state[l] = "unsent"
    BY <1>4 DEF ReceiveLogin, Inv, SavedRows
  <2>2. QED
    BY <1>4, <2>1 DEF ReceiveLogin, StoredPackets, Told, Inv, TypeOK
<1>5. CASE Crash
  <2>1. \A m \in Logins : state'[m] = "answered" <=> state[m] = "answered"
    BY <1>5 DEF Crash, Crashed, Waiting, Inv, TypeOK
  <2>2. QED
    BY <1>5, <2>1 DEF Crash, StoredPackets, Told
<1>6. QED
  BY <1>1, <1>2, <1>3, <1>4, <1>5 DEF Next

LEMMA ServiceStep ==
  ASSUME Inv, [Next]_vars
  PROVE  [Service!Next]_(Service!vars)
<1>1. ASSUME NEW l \in Logins, InsertRow(l)
      PROVE  Service!Next
  <2> DEFINE c == packet[l].customer
             k == packet[l].key
  <2>1. /\ packet[l] \in Packets /\ c \in Customers /\ k \in Keys
        /\ packet[l] = [customer |-> c, key |-> k] /\ l \notin saved
    BY <1>1 DEF InsertRow, Inv, SavedRows, Waiting, Packets
  <2>2. Insert(c, k) /\ packet' = packet /\ saved' = saved \cup {l}
        /\ state' = [state EXCEPT ![l] = "inserted"] /\ state[l] = "inserting"
    BY <1>1 DEF InsertRow
  <2>3. StoredPackets[l] = Service!Nothing
    BY <2>1 DEF StoredPackets, NoPacket, Service!Nothing
  <2>4. StoredPackets' = [StoredPackets EXCEPT ![l] = packet[l]]
    BY <2>2 DEF StoredPackets
  <2>5. Told' = Told
    BY <2>2 DEF Told, Inv, TypeOK
  <2>6. Service!Store(l, c, k)
    BY <2>1, <2>2, <2>3, <2>4, <2>5
    DEF Service!Store, Service!Insert, Service!Accepts, Insert, Accepts
  <2>7. QED
    BY <2>1, <2>6 DEF Service!Next
<1>2. ASSUME NEW l \in Logins, Answer(l)
      PROVE  Service!Next
  <2>1. l \in saved /\ packet[l] \in Packets /\ l \notin Told
    BY <1>2 DEF Answer, Inv, SavedRows, Told
  <2>2. StoredPackets[l] # Service!Nothing
    BY <2>1, NoRowAssumption DEF StoredPackets, Service!Nothing, Packets
  <2>3. Told' = Told \cup {l} /\ UNCHANGED <<sessions, StoredPackets>>
    BY <1>2 DEF Answer, Told, StoredPackets, Inv, TypeOK
  <2>4. QED
    BY <2>1, <2>2, <2>3 DEF Service!Next, Service!Tell
<1>3. QED
  BY <1>1, <1>2, ServiceStays

\* Storing and telling are one step each, whatever goes on in between.
THEOREM LoginServiceRefinement == Spec => ImplementsLoginService
<1>1. Init => Service!Init
  BY DEF Init, Service!Init, Service!Tables, Tables, StoredPackets, Told,
     NoPacket, Service!Nothing
<1>2. QED
  BY <1>1, ServiceStep, Safety, PTL DEF Spec, ImplementsLoginService, Service!Spec

-----------------------------------------------------------------------------
(* When a stored login goes unanswered.                                    *)

\* A login whose row was inserted is about to be answered, or was; otherwise
\* the process ended before that, or its customer's id does not fit the reply.
OnlyOverflowsReject ==
  \A l \in saved :
    \/ state[l] \in {"inserted", "answered", "lost"}
    \/ packet[l].customer \notin SignedCustomers

LEMMA OverflowInit == Init => OnlyOverflowsReject
BY DEF Init, OnlyOverflowsReject

\* A handler that throws after the INSERT took effect has an id that overflows.
LEMMA OverflowReject ==
  ASSUME Inv, OnlyOverflowsReject, NEW l \in Logins,
         l \in saved => packet[l].customer \notin SignedCustomers,
         NEW outcome \in {"rejected", "refused"}, Reject(l, outcome)
  PROVE  OnlyOverflowsReject'
<1>1. /\ packet' = packet /\ saved' = saved
  BY DEF Reject
<1>2. \A m \in Logins \ {l} : state'[m] \in {state[m], "lost"}
  BY DEF Reject, Crashed, Inv, TypeOK
<1>3. QED
  BY <1>1, <1>2 DEF OnlyOverflowsReject, Inv, TypeOK

LEMMA OverflowNext ==
  Inv /\ OnlyOverflowsReject /\ [Next]_vars => OnlyOverflowsReject'
<1> SUFFICES ASSUME Inv, OnlyOverflowsReject, [Next]_vars
             PROVE  OnlyOverflowsReject'
  OBVIOUS
<1>1. ASSUME NEW l \in Logins,
             ReceiveInvalid(l) \/ AnswerOverflows(l) \/ InsertRejected(l)
      PROVE  OnlyOverflowsReject'
  <2>1. l \in saved => packet[l].customer \notin SignedCustomers
    BY <1>1 DEF ReceiveInvalid, AnswerOverflows, InsertRejected, Inv, SavedRows,
       OnlyOverflowsReject
  <2>2. \E outcome \in {"rejected", "refused"} : Reject(l, outcome)
    BY <1>1 DEF ReceiveInvalid, AnswerOverflows, InsertRejected
  <2>3. QED
    BY <2>1, <2>2, OverflowReject
<1>2. ASSUME NEW l \in Logins, NEW c \in Customers, NEW k \in Keys,
             ReceiveLogin(l, c, k)
      PROVE  OnlyOverflowsReject'
  BY <1>2 DEF ReceiveLogin, OnlyOverflowsReject, Inv, TypeOK, SavedRows
<1>3. ASSUME NEW l \in Logins,
             \/ ReceiveOther(l) \/ InsertRow(l) \/ InsertDuplicate(l)
             \/ InsertFails(l) \/ Answer(l)
      PROVE  OnlyOverflowsReject'
  BY <1>3 DEF ReceiveOther, InsertRow, InsertDuplicate, InsertFails, Answer,
     OnlyOverflowsReject, Inv, TypeOK, SavedRows
<1>4. CASE Crash
  <2>1. \A m \in Logins : state'[m] \in {state[m], "lost"}
    BY <1>4 DEF Crash, Crashed, Inv, TypeOK
  <2>2. QED
    BY <1>4, <2>1 DEF Crash, OnlyOverflowsReject, Inv, TypeOK
<1>5. CASE Restart \/ UNCHANGED vars
  BY <1>5 DEF Restart, vars, OnlyOverflowsReject
<1>6. QED
  BY <1>1, <1>2, <1>3, <1>4, <1>5 DEF Next

\* A stored login goes unanswered in two cases only: the process ended, or the
\* id of its customer does not fit.
THEOREM UnansweredLogins == Spec => []OnlyOverflowsReject
BY InitInv, NextInv, OverflowInit, OverflowNext, PTL DEF Spec

\* Were every customer's id one that writeInt32BE accepts, no login whose key
\* was stored would end in an error: the counterexample of that property's run
\* is the overflow, and there is no other.
THEOREM FittingLoginsAreAnswered ==
  SignedCustomers = Customers => (Spec => []StoredLoginIsAnswered)
<1> SUFFICES ASSUME SignedCustomers = Customers PROVE Spec => []StoredLoginIsAnswered
  OBVIOUS
<1>1. Inv /\ OnlyOverflowsReject => StoredLoginIsAnswered
  BY DEF Inv, SavedRows, Packets, OnlyOverflowsReject, StoredLoginIsAnswered
<1>2. QED
  BY <1>1, Safety, UnansweredLogins, PTL
==============================================================================
