---------------------------- MODULE LoginService ----------------------------
(***************************************************************************)
(* What LoginServer promises: a login stores its key in one step, for a    *)
(* customer that has none, and only then, and once, is it told so.         *)
(* LoginServer waits for SQLite in between, overlaps with other logins,    *)
(* throws and dies; that it keeps the promise is                           *)
(* LoginServer!ImplementsLoginService.  Journey is built on this           *)
(* (Journey!ImplementsServices).                                           *)
(***************************************************************************)
EXTENDS SessionTable

CONSTANT Logins   \* the logins clients send, each handled at most once

VARIABLES
  stored,   \* the customer and the key each login has stored
  told      \* the logins that were told they succeeded

vars == <<sessions, stored, told>>

Nothing == [customer |-> None, key |-> None]

Init ==
  /\ sessions \in Tables
  /\ stored = [l \in Logins |-> Nothing]
  /\ told = {}

\* Login l stores key k for customer c.
Store(l, c, k) ==
  /\ stored[l] = Nothing
  /\ Insert(c, k)
  /\ stored' = [stored EXCEPT ![l] = [customer |-> c, key |-> k]]
  /\ UNCHANGED told

Tell(l) ==
  /\ stored[l] # Nothing
  /\ l \notin told
  /\ told' = told \cup {l}
  /\ UNCHANGED <<sessions, stored>>

Next ==
  \E l \in Logins : (\E c \in Customers, k \in Keys : Store(l, c, k)) \/ Tell(l)

Spec == Init /\ [][Next]_vars
=============================================================================
