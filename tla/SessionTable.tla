---------------------------- MODULE SessionTable ----------------------------
(***************************************************************************)
(* The "sessions" table of db/mco.db (database-manager.ts), one row per    *)
(* customer, and the statements the servers run on it.  It is a file: it   *)
(* survives the process, and a new database manager finds the rows of the  *)
(* earlier ones.  SQLite itself is external and is modelled from how       *)
(* database-manager.ts uses it: a statement runs on a worker thread, as a  *)
(* step of its own between the call and the callback.                      *)
(*                                                                         *)
(* A row's skey is the beginning of its sessionkey, so one value stands    *)
(* for both.                                                               *)
(***************************************************************************)
CONSTANTS
  Customers,   \* customer ids
  Keys,        \* session keys
  None         \* no row

ASSUME NoRowAssumption == None \notin Keys /\ None \notin Customers

VARIABLE sessions

Tables == [Customers -> Keys \cup {None}]

NoSessions == [c \in Customers |-> None]

\* SELECT sessionkey, skey FROM sessions WHERE customer_id = ?
Fetched(c) == sessions[c]

\* Wrong on purpose: the table has no primary key (README, "Mutants").
AcceptsAny(c) == TRUE

\* INSERT INTO sessions ...: customer_id is the primary key and the statement
\* says nothing of conflicts, so it is accepted only for a customer without a
\* row.
Accepts(c) == sessions[c] = None

Insert(c, key) ==
  /\ Accepts(c)
  /\ sessions' = [sessions EXCEPT ![c] = key]

-----------------------------------------------------------------------------
(* What the statements amount to: a row, once written, is never changed.   *)

WriteOnceInit == sessions \in Tables

WriteOnceNext == \E c \in Customers, key \in Keys : Insert(c, key)

WriteOnceSpec == WriteOnceInit /\ [][WriteOnceNext]_sessions
=============================================================================
