--------------------------- MODULE ConnectionTable ---------------------------
(***************************************************************************)
(* What SessionManager promises its callers: a table with at most one      *)
(* connection object for an address and port.  While the process lives an  *)
(* entry is neither removed nor replaced, whatever the sockets, the        *)
(* requests and the administrator do; only the end of the process empties  *)
(* the table.                                                              *)
(***************************************************************************)
CONSTANTS Keys, Objects

VARIABLE table      \* a set of <<key, object>> pairs

\* A first connection for the key, with an object no other key has.
Add(key, o) ==
  /\ \A entry \in table : entry[1] # key /\ entry[2] # o
  /\ table' = table \cup {<<key, o>>}

\* The process ends.
Clear == table' = {}

TableInit == table = {}

TableNext == Clear \/ \E key \in Keys, o \in Objects : Add(key, o)

TableSpec == TableInit /\ [][TableNext]_table
=============================================================================
