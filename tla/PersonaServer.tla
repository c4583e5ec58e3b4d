---------------------------- MODULE PersonaServer ----------------------------
(***************************************************************************)
(* PersonaServer (port 8228) and the list of personas LobbyServer looks    *)
(* requests up in.  The list is built by the constructor and never         *)
(* changes; every server object has one of its own, all alike.             *)
(* The operators marked "wrong on purpose" are for the mutant runs         *)
(* (README, "Mutants").                                                    *)
(***************************************************************************)
CONSTANTS
  Customers,         \* customer ids
  Personas,          \* persona ids, one record each
  PersonaOwner,      \* the customerId of each record
  MappedCustomers    \* the cases of getPersonaMapsByCustomerId

\* Wrong on purpose: the filter lets every record through.
AllPersonas(c) == Personas

\* getPersonasByCustomerId; no match is an error.
PersonasOf(c) == {p \in Personas : PersonaOwner[p] = c}

\* The reply to NPS_GET_PERSONA_MAPS; an empty one is an error.
PersonaMaps(c) == IF c \in MappedCustomers THEN PersonasOf(c) ELSE {}

\* The customer of getPersonasByPersonaId(p)[0].
CustomerOf(p) == PersonaOwner[p]
=============================================================================
