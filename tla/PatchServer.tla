----------------------------- MODULE PatchServer -----------------------------
(***************************************************************************)
(* PatchServer (port 80): a page of constants for every path it knows.     *)
(* Its arrays are write-only: possibleShards grows by PossibleShards with  *)
(* every request for the list and is never read, and nobody calls the      *)
(* functions of its ban list.                                              *)
(* The operators marked "wrong on purpose" are for the mutant runs         *)
(* (README, "Mutants").                                                    *)
(***************************************************************************)
CONSTANTS
  PossibleShards,   \* the ids of the shards _generateShardList makes
  ActiveShards      \* those it puts on the list

\* Wrong on purpose: the list is possibleShards.
AllShards == PossibleShards

\* The shards on the list, which a client chooses from before its login.
ShardList == ActiveShards

\* /cert and /key read a file, /registry names the server, the three patches
\* say there is nothing to update, anything else is not found.
Pages == {"cert", "key", "registry", "UpdateInfo", "NPS", "MCO", "notFound"}
=============================================================================
