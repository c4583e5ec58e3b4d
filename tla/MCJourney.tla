------------------------------ MODULE MCJourney ------------------------------
\* Journey on the two users LoginServer knows, the three personas
\* PersonaServer knows, the two shards of which PatchServer lists one, and a
\* session key that is too short.
EXTENDS Journey, TLC

CONSTANTS c5551212, cAC010000, cAB010000,   \* customers, the last two by their
                                            \* ids in hexadecimal
          docJoe, drBrown, mortyDr, xD316, x5213, clocktower

ShippedOwner == docJoe :> cAB010000 @@ drBrown :> c5551212 @@ mortyDr :> c5551212

ShippedShard == docJoe :> clocktower @@ drBrown :> clocktower @@ mortyDr :> clocktower

ShippedContext == xD316 :> c5551212 @@ x5213 :> cAC010000

\* Clients and usable keys are alike.
Alike == Permutations(Clients) \cup Permutations(UsableKeys)
==============================================================================
