----------------------------- MODULE PersonaMaps -----------------------------
(***************************************************************************)
(* NPSPersonaMapsMessage.serialize: where the bytes of the persona list    *)
(* come from.  A record is given 38 bytes, but its name is a buffer of 30  *)
(* written at 22, so each name runs 14 bytes into the record after it,     *)
(* which is written later.  The last name is cut off by the buffer's end.  *)
(* The operators marked "wrong on purpose" are for the mutant runs         *)
(* (README, "Mutants").                                                    *)
(***************************************************************************)
EXTENDS Naturals, Sequences

RecordSize == 38

\* The fields in the order they are written.
Fields == {"count", "max", "id", "shard", "nameLength", "name"}

Turn == [count |-> 1, max |-> 2, id |-> 3, shard |-> 4, nameLength |-> 5, name |-> 6]

Offset ==
  [count |-> 0, max |-> 5, id |-> 8, shard |-> 12, nameLength |-> 20, name |-> 22]

Bytes == [count |-> 2, max |-> 1, id |-> 4, shard |-> 4, nameLength |-> 2, name |-> 30]

\* Where record i writes, or would write, its field f.
From(i, f) == RecordSize * (i - 1) + Offset[f]

Writes(i, f, q) == From(i, f) <= q /\ q < From(i, f) + Bytes[f]

\* Wrong on purpose: the record after this one is written first.
LaterRecordFirst(i, f, j, g) == i > j \/ (i = j /\ Turn[f] < Turn[g])

\* Field f of record i is written before field g of record j.
Before(i, f, j, g) == i < j \/ (i = j /\ Turn[f] < Turn[g])

\* Byte q of the list of n records is that of field f of record i.
Holds(n, q, i, f) ==
  /\ q < RecordSize * n
  /\ Writes(i, f, q)
  /\ \A j \in 1 .. n, g \in Fields :
       Writes(j, g, q) => <<j, g>> = <<i, f>> \/ Before(j, g, i, f)

\* The first k bytes of the field come through.
Legible(n, i, f, k) ==
  \A q \in From(i, f) .. From(i, f) + k - 1 : Holds(n, q, i, f)

\* The persona ids a client reads from a list, none where one is overwritten.
ReadIds(list) ==
  {list[i] : i \in {j \in DOMAIN list : Legible(Len(list), j, "id", Bytes.id)}}
=============================================================================
