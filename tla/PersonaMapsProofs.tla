-------------------------- MODULE PersonaMapsProofs --------------------------
(***************************************************************************)
(* What a client reads of a list of any number of records.                 *)
(***************************************************************************)
EXTENDS PersonaMaps, FiniteSets, TLAPS

\* The bytes of field f a later write leaves alone.
Kept(f) == IF f = "name" THEN 16 ELSE Bytes[f]

\* Within a record the fields are apart, and what is kept of them ends with it.
LEMMA Layout ==
  /\ \A f \in Fields :
       /\ Offset[f] \in Nat /\ Bytes[f] \in Nat /\ Kept(f) \in Nat
       /\ Offset[f] + Kept(f) <= RecordSize /\ Kept(f) <= Bytes[f]
  /\ \A f, g \in Fields :
       f # g => Offset[f] + Kept(f) <= Offset[g] \/ Offset[g] + Bytes[g] <= Offset[f]
BY DEF Fields, Offset, Bytes, Kept, RecordSize

\* What is kept of a record comes through, however many there are and whatever
\* their names run into.
LEMMA KeptComesThrough ==
  ASSUME NEW n \in Nat, NEW i \in 1 .. n, NEW f \in Fields
  PROVE  Legible(n, i, f, Kept(f))
<1> SUFFICES ASSUME NEW q \in From(i, f) .. From(i, f) + Kept(f) - 1
             PROVE  Holds(n, q, i, f)
  BY DEF Legible
<1> DEFINE head == RecordSize * (i - 1)
<1>1. /\ head \in Nat /\ Offset[f] \in Nat /\ Kept(f) \in Nat /\ Bytes[f] \in Nat
      /\ Offset[f] + Kept(f) <= 38 /\ Kept(f) <= Bytes[f]
  BY Layout DEF RecordSize
<1>2. q \in Nat /\ head + Offset[f] <= q /\ q < head + Offset[f] + Kept(f)
  BY <1>1 DEF From
<1>3. q < head + 38
  BY <1>1, <1>2
<1>4. q < RecordSize * n
  <2>1. head + 38 <= RecordSize * n
    BY DEF RecordSize
  <2> QED
    BY <2>1, <1>1, <1>2, <1>3 DEF RecordSize
<1>5. Writes(i, f, q)
  BY <1>1, <1>2 DEF Writes, From
<1>6. ASSUME NEW j \in 1 .. n, NEW g \in Fields, Writes(j, g, q), <<j, g>> # <<i, f>>
      PROVE  Before(j, g, i, f)
  <2>1. Offset[g] \in Nat /\ Bytes[g] \in Nat
    BY Layout
  <2>2. /\ RecordSize * (j - 1) + Offset[g] <= q
        /\ q < RecordSize * (j - 1) + Offset[g] + Bytes[g]
    BY <1>6 DEF Writes, From
  <2>3. CASE j < i
    BY <2>3 DEF Before
  <2>4. CASE j = i
    BY <2>4, <2>2, <2>1, <1>1, <1>2, <1>6, Layout
  <2>5. CASE j > i
    <3>1. RecordSize * (j - 1) >= head + 38
      BY <2>5 DEF RecordSize
    <3>2. RecordSize * (j - 1) \in Nat
      BY DEF RecordSize
    <3> QED
      BY <3>1, <3>2, <2>1, <2>2, <1>1, <1>2, <1>3
  <2> QED
    BY <2>3, <2>4, <2>5
<1> QED
  BY <1>4, <1>5, <1>6 DEF Holds

\* A client reads every field of every record but the name as it was written
\* (nps-persona-maps-msg.ts:112).
THEOREM FieldsComeThrough ==
  ASSUME NEW n \in Nat, NEW i \in 1 .. n, NEW f \in Fields \ {"name"}
  PROVE  Legible(n, i, f, Bytes[f])
BY KeptComesThrough DEF Kept

\* And the first 16 bytes of every name (nps-persona-maps-msg.ts:152).
THEOREM ShortNamesComeThrough ==
  ASSUME NEW n \in Nat, NEW i \in 1 .. n
  PROVE  Legible(n, i, "name", 16)
<1>1. "name" \in Fields /\ Kept("name") = 16
  BY DEF Fields, Kept
<1> QED
  BY <1>1, KeptComesThrough

\* The byte after them is lost, where another record follows
\* (nps-persona-maps-msg.ts:120).
THEOREM LongNamesAreCut ==
  ASSUME NEW n \in Nat, NEW i \in 1 .. n, i # n
  PROVE  ~ Legible(n, i, "name", 17)
<1> DEFINE q == From(i, "name") + 16
<1>1. q = RecordSize * (i - 1) + 38 /\ q \in Nat /\ From(i, "name") \in Nat
  BY DEF From, Offset, RecordSize
<1>2. i + 1 \in 1 .. n
  OBVIOUS
<1>3. Writes(i + 1, "count", q)
  BY <1>1 DEF Writes, From, Offset, Bytes, RecordSize
<1>4. ~ Before(i + 1, "count", i, "name")
  BY DEF Before
<1>5. ~ Holds(n, q, i, "name")
  BY <1>2, <1>3, <1>4 DEF Holds, Fields
<1>6. q \in From(i, "name") .. From(i, "name") + 17 - 1
  BY <1>1
<1> QED
  BY <1>5, <1>6 DEF Legible

\* A client reads the ids of all records (nps-persona-maps-msg.ts:133).
THEOREM IdsReadBack ==
  ASSUME NEW list, Len(list) \in Nat, DOMAIN list = 1 .. Len(list)
  PROVE  ReadIds(list) = {list[i] : i \in DOMAIN list}
<1>1. \A i \in 1 .. Len(list) : Legible(Len(list), i, "id", Bytes["id"])
  BY FieldsComeThrough DEF Fields
<1>2. Bytes.id = Bytes["id"]
  OBVIOUS
<1>3. {j \in DOMAIN list : Legible(Len(list), j, "id", Bytes.id)} = DOMAIN list
  BY <1>1, <1>2
<1> QED
  BY <1>3 DEF ReadIds
=============================================================================
