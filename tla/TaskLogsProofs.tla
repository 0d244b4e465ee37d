--------------------------- MODULE TaskLogsProofs ---------------------------
(***************************************************************************)
(* TaskLogs for any batches, leases, page size and clock: a stored batch   *)
(* is lost only to one of its own lease, and a reading shows everything    *)
(* that was stored when it began and not deleted since.  The argument: the *)
(* lease is part of the key, nothing but a deletion takes an object away,  *)
(* and a page holds every key between the cursor it was asked with and its *)
(* last key.                                                               *)
(***************************************************************************)
EXTENDS TaskLogs, FiniteSetTheorems, WellFoundedInduction, TLAPS

-----------------------------------------------------------------------------
(* The order of the keys.                                                   *)

LEMMA KeyParts ==
  ASSUME LogsAssumption, NEW k \in Key
  PROVE  k[1] \in Nat /\ k[2] \in Nat /\ k = <<k[1], k[2]>>
<1>1. MaxMs \in Nat /\ LeaseIds \subseteq Nat
    BY DEF LogsAssumption
<1>2. k[1] \in 0 .. MaxMs /\ k[2] \in LeaseIds /\ k = <<k[1], k[2]>>
    BY DEF Key
<1> QED BY <1>1, <1>2

LEMMA OrderIsTotal ==
  ASSUME LogsAssumption, NEW j \in Key, NEW k \in Key
  PROVE  /\ Precedes(j, k) \/ j = k \/ Precedes(k, j)
         /\ ~(Precedes(j, k) /\ Precedes(k, j))
         /\ ~Precedes(j, j)
<1>1. j[1] \in Nat /\ j[2] \in Nat /\ k[1] \in Nat /\ k[2] \in Nat
      /\ (j[1] = k[1] /\ j[2] = k[2] => j = k)
    BY KeyParts
<1> QED BY <1>1 DEF Precedes

LEMMA OrderIsTransitive ==
  ASSUME LogsAssumption, NEW i \in Key, NEW j \in Key, NEW k \in Key,
         Precedes(i, j), Precedes(j, k)
  PROVE  Precedes(i, k)
<1>1. /\ i[1] \in Nat /\ i[2] \in Nat /\ j[1] \in Nat /\ j[2] \in Nat
      /\ k[1] \in Nat /\ k[2] \in Nat
    BY KeyParts
<1> QED BY <1>1 DEF Precedes

LEMMA KeysAreFinite == ASSUME LogsAssumption PROVE IsFiniteSet(Key)
<1>1. IsFiniteSet(0 .. MaxMs)
  <2>1. 0 \in Int /\ MaxMs \in Int
      BY DEF LogsAssumption
  <2> QED BY <2>1, FS_Interval
<1> QED BY <1>1, FS_Product DEF Key, LogsAssumption

\* A strict order on finitely many keys has a least element in every set that
\* is not empty.
LEMMA LeastExists ==
  ASSUME LogsAssumption, NEW R \in SUBSET (Key \X Key),
         \A i, j, k \in Key : <<i, j>> \in R /\ <<j, k>> \in R => <<i, k>> \in R,
         \A j \in Key : <<j, j>> \notin R,
         \A j, k \in Key : j = k \/ <<j, k>> \in R \/ <<k, j>> \in R,
         NEW S \in SUBSET Key, S # {}
  PROVE  \E k \in S : \A j \in S : j = k \/ <<k, j>> \in R
<1> DEFINE Below(k) == {j \in S : <<j, k>> \in R}
           SS == {Below(k) : k \in S}
<1>1. SS # {} /\ SS \subseteq FiniteSubsetsOf(Key)
  <2>1. \A X \in SS : X \subseteq Key
      OBVIOUS
  <2>2. \A X \in SS : IsFiniteSet(X)
      BY <2>1, KeysAreFinite, FS_Subset
  <2>3. SS \subseteq FiniteSubsetsOf(Key)
      BY <2>1, <2>2 DEF FiniteSubsetsOf
  <2>4. PICK k \in S : TRUE
      OBVIOUS
  <2>5. Below(k) \in SS
      OBVIOUS
  <2> QED BY <2>3, <2>5
<1>2. IsWellFoundedOn(StrictSubsetOrdering(Key), FiniteSubsetsOf(Key))
    BY FS_StrictSubsetOrderingWellFounded
<1>3. PICK X \in SS : \A Y \in SS : ~(<<Y, X>> \in StrictSubsetOrdering(Key))
    BY <1>1, <1>2, WFMin
<1>4. PICK k \in S : X = Below(k)
    OBVIOUS
<1>5. ASSUME NEW j \in S, j # k, <<k, j>> \notin R PROVE FALSE
  <2>1. <<j, k>> \in R
      BY <1>5
  <2>2. Below(j) \subseteq Below(k)
      BY <2>1
  <2>3. j \in Below(k) /\ j \notin Below(j)
      BY <2>1
  <2>4. <<Below(j), Below(k)>> \in StrictSubsetOrdering(Key)
      BY <2>2, <2>3 DEF StrictSubsetOrdering
  <2> QED BY <1>3, <1>4, <2>4
<1> QED BY <1>5

LEMMA FirstAndLast ==
  ASSUME LogsAssumption, NEW S \in SUBSET Key, S # {}
  PROVE  /\ \E k \in S : \A j \in S : j = k \/ Precedes(k, j)
         /\ \E k \in S : \A j \in S : j = k \/ Precedes(j, k)
<1>1. \E k \in S : \A j \in S : j = k \/ Precedes(k, j)
  <2> DEFINE R == {p \in Key \X Key : Precedes(p[1], p[2])}
  <2>1. \A j, k \in Key : <<j, k>> \in R <=> Precedes(j, k)
      OBVIOUS
  <2>2. \A i, j, k \in Key : <<i, j>> \in R /\ <<j, k>> \in R => <<i, k>> \in R
      BY <2>1, OrderIsTransitive
  <2>3. /\ \A j \in Key : <<j, j>> \notin R
        /\ \A j, k \in Key : j = k \/ <<j, k>> \in R \/ <<k, j>> \in R
      BY <2>1, OrderIsTotal
  <2>4. R \in SUBSET (Key \X Key)
      OBVIOUS
  <2> HIDE DEF R
  <2>5. \E k \in S : \A j \in S : j = k \/ <<k, j>> \in R
      BY <2>2, <2>3, <2>4, LeastExists
  <2> QED BY <2>1, <2>5
<1>2. \E k \in S : \A j \in S : j = k \/ Precedes(j, k)
  <2> DEFINE R == {p \in Key \X Key : Precedes(p[2], p[1])}
  <2>1. \A j, k \in Key : <<j, k>> \in R <=> Precedes(k, j)
      OBVIOUS
  <2>2. \A i, j, k \in Key : <<i, j>> \in R /\ <<j, k>> \in R => <<i, k>> \in R
      BY <2>1, OrderIsTransitive
  <2>3. /\ \A j \in Key : <<j, j>> \notin R
        /\ \A j, k \in Key : j = k \/ <<j, k>> \in R \/ <<k, j>> \in R
      BY <2>1, OrderIsTotal
  <2>4. R \in SUBSET (Key \X Key)
      OBVIOUS
  <2> HIDE DEF R
  <2>5. \E k \in S : \A j \in S : j = k \/ <<k, j>> \in R
      BY <2>2, <2>3, <2>4, LeastExists
  <2> QED BY <2>1, <2>5
<1> QED BY <1>1, <1>2

-----------------------------------------------------------------------------
(* A page of R2's list.                                                     *)

\* A page holds every key up to its last one.
LEMMA PageIsTheRange ==
  ASSUME LogsAssumption, NEW S \in SUBSET Key, S # PageOf(S)
  PROVE  /\ LastOf(PageOf(S)) \in PageOf(S)
         /\ \A k \in S : k \in PageOf(S) \/ Precedes(LastOf(PageOf(S)), k)
<1> DEFINE Ahd(k) == {j \in S : Precedes(j, k)}
           P == PageOf(S)
           last == LastOf(P)
<1>1. P \subseteq S /\ S # {}
    BY DEF PageOf
<1>2. IsFiniteSet(S)
    BY KeysAreFinite, FS_Subset
<1>3. P # {}
  <2>1. PICK k \in S : \A j \in S : j = k \/ Precedes(k, j)
      BY <1>1, FirstAndLast
  <2>2. Ahd(k) = {}
      BY <2>1, OrderIsTotal
  <2>3. Cardinality(Ahd(k)) < PageSize
      BY <2>2, FS_EmptySet DEF LogsAssumption
  <2> QED BY <2>3 DEF PageOf
<1>4. last \in P /\ \A j \in P : j = last \/ Precedes(j, last)
  <2>1. \E k \in P : \A j \in P : j = k \/ Precedes(j, k)
      BY <1>1, <1>3, FirstAndLast
  <2> QED BY <2>1 DEF LastOf
<1>5. ASSUME NEW k \in S, ~Precedes(last, k) PROVE k \in P
  <2>1. k = last \/ Precedes(k, last)
      BY <1>1, <1>4, <1>5, OrderIsTotal
  <2>2. Ahd(k) \subseteq Ahd(last)
      BY <1>1, <1>4, <2>1, OrderIsTransitive
  <2>3. Cardinality(Ahd(k)) <= Cardinality(Ahd(last))
        /\ Cardinality(Ahd(k)) \in Nat /\ Cardinality(Ahd(last)) \in Nat
      BY <1>2, <2>2, FS_Subset, FS_CardinalityType
  <2>4. Cardinality(Ahd(last)) < PageSize
      BY <1>4 DEF PageOf
  <2>5. Cardinality(Ahd(k)) < PageSize
      BY <2>3, <2>4 DEF LogsAssumption
  <2> QED BY <2>5 DEF PageOf
<1> QED BY <1>4, <1>5

-----------------------------------------------------------------------------
(* Steps of those who append.                                               *)

\* Objects and records of batches are only added, so that a reading under way
\* stays as right as it was.
LEMMA ReadingStays ==
  ASSUME LogsAssumption, ReadingTyped, ThereIsStored, ListedSoFar, ReadSoFar,
         UNCHANGED reading, Stored \subseteq Stored',
         \A b \in Batches : saved[b] # None => saved'[b] = saved[b]
  PROVE  ReadingTyped' /\ ThereIsStored' /\ ListedSoFar' /\ ReadSoFar'
<1>1. ReadingTyped' /\ ThereIsStored'
    BY DEF ReadingTyped, ThereIsStored
<1>2. ListedSoFar'
  <2>1. Ahead \subseteq Ahead'
      BY DEF Ahead
  <2> QED BY <2>1 DEF ListedSoFar
<1>3. ReadSoFar'
  <2> SUFFICES ASSUME reading.pc \in {"get", "done"} PROVE ReadSoFar'
      BY DEF ReadSoFar
  <2>1. reading.entries \subseteq Batches
      BY DEF ReadingTyped
  <2>2. \A b \in reading.entries : saved[b] # None /\ saved'[b] = saved[b]
      BY <2>1 DEF ReadSoFar
  <2>3. \A k \in KeysRead \cap reading.there : Taken(k)'
      BY <2>2 DEF ReadSoFar, Taken, LogsAssumption
  <2> QED BY <2>2, <2>3 DEF ReadSoFar, KeysRead
<1> QED BY <1>1, <1>2, <1>3

LEMMA SaveStep ==
  ASSUME LogsAssumption, IInv, NEW u \in uploads, SaveLogs(u)
  PROVE  IInv'
<1> DEFINE key == <<ms, u.lease>>
           record == [key |-> key, lease |-> u.lease]
<1>1. /\ uploads' = uploads \ {u}
      /\ objects' = [k \in Stored \cup {key} |-> IF k = key THEN u.batch ELSE objects[k]]
      /\ saved' = [saved EXCEPT ![u.batch] = record]
      /\ UNCHANGED <<lease, ms, reading, removed>>
    BY DEF SaveLogs, Put
<1>2. u.batch \in Batches /\ u.lease \in LeaseIds /\ key \in Key
    BY DEF IInv, ObjectsTyped, Key
<1>3. record \in [key : Key, lease : LeaseIds] /\ record # None
    BY <1>2 DEF LogsAssumption
<1>4. /\ Stored' = Stored \cup {key}
      /\ \A k \in Stored' : objects'[k] = IF k = key THEN u.batch ELSE objects[k]
    BY <1>1 DEF Stored
<1>5. saved'[u.batch] = record /\ \A b \in Batches : b # u.batch => saved'[b] = saved[b]
    BY <1>1, <1>2 DEF IInv, ObjectsTyped
<1>6. saved[u.batch] = None
    BY DEF IInv, WrittenOnce
<1>7. ObjectsTyped'
  <2>1. objects' \in [Stored' -> Batches]
      BY <1>1, <1>2, <1>4 DEF IInv, ObjectsTyped, Stored
  <2>2. saved' \in [Batches -> [key : Key, lease : LeaseIds] \cup {None}]
      BY <1>1, <1>2, <1>3 DEF IInv, ObjectsTyped
  <2> QED BY <1>1, <1>2, <1>4, <2>1, <2>2 DEF IInv, ObjectsTyped
<1>8. WrittenOnce'
  <2> SUFFICES ASSUME NEW v \in uploads' PROVE saved'[v.batch] = None
      BY <1>1 DEF IInv, WrittenOnce
  <2>1. v \in uploads /\ v # u /\ v.batch \in Batches
      BY <1>1 DEF IInv, ObjectsTyped
  <2> QED BY <1>5, <2>1 DEF IInv, WrittenOnce
<1>9. ObjectsAreSaved'
  <2> SUFFICES ASSUME NEW k \in Stored'
               PROVE  saved'[objects'[k]] # None /\ saved'[objects'[k]].key = k
      BY DEF ObjectsAreSaved
  <2>1. CASE k = key
      BY <1>3, <1>4, <1>5, <2>1
  <2>2. CASE k # key
    <3>1. k \in Stored /\ objects'[k] = objects[k] /\ objects[k] \in Batches
        BY <1>4, <2>2 DEF IInv, ObjectsTyped
    <3>2. saved[objects[k]] # None /\ saved[objects[k]].key = k
        BY <3>1 DEF IInv, ObjectsAreSaved
    <3> QED BY <1>5, <1>6, <3>1, <3>2
  <2> QED BY <2>1, <2>2
<1>10. SavedAreStored'
  <2>1. record.key = key /\ record.lease = key[2]
      OBVIOUS
  <2>2. removed \subseteq Batches /\ removed' = removed
      BY <1>1 DEF IInv, ObjectsTyped
  <2> QED BY <1>4, <1>5, <1>6, <2>1, <2>2 DEF IInv, SavedAreStored
<1>11. ReadingTyped' /\ ThereIsStored' /\ ListedSoFar' /\ ReadSoFar'
    BY <1>1, <1>4, <1>5, <1>6, ReadingStays DEF IInv
<1> QED BY <1>7, <1>8, <1>9, <1>10, <1>11 DEF IInv

\* Steps that store nothing and read nothing.
LEMMA OtherStep ==
  ASSUME LogsAssumption, IInv,
         UNCHANGED <<objects, reading, saved, removed>>, ms' \in 0 .. MaxMs,
         uploads' \subseteq [batch : Batches, lease : LeaseIds], WrittenOnce'
  PROVE  IInv'
<1>1. ObjectsTyped' /\ ObjectsAreSaved' /\ SavedAreStored'
    BY DEF IInv, ObjectsTyped, ObjectsAreSaved, SavedAreStored, Stored
<1>2. ReadingTyped' /\ ThereIsStored' /\ ListedSoFar' /\ ReadSoFar'
    BY ReadingStays DEF IInv, Stored
<1> QED BY <1>1, <1>2 DEF IInv

\* A deletion takes the object from those a reading under way must show.
LEMMA RemoveStep ==
  ASSUME LogsAssumption, IInv, NEW k \in Stored, Remove(k)
  PROVE  IInv'
<1>1. /\ objects' = [j \in Stored \ {k} |-> objects[j]]
      /\ removed' = removed \cup {objects[k]}
      /\ reading' = [reading EXCEPT !.there = @ \ {k}]
      /\ UNCHANGED <<ms, uploads, saved>>
    BY DEF Remove
<1>2. /\ Stored' = Stored \ {k} /\ \A j \in Stored' : objects'[j] = objects[j]
      /\ objects[k] \in Batches
    BY <1>1 DEF IInv, ObjectsTyped, Stored
<1>3. /\ reading'.pc = reading.pc /\ reading'.keys = reading.keys
      /\ reading'.cursor = reading.cursor /\ reading'.todo = reading.todo
      /\ reading'.entries = reading.entries /\ reading'.invalid = reading.invalid
      /\ reading'.there = reading.there \ {k}
    BY <1>1 DEF IInv, ReadingTyped
<1>4. ObjectsTyped'
    BY <1>1, <1>2 DEF IInv, ObjectsTyped, Stored
<1>5. WrittenOnce' /\ ObjectsAreSaved'
    BY <1>1, <1>2 DEF IInv, WrittenOnce, ObjectsAreSaved
<1>6. SavedAreStored'
  <2>1. saved[objects[k]] # None /\ saved[objects[k]].key = k
      BY DEF IInv, ObjectsAreSaved
  <2> QED BY <1>1, <1>2, <2>1 DEF IInv, SavedAreStored
<1>7. ReadingTyped' /\ ThereIsStored'
    BY <1>1, <1>2, <1>3 DEF IInv, ReadingTyped, ThereIsStored
<1>8. ListedSoFar'
  <2>1. Ahead \ {k} \subseteq Ahead'
      BY <1>2, <1>3 DEF Ahead
  <2> QED BY <1>3, <2>1 DEF IInv, ListedSoFar
<1>9. ReadSoFar'
  <2>1. KeysRead' = KeysRead
      BY <1>3 DEF KeysRead
  <2>2. \A j : Taken(j)' <=> Taken(j)
      BY <1>1, <1>3 DEF Taken
  <2> QED BY <1>1, <1>3, <2>1, <2>2 DEF IInv, ReadSoFar
<1> QED BY <1>4, <1>5, <1>6, <1>7, <1>8, <1>9 DEF IInv

-----------------------------------------------------------------------------
(* Steps of a reading.                                                      *)

\* It changes nothing but itself.
LEMMA ReaderStep ==
  ASSUME IInv, UNCHANGED <<ms, uploads, objects, saved, removed>>,
         ReadingTyped', ThereIsStored', ListedSoFar', ReadSoFar'
  PROVE  IInv'
    BY DEF IInv, ObjectsTyped, WrittenOnce, ObjectsAreSaved, SavedAreStored, Stored

LEMMA ListPageStep == ASSUME LogsAssumption, IInv, ListPage PROVE IInv'
<1> DEFINE page == PageOf(Ahead)
           keys == reading.keys \cup page
<1>1. /\ reading.pc = "list"
      /\ reading' = IF page = Ahead
                    THEN [reading EXCEPT !.keys = keys, !.pc = "get", !.todo = keys]
                    ELSE [reading EXCEPT !.keys = keys, !.cursor = LastOf(page)]
      /\ UNCHANGED <<ms, uploads, objects, saved, removed>>
    BY DEF ListPage
<1>2. Ahead \subseteq Stored /\ Stored \subseteq Key /\ page \subseteq Ahead
    BY DEF Ahead, PageOf, IInv, ObjectsTyped
<1>3. /\ reading.there \subseteq Stored
      /\ reading.there \subseteq reading.keys \cup Ahead
      /\ reading.entries = {} /\ reading.invalid = 0
    BY <1>1 DEF IInv, ListedSoFar, ThereIsStored
<1>4. CASE page = Ahead
  <2>1. reading' = [reading EXCEPT !.keys = keys, !.pc = "get", !.todo = keys]
      BY <1>1, <1>4
  <2>2. ReadingTyped'
      BY <1>2, <1>3, <2>1 DEF IInv, ReadingTyped
  <2>3. /\ reading'.keys = keys /\ reading'.todo = keys /\ reading'.pc = "get"
        /\ reading'.there = reading.there /\ reading'.entries = {} /\ reading'.invalid = 0
      BY <1>3, <2>1 DEF IInv, ReadingTyped
  <2>4. ListedSoFar'
      BY <2>3 DEF ListedSoFar
  <2>5. KeysRead' = {}
      BY <2>3 DEF KeysRead
  <2>6. Stored' = Stored
      BY <1>1 DEF Stored
  <2>7. ReadSoFar'
      BY <1>2, <1>3, <1>4, <2>3, <2>5, FS_EmptySet DEF ReadSoFar
  <2>8. ThereIsStored'
      BY <1>3, <2>3, <2>6 DEF ThereIsStored
  <2> QED BY <1>1, <2>2, <2>4, <2>7, <2>8, ReaderStep
<1>5. CASE page # Ahead
  <2>1. reading' = [reading EXCEPT !.keys = keys, !.cursor = LastOf(page)]
      BY <1>1, <1>5
  <2>2. LastOf(page) \in page /\ \A k \in Ahead : k \in page \/ Precedes(LastOf(page), k)
      BY <1>2, <1>5, PageIsTheRange
  <2>3. ReadingTyped'
      BY <1>2, <1>3, <2>1, <2>2 DEF IInv, ReadingTyped
  <2>4. /\ reading'.keys = keys /\ reading'.cursor = LastOf(page) /\ reading'.pc = "list"
        /\ reading'.there = reading.there /\ reading'.entries = {} /\ reading'.invalid = 0
      BY <1>1, <1>3, <2>1 DEF IInv, ReadingTyped
  <2>5. Stored' = Stored
      BY <1>1 DEF Stored
  <2>6. reading'.there \subseteq reading'.keys \cup Ahead'
    <3> SUFFICES ASSUME NEW k \in reading.there, k \notin keys PROVE k \in Ahead'
        BY <2>4
    <3>1. k \in Ahead /\ k \notin page
        BY <1>3
    <3> QED BY <1>2, <2>2, <2>4, <2>5, <3>1 DEF Ahead
  <2>7. ListedSoFar'
      BY <1>2, <1>3, <2>4, <2>5, <2>6 DEF ListedSoFar
  <2>8. ReadSoFar'
      BY <2>4 DEF ReadSoFar
  <2>9. ThereIsStored'
      BY <1>3, <2>4, <2>5 DEF ThereIsStored
  <2> QED BY <1>1, <2>3, <2>7, <2>8, <2>9, ReaderStep
<1> QED BY <1>4, <1>5

LEMMA GetObjectStep ==
  ASSUME LogsAssumption, IInv, NEW k \in reading.todo, GetObject(k)
  PROVE  IInv'
<1> DEFINE b == objects[k]
           todo == reading.todo \ {k}
           Skipped == k \notin Stored \/ b \in Malformed
<1>1. /\ reading.pc = "get" /\ UNCHANGED <<ms, uploads, objects, saved, removed>>
      /\ reading' = IF Skipped
                    THEN [reading EXCEPT !.todo = todo, !.invalid = @ + 1]
                    ELSE [reading EXCEPT !.todo = todo, !.entries = @ \cup {b}]
    BY DEF GetObject
<1>2. /\ reading.there \subseteq reading.keys
      /\ reading.todo \subseteq reading.keys
      /\ \A j \in KeysRead \cap reading.there : Taken(j)
      /\ \A c \in reading.entries : saved[c] # None /\ saved[c].key \in KeysRead
      /\ reading.invalid + Cardinality(reading.entries) = Cardinality(KeysRead)
    BY <1>1 DEF IInv, ReadSoFar
<1>3. k \in Stored => b \in Batches /\ saved[b] # None /\ saved[b].key = k
    BY <1>2 DEF IInv, ObjectsTyped, ObjectsAreSaved
<1>4. k \notin KeysRead /\ (k \in Stored => b \notin reading.entries)
    BY <1>2, <1>3 DEF KeysRead
<1>5. IsFiniteSet(KeysRead) /\ Cardinality(KeysRead) \in Nat
    BY KeysAreFinite, FS_Subset, FS_CardinalityType DEF KeysRead, IInv, ReadingTyped
<1>6. Cardinality(KeysRead \cup {k}) = Cardinality(KeysRead) + 1
    BY <1>4, <1>5, FS_AddElement
<1>7. reading.invalid \in Nat
    BY DEF IInv, ReadingTyped
<1>8. /\ reading'.keys = reading.keys /\ reading'.todo = todo /\ reading'.pc = "get"
      /\ reading'.there = reading.there
      /\ Skipped => reading'.invalid = reading.invalid + 1
                    /\ reading'.entries = reading.entries
      /\ ~Skipped => reading'.invalid = reading.invalid
                     /\ reading'.entries = reading.entries \cup {b}
    BY <1>1 DEF IInv, ReadingTyped
<1>9. KeysRead' = KeysRead \cup {k}
    BY <1>2, <1>8 DEF KeysRead
<1>10. ReadingTyped'
  <2>1. /\ todo \in SUBSET Key /\ reading.invalid + 1 \in Nat
        /\ ~Skipped => reading.entries \cup {b} \in SUBSET Batches
      BY <1>3, <1>7 DEF IInv, ReadingTyped
  <2>2. CASE Skipped
    <3>1. reading' = [reading EXCEPT !.todo = todo, !.invalid = reading.invalid + 1]
        BY <1>1, <2>2
    <3>2. todo \in SUBSET Key /\ reading.invalid + 1 \in Nat
        BY <2>1
    <3> HIDE DEF todo, b, Skipped
    <3> QED BY <3>1, <3>2 DEF IInv, ReadingTyped
  <2>3. CASE ~Skipped
    <3>1. reading' = [reading EXCEPT !.todo = todo, !.entries = reading.entries \cup {b}]
        BY <1>1, <2>3
    <3>2. todo \in SUBSET Key /\ reading.entries \cup {b} \in SUBSET Batches
        BY <2>1, <2>3
    <3> HIDE DEF todo, b, Skipped
    <3> QED BY <3>1, <3>2 DEF IInv, ReadingTyped
  <2> QED BY <2>2, <2>3
<1>11. \A j \in KeysRead' \cap reading'.there : Taken(j)'
  <2>1. ASSUME NEW j \in KeysRead \cap reading.there PROVE Taken(j)'
      BY <1>1, <1>2, <1>7, <1>8 DEF Taken
  <2>2. ASSUME k \in reading.there PROVE Taken(k)'
    <3>1. k \in Stored
        BY <2>2 DEF IInv, ThereIsStored
    <3>2. CASE b \in Malformed
        BY <1>1, <1>3, <1>7, <1>8, <3>1, <3>2 DEF Taken
    <3>3. CASE b \notin Malformed
        BY <1>1, <1>3, <1>8, <3>1, <3>3 DEF Taken
    <3> QED BY <3>2, <3>3
  <2> QED BY <1>8, <1>9, <2>1, <2>2
<1>12. \A c \in reading'.entries : saved'[c] # None /\ saved'[c].key \in KeysRead'
    BY <1>1, <1>2, <1>3, <1>8, <1>9
<1>13. IsFiniteSet(reading.entries) /\ Cardinality(reading.entries) \in Nat
    BY <1>1, FS_CardinalityType DEF IInv, ReadSoFar
<1>14. reading'.invalid + Cardinality(reading'.entries) = Cardinality(KeysRead')
  <2>1. CASE Skipped
      BY <1>2, <1>5, <1>6, <1>7, <1>8, <1>9, <1>13, <2>1
  <2>2. CASE ~Skipped
    <3>1. Cardinality(reading.entries \cup {b}) = Cardinality(reading.entries) + 1
        BY <1>4, <1>13, <2>2, FS_AddElement
    <3>2. Cardinality(reading'.entries) = Cardinality(reading.entries) + 1
          /\ reading'.invalid = reading.invalid
        BY <1>8, <2>2, <3>1
    <3>3. Cardinality(KeysRead') = Cardinality(KeysRead) + 1
        BY <1>6, <1>9
    <3> QED BY <1>2, <1>5, <1>7, <1>13, <3>2, <3>3
  <2> QED BY <2>1, <2>2
<1>15. ListedSoFar'
    BY <1>8 DEF ListedSoFar
<1>16. Stored' = Stored
    BY <1>1 DEF Stored
<1>17. IsFiniteSet(reading'.entries)
  <2>1. IsFiniteSet(reading.entries \cup {b})
      BY <1>13, FS_AddElement
  <2> QED BY <1>8, <1>13, <2>1
<1>18. ReadSoFar'
    BY <1>2, <1>8, <1>11, <1>12, <1>14, <1>17 DEF ReadSoFar
<1>19. ThereIsStored'
    BY <1>8, <1>16 DEF IInv, ThereIsStored
<1> QED BY <1>1, <1>10, <1>15, <1>18, <1>19, ReaderStep

-----------------------------------------------------------------------------
(* The invariant, and what it is for.                                       *)

LEMMA Initially == ASSUME LogsAssumption, Init PROVE IInv
<1>1. /\ ms = 0 /\ uploads = {} /\ objects = [k \in {} |-> None]
      /\ reading = NoReading /\ saved = [b \in Batches |-> None] /\ removed = {}
    BY DEF Init
<1>2. Stored = {}
    BY <1>1 DEF Stored
<1>3. ObjectsTyped
    BY <1>1, <1>2 DEF ObjectsTyped, LogsAssumption
<1>4. ReadingTyped /\ ThereIsStored
    BY <1>1 DEF ReadingTyped, ThereIsStored, NoReading
<1>5. reading.pc = "idle"
    BY <1>1 DEF NoReading
<1> QED BY <1>1, <1>2, <1>3, <1>4, <1>5
       DEF IInv, WrittenOnce, ObjectsAreSaved, SavedAreStored, ListedSoFar, ReadSoFar

LEMMA BeginReadingStep == ASSUME IInv, BeginReading PROVE IInv'
<1>1. /\ reading' = [NoReading EXCEPT !.pc = "list", !.there = Stored]
      /\ UNCHANGED <<ms, uploads, objects, saved, removed>>
    BY DEF BeginReading
<1>2. /\ reading'.pc = "list" /\ reading'.keys = {} /\ reading'.cursor = None
      /\ reading'.there = Stored /\ reading'.entries = {} /\ reading'.invalid = 0
    BY <1>1 DEF NoReading
<1>3. ReadingTyped'
  <2>1. Stored \in SUBSET Key
      BY DEF IInv, ObjectsTyped
  <2> HIDE DEF Stored
  <2> QED BY <1>1, <2>1 DEF ReadingTyped, NoReading
<1>4. Stored' = Stored
    BY <1>1 DEF Stored
<1>5. ListedSoFar'
    BY <1>2, <1>4 DEF ListedSoFar, Ahead
<1>6. ReadSoFar' /\ ThereIsStored'
    BY <1>2, <1>4 DEF ReadSoFar, ThereIsStored
<1> QED BY <1>1, <1>3, <1>5, <1>6, ReaderStep

LEMMA AnswerStep == ASSUME IInv, Answer PROVE IInv'
<1>1. /\ reading.pc = "get" /\ reading.todo = {}
      /\ reading' = [reading EXCEPT !.pc = "done"]
      /\ UNCHANGED <<ms, uploads, objects, saved, removed>>
    BY DEF Answer
<1>2. ReadingTyped'
    BY <1>1 DEF IInv, ReadingTyped
<1>3. /\ reading'.pc = "done" /\ reading'.keys = reading.keys /\ reading'.todo = {}
      /\ reading'.there = reading.there /\ reading'.entries = reading.entries
      /\ reading'.invalid = reading.invalid
    BY <1>1 DEF IInv, ReadingTyped
<1>4. ListedSoFar'
    BY <1>3 DEF ListedSoFar
<1>5. KeysRead' = KeysRead /\ Stored' = Stored
    BY <1>1, <1>3 DEF KeysRead, Stored
<1>6. \A k \in KeysRead' \cap reading'.there : Taken(k)'
    BY <1>1, <1>3, <1>5 DEF IInv, ReadSoFar, Taken
<1>7. ReadSoFar' /\ ThereIsStored'
    BY <1>1, <1>3, <1>5, <1>6 DEF IInv, ReadSoFar, ThereIsStored
<1> QED BY <1>1, <1>2, <1>4, <1>7, ReaderStep

LEMMA ReadingFailsStep == ASSUME IInv, ReadingFails PROVE IInv'
<1>1. reading' = NoReading /\ UNCHANGED <<ms, uploads, objects, saved, removed>>
    BY DEF ReadingFails
<1>2. ReadingTyped'
    BY <1>1 DEF ReadingTyped, NoReading
<1>3. ListedSoFar' /\ ReadSoFar' /\ ThereIsStored'
    BY <1>1 DEF ListedSoFar, ReadSoFar, ThereIsStored, NoReading
<1> QED BY <1>1, <1>2, <1>3, ReaderStep

LEMMA AppendLogsStep ==
  ASSUME LogsAssumption, IInv, NEW b \in Batches, NEW l \in LeaseIds, AppendLogs(b, l)
  PROVE  IInv'
<1>1. /\ saved[b] = None /\ \A u \in uploads : u.batch # b
      /\ uploads' = uploads \cup {[batch |-> b, lease |-> l]}
      /\ UNCHANGED <<ms, objects, reading, saved, removed>>
    BY DEF AppendLogs
<1>2. uploads' \subseteq [batch : Batches, lease : LeaseIds] /\ ms' \in 0 .. MaxMs
    BY <1>1 DEF IInv, ObjectsTyped
<1>3. WrittenOnce'
    BY <1>1 DEF IInv, WrittenOnce
<1> QED BY <1>1, <1>2, <1>3, OtherStep

LEMMA QuietStep ==
  ASSUME LogsAssumption, IInv, UNCHANGED <<objects, reading, saved, removed>>,
         uploads' \subseteq uploads, ms' \in 0 .. MaxMs
  PROVE  IInv'
<1>1. WrittenOnce'
    BY DEF IInv, WrittenOnce
<1>2. uploads' \subseteq [batch : Batches, lease : LeaseIds]
    BY DEF IInv, ObjectsTyped
<1> QED BY <1>1, <1>2, OtherStep

\* Every step keeps it.
LEMMA Stepwise == ASSUME LogsAssumption, IInv, [Next]_vars PROVE IInv'
<1>1. ms \in 0 .. MaxMs
    BY DEF IInv, ObjectsTyped
<1>2. ASSUME ClaimAgain PROVE IInv'
    BY <1>1, <1>2, QuietStep DEF ClaimAgain
<1>3. ASSUME NEW b \in Batches, NEW l \in LeaseIds, AppendLogs(b, l) PROVE IInv'
    BY <1>3, AppendLogsStep
<1>4. ASSUME NEW u \in uploads, SaveLogs(u) PROVE IInv'
    BY <1>4, SaveStep
<1>5. ASSUME NEW u \in uploads, SaveFails(u) PROVE IInv'
    BY <1>1, <1>5, QuietStep DEF SaveFails
<1>6. ASSUME Tick PROVE IInv'
  <2>1. ms + 1 \in 0 .. MaxMs
      BY <1>1, <1>6 DEF Tick, LogsAssumption
  <2> QED BY <1>6, <2>1, QuietStep DEF Tick
<1>7. ASSUME BeginReading PROVE IInv'
    BY <1>7, BeginReadingStep
<1>8. ASSUME ListPage PROVE IInv'
    BY <1>8, ListPageStep
<1>9. ASSUME Answer PROVE IInv'
    BY <1>9, AnswerStep
<1>10. ASSUME ReadingFails PROVE IInv'
    BY <1>10, ReadingFailsStep
<1>11. ASSUME NEW k \in reading.todo, GetObject(k) PROVE IInv'
    BY <1>11, GetObjectStep
<1>12. ASSUME NEW k \in Stored, Remove(k) PROVE IInv'
    BY <1>12, RemoveStep
<1>13. CASE UNCHANGED vars
    BY <1>1, <1>13, QuietStep DEF vars
<1> QED BY <1>2, <1>3, <1>4, <1>5, <1>6, <1>7, <1>8, <1>9, <1>10, <1>11, <1>12, <1>13
        DEF Next

\* The objects, the record of what was written and the reading under way agree
\* at every moment of saveLogs and getTaskLogs.
THEOREM Invariance == ASSUME LogsAssumption PROVE Spec => []IInv
<1>1. Init => IInv
    BY Initially
<1>2. IInv /\ [Next]_vars => IInv'
    BY Stepwise
<1> QED BY <1>1, <1>2, PTL DEF Spec

\* The task has a first lease, a claim takes the next one, and a reading lists
\* all keys before it reads one.
LEMMA BeforeReadingHolds == ASSUME LogsAssumption PROVE Spec => []BeforeReading
<1>1. ASSUME Init PROVE BeforeReading
  <2> DEFINE S == {0} \X LeaseIds
  <2>1. S \in SUBSET Key /\ S # {}
    <3>1. 0 \in 0 .. MaxMs
        BY DEF LogsAssumption
    <3>2. PICK l \in LeaseIds : TRUE
        BY DEF LogsAssumption
    <3>3. <<0, l>> \in S
        OBVIOUS
    <3> QED BY <3>1, <3>3 DEF Key
  <2>2. PICK k \in S : \A j \in S : j = k \/ Precedes(k, j)
    <3> HIDE DEF S
    <3> QED BY <2>1, FirstAndLast
  <2>3. k[1] = 0 /\ k[2] \in LeaseIds /\ k = <<0, k[2]>>
      BY <2>2
  <2>4. ASSUME NEW l \in LeaseIds PROVE k[2] <= l
    <3>1. <<0, l>> \in S /\ l \in Nat /\ k[2] \in Nat
        BY <2>3 DEF LogsAssumption
    <3> DEFINE j == <<0, l>>
    <3>2. j = k \/ Precedes(k, j)
        BY <2>2, <3>1
    <3>3. j[1] = 0 /\ j[2] = l
        OBVIOUS
    <3> HIDE DEF j
    <3> QED BY <2>3, <3>1, <3>2, <3>3 DEF Precedes
  <2>5. lease \in LeaseIds
      BY <1>1, <2>3, <2>4 DEF Init
  <2> QED BY <1>1, <2>5 DEF Init, NoReading, BeforeReading
<1>2. ASSUME IInv, BeforeReading, [Next]_vars PROVE BeforeReading'
  <2>1. lease' \in LeaseIds
    <3>1. lease' = lease \/ lease' \in LeaseIds
        BY <1>2 DEF Next, vars, ClaimAgain, AppendLogs, SaveLogs, Put, SaveFails,
                    Tick, BeginReading, ListPage, GetObject, Answer, ReadingFails,
                    Remove
    <3> QED BY <1>2, <3>1 DEF BeforeReading
  <2>2. /\ ReadingTyped
        /\ reading.pc \in {"idle", "list"} => reading.todo = {} /\ reading.invalid = 0
      BY <1>2 DEF IInv, BeforeReading
  <2> DEFINE Begun == reading.pc \in {"idle", "list"} => reading.todo = {} /\ reading.invalid = 0
  <2> SUFFICES Begun'
      BY <2>1 DEF BeforeReading
  <2>3. CASE BeginReading
    <3>1. reading'.todo = {} /\ reading'.invalid = 0
        BY <2>3 DEF BeginReading, NoReading
    <3> QED BY <3>1
  <2>4. CASE ListPage
    <3> DEFINE page == PageOf(Ahead)
               keys == reading.keys \cup page
               listed == [reading EXCEPT !.keys = keys, !.pc = "get", !.todo = keys]
               more == [reading EXCEPT !.keys = keys, !.cursor = LastOf(page)]
    <3>1. reading.pc = "list" /\ (reading' = listed \/ reading' = more)
        BY <2>4 DEF ListPage
    <3>2. /\ listed.pc = "get"
          /\ more.todo = reading.todo /\ more.invalid = reading.invalid
        BY <2>2 DEF ReadingTyped
    <3> HIDE DEF listed, more
    <3> QED BY <2>2, <3>1, <3>2
  <2>5. CASE Answer
    <3>1. reading'.pc = "done"
        BY <2>2, <2>5 DEF Answer, ReadingTyped
    <3> QED BY <3>1
  <2>6. CASE ReadingFails
    <3>1. reading'.todo = {} /\ reading'.invalid = 0
        BY <2>6 DEF ReadingFails, NoReading
    <3> QED BY <3>1
  <2>7. ASSUME NEW k \in reading.todo, GetObject(k) PROVE Begun'
    <3>1. reading.pc = "get" /\ reading'.pc = reading.pc
        BY <2>2, <2>7 DEF GetObject, ReadingTyped
    <3> QED BY <3>1
  <2>8. CASE UNCHANGED reading
      BY <2>2, <2>8
  <2>9. ASSUME NEW k \in Stored, Remove(k) PROVE Begun'
    <3>1. /\ reading'.pc = reading.pc /\ reading'.todo = reading.todo
          /\ reading'.invalid = reading.invalid
        BY <2>2, <2>9 DEF Remove, ReadingTyped
    <3> QED BY <2>2, <3>1
  <2>10. \/ BeginReading \/ ListPage \/ Answer \/ ReadingFails
         \/ \E k \in reading.todo : GetObject(k)
         \/ \E k \in Stored : Remove(k)
         \/ UNCHANGED reading
      BY <1>2 DEF Next, vars, ClaimAgain, Tick, AppendLogs, SaveLogs, Put, SaveFails
  <2> QED BY <2>3, <2>4, <2>5, <2>6, <2>7, <2>8, <2>9, <2>10
<1> QED BY <1>1, <1>2, Invariance, PTL DEF Spec

\* Every variable holds a value of its type; no more objects are counted as
\* invalid than there are keys.
THEOREM TypeCorrectness == ASSUME LogsAssumption PROVE Spec => []TypeOK
<1>1. ASSUME IInv, BeforeReading PROVE TypeOK
  <2>1. reading.todo \subseteq reading.keys
      BY <1>1 DEF IInv, ReadingTyped, ReadSoFar, BeforeReading
  <2>2. Cardinality(Key) \in Nat
      BY KeysAreFinite, FS_CardinalityType
  <2>3. reading.invalid \in 0 .. Cardinality(Key)
    <3>1. CASE reading.pc \in {"idle", "list"}
        BY <1>1, <2>2, <3>1 DEF BeforeReading
    <3>2. CASE reading.pc \in {"get", "done"}
      <4>1. KeysRead \subseteq Key
          BY <1>1 DEF KeysRead, IInv, ReadingTyped
      <4>2. Cardinality(KeysRead) <= Cardinality(Key)
          BY <4>1, KeysAreFinite, FS_Subset
      <4>3. /\ Cardinality(reading.entries) \in Nat /\ Cardinality(KeysRead) \in Nat
            /\ reading.invalid + Cardinality(reading.entries) = Cardinality(KeysRead)
        <5>1. IsFiniteSet(KeysRead) /\ IsFiniteSet(reading.entries)
            BY <1>1, <3>2, <4>1, KeysAreFinite, FS_Subset DEF IInv, ReadSoFar
        <5> QED BY <1>1, <3>2, <5>1, FS_CardinalityType DEF IInv, ReadSoFar
      <4>4. reading.invalid \in Nat
          BY <1>1 DEF IInv, ReadingTyped
      <4> QED BY <2>2, <4>2, <4>3, <4>4
    <3> QED BY <1>1, <3>1, <3>2 DEF IInv, ReadingTyped
  <2>4. lease \in LeaseIds /\ ObjectsTyped /\ ReadingTyped
      BY <1>1 DEF IInv, BeforeReading
  <2> QED BY <2>1, <2>3, <2>4 DEF TypeOK, ObjectsTyped, ReadingTyped
<1> QED BY <1>1, Invariance, BeforeReadingHolds, PTL

\* Logs that were stored are lost only to a batch of the same lease in the same
\* millisecond, since both are in the key saveLogs writes to.
THEOREM LogsAreLostToOwnLeaseOnly ==
  ASSUME LogsAssumption PROVE Spec => []LostToOwnLeaseOnly
<1>1. IInv => LostToOwnLeaseOnly
  <2> SUFFICES ASSUME IInv, NEW b \in Batches \ removed, saved[b] # None,
                      b \notin {objects[k] : k \in Stored}
               PROVE  \E c \in Batches \ {b} : saved[c] = saved[b]
      BY DEF LostToOwnLeaseOnly
  <2> DEFINE k == saved[b].key
  <2>1. saved[b].lease = k[2] /\ saved[b] \in [key : Key, lease : LeaseIds]
      BY DEF IInv, SavedAreStored, ObjectsTyped
  <2>2. PICK c \in Batches : c # b /\ saved[c] # None /\ saved[c].key = k
    <3>1. CASE k \in Stored
        BY <3>1 DEF IInv, ObjectsTyped, ObjectsAreSaved
    <3>2. CASE k \notin Stored
      <4>1. PICK d \in removed : saved[d] # None /\ saved[d].key = k
          BY <3>2 DEF IInv, SavedAreStored
      <4> QED BY <4>1 DEF IInv, ObjectsTyped
    <3> QED BY <3>1, <3>2
  <2>3. saved[c].lease = k[2] /\ saved[c] \in [key : Key, lease : LeaseIds]
      BY <2>2 DEF IInv, SavedAreStored, ObjectsTyped
  <2>4. /\ saved[c] = [key |-> saved[c].key, lease |-> saved[c].lease]
        /\ saved[b] = [key |-> saved[b].key, lease |-> saved[b].lease]
      BY <2>1, <2>3
  <2>5. saved[c] = saved[b]
      BY <2>1, <2>2, <2>3, <2>4
  <2> QED BY <2>2, <2>5
<1> QED BY <1>1, Invariance, PTL

\* A finished getTaskLogs has every batch that was stored when it began and was
\* not deleted, or counted it as invalid, for any number of pages and of batches
\* appended meanwhile.
THEOREM ReadingsAreComplete == ASSUME LogsAssumption PROVE Spec => []ReadingIsComplete
<1>1. IInv => ReadingIsComplete
  <2> SUFFICES ASSUME IInv, reading.pc = "done" PROVE ReadingIsComplete
      BY DEF ReadingIsComplete
  <2>1. /\ reading.there \subseteq reading.keys /\ reading.todo = {}
        /\ \A k \in KeysRead \cap reading.there : Taken(k)
        /\ reading.invalid + Cardinality(reading.entries) = Cardinality(KeysRead)
      BY DEF IInv, ReadSoFar
  <2>2. KeysRead = reading.keys
      BY <2>1 DEF KeysRead
  <2>3. \A k \in reading.there : Taken(k)
      BY <2>1, <2>2
  <2> QED BY <2>1, <2>2, <2>3 DEF ReadingIsComplete, Taken
<1> QED BY <1>1, Invariance, PTL
=============================================================================
