------------------------------ MODULE TaskLogs ------------------------------
(***************************************************************************)
(* The logs of one task: appendLogs (src/worker/task-service.ts) writes    *)
(* each batch to an object of its own in R2 (saveLogs, d1-store.ts), and   *)
(* getTaskLogs lists the objects of the task page by page and then reads   *)
(* them one after the other.  Uploads of the holders of successive leases, *)
(* of two invocations at a time, and a reading go on together; and objects *)
(* are deleted in the bucket, which nothing in this code does but which    *)
(* getTaskLogs is ready for.                                               *)
(*                                                                         *)
(* A batch is what one request carried; whether its entries are such that  *)
(* a reading accepts them (isLogEntry) is part of it, since the route      *)
(* takes the entries as they come.  Left out: the lines of a batch and     *)
(* their order by timestamp, and the session of the reader.                *)
(***************************************************************************)
EXTENDS Integers, FiniteSets

CONSTANTS
    Batches,    \* the requests that append logs
    Malformed,  \* those whose entries are not log entries
    LeaseIds,   \* the leases of the task, numbered in the order of the claims
    None,       \* no cursor, no object
    PageSize,   \* objects of a page of R2's list
    MaxMs       \* bound: the clock stops here

VARIABLES
    lease,      \* the task's lease_id
    ms,         \* the time
    uploads,    \* the batches between the check of the lease and the write
    objects,    \* R2: the batch stored under each key
    reading,    \* getTaskLogs, if one is under way
    saved,      \* history: the key each batch was written to, and by which lease
    removed     \* history: the batches whose object was deleted

vars == <<lease, ms, uploads, objects, reading, saved, removed>>

\* tasks/<task>/logs/<ms>-<lease>.json; the number of the lease stands for it
\* in the order of the strings.
Key == (0 .. MaxMs) \X LeaseIds
Precedes(k, j) == k[1] < j[1] \/ (k[1] = j[1] /\ k[2] < j[2])
Stored == DOMAIN objects

\* keys: listed so far.  todo: not read yet.  there: history, the objects there
\* were when the reading began and that were not deleted since.
NoReading == [pc |-> "idle", keys |-> {}, cursor |-> None, todo |-> {}, entries |-> {},
              invalid |-> 0, there |-> {}]

-----------------------------------------------------------------------------
Init ==
    /\ lease = CHOOSE l \in LeaseIds : \A k \in LeaseIds : l <= k
    /\ ms = 0
    /\ uploads = {}
    /\ objects = [k \in {} |-> None]
    /\ reading = NoReading
    /\ saved = [b \in Batches |-> None]
    /\ removed = {}

\* The lease expired and the task is claimed again.
ClaimAgain ==
    /\ lease + 1 \in LeaseIds
    /\ lease' = lease + 1
    /\ UNCHANGED <<ms, uploads, objects, reading, saved, removed>>

\* appendLogs: the holder of lease l presents it, and it is the task's.
AppendLogs(b, l) ==
    /\ saved[b] = None
    /\ \A u \in uploads : u.batch # b
    /\ l = lease
    /\ uploads' = uploads \cup {[batch |-> b, lease |-> l]}
    /\ UNCHANGED <<lease, ms, objects, reading, saved, removed>>

Put(u, key) ==
    /\ uploads' = uploads \ {u}
    /\ objects' = [k \in Stored \cup {key} |-> IF k = key THEN u.batch ELSE objects[k]]
    /\ saved' = [saved EXCEPT ![u.batch] = [key |-> key, lease |-> u.lease]]
    /\ UNCHANGED <<lease, ms, reading, removed>>

\* Mutant: the key carries the task's lease and not the uploader's.
SaveLogsOfTask(u) == Put(u, <<ms, lease>>)

\* saveLogs: the key is made of the time of the write and the lease presented.
SaveLogs(u) == Put(u, <<ms, u.lease>>)

\* The write throws: the runner is answered 500.
SaveFails(u) ==
    /\ uploads' = uploads \ {u}
    /\ UNCHANGED <<lease, ms, objects, reading, saved, removed>>

\* Someone deletes an object in the bucket.
Remove(k) ==
    /\ objects' = [j \in Stored \ {k} |-> objects[j]]
    /\ removed' = removed \cup {objects[k]}
    /\ reading' = [reading EXCEPT !.there = @ \ {k}]
    /\ UNCHANGED <<lease, ms, uploads, saved>>

Tick ==
    /\ ms < MaxMs
    /\ ms' = ms + 1
    /\ UNCHANGED <<lease, uploads, objects, reading, saved, removed>>

-----------------------------------------------------------------------------
(* getTaskLogs.                                                             *)

BeginReading ==
    /\ reading.pc \in {"idle", "done"}
    /\ reading' = [NoReading EXCEPT !.pc = "list", !.there = Stored]
    /\ UNCHANGED <<lease, ms, uploads, objects, saved, removed>>

\* R2 list: the first PageSize keys after the cursor.
Ahead == {k \in Stored : reading.cursor = None \/ Precedes(reading.cursor, k)}
PageOf(S) == {k \in S : Cardinality({j \in S : Precedes(j, k)}) < PageSize}
LastOf(S) == CHOOSE k \in S : \A j \in S : j = k \/ Precedes(j, k)

\* Mutant: only the first page is listed.
ListFirstPage ==
    /\ reading.pc = "list"
    /\ reading' = [reading EXCEPT !.keys = PageOf(Ahead), !.pc = "get", !.todo = PageOf(Ahead)]
    /\ UNCHANGED <<lease, ms, uploads, objects, saved, removed>>

\* One turn of the do-while loop: until a page is not truncated.
ListPage ==
    /\ reading.pc = "list"
    /\ LET page == PageOf(Ahead)
           keys == reading.keys \cup page
       IN  reading' = IF page = Ahead
                      THEN [reading EXCEPT !.keys = keys, !.pc = "get", !.todo = keys]
                      ELSE [reading EXCEPT !.keys = keys, !.cursor = LastOf(page)]
    /\ UNCHANGED <<lease, ms, uploads, objects, saved, removed>>

\* Mutant: a batch that is not one is not taken off the list.
GetObjectAgain(k) ==
    /\ reading.pc = "get"
    /\ k \in reading.todo /\ \A j \in reading.todo : j = k \/ Precedes(k, j)
    /\ reading' = IF k \notin Stored \/ objects[k] \in Malformed
                  THEN [reading EXCEPT !.invalid = @ + 1]
                  ELSE [reading EXCEPT !.todo = @ \ {k}, !.entries = @ \cup {objects[k]}]
    /\ UNCHANGED <<lease, ms, uploads, objects, saved, removed>>

\* The next key of keys.sort(): its batch is taken, or counted as invalid when it
\* is not one or no longer there.
GetObject(k) ==
    /\ reading.pc = "get"
    /\ k \in reading.todo /\ \A j \in reading.todo : j = k \/ Precedes(k, j)
    /\ reading' = IF k \notin Stored \/ objects[k] \in Malformed
                  THEN [reading EXCEPT !.todo = @ \ {k}, !.invalid = @ + 1]
                  ELSE [reading EXCEPT !.todo = @ \ {k}, !.entries = @ \cup {objects[k]}]
    /\ UNCHANGED <<lease, ms, uploads, objects, saved, removed>>

Answer ==
    /\ reading.pc = "get" /\ reading.todo = {}
    /\ reading' = [reading EXCEPT !.pc = "done"]
    /\ UNCHANGED <<lease, ms, uploads, objects, saved, removed>>

ReadingFails ==
    /\ reading.pc \in {"list", "get"}
    /\ reading' = NoReading
    /\ UNCHANGED <<lease, ms, uploads, objects, saved, removed>>

Next ==
    \/ ClaimAgain
    \/ \E b \in Batches, l \in LeaseIds : AppendLogs(b, l)
    \/ \E u \in uploads : SaveLogs(u) \/ SaveFails(u)
    \/ Tick
    \/ BeginReading \/ ListPage \/ Answer \/ ReadingFails
    \/ \E k \in reading.todo : GetObject(k)
    \/ \E k \in Stored : Remove(k)

Spec == Init /\ [][Next]_vars

-----------------------------------------------------------------------------
(* Properties.                                                              *)

TypeOK ==
    /\ lease \in LeaseIds /\ ms \in 0 .. MaxMs
    /\ uploads \subseteq [batch : Batches, lease : LeaseIds]
    /\ Stored \subseteq Key /\ objects \in [Stored -> Batches]
    /\ reading.pc \in {"idle", "list", "get", "done"}
    /\ reading.todo \subseteq reading.keys /\ reading.keys \subseteq Key
    /\ reading.cursor \in Key \cup {None} /\ reading.entries \subseteq Batches
    /\ reading.invalid \in 0 .. Cardinality(Key)
    /\ saved \in [Batches -> [key : Key, lease : LeaseIds] \cup {None}]
    /\ removed \subseteq Batches

\* A batch that was stored, and not deleted, is lost only to a batch of the same
\* lease in the same millisecond (the key of saveLogs): never to one of another
\* holder, whose write was under way when the task was claimed again.
LostToOwnLeaseOnly ==
    \A b \in Batches \ removed : saved[b] # None /\ b \notin {objects[k] : k \in Stored} =>
        \E c \in Batches \ {b} : saved[c] = saved[b]

\* Whoever reads the logs is shown every batch that was stored before and not
\* deleted meanwhile, whatever is appended and however many pages there are: a
\* batch that is not one, or an object that is gone when its turn comes, is
\* counted and hides no other (getTaskLogs, invalidObjects).
ReadingIsComplete ==
    reading.pc = "done" =>
        /\ reading.there \subseteq reading.keys
        /\ \A k \in reading.there :
              \/ \E b \in reading.entries : saved[b].key = k
              \/ /\ reading.invalid > 0
                 /\ \E b \in Malformed : saved[b] # None /\ saved[b].key = k
        /\ reading.invalid + Cardinality(reading.entries) = Cardinality(reading.keys)
-----------------------------------------------------------------------------
(* The inductive invariant behind the properties above.                     *)

\* What it takes of the constants.
LogsAssumption ==
    /\ LeaseIds \subseteq Nat /\ LeaseIds # {} /\ IsFiniteSet(LeaseIds) /\ MaxMs \in Nat
    /\ PageSize \in Nat \ {0} /\ Malformed \subseteq Batches
    /\ None \notin Key /\ None \notin [key : Key, lease : LeaseIds]

ObjectsTyped ==
    /\ ms \in 0 .. MaxMs
    /\ uploads \subseteq [batch : Batches, lease : LeaseIds]
    /\ Stored \subseteq Key /\ objects \in [Stored -> Batches]
    /\ saved \in [Batches -> [key : Key, lease : LeaseIds] \cup {None}]
    /\ removed \subseteq Batches

\* A batch is written once, and is what its key holds until another is or until
\* it is deleted.
WrittenOnce ==
    \A u \in uploads : /\ saved[u.batch] = None
                       /\ \A v \in uploads : v.batch = u.batch => v = u
ObjectsAreSaved == \A k \in Stored : saved[objects[k]] # None /\ saved[objects[k]].key = k
SavedAreStored ==
    \A b \in Batches : saved[b] # None =>
        /\ saved[b].lease = saved[b].key[2]
        /\ saved[b].key \in Stored
           \/ \E c \in removed : saved[c] # None /\ saved[c].key = saved[b].key

ReadingTyped ==
    reading \in [pc : {"idle", "list", "get", "done"}, keys : SUBSET Key,
                 cursor : Key \cup {None}, todo : SUBSET Key, entries : SUBSET Batches,
                 invalid : Nat, there : SUBSET Key]

\* What was there and not deleted is there.
ThereIsStored == reading.there \subseteq Stored

\* What was there is listed, or is ahead of the cursor.
ListedSoFar ==
    reading.pc = "list" =>
        /\ reading.there \subseteq reading.keys \cup Ahead
        /\ reading.entries = {} /\ reading.invalid = 0

KeysRead == reading.keys \ reading.todo
Taken(k) ==
    \/ \E b \in reading.entries : saved[b].key = k
    \/ /\ reading.invalid > 0
       /\ \E b \in Malformed : saved[b] # None /\ saved[b].key = k

\* What was listed and is not left to read is an entry or an invalid object, and
\* an entry or a malformed one if it was not deleted.
ReadSoFar ==
    reading.pc \in {"get", "done"} =>
        /\ reading.there \subseteq reading.keys
        /\ reading.todo \subseteq reading.keys
        /\ reading.pc = "done" => reading.todo = {}
        /\ \A k \in KeysRead \cap reading.there : Taken(k)
        /\ \A b \in reading.entries : saved[b] # None /\ saved[b].key \in KeysRead
        /\ IsFiniteSet(reading.entries)
        /\ reading.invalid + Cardinality(reading.entries) = Cardinality(KeysRead)

\* Nothing is left to read, and nothing was invalid, before objects are read.
BeforeReading ==
    /\ lease \in LeaseIds
    /\ reading.pc \in {"idle", "list"} => reading.todo = {} /\ reading.invalid = 0

IInv ==
    /\ ObjectsTyped /\ WrittenOnce /\ ObjectsAreSaved /\ SavedAreStored
    /\ ReadingTyped /\ ThereIsStored /\ ListedSoFar /\ ReadSoFar
=============================================================================
