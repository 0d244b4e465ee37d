----------------------- MODULE RunnerDirectoryProofs -----------------------
(***************************************************************************)
(* Proofs about RunnerDirectory: what a runner's row says of its calls,    *)
(* however registrations and touches overlap, and that a list read page by *)
(* page is complete and keeps the selection.  The fairness of Spec plays   *)
(* no part.                                                                *)
(***************************************************************************)
EXTENDS RunnerDirectory, FiniteSetTheorems, WellFoundedInduction, SequenceTheorems, TLAPS

-----------------------------------------------------------------------------
(* The rows.                                                                *)

\* A row written with a time the runner is known to have called at, by a call
\* that ends, keeps the invariant.
LEMMA WriteStep ==
  ASSUME ClockAssumption, IInv, NEW r \in RunnerIds, NEW seen \in Seen,
         HeardFrom(r, seen), calls' \subseteq calls, Write(r, seen)
  PROVE  IInv'
<1>1. rows' = [x \in Stored \cup {r} |-> IF x = r THEN seen ELSE rows[x]]
      /\ UNCHANGED <<now, called>>
    BY DEF Write
<1>2. DOMAIN rows' = Stored \cup {r}
      /\ \A x \in DOMAIN rows' : rows'[x] = IF x = r THEN seen ELSE rows[x]
    BY <1>1
<1>3. RowsTyped'
  <2>1. Stored' \subseteq RunnerIds /\ rows' \in [Stored' -> Seen]
      BY <1>1, <1>2 DEF IInv, RowsTyped, Stored
  <2> QED BY <1>1, <2>1 DEF IInv, RowsTyped
<1>4. RowsHeard'
    BY <1>1, <1>2 DEF IInv, RowsHeard, HeardFrom, Stored
<1>5. CallsHeard' /\ CalledBefore'
    BY <1>1 DEF IInv, CallsHeard, HeardFrom, CalledBefore
<1> QED BY <1>3, <1>4, <1>5 DEF IInv

\* What the clock, the lists and a call that fails change is not in the rows.
LEMMA RestStep ==
  ASSUME ClockAssumption, IInv, UNCHANGED <<rows, called>>, calls' \subseteq calls,
         now' \in Times, now <= now'
  PROVE  IInv'
<1>1. RowsTyped'
    BY DEF IInv, RowsTyped, Stored
<1>2. RowsHeard' /\ CallsHeard'
    BY DEF IInv, RowsHeard, CallsHeard, HeardFrom, Stored
<1>3. CalledBefore'
    BY DEF IInv, RowsTyped, CalledBefore, Seen, Times, ClockAssumption
<1> QED BY <1>1, <1>2, <1>3 DEF IInv

LEMMA RegisterReadStep ==
  ASSUME ClockAssumption, IInv, NEW r \in RunnerIds, RegisterRead(r)
  PROVE  IInv'
<1> DEFINE c == [kind |-> "register", runner |-> r,
                 seen |-> IF r \in Stored THEN rows[r] ELSE Never]
<1>1. calls' = calls \cup {c} /\ UNCHANGED <<rows, now, called>>
    BY DEF RegisterRead
<1>2. c \in Call /\ HeardFrom(r, c.seen)
    BY DEF IInv, RowsTyped, RowsHeard, HeardFrom, Call, Seen
<1>3. RowsTyped'
    BY <1>1, <1>2 DEF IInv, RowsTyped, Stored
<1>4. CallsHeard'
    BY <1>1, <1>2 DEF IInv, CallsHeard, HeardFrom
<1>5. RowsHeard' /\ CalledBefore'
    BY <1>1 DEF IInv, RowsHeard, HeardFrom, CalledBefore, Stored
<1> QED BY <1>3, <1>4, <1>5 DEF IInv

LEMMA TouchReadStep ==
  ASSUME ClockAssumption, IInv, NEW r \in RunnerIds, TouchRead(r)
  PROVE  IInv'
<1> DEFINE c == [kind |-> "touch", runner |-> r, seen |-> now]
<1>1. calls' = calls \cup {c} /\ UNCHANGED <<rows, now>>
      /\ called' = [called EXCEPT ![r] = now]
    BY DEF TouchRead
<1>2. c \in Call /\ now # Never /\ now \in Int
    BY DEF IInv, RowsTyped, Call, Seen, Times, ClockAssumption
<1>3. called' \in [RunnerIds -> Seen] /\ called'[r] = now
      /\ \A x \in RunnerIds : x # r => called'[x] = called[x]
    BY <1>1 DEF IInv, RowsTyped, Seen
<1>4. RowsTyped'
    BY <1>1, <1>2, <1>3 DEF IInv, RowsTyped, Stored
<1>5. \A x \in RunnerIds, seen \in Seen : HeardFrom(x, seen) => HeardFrom(x, seen)'
    BY <1>1, <1>2, <1>3 DEF IInv, RowsTyped, HeardFrom, CalledBefore, Seen, Times,
                            ClockAssumption
<1>6. RowsHeard'
    BY <1>1, <1>5 DEF IInv, RowsTyped, RowsHeard, Stored
<1>7. CallsHeard'
  <2> SUFFICES ASSUME NEW d \in calls'
               PROVE  HeardFrom(d.runner, d.seen)' /\ (d.kind = "touch" => d.seen # Never)
      BY DEF CallsHeard
  <2>1. CASE d \in calls
      BY <1>5, <2>1 DEF IInv, RowsTyped, CallsHeard, Call
  <2>2. CASE d = c
      BY <1>2, <1>3, <2>2 DEF HeardFrom
  <2> QED BY <1>1, <2>1, <2>2
<1>8. CalledBefore'
    BY <1>1, <1>2, <1>3 DEF IInv, CalledBefore
<1> QED BY <1>4, <1>6, <1>7, <1>8 DEF IInv

\* The write of a call, be it a registration or a touch, is of a time at which
\* the runner called.
LEMMA CallStep ==
  ASSUME ClockAssumption, IInv, NEW c \in calls, RegisterPut(c) \/ Touch(c)
  PROVE  IInv'
<1>1. c \in Call /\ HeardFrom(c.runner, c.seen)
    BY DEF IInv, RowsTyped, CallsHeard
<1>2. c.runner \in RunnerIds /\ c.seen \in Seen
    BY <1>1 DEF Call
<1>3. calls' \subseteq calls
    BY DEF RegisterPut, Touch
<1>4. CASE Touch(c)
    BY <1>1, <1>2, <1>3, <1>4, WriteStep DEF Touch
<1>5. CASE RegisterPut(c)
  <2> DEFINE seen == IF c.seen = Never /\ c.runner \in Stored THEN rows[c.runner] ELSE c.seen
  <2>1. seen \in Seen /\ HeardFrom(c.runner, seen)
      BY <1>1, <1>2 DEF IInv, RowsTyped, RowsHeard
  <2>2. Write(c.runner, seen)
      BY <1>5 DEF RegisterPut
  <2> QED BY <1>2, <1>3, <2>1, <2>2, WriteStep
<1> QED BY <1>4, <1>5

\* The rows, the calls under way and the clock keep what IInv says of them.
THEOREM Invariance == ASSUME ClockAssumption PROVE Spec => []IInv
<1>1. ASSUME Init PROVE IInv
    BY <1>1 DEF Init, IInv, RowsTyped, RowsHeard, CallsHeard, CalledBefore, HeardFrom,
                Stored, Seen, Times, ClockAssumption
<1>2. ASSUME IInv, [Next]_vars PROVE IInv'
  <2>1. CASE \E r \in RunnerIds : RegisterRead(r) \/ TouchRead(r)
      BY <1>2, <2>1, RegisterReadStep, TouchReadStep
  <2>2. CASE \E c \in calls : RegisterPut(c) \/ Touch(c)
      BY <1>2, <2>2, CallStep
  <2>3. CASE Tick
    <3>1. now' \in Times /\ now <= now'
        BY <1>2, <2>3 DEF Tick, IInv, RowsTyped, Times, ClockAssumption
    <3>2. calls' \subseteq calls /\ UNCHANGED <<rows, called>>
        BY <2>3 DEF Tick
    <3> QED BY <1>2, <3>1, <3>2, RestStep
  <2>4. CASE \/ \E r \in RunnerIds : Select(r)
             \/ \E c \in calls : CallFails(c)
             \/ \E f \in Filters : BeginLoad(f)
             \/ ReadPage \/ Receive \/ LoadFails
             \/ UNCHANGED vars
    <3>1. calls' \subseteq calls /\ UNCHANGED <<rows, called, now>>
        BY <2>4 DEF Select, CallFails, BeginLoad, ReadPage, Receive, LoadFails, vars
    <3>2. now' \in Times /\ now <= now'
        BY <1>2, <3>1 DEF IInv, RowsTyped, Times, ClockAssumption
    <3> QED BY <1>2, <3>1, <3>2, RestStep
  <2> QED BY <1>2, <2>1, <2>2, <2>3, <2>4 DEF Next
<1> QED BY <1>1, <1>2, PTL DEF Spec

\* Only calls make a runner online (touchRunnerHeartbeat, and registrations that
\* write back what they read).
THEOREM OnlyCallersAreOnline == ASSUME ClockAssumption PROVE Spec => []OnlineHasCalled
<1>1. ASSUME IInv PROVE OnlineHasCalled
  <2> SUFFICES ASSUME NEW r \in Stored, StatusOf(rows[r]) = "online"
               PROVE  called[r] # Never /\ called[r] >= now - OnlineFor
      BY DEF OnlineHasCalled
  <2>1. rows[r] # Never /\ rows[r] >= now - OnlineFor
      BY DEF StatusOf
  <2>2. called[r] # Never /\ rows[r] <= called[r]
      BY <1>1, <2>1 DEF IInv, RowsHeard, HeardFrom
  <2>3. rows[r] \in Int /\ called[r] \in Int /\ now \in Int /\ OnlineFor \in Int
      BY <1>1, <2>1, <2>2 DEF IInv, RowsTyped, Seen, Times, ClockAssumption
  <2> QED BY <2>1, <2>2, <2>3
<1> QED BY <1>1, Invariance, PTL

\* No registration takes a runner's last heartbeat away (putRunner's COALESCE).
THEOREM HeartbeatsAreKept == ASSUME ClockAssumption PROVE Spec => SeenStaysSeen
<1> DEFINE Kept == \A r \in Stored : rows[r] # Never => r \in DOMAIN rows' /\ rows'[r] # Never
<1>1. ASSUME NEW r \in RunnerIds, NEW seen, Write(r, seen),
             r \in Stored /\ rows[r] # Never => seen # Never
      PROVE  Kept
    BY <1>1 DEF Write, Stored
<1>2. ASSUME IInv, [Next]_vars PROVE [Kept]_vars
  <2>1. CASE \E c \in calls : RegisterPut(c) \/ Touch(c)
    <3>1. PICK c \in calls : RegisterPut(c) \/ Touch(c)
        BY <2>1
    <3>2. c.runner \in RunnerIds /\ (c.kind = "touch" => c.seen # Never)
        BY <1>2 DEF IInv, RowsTyped, CallsHeard, Call
    <3>3. CASE Touch(c)
        BY <1>1, <3>2, <3>3 DEF Touch
    <3>4. CASE RegisterPut(c)
        BY <1>1, <3>2, <3>4 DEF RegisterPut
    <3> QED BY <3>1, <3>3, <3>4
  <2>2. CASE rows' = rows
      BY <2>2 DEF Stored
  <2> QED BY <1>2, <2>1, <2>2 DEF Next, RegisterRead, TouchRead, Select, CallFails, Tick,
                                  BeginLoad, ReadPage, Receive, LoadFails, vars
<1>3. SeenStaysSeen <=> [][Kept]_vars
    BY PTL DEF SeenStaysSeen
<1> QED BY <1>2, <1>3, Invariance, PTL DEF Spec

-----------------------------------------------------------------------------
(* A page.                                                                  *)

\* A set of sets of runners that is not empty has a member none is a part of.
LEMMA SmallestSet ==
  ASSUME ListAssumption, NEW SS \in SUBSET (SUBSET RunnerIds), SS # {}
  PROVE  \E X \in SS : \A Y \in SS : ~(Y \subseteq X /\ Y # X)
<1>1. SS \subseteq FiniteSubsetsOf(RunnerIds)
    BY FS_Subset DEF FiniteSubsetsOf, ListAssumption
<1>2. PICK X \in SS : \A Y \in SS : ~(<<Y, X>> \in StrictSubsetOrdering(RunnerIds))
    BY <1>1, FS_StrictSubsetOrderingWellFounded, WFMin
<1>3. \A Y \in SS : ~(Y \subseteq X /\ Y # X)
    BY <1>2 DEF StrictSubsetOrdering
<1> QED BY <1>3

\* A set of runners has one with the greatest id.
LEMMA GreatestExists ==
  ASSUME ListAssumption, NEW S \in SUBSET RunnerIds, S # {}
  PROVE  \E r \in S : \A x \in S : x <= r
<1> DEFINE Above(r) == {x \in S : x > r}
           SS == {Above(r) : r \in S}
<1>1. S \subseteq Nat
    BY DEF ListAssumption
<1>2. SS \in SUBSET (SUBSET RunnerIds) /\ SS # {}
    OBVIOUS
<1>3. PICK X \in SS : \A Y \in SS : ~(Y \subseteq X /\ Y # X)
    BY <1>2, SmallestSet
<1>4. PICK r \in S : X = Above(r)
    OBVIOUS
<1>5. ASSUME NEW x \in S, ~(x <= r) PROVE FALSE
  <2>1. x \in Nat /\ r \in Nat /\ x > r
      BY <1>1, <1>5
  <2>2. ~(x > x) /\ (\A y \in S : y > x => y > r)
      BY <1>1, <2>1
  <2>3. x \in Above(r) /\ x \notin Above(x) /\ Above(x) \subseteq Above(r)
      BY <2>1, <2>2
  <2>4. Above(x) \in SS
      OBVIOUS
  <2> QED BY <1>3, <1>4, <2>3, <2>4
<1> QED BY <1>5

\* The order of a set of runners, as Ascending chooses it.
InOrder(s, S) ==
    /\ s \in [1 .. Cardinality(S) -> S]
    /\ \A i, j \in 1 .. Cardinality(S) : i < j => s[i] < s[j]

LEMMA OrderExtends ==
  ASSUME ListAssumption, NEW S \in SUBSET RunnerIds, NEW r \in S, \A x \in S : x <= r,
         NEW s, InOrder(s, S \ {r})
  PROVE  \E l : InOrder(l, S)
<1> DEFINE n == Cardinality(S)
           l == [i \in 1 .. n |-> IF i = n THEN r ELSE s[i]]
<1>1. /\ S \subseteq Nat /\ IsFiniteSet(S)
    BY FS_Subset DEF ListAssumption
<1>2. n \in Nat \ {0} /\ Cardinality(S \ {r}) = n - 1
    BY <1>1, FS_CardinalityType, FS_RemoveElement, FS_EmptySet
<1>a. s \in [1 .. (n - 1) -> S \ {r}] /\ (\A i, j \in 1 .. (n - 1) : i < j => s[i] < s[j])
    BY <1>2 DEF InOrder
<1> HIDE DEF n
<1>3. \A i \in 1 .. n : i # n => i \in 1 .. (n - 1) /\ s[i] \in S \ {r}
    BY <1>2, <1>a
<1>4. l \in [1 .. n -> S]
    BY <1>3
<1>5. ASSUME NEW i \in 1 .. n, NEW j \in 1 .. n, i < j PROVE l[i] < l[j]
  <2>1. i # n /\ l[i] = s[i] /\ i \in 1 .. (n - 1) /\ s[i] \in S \ {r}
      BY <1>2, <1>3, <1>5
  <2>2. CASE j = n
    <3>1. l[j] = r /\ s[i] # r /\ s[i] <= r /\ s[i] \in Nat /\ r \in Nat
        BY <1>1, <2>1, <2>2
    <3> QED BY <2>1, <3>1
  <2>3. CASE j # n
      BY <1>2, <1>3, <1>a, <1>5, <2>1, <2>3
  <2> QED BY <2>2, <2>3
<1>6. InOrder(l, S)
    BY <1>4, <1>5 DEF InOrder, n
<1> QED BY <1>6

\* Every set of runners can be put in order: a smallest one that cannot be is
\* one without its greatest member, put in order, and that member.
LEMMA OrderExists ==
  ASSUME ListAssumption, NEW S \in SUBSET RunnerIds
  PROVE  \E s : InOrder(s, S)
<1> DEFINE SS == {X \in SUBSET RunnerIds : ~ \E s : InOrder(s, X)}
<1> SUFFICES ASSUME SS # {} PROVE FALSE
    OBVIOUS
<1>1. PICK X \in SS : \A Y \in SS : ~(Y \subseteq X /\ Y # X)
  <2>1. SS \in SUBSET (SUBSET RunnerIds)
      OBVIOUS
  <2> HIDE DEF SS
  <2> QED BY <2>1, SmallestSet
<1>2. CASE X = {}
  <2>1. Cardinality(X) = 0
      BY <1>2, FS_EmptySet
  <2>2. InOrder([i \in 1 .. 0 |-> i], X)
      BY <2>1 DEF InOrder
  <2> QED BY <2>2
<1>3. CASE X # {}
  <2>1. PICK r \in X : \A x \in X : x <= r
      BY <1>3, GreatestExists
  <2>2. X \ {r} \notin SS
      BY <1>1, <2>1
  <2>3. PICK s : InOrder(s, X \ {r})
      BY <2>2
  <2>4. \E l : InOrder(l, X)
      BY <2>1, <2>3, OrderExtends
  <2> QED BY <2>4
<1> QED BY <1>2, <1>3

\* What the query's rows are: the whole set, once each, in order.
LEMMA AscendingIsTheOrder ==
  ASSUME ListAssumption, NEW S \in SUBSET RunnerIds
  PROVE  LET l == Ascending(S)
         IN  /\ l \in Seq(S) /\ Sorted(l)
             /\ \A r \in S : \E i \in 1 .. Len(l) : l[i] = r
<1> DEFINE l == Ascending(S)
           n == Cardinality(S)
<1>1. n \in Nat /\ IsFiniteSet(S) /\ S \subseteq Nat
    BY FS_Subset, FS_CardinalityType DEF ListAssumption
<1>2. InOrder(l, S)
    BY OrderExists DEF Ascending, InOrder
<1>3. l \in [1 .. n -> S] /\ (\A i, j \in 1 .. n : i < j => l[i] < l[j])
    BY <1>2 DEF InOrder
<1> HIDE DEF l
<1>4. l \in Seq(S)
    BY <1>1, <1>3, SeqDef
<1>5. Len(l) = n
    BY <1>1, <1>3, <1>4, LenProperties
<1>6. l \in Injection(1 .. n, S)
  <2>1. ASSUME NEW i \in 1 .. n, NEW j \in 1 .. n, l[i] = l[j], i # j PROVE FALSE
    <3>1. i \in Nat /\ j \in Nat
        OBVIOUS
    <3>2. l[i] \in Nat
        BY <1>1, <1>3
    <3>3. i < j \/ j < i
        BY <2>1, <3>1
    <3> QED BY <1>3, <2>1, <3>2, <3>3
  <2> QED BY <1>3, <2>1 DEF Injection, IsInjective
<1>7. Cardinality(1 .. n) = n
    BY <1>1, FS_Interval
<1>8. l \in Surjection(1 .. n, S)
    BY <1>1, <1>6, <1>7, FS_Injection
<1> QED BY <1>3, <1>4, <1>5, <1>8 DEF Sorted, Surjection, l

\* What a page promises: views that match, in order, from the cursor asked with
\* to the one answered, and all of those.
LEMMA PageIsTheRange ==
  ASSUME ListAssumption, NEW filter, NEW cursor \in RunnerIds \cup {None}
  PROVE  LET p == Page(filter, cursor)
             S == {r \in RunnerIds : Matches(r, filter) /\ After(r, cursor)}
         IN  /\ p \in Answer /\ Sorted(p.items)
             /\ \A r \in Shown(p.items) : r \in S /\ UpTo(r, p.next)
             /\ p.next # None => p.next \in Shown(p.items)
             /\ \A r \in S : UpTo(r, p.next) => r \in Shown(p.items)
<1> DEFINE S == {r \in RunnerIds : Matches(r, filter) /\ After(r, cursor)}
           l == Ascending(S)
           n == IF Len(l) > Limit THEN Limit ELSE Len(l)
           items == SubSeq(l, 1, n)
           next == IF Len(l) > Limit THEN l[n] ELSE None
<1>1. Page(filter, cursor) = [items |-> items, next |-> next]
    BY DEF Page
<1>2. S \in SUBSET RunnerIds
    OBVIOUS
<1>3. /\ l \in Seq(S) /\ Sorted(l)
      /\ \A r \in S : \E i \in 1 .. Len(l) : l[i] = r
    BY <1>2, AscendingIsTheOrder
<1> HIDE DEF S, l
<1>4. /\ S \subseteq Nat /\ None \notin RunnerIds /\ Limit \in Nat \ {0}
      /\ Len(l) \in Nat /\ \A i \in 1 .. Len(l) : l[i] \in S /\ l[i] \in RunnerIds /\ l[i] \in Nat
    BY <1>2, <1>3, LenProperties DEF ListAssumption
<1>5. n \in Nat /\ n <= Len(l) /\ (Len(l) > Limit => n \in 1 .. Len(l)) /\ (~(Len(l) > Limit) => n = Len(l))
    BY <1>4
<1> HIDE DEF n
<1>6. /\ items \in Seq(S) /\ Len(items) = n
      /\ \A i \in 1 .. n : items[i] = l[i]
  <2>1. \A i \in 1 .. n : l[i] \in S
      BY <1>4, <1>5
  <2>2. /\ items \in Seq(S) /\ Len(items) = IF 1 <= n THEN n - 1 + 1 ELSE 0
        /\ \A i \in 1 .. n - 1 + 1 : items[i] = l[1 + i - 1]
      BY <1>5, <2>1, SubSeqProperties
  <2>3. Len(items) = n
      BY <1>5, <2>2
  <2>4. ASSUME NEW i \in 1 .. n PROVE items[i] = l[i]
    <3>1. i \in 1 .. n - 1 + 1 /\ 1 + i - 1 = i
        BY <1>5
    <3> QED BY <2>2, <3>1
  <2> QED BY <2>2, <2>3, <2>4
<1> HIDE DEF items
<1>7. next = None <=> ~(Len(l) > Limit)
    BY <1>4, <1>5
<1>8. Len(l) > Limit => next = l[n]
    OBVIOUS
<1>9. next \in RunnerIds \cup {None}
    BY <1>4, <1>5
<1> HIDE DEF next
<1>10. \A i, j \in 1 .. Len(l) : i < j => l[i] < l[j]
    BY <1>3 DEF Sorted
<1>11. [items |-> items, next |-> next] \in Answer
  <2>1. items \in Seq(RunnerIds)
      BY <1>2, <1>6, SeqMonotonic
  <2> QED BY <1>9, <2>1 DEF Answer
<1>12. Sorted(items)
    BY <1>4, <1>5, <1>6, <1>10 DEF Sorted
<1>13. Shown(items) = {l[i] : i \in 1 .. n}
    BY <1>6 DEF Shown
<1>14. \A r \in Shown(items) : r \in S /\ UpTo(r, next)
  <2> SUFFICES ASSUME NEW i \in 1 .. n PROVE l[i] \in S /\ UpTo(l[i], next)
      BY <1>13
  <2>1. l[i] \in S /\ l[i] \in Nat
      BY <1>4, <1>5
  <2>2. CASE Len(l) > Limit
    <3>1. l[i] <= l[n]
      <4>1. CASE i = n
          BY <2>1, <4>1
      <4>2. CASE i # n
        <5>1. i < n /\ i \in 1 .. Len(l) /\ n \in 1 .. Len(l)
            BY <1>4, <1>5, <2>2, <4>2
        <5>2. l[i] < l[n] /\ l[n] \in Nat
            BY <1>4, <1>10, <5>1
        <5> QED BY <2>1, <5>2
      <4> QED BY <4>1, <4>2
    <3> QED BY <1>8, <2>1, <2>2, <3>1 DEF UpTo
  <2> QED BY <1>7, <2>1, <2>2 DEF UpTo
<1>15. next # None => next \in Shown(items)
    BY <1>4, <1>5, <1>7, <1>8, <1>13
<1>16. \A r \in S : UpTo(r, next) => r \in Shown(items)
  <2> SUFFICES ASSUME NEW i \in 1 .. Len(l), UpTo(l[i], next) PROVE i \in 1 .. n
      BY <1>3, <1>13
  <2>1. CASE Len(l) > Limit
    <3>1. l[i] <= l[n] /\ l[i] \in Nat /\ l[n] \in Nat /\ n \in 1 .. Len(l)
        BY <1>4, <1>5, <1>7, <1>8, <2>1 DEF UpTo
    <3>2. ~(n < i)
        BY <1>10, <3>1
    <3> QED BY <1>5, <3>2
  <2> QED BY <1>5, <2>1
<1> QED BY <1>1, <1>11, <1>12, <1>14, <1>15, <1>16 DEF S

-----------------------------------------------------------------------------
(* The lists.                                                               *)

\* A load that begins, has failed or never was has received nothing.
LEMMA NothingReceived == Shown(<<>>) = {} /\ Sorted(<<>>)
    BY DEF Shown, Sorted

\* Rows that are written and time that passes can only take runners from the
\* steady ones, and none when every status is asked for.
LEMMA RowsStep ==
  ASSUME ListInv, UNCHANGED <<load, console, reloads>>, Stored \subseteq Stored', KeepSteady
  PROVE  ListInv'
<1>1. steady' \subseteq steady /\ SteadyMatches'
    BY DEF KeepSteady, SteadyMatches
<1>2. ListsTyped' /\ ListSorted'
    BY <1>1 DEF ListInv, ListsTyped, ListSorted
<1>3. ListStored'
    BY DEF ListInv, ListStored
<1>4. ReceivedSoFar' /\ ShownIsComplete'
    BY <1>1 DEF ListInv, ReceivedSoFar, ShownIsComplete, Loading
<1>5. AnswerFollows'
    BY <1>1 DEF ListInv, AnswerFollows
<1>6. ConsoleIsSteady'
  <2> SUFFICES ASSUME Loading, load.filter = All, NEW r \in console.runners
               PROVE  r \in steady'
      BY DEF ConsoleIsSteady, Loading
  <2>1. r \in steady /\ r \in Stored'
      BY DEF ListInv, ConsoleIsSteady, ListStored
  <2>2. Matches(r, load.filter)'
      BY <2>1 DEF Matches
  <2> QED BY <2>1, <2>2 DEF KeepSteady
<1> QED BY <1>1, <1>2, <1>3, <1>4, <1>5, <1>6 DEF ListInv

\* Calls that begin or fail touch neither rows nor lists.
LEMMA CallsOnlyStep ==
  ASSUME ListInv, UNCHANGED <<rows, now, load, console, steady, reloads>>
  PROVE  ListInv'
<1>1. SteadyMatches'
    BY DEF ListInv, SteadyMatches, Matches, StatusOf, Stored
<1>2. ListsTyped' /\ ListSorted' /\ ListStored'
    BY DEF ListInv, ListsTyped, ListSorted, ListStored, Stored
<1>3. ReceivedSoFar' /\ ShownIsComplete' /\ ConsoleIsSteady'
    BY DEF ListInv, ReceivedSoFar, ShownIsComplete, ConsoleIsSteady, Loading
<1>4. AnswerFollows'
    BY DEF ListInv, AnswerFollows, Stored
<1> QED BY <1>1, <1>2, <1>3, <1>4 DEF ListInv

\* All that matches when a load begins is steady, whom the console shows among
\* them if every status is asked for.
LEMMA BeginLoadStep ==
  ASSUME ListAssumption, ListInv, NEW filter \in Filters, BeginLoad(filter)
  PROVE  ListInv'
<1>1. /\ load' = [filter |-> filter, runners |-> <<>>, cursor |-> None, answer |-> None,
                  pc |-> "asked"]
      /\ steady' = {r \in RunnerIds : Matches(r, filter)}
      /\ reloads' = reloads + 1 /\ reloads < MaxReloads
      /\ UNCHANGED <<rows, now, console>>
    BY DEF BeginLoad, NoLoad
<1>2. filter \in RunnerStatuses \cup {All} /\ MaxReloads \in Nat
    BY DEF ListAssumption
<1>3. ListsTyped'
  <2>1. load' \in [filter : RunnerStatuses \cup {All}, runners : Seq(RunnerIds),
                   cursor : RunnerIds \cup {None}, answer : Answer \cup {None},
                   pc : {"idle", "asked", "answered", "shown"}]
    <3>1. <<>> \in Seq(RunnerIds)
        BY EmptySeq
    <3> QED BY <1>1, <1>2, <3>1
  <2>2. reloads' \in 0 .. MaxReloads
      BY <1>1, <1>2 DEF ListInv, ListsTyped
  <2> QED BY <1>1, <2>1, <2>2 DEF ListInv, ListsTyped
<1>4. ListSorted' /\ ListStored'
    BY <1>1, NothingReceived DEF ListInv, ListSorted, ListStored, Stored
<1>5. SteadyMatches'
    BY <1>1 DEF SteadyMatches, Matches, StatusOf, Stored
<1>6. ReceivedSoFar' /\ AnswerFollows' /\ ShownIsComplete'
    BY <1>1, NothingReceived DEF ReceivedSoFar, AnswerFollows, ShownIsComplete, After
<1>7. ConsoleIsSteady'
    BY <1>1 DEF ListInv, ListsTyped, ListStored, ConsoleIsSteady, Matches
<1> QED BY <1>3, <1>4, <1>5, <1>6, <1>7 DEF ListInv

\* A load that fails leaves nothing behind.
LEMMA LoadFailsStep ==
  ASSUME ListAssumption, ListInv, load' = NoLoad,
         UNCHANGED <<rows, now, console, steady, reloads>>
  PROVE  ListInv'
<1>1. /\ load' = [filter |-> All, runners |-> <<>>, cursor |-> None, answer |-> None,
                  pc |-> "idle"]
      /\ UNCHANGED <<rows, now, console, steady, reloads>>
    BY DEF NoLoad
<1>2. <<>> \in Seq(RunnerIds)
    BY EmptySeq
<1>3. ListsTyped'
    BY <1>1, <1>2 DEF ListInv, ListsTyped
<1>4. ListSorted' /\ ListStored'
    BY <1>1, NothingReceived DEF ListInv, ListSorted, ListStored, Stored
<1>5. SteadyMatches'
    BY <1>1 DEF ListInv, SteadyMatches, Matches, Stored
<1>6. ReceivedSoFar' /\ AnswerFollows' /\ ShownIsComplete' /\ ConsoleIsSteady'
    BY <1>1 DEF ReceivedSoFar, AnswerFollows, ShownIsComplete, ConsoleIsSteady, Loading
<1> QED BY <1>3, <1>4, <1>5, <1>6 DEF ListInv

\* The page read is the range after the cursor, which the steady runners are in.
LEMMA ReadPageStep ==
  ASSUME ListAssumption, ListInv, ReadPage
  PROVE  ListInv'
<1> DEFINE p == Page(load.filter, load.cursor)
           S == {r \in RunnerIds : Matches(r, load.filter) /\ After(r, load.cursor)}
<1> SUFFICES ASSUME p.next \in Encodable \cup {None} PROVE ListInv'
  <2>1. CASE p.next \in Encodable \cup {None}
      BY <2>1
  <2>2. CASE p.next \notin Encodable \cup {None}
      BY <2>2, LoadFailsStep DEF ReadPage
  <2> QED BY <2>1, <2>2
<1>1. /\ load.pc = "asked" /\ load' = [load EXCEPT !.answer = p, !.pc = "answered"]
      /\ UNCHANGED <<rows, now, console, steady, reloads>>
    BY DEF ReadPage
<1>2. load.cursor \in RunnerIds \cup {None}
    BY DEF ListInv, ListsTyped
<1>3. /\ p \in Answer /\ Sorted(p.items)
      /\ \A r \in Shown(p.items) : r \in S /\ UpTo(r, p.next)
      /\ p.next # None => p.next \in Shown(p.items)
      /\ \A r \in S : UpTo(r, p.next) => r \in Shown(p.items)
    BY <1>2, PageIsTheRange
<1>4. p # None
    BY <1>3 DEF ListAssumption
<1> HIDE DEF p
<1>5. /\ load'.filter = load.filter /\ load'.runners = load.runners
      /\ load'.cursor = load.cursor /\ load'.answer = p /\ load'.pc = "answered"
    BY <1>1 DEF ListInv, ListsTyped
<1>6. ListsTyped'
    BY <1>1, <1>3 DEF ListInv, ListsTyped
<1>7. ListSorted' /\ ListStored'
    BY <1>1, <1>5 DEF ListInv, ListSorted, ListStored, Stored
<1>8. SteadyMatches'
    BY <1>1, <1>5 DEF ListInv, SteadyMatches, Matches, StatusOf, Stored
<1>9. ReceivedSoFar' /\ ShownIsComplete' /\ ConsoleIsSteady'
    BY <1>1, <1>5 DEF ListInv, ReceivedSoFar, ShownIsComplete, ConsoleIsSteady, Loading
<1>10. AnswerFollows'
  <2>1. Shown(p.items) \subseteq Stored
      BY <1>3 DEF Matches
  <2>2. \A r \in Shown(p.items) : After(r, load.cursor) /\ UpTo(r, p.next)
      BY <1>3
  <2>3. \A r \in steady : After(r, load.cursor) => r \in S
      BY DEF ListInv, ListsTyped, SteadyMatches
  <2>4. \A r \in steady : After(r, load.cursor) /\ UpTo(r, p.next) => r \in Shown(p.items)
      BY <1>3, <2>3
  <2>5. Stored' = Stored /\ steady' = steady
      BY <1>1 DEF Stored
  <2> QED BY <1>3, <1>4, <1>5, <2>1, <2>2, <2>4, <2>5 DEF AnswerFollows
<1> QED BY <1>6, <1>7, <1>8, <1>9, <1>10 DEF ListInv

\* What a list shows when another is appended to it, and that it stays in order
\* when all of the second come after all of the first.
LEMMA Appended ==
  ASSUME ListAssumption, NEW l \in Seq(RunnerIds), NEW m \in Seq(RunnerIds)
  PROVE  /\ l \o m \in Seq(RunnerIds)
         /\ Shown(l \o m) = Shown(l) \cup Shown(m)
         /\ Sorted(l) /\ Sorted(m) /\ (\A r \in Shown(l), x \in Shown(m) : r < x)
              => Sorted(l \o m)
<1> DEFINE a == l \o m
<1>1. /\ a \in Seq(RunnerIds) /\ Len(a) = Len(l) + Len(m)
      /\ \A i \in 1 .. Len(l) + Len(m) : a[i] = IF i <= Len(l) THEN l[i] ELSE m[i - Len(l)]
      /\ Len(l) \in Nat /\ Len(m) \in Nat
    BY ConcatProperties, LenProperties
<1> HIDE DEF a
<1>2. /\ \A i \in 1 .. Len(l) : i \in 1 .. Len(a) /\ a[i] = l[i]
      /\ \A i \in 1 .. Len(m) : Len(l) + i \in 1 .. Len(a) /\ a[Len(l) + i] = m[i]
    BY <1>1
<1>3. \A i \in 1 .. Len(a) :
         \/ i \in 1 .. Len(l) /\ a[i] = l[i]
         \/ i > Len(l) /\ i - Len(l) \in 1 .. Len(m) /\ a[i] = m[i - Len(l)]
    BY <1>1
<1>4. Shown(a) = Shown(l) \cup Shown(m)
  <2>1. Shown(a) \subseteq Shown(l) \cup Shown(m)
      BY <1>3 DEF Shown
  <2>2. Shown(l) \subseteq Shown(a) /\ Shown(m) \subseteq Shown(a)
      BY <1>2 DEF Shown
  <2> QED BY <2>1, <2>2
<1>5. ASSUME Sorted(l), Sorted(m), \A r \in Shown(l), x \in Shown(m) : r < x,
             NEW i \in 1 .. Len(a), NEW j \in 1 .. Len(a), i < j
      PROVE  a[i] < a[j]
  <2>1. CASE i \in 1 .. Len(l) /\ a[i] = l[i]
    <3>1. CASE j \in 1 .. Len(l) /\ a[j] = l[j]
        BY <1>5, <2>1, <3>1 DEF Sorted
    <3>2. CASE j - Len(l) \in 1 .. Len(m) /\ a[j] = m[j - Len(l)]
        BY <1>5, <2>1, <3>2 DEF Shown
    <3> QED BY <1>3, <3>1, <3>2
  <2>2. CASE i > Len(l) /\ i - Len(l) \in 1 .. Len(m) /\ a[i] = m[i - Len(l)]
    <3>1. j > Len(l) /\ i - Len(l) < j - Len(l)
        BY <1>1, <1>5, <2>2
    <3>2. j - Len(l) \in 1 .. Len(m) /\ a[j] = m[j - Len(l)]
        BY <1>1, <1>3, <3>1
    <3> QED BY <1>5, <2>2, <3>1, <3>2 DEF Sorted
  <2> QED BY <1>3, <2>1, <2>2
<1> QED BY <1>1, <1>4, <1>5 DEF Sorted, a

\* A page received takes the list as far as the next cursor; the last page makes
\* it complete, so that whom the console showed is still there.
LEMMA ReceiveStep ==
  ASSUME ListAssumption, ListInv, Receive
  PROVE  /\ ListInv'
         /\ console'.selected = console.selected
<1> DEFINE page == load.answer
           runners == load.runners \o page.items
           more == page.next # None
<1>1. /\ load.pc = "answered"
      /\ load' = [load EXCEPT !.runners = runners, !.cursor = page.next, !.answer = None,
                              !.pc = IF more THEN "asked" ELSE "shown"]
      /\ IF more \/ load.filter # All THEN UNCHANGED console ELSE Show(runners)
      /\ UNCHANGED <<rows, now, steady, reloads>>
    BY DEF Receive
<1>2. /\ load.runners \in Seq(RunnerIds) /\ load.cursor \in RunnerIds \cup {None}
      /\ page \in Answer
    BY <1>1 DEF ListInv, ListsTyped, AnswerFollows
<1>3. page.items \in Seq(RunnerIds) /\ page.next \in RunnerIds \cup {None}
    BY <1>2 DEF Answer
<1>4. /\ load'.filter = load.filter /\ load'.runners = runners /\ load'.cursor = page.next
      /\ load'.answer = None /\ load'.pc = IF more THEN "asked" ELSE "shown"
    BY <1>1 DEF ListInv, ListsTyped
<1>5. /\ Sorted(page.items) /\ Shown(page.items) \subseteq Stored
      /\ \A r \in Shown(page.items) : After(r, load.cursor) /\ UpTo(r, page.next)
      /\ page.next # None => page.next \in Shown(page.items)
      /\ \A r \in steady : After(r, load.cursor) /\ UpTo(r, page.next)
                            => r \in Shown(page.items)
    BY <1>1 DEF ListInv, AnswerFollows
<1>6. /\ Sorted(load.runners) /\ Shown(load.runners) \subseteq Stored
      /\ \A r \in Shown(load.runners) : ~After(r, load.cursor)
      /\ \A r \in steady : After(r, load.cursor) \/ r \in Shown(load.runners)
    BY <1>1 DEF ListInv, ListSorted, ListStored, ReceivedSoFar, Loading
<1>7. /\ RunnerIds \subseteq Nat /\ None \notin RunnerIds /\ steady \subseteq RunnerIds
      /\ Shown(load.runners) \subseteq RunnerIds /\ Shown(page.items) \subseteq RunnerIds
  <2>1. \A l \in Seq(RunnerIds) : Shown(l) \subseteq RunnerIds
      BY ElementOfSeq DEF Shown
  <2> QED BY <1>2, <1>3, <2>1 DEF ListAssumption, ListInv, ListsTyped
<1>8. \A r \in Shown(load.runners), x \in Shown(page.items) : r < x
  <2> SUFFICES ASSUME NEW r \in Shown(load.runners), NEW x \in Shown(page.items)
               PROVE  r < x
      OBVIOUS
  <2>1. r \in Nat /\ x \in Nat
      BY <1>7
  <2>2. load.cursor # None /\ ~(r > load.cursor) /\ x > load.cursor
      BY <1>5, <1>6 DEF After
  <2>3. load.cursor \in Nat
      BY <1>2, <1>7, <2>2
  <2> QED BY <2>1, <2>2, <2>3
<1>9. /\ runners \in Seq(RunnerIds) /\ Sorted(runners)
      /\ Shown(runners) = Shown(load.runners) \cup Shown(page.items)
    BY <1>2, <1>3, <1>5, <1>6, <1>8, Appended
<1>10. \A r \in steady : UpTo(r, page.next) => r \in Shown(runners)
    BY <1>5, <1>6, <1>9
<1>11. \A r \in Shown(runners) : UpTo(r, page.next)
  <2>1. ASSUME NEW r \in Shown(load.runners) PROVE UpTo(r, page.next)
    <3>1. page.next # None => r < page.next /\ r \in Nat /\ page.next \in Nat
        BY <1>5, <1>7, <1>8, <2>1
    <3> QED BY <3>1 DEF UpTo
  <2> QED BY <1>5, <1>9, <2>1
<1> HIDE DEF page, runners
<1>12. /\ console' \in [runners : SUBSET RunnerIds, selected : RunnerIds \cup {None}]
       /\ console'.runners \subseteq Stored
       /\ console'.selected \in console'.runners \cup {None}
       /\ console'.selected = console.selected
       /\ more => console' = console
  <2>1. CASE more \/ load.filter # All
      BY <1>1, <2>1 DEF ListInv, ListsTyped, ListStored
  <2>2. CASE ~more /\ load.filter = All
    <3>1. console' = [runners |-> Shown(runners),
                      selected |-> IF console.selected \in Shown(runners)
                                   THEN console.selected ELSE None]
        BY <1>1, <2>2 DEF Show
    <3>2. console.runners \subseteq steady /\ console.selected \in console.runners \cup {None}
        BY <1>1, <2>2 DEF ListInv, ConsoleIsSteady, ListStored, Loading
    <3>3. steady \subseteq Shown(runners)
        BY <1>10, <2>2 DEF UpTo
    <3> QED BY <1>5, <1>6, <1>7, <1>9, <2>2, <3>1, <3>2, <3>3
  <2> QED BY <2>1, <2>2
<1>13. ListsTyped'
  <2>1. load' \in [filter : RunnerStatuses \cup {All}, runners : Seq(RunnerIds),
                   cursor : RunnerIds \cup {None}, answer : Answer \cup {None},
                   pc : {"idle", "asked", "answered", "shown"}]
      BY <1>1, <1>3, <1>9 DEF ListInv, ListsTyped
  <2> QED BY <1>1, <1>12, <2>1 DEF ListInv, ListsTyped
<1>14. ListSorted' /\ ListStored'
    BY <1>1, <1>4, <1>5, <1>6, <1>9, <1>12 DEF ListSorted, ListStored, Stored
<1>15. SteadyMatches'
    BY <1>1, <1>4 DEF ListInv, SteadyMatches, Matches, StatusOf, Stored
<1>16. ReceivedSoFar'
  <2> SUFFICES ASSUME more
               PROVE  /\ \A r \in Shown(runners) : ~After(r, page.next)
                      /\ \A r \in steady : After(r, page.next) \/ r \in Shown(runners)
      BY <1>1, <1>4 DEF ReceivedSoFar, Loading
  <2>1. page.next # None /\ page.next \in Nat /\ \A r \in RunnerIds : r \in Nat
      BY <1>3, <1>7
  <2>2. \A r \in RunnerIds : r > page.next <=> ~(r <= page.next)
      BY <2>1
  <2>3. \A r \in RunnerIds : After(r, page.next) <=> ~UpTo(r, page.next)
      BY <2>1, <2>2 DEF After, UpTo
  <2> QED BY <1>7, <1>9, <1>10, <1>11, <2>3
<1>17. AnswerFollows'
    BY <1>4 DEF AnswerFollows
<1>18. ShownIsComplete'
    BY <1>1, <1>4, <1>10 DEF ShownIsComplete, UpTo
<1>19. ConsoleIsSteady'
    BY <1>1, <1>4, <1>12 DEF ListInv, ConsoleIsSteady, Loading
<1> QED BY <1>12, <1>13, <1>14, <1>15, <1>16, <1>17, <1>18, <1>19 DEF ListInv

\* A click selects a runner that is shown, or none.
LEMMA SelectStep ==
  ASSUME ListInv, NEW r \in RunnerIds, Select(r)
  PROVE  ListInv'
<1>1. /\ r \in console.runners
      /\ console' = [console EXCEPT !.selected = IF @ = r THEN None ELSE r]
      /\ UNCHANGED <<rows, now, load, steady, reloads>>
    BY DEF Select
<1>2. /\ console' \in [runners : SUBSET RunnerIds, selected : RunnerIds \cup {None}]
      /\ console'.runners = console.runners /\ console'.selected \in {r, None}
    BY <1>1 DEF ListInv, ListsTyped
<1>3. ListsTyped' /\ ListSorted' /\ ListStored'
    BY <1>1, <1>2 DEF ListInv, ListsTyped, ListSorted, ListStored, Stored
<1>4. SteadyMatches'
    BY <1>1 DEF ListInv, SteadyMatches, Matches, StatusOf, Stored
<1>5. ReceivedSoFar' /\ ShownIsComplete' /\ ConsoleIsSteady'
    BY <1>1, <1>2 DEF ListInv, ReceivedSoFar, ShownIsComplete, ConsoleIsSteady, Loading
<1>6. AnswerFollows'
    BY <1>1 DEF ListInv, AnswerFollows, Stored
<1> QED BY <1>3, <1>4, <1>5, <1>6 DEF ListInv

LEMMA ListInit ==
  ASSUME ListAssumption, Init
  PROVE  ListInv
<1>1. /\ load = [filter |-> All, runners |-> <<>>, cursor |-> None, answer |-> None,
                 pc |-> "idle"]
      /\ console = [runners |-> {}, selected |-> None] /\ steady = {} /\ reloads = 0
    BY DEF Init, NoLoad
<1>2. <<>> \in Seq(RunnerIds) /\ MaxReloads \in Nat
    BY EmptySeq DEF ListAssumption
<1>3. ListsTyped
    BY <1>1, <1>2 DEF ListsTyped
<1> QED BY <1>1, <1>3, NothingReceived
        DEF ListInv, ListSorted, ListStored, SteadyMatches, ReceivedSoFar, AnswerFollows,
            ShownIsComplete, ConsoleIsSteady, Loading

\* Every step keeps ListInv; a selection changes only by a click.
LEMMA ListStep ==
  ASSUME ListAssumption, ListInv, [Next]_vars
  PROVE  /\ ListInv'
         /\ (\E r \in RunnerIds : Select(r)) \/ console'.selected = console.selected
<1>1. CASE \E r \in RunnerIds : RegisterRead(r) \/ TouchRead(r)
    BY <1>1, CallsOnlyStep DEF RegisterRead, TouchRead
<1>2. CASE \E r \in RunnerIds : Select(r)
    BY <1>2, SelectStep
<1>3. CASE \E c \in calls : RegisterPut(c) \/ Touch(c)
  <2>1. PICK r, seen : Write(r, seen)
      BY <1>3 DEF RegisterPut, Touch
  <2>2. UNCHANGED <<load, console, reloads>> /\ Stored \subseteq Stored' /\ KeepSteady
      BY <2>1 DEF Write, Stored
  <2> QED BY <2>2, RowsStep
<1>4. CASE \E c \in calls : CallFails(c)
    BY <1>4, CallsOnlyStep DEF CallFails
<1>5. CASE Tick
  <2>1. UNCHANGED <<load, console, reloads>> /\ Stored \subseteq Stored' /\ KeepSteady
      BY <1>5 DEF Tick, Stored
  <2> QED BY <2>1, RowsStep
<1>6. CASE \E f \in Filters : BeginLoad(f)
  <2>1. ListInv'
      BY <1>6, BeginLoadStep
  <2> QED BY <1>6, <2>1 DEF BeginLoad
<1>7. CASE ReadPage
  <2>1. ListInv'
      BY <1>7, ReadPageStep
  <2> QED BY <1>7, <2>1 DEF ReadPage
<1>8. CASE Receive
    BY <1>8, ReceiveStep
<1>9. CASE LoadFails
  <2>1. ListInv'
      BY <1>9, LoadFailsStep DEF LoadFails
  <2> QED BY <1>9, <2>1 DEF LoadFails
<1>10. CASE UNCHANGED vars
    BY <1>10, CallsOnlyStep DEF vars
<1> QED BY <1>1, <1>2, <1>3, <1>4, <1>5, <1>6, <1>7, <1>8, <1>9, <1>10 DEF Next

\* What has been read of a list is all of it up to the cursor, in order
\* (loadRunners over the pages of listRunners).
THEOREM ListInvariance == ASSUME ListAssumption PROVE Spec => []ListInv
    BY ListInit, ListStep, PTL DEF Spec

\* The rows, the calls, the lists and the history keep their types.
THEOREM TypeCorrectness == ASSUME ClockAssumption, ListAssumption PROVE Spec => []TypeOK
<1>1. IInv /\ ListInv => TypeOK
    BY DEF IInv, ListInv, TypeOK
<1> QED BY <1>1, Invariance, ListInvariance, PTL

\* A finished list is in order and shows every runner that matched all along
\* (loadRunners and the cursors of listRunners, for any page size).
THEOREM ListsAreComplete == ASSUME ListAssumption PROVE Spec => []ListIsComplete
<1>1. ListInv => ListIsComplete
    BY DEF ListInv, ListSorted, Sorted, ShownIsComplete, ListIsComplete
<1> QED BY <1>1, ListInvariance, PTL

\* Reading the list again never takes the selection from the user
\* (loadRunners shows the list only when its last page is there).
THEOREM SelectionsAreKept == ASSUME ListAssumption PROVE Spec => SelectionIsKept
<1> DEFINE Kept == console.selected # None /\ ~(\E r \in RunnerIds : Select(r)) =>
                       console'.selected = console.selected
<1>1. ASSUME ListInv, [Next]_vars PROVE [Kept]_vars
    BY <1>1, ListStep
<1>2. SelectionIsKept <=> [][Kept]_vars
    BY PTL DEF SelectionIsKept
<1> QED BY <1>1, <1>2, ListInvariance, PTL DEF Spec
=============================================================================
