---------------------------- MODULE SessionProofs ----------------------------
(***************************************************************************)
(* Proofs about the session store, for every set of sessions, capacity and *)
(* time to live: the order and bound of the dictionary, eviction of the    *)
(* least recently used session only, and that overlapping requests lose no *)
(* failure.  All of it rests on what Store does to the dictionary.         *)
(***************************************************************************)
EXTENDS SessionRouting, SequenceTheorems, TLAPS

\* What LruOrder says, of any sequence of entries.
Ordered(q) ==
    /\ Len(q) <= Capacity
    /\ \A i, j \in DOMAIN q : i < j =>
          /\ q[i].id # q[j].id
          /\ q[i].last_access <= q[j].last_access

\* No entry was used later than now.
Timely == \A i \in DOMAIN items : items[i].last_access <= now

IInv == TypeOK /\ LruOrder /\ Timely

LEMMA LruOrderIsOrdered == LruOrder <=> Ordered(items)
BY DEF LruOrder, Ordered

-----------------------------------------------------------------------------
(* What the store does to the dictionary                                    *)

\* Removing the entry at i keeps the order of the others.
LEMMA RemoveAtProperties ==
    ASSUME NEW S, NEW q \in Seq(S), NEW i \in 1..Len(q)
    PROVE  /\ RemoveAt(q, i) \in Seq(S)
           /\ Len(RemoveAt(q, i)) = Len(q) - 1
           /\ \A j \in 1..(Len(q) - 1) :
                 RemoveAt(q, i)[j] = IF j < i THEN q[j] ELSE q[j + 1]
<1> DEFINE front == SubSeq(q, 1, i - 1)
           back == SubSeq(q, i + 1, Len(q))
<1>0. Len(q) \in Nat /\ i \in Nat /\ i >= 1 /\ i <= Len(q)
  BY LenProperties
<1>1. /\ front \in Seq(S)
      /\ Len(front) = i - 1
      /\ \A j \in 1..(i - 1) : front[j] = q[j]
  <2>1. \A j \in 1..(i - 1) : q[j] \in S
    BY <1>0, ElementOfSeq
  <2> HIDE DEF front
  <2>2. /\ front \in Seq(S)
        /\ Len(front) = IF 1 <= i - 1 THEN i - 1 - 1 + 1 ELSE 0
        /\ \A j \in 1..(i - 1 - 1 + 1) : front[j] = q[1 + j - 1]
    BY <2>1, <1>0, SubSeqProperties DEF front
  <2> QED
    BY <2>2, <1>0
<1>2. /\ back \in Seq(S)
      /\ Len(back) = Len(q) - i
      /\ \A j \in 1..(Len(q) - i) : back[j] = q[i + j]
  <2>1. \A j \in (i + 1)..Len(q) : q[j] \in S
    BY <1>0, ElementOfSeq
  <2> HIDE DEF back
  <2>2. /\ back \in Seq(S)
        /\ Len(back) = IF i + 1 <= Len(q) THEN Len(q) - (i + 1) + 1 ELSE 0
        /\ \A j \in 1..(Len(q) - (i + 1) + 1) : back[j] = q[i + 1 + j - 1]
    BY <2>1, <1>0, SubSeqProperties DEF back
  <2>3. \A j \in 1..(Len(q) - i) : j \in 1..(Len(q) - (i + 1) + 1) /\ i + 1 + j - 1 = i + j
    BY <1>0
  <2> QED
    BY <2>2, <2>3, <1>0
<1>3. RemoveAt(q, i) = front \o back
  BY DEF RemoveAt
<1> HIDE DEF front, back
<1>4. /\ front \o back \in Seq(S)
      /\ Len(front \o back) = Len(front) + Len(back)
      /\ \A j \in 1..(Len(front) + Len(back)) :
            (front \o back)[j] = IF j <= Len(front) THEN front[j] ELSE back[j - Len(front)]
  BY <1>1, <1>2, ConcatProperties
<1>5. ASSUME NEW j \in 1..(Len(q) - 1)
      PROVE  (front \o back)[j] = IF j < i THEN q[j] ELSE q[j + 1]
  <2>1. /\ j \in 1..(Len(front) + Len(back))
        /\ (front \o back)[j] = IF j <= i - 1 THEN front[j] ELSE back[j - (i - 1)]
    BY <1>0, <1>1, <1>2, <1>4
  <2>2. CASE j < i
    BY <2>1, <2>2, <1>0, <1>1
  <2>3. CASE ~(j < i)
    <3>1. j - (i - 1) \in 1..(Len(q) - i) /\ i + (j - (i - 1)) = j + 1
      BY <2>3, <1>0
    <3> QED
      BY <3>1, <2>1, <2>3, <1>2, <1>0
  <2> QED
    BY <2>2, <2>3
<1> QED
  BY <1>0, <1>1, <1>2, <1>3, <1>4, <1>5

\* The other entries: in order, none of s, none lost, and fewer when s is known.
LEMMA OthersProperties ==
    ASSUME IInv, NEW s
    PROVE  /\ Others(s) \in Seq(SessionState)
           /\ Ordered(Others(s))
           /\ Known(s) # {} => Len(Others(s)) = Len(items) - 1
           /\ Known(s) = {} => Others(s) = items
           /\ \A j \in DOMAIN Others(s) :
                 /\ Others(s)[j].id # s /\ Others(s)[j].last_access <= now
                 /\ \E i \in DOMAIN items : Others(s)[j] = items[i]
           /\ \A i \in DOMAIN items :
                 items[i].id # s => \E j \in DOMAIN Others(s) : Others(s)[j] = items[i]
<1>0. /\ items \in Seq(SessionState) /\ Ordered(items) /\ Len(items) \in Nat
      /\ DOMAIN items = 1..Len(items)
      /\ Capacity \in Nat /\ now \in Nat
      /\ \A i \in DOMAIN items : items[i] \in SessionState
  BY LruOrderIsOrdered, SessionAssumption, LenProperties, ElementOfSeq DEF IInv, TypeOK
<1>1. CASE Known(s) = {}
  <2>1. Others(s) = items
    BY <1>1 DEF Others
  <2> QED
    BY <2>1, <1>0, <1>1 DEF Known, IInv, Timely
<1>2. CASE Known(s) # {}
  <2>1. PICK k \in Known(s) : Others(s) = RemoveAt(items, k)
    BY <1>2 DEF Others
  <2>2. k \in 1..Len(items) /\ items[k].id = s
    BY <1>0 DEF Known
  <2> DEFINE q == Others(s)
  <2>3. /\ q \in Seq(SessionState)
        /\ Len(q) = Len(items) - 1
        /\ \A j \in 1..(Len(items) - 1) : q[j] = IF j < k THEN items[j] ELSE items[j + 1]
    BY <2>1, <2>2, <1>0, RemoveAtProperties
  <2>4. DOMAIN q = 1..(Len(items) - 1)
    BY <2>3, LenProperties
  <2> HIDE DEF q
  <2>5. ASSUME NEW j \in DOMAIN q
        PROVE  \E i \in DOMAIN items : i # k /\ q[j] = items[i] /\ i = (IF j < k THEN j ELSE j + 1)
    BY <2>2, <2>3, <2>4, <1>0
  <2>6. Ordered(q)
    <3>1. Len(q) <= Capacity
      BY <2>3, <1>0 DEF Ordered
    <3>2. ASSUME NEW i \in DOMAIN q, NEW j \in DOMAIN q, i < j
          PROVE  q[i].id # q[j].id /\ q[i].last_access <= q[j].last_access
      <4>1. PICK a \in DOMAIN items : q[i] = items[a] /\ a = (IF i < k THEN i ELSE i + 1)
        BY <2>5
      <4>2. PICK b \in DOMAIN items : q[j] = items[b] /\ b = (IF j < k THEN j ELSE j + 1)
        BY <2>5
      <4>3. a < b
        BY <3>2, <4>1, <4>2, <2>2, <2>4, <1>0
      <4> QED
        BY <4>1, <4>2, <4>3, <1>0 DEF Ordered
    <3> QED
      BY <3>1, <3>2 DEF Ordered
  <2>7. \A j \in DOMAIN q :
           /\ q[j].id # s /\ q[j].last_access <= now
           /\ \E i \in DOMAIN items : q[j] = items[i]
    <3> TAKE j \in DOMAIN q
    <3>1. PICK i \in DOMAIN items : i # k /\ q[j] = items[i]
      BY <2>5
    <3>2. items[i].id # items[k].id
      <4>1. i < k \/ k < i
        BY <3>1, <2>2, <1>0
      <4> QED
        BY <4>1, <2>2, <1>0 DEF Ordered
    <3> QED
      BY <3>1, <3>2, <2>2 DEF IInv, Timely
  <2>8. \A i \in DOMAIN items : items[i].id # s => \E j \in DOMAIN q : q[j] = items[i]
    <3> SUFFICES ASSUME NEW i \in DOMAIN items, items[i].id # s
                 PROVE  \E j \in DOMAIN q : q[j] = items[i]
      OBVIOUS
    <3>1. i # k
      BY <2>2
    <3>2. CASE i < k
      BY <3>2, <2>2, <2>3, <2>4, <1>0
    <3>3. CASE k < i
      <4>1. i - 1 \in DOMAIN q /\ ~(i - 1 < k) /\ i - 1 + 1 = i
        BY <3>3, <2>2, <2>4, <1>0
      <4>2. q[i - 1] = items[i]
        BY <4>1, <2>3, <2>4
      <4> QED
        BY <4>1, <4>2
    <3> QED
      BY <3>1, <3>2, <3>3, <2>2, <1>0
  <2> QED
    BY <1>2, <2>3, <2>6, <2>7, <2>8 DEF q
<1> QED
  BY <1>1, <1>2

\* Storing an entry leaves it last, the others in order, and drops only the
\* first one of a full dictionary that did not know the session.
LEMMA StoreProperties ==
    ASSUME IInv, NEW s \in Session, NEW e \in SessionState, e.id = s
    PROVE  LET q == Store(s, e) IN
           /\ q \in Seq(SessionState)
           /\ Ordered(q)
           /\ \A j \in DOMAIN q : q[j].last_access <= now
           /\ \E j \in DOMAIN q : q[j] = [e EXCEPT !.last_access = now]
           /\ \A j \in DOMAIN q :
                 \/ q[j] = [e EXCEPT !.last_access = now]
                 \/ \E i \in DOMAIN items : q[j] = items[i] /\ items[i].id # s
           /\ \A i \in DOMAIN items :
                 \/ \E j \in DOMAIN q : q[j].id = items[i].id
                 \/ i = 1 /\ Len(items) = Capacity
<1> DEFINE others == Others(s)
           new == [e EXCEPT !.last_access = now]
           all == Append(others, new)
           n == Len(others)
<1>0. /\ now \in Nat /\ Capacity \in Nat /\ Capacity > 0
      /\ Len(items) \in Nat /\ Len(items) <= Capacity
      /\ items \in Seq(SessionState)
      /\ DOMAIN items = 1..Len(items)
  BY SessionAssumption, LenProperties DEF IInv, TypeOK, LruOrder
<1>1. new \in SessionState /\ new.id = s /\ new.last_access = now
  BY <1>0 DEF SessionState
<1>2. /\ others \in Seq(SessionState)
      /\ Ordered(others)
      /\ Known(s) # {} => n = Len(items) - 1
      /\ Known(s) = {} => others = items
      /\ \A j \in DOMAIN others :
            /\ others[j].id # s /\ others[j].last_access <= now
            /\ \E i \in DOMAIN items : others[j] = items[i]
      /\ \A i \in DOMAIN items :
            items[i].id # s => \E j \in DOMAIN others : others[j] = items[i]
  BY OthersProperties
<1> HIDE DEF others, new
<1>3. /\ n \in Nat /\ DOMAIN others = 1..n /\ n <= Capacity
  BY <1>2, LenProperties DEF Ordered
<1>4. /\ all \in Seq(SessionState) /\ all # <<>>
      /\ Len(all) = n + 1
      /\ \A j \in 1..n : all[j] = others[j]
      /\ all[n + 1] = new
  BY <1>1, <1>2, AppendProperties
<1>5. DOMAIN all = 1..(n + 1)
  BY <1>4, LenProperties
<1>6. \A i, j \in DOMAIN all : i < j =>
         all[i].id # all[j].id /\ all[i].last_access <= all[j].last_access
  <2> SUFFICES ASSUME NEW i \in DOMAIN all, NEW j \in DOMAIN all, i < j
               PROVE  all[i].id # all[j].id /\ all[i].last_access <= all[j].last_access
    OBVIOUS
  <2>1. CASE j <= n
    <3>1. i \in DOMAIN others /\ j \in DOMAIN others
      BY <2>1, <1>3, <1>5
    <3> QED
      BY <3>1, <1>2, <1>3, <1>4 DEF Ordered
  <2>2. CASE ~(j <= n)
    <3>1. j = n + 1 /\ i \in DOMAIN others
      BY <2>2, <1>3, <1>5
    <3> QED
      BY <3>1, <1>1, <1>2, <1>3, <1>4
  <2> QED
    BY <2>1, <2>2
<1>7. \A j \in DOMAIN all :
         /\ all[j].last_access <= now
         /\ all[j] = new \/ \E i \in DOMAIN items : all[j] = items[i] /\ items[i].id # s
  <2> TAKE j \in DOMAIN all
  <2>1. CASE j <= n
    <3>1. j \in DOMAIN others
      BY <2>1, <1>3, <1>5
    <3> QED
      BY <3>1, <1>2, <1>3, <1>4
  <2>2. CASE ~(j <= n)
    BY <2>2, <1>0, <1>1, <1>3, <1>4, <1>5
  <2> QED
    BY <2>1, <2>2
<1>8. \A i \in DOMAIN items : \E j \in DOMAIN all :
         /\ all[j].id = items[i].id
         /\ Known(s) = {} => j = i
  <2> TAKE i \in DOMAIN items
  <2>1. CASE Known(s) = {}
    BY <2>1, <1>2, <1>3, <1>4, <1>5
  <2>2. CASE Known(s) # {} /\ items[i].id = s
    BY <2>2, <1>1, <1>3, <1>4, <1>5
  <2>3. CASE Known(s) # {} /\ items[i].id # s
    <3>1. PICK j \in DOMAIN others : others[j] = items[i]
      BY <2>3, <1>2
    <3> QED
      BY <3>1, <2>3, <1>3, <1>4, <1>5
  <2> QED
    BY <2>1, <2>2, <2>3
<1>9. CASE n + 1 > Capacity
  <2>1. Store(s, e) = Tail(all)
    BY <1>4, <1>9 DEF Store, others, new
  <2>2. Known(s) = {} /\ n = Capacity /\ Len(items) = Capacity
    <3>0. /\ Capacity \in Nat /\ n \in Nat /\ Len(items) \in Nat
          /\ n <= Capacity /\ Len(items) <= Capacity
      BY <1>0, <1>3
    <3>1. n = Capacity
      BY <3>0, <1>9
    <3>2. Known(s) = {}
      <4>1. Known(s) # {} => n = Len(items) - 1
        BY <1>2
      <4> QED
        BY <3>0, <3>1, <4>1
    <3> QED
      BY <3>1, <3>2, <1>2
  <2>3. /\ Tail(all) \in Seq(SessionState)
        /\ Len(Tail(all)) = n
        /\ \A j \in 1..n : Tail(all)[j] = all[j + 1]
    BY <1>3, <1>4, HeadTailProperties
  <2>4. DOMAIN Tail(all) = 1..n
    BY <2>3, LenProperties
  <2> DEFINE q == Tail(all)
  <2> HIDE DEF all, q
  <2>5. \A j \in DOMAIN q : j \in Nat /\ j + 1 \in DOMAIN all /\ q[j] = all[j + 1]
    BY <2>3, <2>4, <1>3, <1>5 DEF q
  <2>6. Ordered(q)
    <3>1. \A i, j \in DOMAIN q : i < j =>
             q[i].id # q[j].id /\ q[i].last_access <= q[j].last_access
      <4> TAKE i, j \in DOMAIN q
      <4> HAVE i < j
      <4>1. i + 1 < j + 1
        BY <2>5
      <4> QED
        BY <4>1, <2>5, <1>6
    <3>2. Len(q) <= Capacity
      BY <2>2, <2>3 DEF q
    <3> QED
      BY <3>1, <3>2 DEF Ordered
  <2>7. \E j \in DOMAIN q : q[j] = new
    <3>1. n \in DOMAIN q
      BY <1>0, <2>2, <2>4 DEF q
    <3> QED
      BY <3>1, <2>5, <1>4
  <2>8. \A i \in DOMAIN items :
           \/ \E j \in DOMAIN q : q[j].id = items[i].id
           \/ i = 1 /\ Len(items) = Capacity
    <3> TAKE i \in DOMAIN items
    <3>1. CASE i = 1
      BY <3>1, <2>2
    <3>2. CASE i # 1
      <4>1. i - 1 \in DOMAIN q /\ i - 1 + 1 = i
        BY <3>2, <1>0, <2>2, <2>4 DEF q
      <4>2. q[i - 1] = all[i] /\ all[i].id = items[i].id
        BY <4>1, <2>2, <2>5, <1>8
      <4> QED
        BY <4>1, <4>2
    <3> QED
      BY <3>1, <3>2
  <2> QED
    BY <2>1, <2>3, <2>5, <2>6, <2>7, <2>8, <1>7 DEF q, new
<1>10. CASE ~(n + 1 > Capacity)
  <2>1. Store(s, e) = all
    BY <1>4, <1>10 DEF Store, others, new
  <2>2. Ordered(all)
    BY <1>3, <1>4, <1>6, <1>0, <1>10 DEF Ordered
  <2>3. \E j \in DOMAIN all : all[j] = new
    BY <1>3, <1>4, <1>5
  <2> HIDE DEF all
  <2> QED
    BY <2>1, <2>2, <2>3, <1>4, <1>7, <1>8 DEF new
<1> QED
  BY <1>9, <1>10

\* A live entry is of its session, and one with failures is kept and not expired.
LEMMA LiveProperties ==
    ASSUME IInv, NEW s \in Session
    PROVE  /\ Live(s) \in SessionState
           /\ Live(s).id = s
           /\ Live(s).consecutive_failures > 0 =>
                 \E i \in DOMAIN items : items[i].id = s /\ now - items[i].last_access <= Ttl
<1> DEFINE kept == {i \in DOMAIN items : items[i].id = s /\ now - items[i].last_access <= Ttl}
<1>0. now \in Nat /\ \A i \in DOMAIN items : items[i] \in SessionState
  BY LenProperties, ElementOfSeq DEF IInv, TypeOK
<1>1. CASE kept = {}
  BY <1>0, <1>1 DEF Live, Fresh, SessionState, Signal
<1>2. CASE kept # {}
  <2>1. PICK i \in kept : Live(s) = items[i]
    BY <1>2 DEF Live
  <2> QED
    BY <2>1, <1>0
<1> QED
  BY <1>1, <1>2

\* An outcome keeps an entry's type and session; a failure adds one.
LEMMA AfterOutcomeType ==
    ASSUME NEW e \in SessionState, NEW signal \in Signal
    PROVE  /\ AfterOutcome(e, signal) \in SessionState
           /\ AfterOutcome(e, signal).id = e.id
           /\ signal = "failure" =>
                 AfterOutcome(e, signal).consecutive_failures = e.consecutive_failures + 1
<1> DEFINE After(failures, since) ==
             [e EXCEPT !.last_outcome = signal, !.consecutive_failures = failures,
                       !.requests_since_failure = since]
           fewer == IF e.consecutive_failures > 0 THEN e.consecutive_failures - 1 ELSE 0
<1>1. \A failures, since \in Nat :
         /\ After(failures, since) \in SessionState
         /\ After(failures, since).id = e.id
         /\ After(failures, since).consecutive_failures = failures
  BY DEF SessionState
<1>2. e.consecutive_failures \in Nat /\ e.requests_since_failure \in Nat
  BY DEF SessionState
<1>3. CASE signal = "failure"
  <2>1. AfterOutcome(e, signal) = After(e.consecutive_failures + 1, 0)
    BY <1>3 DEF AfterOutcome
  <2> HIDE DEF After
  <2> QED
    BY <2>1, <1>1, <1>2
<1>4. CASE signal = "success"
  <2>1. AfterOutcome(e, signal) = After(0, 0)
    BY <1>4 DEF AfterOutcome
  <2> HIDE DEF After
  <2> QED
    BY <2>1, <1>1, <1>4
<1>5. CASE signal = "unknown"
  <2>1. \/ AfterOutcome(e, signal) = After(fewer, 0)
        \/ AfterOutcome(e, signal) = After(e.consecutive_failures, e.requests_since_failure + 1)
    BY <1>5 DEF AfterOutcome, SessionState
  <2>2. fewer \in Nat
    BY <1>2
  <2> HIDE DEF After, fewer
  <2> QED
    BY <2>1, <2>2, <1>1, <1>2, <1>5
<1> QED
  BY <1>3, <1>4, <1>5 DEF Signal

-----------------------------------------------------------------------------
(* The invariant                                                            *)

LEMMA InitInvariant == Init => IInv
BY SessionAssumption DEF Init, IInv, TypeOK, LruOrder, Timely, Signal, InFlight

\* What a store changes keeps the invariant.
LEMMA StoreInvariant ==
    ASSUME IInv, NEW s \in Session, NEW e \in SessionState, e.id = s,
           items' = Store(s, e), now' = now,
           slot' \in [Slot -> InFlight \union {None}]
    PROVE  IInv'
<1>1. /\ items' \in Seq(SessionState)
      /\ Ordered(items')
      /\ \A j \in DOMAIN items' : items'[j].last_access <= now
  BY StoreProperties
<1> QED
  BY <1>1 DEF IInv, TypeOK, LruOrder, Ordered, Timely

LEMMA NextInvariant == IInv /\ [Next]_vars => IInv'
<1> SUFFICES ASSUME IInv, [Next]_vars PROVE IInv'
  OBVIOUS
<1>0. TypeOK
  BY DEF IInv
<1>1. ASSUME NEW x \in Slot, NEW s \in Session \union {None}, NEW signal \in Signal,
             NEW count_only \in BOOLEAN, Arrive(x, s, signal, count_only)
      PROVE  IInv'
  <2>1. s = None \/ Live(s).consecutive_failures \in Nat
    BY LiveProperties DEF SessionState
  <2>2. [session |-> s, signal |-> signal, count_only |-> count_only,
         seen |-> IF s = None THEN 0 ELSE Live(s).consecutive_failures] \in InFlight
    BY <2>1 DEF InFlight
  <2>3. slot' \in [Slot -> InFlight \union {None}]
    BY <1>0, <1>1, <2>2 DEF Arrive, TypeOK
  <2>4. CASE s = None
    BY <1>1, <2>3, <2>4 DEF Arrive, IInv, TypeOK, LruOrder, Timely
  <2>5. CASE s # None
    <3>1. s \in Session /\ items' = Store(s, Live(s)) /\ now' = now
      BY <1>1, <2>5 DEF Arrive
    <3> QED
      BY <3>1, <2>3, LiveProperties, StoreInvariant
  <2> QED
    BY <2>4, <2>5
<1>2. ASSUME NEW x \in Slot, Complete(x)
      PROVE  IInv'
  <2>1. slot' \in [Slot -> InFlight \union {None}] /\ now' = now
    BY <1>0, <1>2 DEF Complete, TypeOK
  <2>2. CASE items' = items
    BY <2>1, <2>2 DEF IInv, TypeOK, LruOrder, Timely
  <2>3. CASE items' # items
    <3> DEFINE s == slot[x].session
    <3>1. /\ slot[x] \in InFlight /\ s \in Session
          /\ items' = Store(s, AfterOutcome(Live(s), slot[x].signal))
      BY <1>0, <1>2, <2>3 DEF Complete, TypeOK, InFlight
    <3>2. slot[x].signal \in Signal
      BY <3>1 DEF InFlight
    <3> HIDE DEF s
    <3>3. /\ AfterOutcome(Live(s), slot[x].signal) \in SessionState
          /\ AfterOutcome(Live(s), slot[x].signal).id = s
      BY <3>1, <3>2, LiveProperties, AfterOutcomeType
    <3> QED
      BY <3>1, <3>3, <2>1, StoreInvariant
  <2> QED
    BY <2>2, <2>3
<1>3. ASSUME NEW x \in Slot, Fail(x)
      PROVE  IInv'
  BY <1>3 DEF Fail, IInv, TypeOK, LruOrder, Timely
<1>4. CASE Tick
  <2>1. now' = now + 1 /\ items' = items /\ slot' = slot
    BY <1>4 DEF Tick
  <2>2. \A i \in DOMAIN items : items[i].last_access \in Nat
    <3>1. \A i \in DOMAIN items : items[i] \in SessionState
      BY <1>0, LenProperties, ElementOfSeq DEF TypeOK
    <3> QED
      BY <3>1 DEF SessionState
  <2> QED
    BY <2>1, <2>2 DEF IInv, TypeOK, LruOrder, Timely
<1>5. CASE UNCHANGED vars
  BY <1>5 DEF vars, IInv, TypeOK, LruOrder, Timely
<1> QED
  BY <1>1, <1>2, <1>3, <1>4, <1>5 DEF Next

\* Entries, slots and clock keep their types (session.py SessionState, and what
\* a gateway keeps of a request in flight).
THEOREM TypeCorrect == Spec => []TypeOK
<1>1. IInv => TypeOK
  BY DEF IInv
<1> QED
  BY <1>1, InitInvariant, NextInvariant, PTL DEF Spec

\* The dictionary is bounded, names a session once, and stays in the order of
\* last access (session.py _get()).
THEOREM LruOrderHolds == Spec => []LruOrder
<1>1. IInv => LruOrder
  BY DEF IInv
<1> QED
  BY <1>1, InitInvariant, NextInvariant, PTL DEF Spec

-----------------------------------------------------------------------------
(* What a step may not do                                                   *)

\* Every step leaves the dictionary or stores a live entry.
LEMMA ItemsStep ==
    ASSUME IInv, [Next]_vars, items' # items
    PROVE  \E s \in Session, e \in SessionState :
              /\ e.id = s /\ items' = Store(s, e)
              /\ \/ e.consecutive_failures >= Live(s).consecutive_failures
                 \/ \E x \in Slot : Recorded(x, s, "success")
<1>0. TypeOK
  BY DEF IInv
<1>1. ASSUME NEW x \in Slot, NEW s \in Session \union {None}, NEW signal \in Signal,
             NEW count_only \in BOOLEAN, Arrive(x, s, signal, count_only)
      PROVE  s \in Session /\ items' = Store(s, Live(s))
  BY <1>1 DEF Arrive
<1>2. ASSUME NEW x \in Slot, Complete(x)
      PROVE  /\ slot[x].session \in Session /\ slot[x].signal \in Signal
             /\ slot[x].signal # "unknown" /\ ~slot[x].count_only
             /\ items' = Store(slot[x].session, AfterOutcome(Live(slot[x].session), slot[x].signal))
  <2>1. slot[x] \in InFlight
    BY <1>0, <1>2 DEF Complete, TypeOK
  <2> QED
    BY <1>2, <2>1 DEF Complete, InFlight
<1>3. ~Tick /\ ~(UNCHANGED vars) /\ \A x \in Slot : ~Fail(x)
  BY DEF Tick, Fail, vars
<1>4. \/ \E x \in Slot, s \in Session \union {None}, signal \in Signal, count_only \in BOOLEAN :
            Arrive(x, s, signal, count_only)
      \/ \E x \in Slot : Complete(x)
  BY <1>3 DEF Next
<1>5. CASE \E x \in Slot, s \in Session \union {None}, signal \in Signal, count_only \in BOOLEAN :
            Arrive(x, s, signal, count_only)
  <2>1. PICK s \in Session : items' = Store(s, Live(s))
    BY <1>1, <1>5
  <2>2. Live(s) \in SessionState /\ Live(s).id = s
    BY LiveProperties
  <2>3. Live(s).consecutive_failures >= Live(s).consecutive_failures
    BY <2>2 DEF SessionState
  <2> QED
    BY <2>1, <2>2, <2>3
<1>6. CASE \E x \in Slot : Complete(x)
  <2>1. PICK x \in Slot : Complete(x)
    BY <1>6
  <2> DEFINE s == slot[x].session
             e == AfterOutcome(Live(s), slot[x].signal)
  <2>2. s \in Session /\ slot[x].signal \in Signal /\ items' = Store(s, e)
    BY <1>2, <2>1
  <2>3. e \in SessionState /\ e.id = s
    BY <2>2, LiveProperties, AfterOutcomeType
  <2>4. CASE slot[x].signal = "failure"
    <3>1. /\ e.consecutive_failures = Live(s).consecutive_failures + 1
          /\ Live(s).consecutive_failures \in Nat
      BY <2>2, <2>4, LiveProperties, AfterOutcomeType DEF SessionState
    <3>2. e.consecutive_failures >= Live(s).consecutive_failures
      BY <3>1
    <3> QED
      BY <2>2, <2>3, <3>2
  <2>5. CASE slot[x].signal = "success"
    <3>1. Recorded(x, s, "success")
      BY <1>2, <2>1, <2>5 DEF Recorded
    <3> QED
      BY <2>2, <2>3, <3>1
  <2> QED
    BY <1>2, <2>1, <2>2, <2>4, <2>5 DEF Signal
<1> QED
  BY <1>4, <1>5, <1>6

\* Only the session idle the longest is forgotten, and only to make room
\* (session.py _get(), popitem).
THEOREM ForgottenInTurnHolds == Spec => ForgottenInTurn
<1> DEFINE P == \A s \in Session :
                   (/\ \E i \in DOMAIN items : items[i].id = s
                    /\ \A i \in DOMAIN items' : items'[i].id # s) =>
                   /\ Len(items) = Capacity
                   /\ items[1].id = s
<1>1. IInv /\ [Next]_vars => [P]_vars
  <2> SUFFICES ASSUME IInv, [Next]_vars PROVE P
    OBVIOUS
  <2> SUFFICES ASSUME NEW s \in Session,
                      NEW i \in DOMAIN items, items[i].id = s,
                      \A j \in DOMAIN items' : items'[j].id # s
               PROVE  Len(items) = Capacity /\ items[1].id = s
    OBVIOUS
  <2>1. items' # items
    OBVIOUS
  <2>2. PICK t \in Session, e \in SessionState : e.id = t /\ items' = Store(t, e)
    BY <2>1, ItemsStep
  <2>3. \/ \E j \in DOMAIN items' : items'[j].id = items[i].id
        \/ i = 1 /\ Len(items) = Capacity
    BY <2>2, StoreProperties
  <2> QED
    BY <2>3
<1> QED
  BY <1>1, InitInvariant, NextInvariant, PTL DEF Spec, ForgottenInTurn

\* A session is in the dictionary once, so what is found of it is its entry.
LEMMA LiveIsEntry ==
    ASSUME IInv, NEW i \in DOMAIN items, now - items[i].last_access <= Ttl
    PROVE  Live(items[i].id) = items[i]
<1> DEFINE s == items[i].id
           kept == {k \in DOMAIN items : items[k].id = s /\ now - items[k].last_access <= Ttl}
<1>1. DOMAIN items = 1..Len(items) /\ Len(items) \in Nat
  BY LenProperties DEF IInv, TypeOK
<1>2. \A k \in kept : k = i
  BY <1>1 DEF IInv, LruOrder
<1>3. i \in kept
  OBVIOUS
<1> HIDE DEF kept
<1>4. (CHOOSE k \in kept : TRUE) = i
  BY <1>2, <1>3
<1> QED
  BY <1>3, <1>4 DEF Live, kept

LEMMA FailureCounts ==
    ASSUME IInv, NEW s \in Session, NEW x \in Slot, Recorded(x, s, "failure")
    PROVE  \E j \in DOMAIN items' :
              /\ items'[j].id = s
              /\ items'[j].consecutive_failures = Live(s).consecutive_failures + 1
<1> DEFINE e == AfterOutcome(Live(s), "failure")
<1>1. items' = Store(s, e)
  BY SessionAssumption DEF Recorded, Complete
<1>2. /\ e \in SessionState /\ e.id = s
      /\ e.consecutive_failures = Live(s).consecutive_failures + 1
  BY LiveProperties, AfterOutcomeType DEF Signal
<1> HIDE DEF e
<1>3. PICK j \in DOMAIN items' : items'[j] = [e EXCEPT !.last_access = now]
  BY <1>1, <1>2, StoreProperties
<1>4. items'[j].id = s /\ items'[j].consecutive_failures = Live(s).consecutive_failures + 1
  BY <1>2, <1>3 DEF SessionState
<1> QED
  BY <1>4

LEMMA FailuresKept ==
    ASSUME IInv, [Next]_vars,
           NEW i \in DOMAIN items, NEW j \in DOMAIN items', items'[j].id = items[i].id,
           items'[j].consecutive_failures < items[i].consecutive_failures,
           ~(now - items[i].last_access > Ttl)
    PROVE  \E x \in Slot : Recorded(x, items[i].id, "success")
<1>0. /\ items \in Seq(SessionState) /\ DOMAIN items = 1..Len(items) /\ Len(items) \in Nat
      /\ now \in Nat /\ \A k \in DOMAIN items : items[k] \in SessionState
  BY LenProperties, ElementOfSeq DEF IInv, TypeOK
<1>1. \A k \in DOMAIN items : items[k].id = items[i].id => k = i
  BY <1>0 DEF IInv, LruOrder
<1>2. ~(items[i].consecutive_failures < items[i].consecutive_failures)
  BY <1>0 DEF SessionState
<1>3. items' # items
  BY <1>1, <1>2
<1>4. PICK s \in Session, e \in SessionState :
         /\ e.id = s /\ items' = Store(s, e)
         /\ \/ e.consecutive_failures >= Live(s).consecutive_failures
            \/ \E x \in Slot : Recorded(x, s, "success")
  BY <1>3, ItemsStep
<1>5. items'[j] = [e EXCEPT !.last_access = now]
  <2>1. \/ items'[j] = [e EXCEPT !.last_access = now]
        \/ \E k \in DOMAIN items : items'[j] = items[k]
    BY <1>4, StoreProperties
  <2> QED
    BY <1>1, <1>2, <2>1
<1>6. /\ items[i].id = s /\ items'[j].consecutive_failures = e.consecutive_failures
      /\ e.consecutive_failures \in Nat /\ items[i].consecutive_failures \in Nat
  BY <1>0, <1>4, <1>5 DEF SessionState
<1>7. Live(s) = items[i]
  <2>1. now - items[i].last_access <= Ttl
    BY <1>0, SessionAssumption DEF SessionState
  <2> QED
    BY <1>6, <2>1, LiveIsEntry
<1> QED
  BY <1>4, <1>6, <1>7

\* Overlapping failures of a session all count, and as long as it is remembered only
\* a success of its own or the end of its time to live takes them away (session.py
\* record(), _get()).
THEOREM NoLostFailureHolds == Spec => NoLostFailure
<1> DEFINE P == \A s \in Session :
          /\ (\E x \in Slot : Recorded(x, s, "failure")) =>
                \E j \in DOMAIN items' :
                    /\ items'[j].id = s
                    /\ items'[j].consecutive_failures = Live(s).consecutive_failures + 1
          /\ \A i \in DOMAIN items, j \in DOMAIN items' :
                (/\ items[i].id = s /\ items'[j].id = s
                 /\ items'[j].consecutive_failures < items[i].consecutive_failures) =>
                   \/ \E x \in Slot : Recorded(x, s, "success")
                   \/ now - items[i].last_access > Ttl
<1>1. IInv /\ [Next]_vars => P
  BY FailureCounts, FailuresKept
<1>2. IInv /\ [Next]_vars => [P]_vars
  BY <1>1
<1> QED
  BY <1>2, InitInvariant, NextInvariant, PTL DEF Spec, NoLostFailure

\* A request is routed on failures only while their session is not expired
\* (session.py _get(), routing_snapshot()).
THEOREM ExpiredForgottenHolds == Spec => ExpiredForgotten
<1> DEFINE P == \A x \in Slot :
                   (slot[x] = None /\ slot'[x] # None /\ slot'[x].seen > 0) =>
                      \E i \in DOMAIN items : /\ items[i].id = slot'[x].session
                                              /\ now - items[i].last_access <= Ttl
<1>1. IInv /\ [Next]_vars => P
  <2> SUFFICES ASSUME IInv, [Next]_vars, NEW x \in Slot,
                      slot[x] = None, slot'[x] # None, slot'[x].seen > 0
               PROVE  \E i \in DOMAIN items : /\ items[i].id = slot'[x].session
                                              /\ now - items[i].last_access <= Ttl
    OBVIOUS
  <2>0. slot \in [Slot -> InFlight \union {None}]
    BY DEF IInv, TypeOK
  <2>1. ~Tick /\ ~(UNCHANGED vars)
    BY DEF Tick, vars
  <2>2. \A y \in Slot : ~Complete(y) /\ ~Fail(y)
    BY <2>0 DEF Complete, Fail
  <2>3. PICK y \in Slot, s \in Session \union {None}, signal \in Signal, count_only \in BOOLEAN :
           Arrive(y, s, signal, count_only)
    BY <2>1, <2>2 DEF Next
  <2>4. slot'[x].session = s /\ slot'[x].seen = IF s = None THEN 0 ELSE Live(s).consecutive_failures
    BY <2>0, <2>3 DEF Arrive
  <2>5. s \in Session /\ Live(s).consecutive_failures > 0
    BY <2>4
  <2> QED
    BY <2>4, <2>5, LiveProperties
<1>2. IInv /\ [Next]_vars => [P]_vars
  BY <1>1
<1> QED
  BY <1>2, InitInvariant, NextInvariant, PTL DEF Spec, ExpiredForgotten
=============================================================================
