----------------------------- MODULE ReadsProofs -----------------------------
(***************************************************************************)
(* That the dashboard's answers are about one state of the store, for any  *)
(* number of requests, queries, threads and retention runs, and that a     *)
(* walk through the pages is complete.                                     *)
(*                                                                         *)
(* The walk needs order theory first: in a finite set every place of the   *)
(* order by time and id is taken by one row (PlacesAre), so that a page    *)
(* with one row more than it shows tells whether there is a next one, and  *)
(* leaves out only what is older than all it shows (PageIs).  WInv follows *)
(* the walker's page from its statement to the client.                     *)
(***************************************************************************)
EXTENDS ObservationReads, FiniteSetTheorems, TLAPS

PurgeRecord ==
    [ids : SUBSET Request, left : {{"requests", "parts"}, {"requests"}, {}}, rows : Tables]

\* The part of TypeOK the argument needs.
Typed ==
    /\ rows \in Tables
    /\ purge \in PurgeRecord \union {None}
    /\ job \in [Query -> Job]

\* What is committed is whole, and so is what a retention run would commit.
StoreWhole ==
    /\ rows.requests = rows.parts
    /\ purge # None =>
         IF purge.left = {"requests"} THEN purge.rows.parts = purge.rows.requests \ purge.ids
         ELSE purge.rows.requests = purge.rows.parts

\* A transaction between its first statement and the later ones.
ReadingWhole ==
    \A q \in Query : job[q].at = "reading" =>
        /\ job[q].snap.requests = job[q].snap.parts
        /\ job[q].first \subseteq job[q].snap.requests
        /\ q # Walker => job[q].first = Matching(q, job[q].snap.requests)

IInv == Typed /\ StoreWhole /\ ReadingWhole /\ AnswersWhole

LEMMA InitWhole == Init => IInv
PROOF
<1> SUFFICES ASSUME Init PROVE IInv
  OBVIOUS
<1>1. Stored \subseteq Request
  BY ReadsAssumption
<1>2. Typed
  BY <1>1 DEF Init, Typed, Tables, Job, NoJob, NoRows
<1>3. StoreWhole
  BY <1>1 DEF Init, StoreWhole
<1>4. ReadingWhole /\ AnswersWhole
  BY DEF Init, ReadingWhole, AnswersWhole, NoJob
<1> QED
  BY <1>2, <1>3, <1>4 DEF IInv

\* Queries see nothing of what a writer does to the tables they do not read yet.
LEMMA WritersKeep ==
    ASSUME IInv, Typed', StoreWhole', UNCHANGED reader
    PROVE  IInv'
PROOF
<1>1. ReadingWhole'
  BY DEF IInv, ReadingWhole, reader, Matching
<1>2. AnswersWhole'
  BY DEF IInv, AnswersWhole, reader
<1> QED
  BY <1>1, <1>2 DEF IInv

LEMMA WriteKeeps == ASSUME IInv, NEW r \in Request, Write(r) PROVE IInv'
PROOF
<1>1. Typed'
  BY DEF IInv, Typed, Write, Tables, reader
<1>2. StoreWhole'
  BY DEF IInv, Typed, StoreWhole, Write, Tables
<1> QED
  BY <1>1, <1>2, WritersKeep DEF Write

LEMMA PurgeBeginKeeps == ASSUME IInv, PurgeBegin PROVE IInv'
PROOF
<1>1. PICK ids \in SUBSET Expired :
        purge' = [ids |-> ids, left |-> {"requests", "parts"}, rows |-> rows]
  BY DEF PurgeBegin
<1>2. rows \in Tables /\ rows' = rows /\ job' = job
  BY DEF IInv, Typed, PurgeBegin, reader
<1>3. ids \subseteq Request
  BY <1>2 DEF Expired, Tables
<1>4. purge' \in PurgeRecord
  BY <1>1, <1>2, <1>3 DEF PurgeRecord
<1>5. Typed'
  BY <1>2, <1>4 DEF IInv, Typed
<1>6. StoreWhole'
  BY <1>1, <1>2 DEF IInv, StoreWhole
<1> QED
  BY <1>5, <1>6, WritersKeep DEF PurgeBegin

LEMMA PurgeTableKeeps ==
    ASSUME IInv, NEW table \in {"requests", "parts"}, PurgeTable(table) PROVE IInv'
PROOF
<1>1. purge \in PurgeRecord /\ purge # None /\ rows' = rows /\ job' = job
  BY DEF IInv, Typed, PurgeTable, reader
<1>2. /\ purge' = [purge EXCEPT !.left = @ \ {table}, !.rows[table] = @ \ purge.ids]
      /\ table \in purge.left
      /\ table = "requests" => purge.left = {"requests"}
  BY DEF PurgeTable
<1>3. CASE table = "parts"
  <2>1. purge.left = {"requests", "parts"}
    BY <1>1, <1>2, <1>3 DEF PurgeRecord
  <2>2. /\ purge'.left = {"requests"} /\ purge'.ids = purge.ids
        /\ purge'.rows.requests = purge.rows.requests
        /\ purge'.rows.parts = purge.rows.parts \ purge.ids
    BY <1>1, <1>2, <1>3, <2>1 DEF PurgeRecord, Tables
  <2>3. purge' \in PurgeRecord
    BY <1>1, <1>2, <1>3, <2>1 DEF PurgeRecord, Tables
  <2>4. purge.rows.requests = purge.rows.parts
    BY <1>1, <2>1 DEF IInv, StoreWhole
  <2>5. Typed' /\ StoreWhole'
    BY <1>1, <2>2, <2>3, <2>4 DEF IInv, Typed, StoreWhole
  <2> QED
    BY <2>5, WritersKeep DEF PurgeTable
<1>4. CASE table = "requests"
  <2>1. purge.left = {"requests"}
    BY <1>2, <1>4
  <2>2. /\ purge'.left = {} /\ purge'.ids = purge.ids
        /\ purge'.rows.parts = purge.rows.parts
        /\ purge'.rows.requests = purge.rows.requests \ purge.ids
    BY <1>1, <1>2, <1>4, <2>1 DEF PurgeRecord, Tables
  <2>3. purge' \in PurgeRecord
    BY <1>1, <1>2, <1>4, <2>1 DEF PurgeRecord, Tables
  <2>4. purge.rows.parts = purge.rows.requests \ purge.ids
    BY <1>1, <2>1 DEF IInv, StoreWhole
  <2>5. Typed' /\ StoreWhole'
    BY <1>1, <2>2, <2>3, <2>4 DEF IInv, Typed, StoreWhole
  <2> QED
    BY <2>5, WritersKeep DEF PurgeTable
<1> QED
  BY <1>3, <1>4

LEMMA PurgeEndKeeps == ASSUME IInv, PurgeEnd PROVE IInv'
PROOF
<1>1. purge \in PurgeRecord /\ purge # None /\ purge' = None /\ job' = job
  BY DEF IInv, Typed, PurgeEnd, reader
<1>2. rows' \in Tables /\ rows'.requests = rows'.parts
  BY <1>1 DEF IInv, Typed, StoreWhole, PurgeEnd, PurgeRecord
<1>3. Typed' /\ StoreWhole'
  BY <1>1, <1>2 DEF IInv, Typed, StoreWhole
<1> QED
  BY <1>3, WritersKeep DEF PurgeEnd

\* A step that sets one query to a state that is whole leaves the others alone.
LEMMA QueriesKeep ==
    ASSUME IInv, NEW q \in Query, NEW j \in Job, UNCHANGED store,
           job' = [job EXCEPT ![q] = j],
           j.at = "reading" => /\ j.snap.requests = j.snap.parts
                               /\ j.first \subseteq j.snap.requests
                               /\ q # Walker => j.first = {r \in j.snap.requests : j.of \in {r, None}},
           j.at = "ended" /\ j.answer = "ok" =>
               j.rest = [requests |-> j.first, parts |-> j.first]
    PROVE  IInv'
PROOF
<1>1. Typed' /\ StoreWhole'
  BY DEF IInv, Typed, StoreWhole, store
<1>2. job \in [Query -> Job]
  BY DEF IInv, Typed
<1>3. job'[q] = j /\ \A p \in Query \ {q} : job'[p] = job[p]
  BY <1>2
<1>4. ReadingWhole'
  BY <1>3 DEF IInv, ReadingWhole, Matching
<1>5. AnswersWhole'
  BY <1>3 DEF IInv, AnswersWhole
<1> QED
  BY <1>1, <1>4, <1>5 DEF IInv

LEMMA AskKeeps ==
    ASSUME IInv, NEW q \in Query, NEW of \in Request \union {None},
           Refused(q) \/ Admitted(q, of), UNCHANGED store
    PROVE  IInv'
PROOF
<1>1. job[q] \in Job
  BY DEF IInv, Typed
<1>2. CASE Refused(q)
  <2> DEFINE j == [job[q] EXCEPT !.answer = "busy"]
  <2>1. /\ j \in Job /\ j.answer = "busy" /\ j.at = job[q].at /\ j.of = job[q].of
        /\ j.snap = job[q].snap /\ j.first = job[q].first
    BY <1>1 DEF Job
  <2>2. job' = [job EXCEPT ![q] = j]
    BY <1>2 DEF Refused
  <2>3. j.at = "reading" =>
          /\ j.snap.requests = j.snap.parts
          /\ j.first \subseteq j.snap.requests
          /\ q # Walker => j.first = {r \in j.snap.requests : j.of \in {r, None}}
    BY <2>1 DEF IInv, ReadingWhole, Matching
  <2> HIDE DEF j
  <2> QED
    BY <2>1, <2>2, <2>3, QueriesKeep
<1>3. CASE Admitted(q, of)
  <2> DEFINE j == [NoJob EXCEPT !.at = "queued", !.of = of]
  <2>1. j \in Job /\ j.at = "queued"
    BY DEF NoJob, Job, Tables, NoRows
  <2>2. job' = [job EXCEPT ![q] = j]
    BY <1>3 DEF Admitted
  <2> QED
    BY <2>1, <2>2, QueriesKeep
<1> QED
  BY <1>2, <1>3

LEMMA UnansweredType ==
    ASSUME IInv, NEW q \in Query
    PROVE  /\ Unanswered(q) \in Job
           /\ Unanswered(q).at = "ended" /\ Unanswered(q).answer = "failed"
PROOF
<1>1. job[q] \in Job
  BY DEF IInv, Typed
<1> QED
  BY <1>1 DEF Unanswered, Job, NoJob, Tables, NoRows

\* A query that starts, or that is dropped because its caller has left.
LEMMA BeginSets ==
    ASSUME IInv, NEW q \in Query, Begin(q)
    PROVE  \E j \in Job : /\ j.at = "running" \/ (j.at = "ended" /\ j.answer = "failed")
                          /\ job' = [job EXCEPT ![q] = j]
PROOF
<1>1. CASE q \in left
  BY <1>1, UnansweredType DEF Begin
<1>2. CASE q \notin left
  <2> DEFINE j == [job[q] EXCEPT !.at = "running"]
  <2>1. j \in Job /\ j.at = "running"
    BY DEF IInv, Typed, Job
  <2>2. job' = [job EXCEPT ![q] = j]
    BY <1>2 DEF Begin
  <2> HIDE DEF j
  <2> QED
    BY <2>1, <2>2
<1> QED
  BY <1>1, <1>2

LEMMA BeginKeeps == ASSUME IInv, NEW q \in Query, Begin(q) PROVE IInv'
PROOF
<1>1. PICK j \in Job : /\ j.at = "running" \/ (j.at = "ended" /\ j.answer = "failed")
                       /\ job' = [job EXCEPT ![q] = j]
  BY BeginSets
<1>2. UNCHANGED store
  BY DEF Begin
<1> QED
  BY <1>1, <1>2, QueriesKeep

LEMMA FirstKeeps == ASSUME IInv, NEW q \in Query, FirstStatement(q) PROVE IInv'
PROOF
<1> DEFINE found == Selected(q, rows.requests)
           page == IF q = Walker THEN Newest(found, PageLimit) ELSE found
           j == [job[q] EXCEPT !.at = "reading", !.snap = rows, !.first = page, !.more = found # page]
<1>1. job[q] \in Job /\ rows \in Tables /\ rows.requests = rows.parts
  BY DEF IInv, Typed, StoreWhole
<1>2. found \subseteq rows.requests
  BY DEF Selected, Page, Matching, Newest
<1>3. page \subseteq rows.requests
  BY <1>2 DEF Newest
<1>4. j \in Job
  <2> HIDE DEF page, found
  <2> QED
    BY <1>1, <1>3 DEF Job, Tables
<1>5. j.at = "reading" /\ j.snap = rows /\ j.first = page /\ j.of = job[q].of
  BY <1>1 DEF Job
<1>6. q # Walker => page = {r \in rows.requests : job[q].of \in {r, None}}
  BY DEF Selected, Matching
<1>7. job' = [job EXCEPT ![q] = j] /\ UNCHANGED store
  BY DEF FirstStatement
<1> HIDE DEF j, page, found
<1> QED
  BY <1>1, <1>3, <1>4, <1>5, <1>6, <1>7, QueriesKeep

LEMMA LaterKeeps == ASSUME IInv, NEW q \in Query, LaterStatements(q) PROVE IInv'
PROOF
<1> DEFINE seen == job[q].snap
           rest == [requests |-> Sections(q, seen), parts |-> Parts(q, seen)]
           j == [job[q] EXCEPT !.at = "ended", !.answer = "ok", !.snap = NoRows, !.rest = rest]
<1>1. job[q] \in Job /\ job[q].at = "reading"
  BY DEF IInv, Typed, LaterStatements
<1>2. /\ seen.requests = seen.parts /\ job[q].first \subseteq seen.requests
      /\ q # Walker => job[q].first = Matching(q, seen.requests)
  BY <1>1 DEF IInv, ReadingWhole
<1>3. Sections(q, seen) = job[q].first /\ Parts(q, seen) = job[q].first
  BY <1>2 DEF Sections, Parts
<1>4. rest = [requests |-> job[q].first, parts |-> job[q].first]
  BY <1>3
<1>5. j \in Job /\ j.at = "ended" /\ j.rest = rest /\ j.first = job[q].first
  <2> HIDE DEF rest
  <2> QED
    BY <1>1, <1>4 DEF Job, Tables, NoRows
<1>6. job' = [job EXCEPT ![q] = j] /\ UNCHANGED store
  BY DEF LaterStatements, Answer
<1> HIDE DEF j, rest
<1> QED
  BY <1>4, <1>5, <1>6, QueriesKeep

LEMMA FailKeeps == ASSUME IInv, NEW q \in Query, QueryFails(q) PROVE IInv'
PROOF
<1>1. job' = [job EXCEPT ![q] = Unanswered(q)] /\ UNCHANGED store
  BY DEF QueryFails
<1> QED
  BY <1>1, UnansweredType, QueriesKeep

\* The queries go on without those who asked.
LEMMA LeavesKeep == ASSUME IInv, NEW q \in Query, CallerLeaves(q) PROVE IInv'
PROOF
<1>1. UNCHANGED <<store, job>>
  BY DEF CallerLeaves
<1> QED
  BY <1>1 DEF store, IInv, Typed, StoreWhole, ReadingWhole, AnswersWhole, Matching

LEMMA ReturnKeeps == ASSUME IInv, NEW q \in Query, Return(q) PROVE IInv'
PROOF
<1>1. NoJob \in Job /\ NoJob.at = "away"
  BY DEF Job, NoJob, Tables, NoRows
<1>2. job' = [job EXCEPT ![q] = NoJob] /\ UNCHANGED store
  BY DEF Return
<1> QED
  BY <1>1, <1>2, QueriesKeep

LEMMA StepWhole == IInv /\ [Next]_vars => IInv'
PROOF
<1> SUFFICES ASSUME IInv, [Next]_vars PROVE IInv'
  OBVIOUS
<1>1. Walker \in Query /\ Asked \subseteq Request \union {None}
  BY ReadsAssumption DEF Query
<1>2. ASSUME NEW r \in Request, Write(r) PROVE IInv'
  BY <1>2, WriteKeeps
<1>3. CASE Expire
  <2>1. Typed' /\ StoreWhole'
    BY <1>3 DEF Expire, IInv, Typed, StoreWhole, reader
  <2> QED
    BY <1>3, <2>1, WritersKeep DEF Expire
<1>4. CASE PurgeBegin \/ PurgeEnd
  BY <1>4, PurgeBeginKeeps, PurgeEndKeeps
<1>5. ASSUME NEW table \in {"requests", "parts"}, PurgeTable(table) PROVE IInv'
  BY <1>5, PurgeTableKeeps
<1>6. ASSUME NEW q \in Query, Begin(q) \/ FirstStatement(q) \/ LaterStatements(q)
                              \/ QueryFails(q) \/ CallerLeaves(q) \/ Return(q)
      PROVE IInv'
  BY <1>6, BeginKeeps, FirstKeeps, LaterKeeps, FailKeeps, LeavesKeep, ReturnKeeps
<1>7. ASSUME NEW q \in Query, NEW of \in Asked, Ask(q, of) PROVE IInv'
  BY <1>1, <1>7, AskKeeps DEF Ask
<1>8. ASSUME NEW r \in Request, AskPage(At[r]) PROVE IInv'
  BY <1>1, <1>8, AskKeeps DEF AskPage
<1>9. CASE UNCHANGED vars
  BY <1>9, WritersKeep DEF vars, reader, IInv, Typed, StoreWhole
<1> QED
  BY <1>2, <1>3, <1>4, <1>5, <1>6, <1>7, <1>8, <1>9 DEF Next

\* Every answer of the dashboard is about one state of the store, in which each
\* request has its parts, whatever bundles are stored and deleted meanwhile
\* (DashboardSQLiteReader.transaction(), RetentionWorker.run_batch()).
THEOREM AnswersAreWhole == Spec => []AnswersWhole
PROOF
<1>1. IInv => AnswersWhole
  BY DEF IInv
<1> QED
  BY InitWhole, StepWhole, <1>1, PTL DEF Spec

-----------------------------------------------------------------------------
(* Pages.                                                                   *)

\* Newer is a strict total order.
LEMMA NewerOrders ==
    ASSUME NEW a \in Request, NEW b \in Request
    PROVE  /\ ~Newer(a, a) /\ ~(Newer(a, b) /\ Newer(b, a))
           /\ a = b \/ Newer(a, b) \/ Newer(b, a)
           /\ \A c \in Request : Newer(a, b) /\ Newer(b, c) => Newer(a, c)
<1>1. a \in Nat /\ b \in Nat /\ At[a] \in Nat /\ At[b] \in Nat
  BY ReadsAssumption
<1>2. \A c \in Request : c \in Nat /\ At[c] \in Nat
  BY ReadsAssumption
<1> QED BY <1>1, <1>2 DEF Newer

\* Place: how many of S come before r.
Place(r, S) == Cardinality(Before(r, S))

LEMMA PlaceIn ==
    ASSUME NEW S \in SUBSET Request, IsFiniteSet(S), NEW r \in S
    PROVE  IsFiniteSet(Before(r, S)) /\ Place(r, S) \in 0 .. Cardinality(S) - 1
<1>1. Before(r, S) \in SUBSET S /\ r \notin Before(r, S)
  BY NewerOrders DEF Before
<1>2. /\ IsFiniteSet(Before(r, S)) /\ Cardinality(Before(r, S)) <= Cardinality(S)
      /\ Cardinality(S) = Cardinality(Before(r, S)) => S = Before(r, S)
  BY <1>1, FS_Subset
<1>3. Cardinality(Before(r, S)) \in Nat /\ Cardinality(S) \in Nat
  BY <1>2, FS_CardinalityType
<1>4. Cardinality(S) # Cardinality(Before(r, S))
  BY <1>1, <1>2
<1> QED BY <1>2, <1>3, <1>4 DEF Place

LEMMA PlaceOrders ==
    ASSUME NEW S \in SUBSET Request, IsFiniteSet(S), NEW a \in S, NEW b \in S, Newer(a, b)
    PROVE  Place(a, S) < Place(b, S)
<1>1. Before(a, S) \in SUBSET Before(b, S) /\ a \in Before(b, S) /\ a \notin Before(a, S)
  BY NewerOrders DEF Before
<1>2. /\ IsFiniteSet(Before(b, S))
      /\ Place(a, S) \in Nat /\ Place(b, S) \in Nat
  BY PlaceIn
<1>3. /\ Cardinality(Before(a, S)) <= Cardinality(Before(b, S))
      /\ Cardinality(Before(b, S)) = Cardinality(Before(a, S)) => Before(b, S) = Before(a, S)
  BY <1>1, <1>2, FS_Subset
<1>4. Before(b, S) # Before(a, S)
  BY <1>1
<1> QED BY <1>2, <1>3, <1>4 DEF Place

\* Two rows are never in one place, and every place is taken.
LEMMA PlacesAre ==
    ASSUME NEW S \in SUBSET Request, IsFiniteSet(S)
    PROVE  /\ \A a, b \in S : Place(a, S) = Place(b, S) => a = b
           /\ \A a, b \in S : Place(a, S) < Place(b, S) => Newer(a, b)
           /\ \A n \in 0 .. Cardinality(S) - 1 : \E r \in S : Place(r, S) = n
<1> DEFINE places == 0 .. Cardinality(S) - 1
           place == [r \in S |-> Place(r, S)]
<1>1. \A r \in S : Place(r, S) \in places
  BY PlaceIn
<1>2. ASSUME NEW a \in S, NEW b \in S
      PROVE  /\ Place(a, S) = Place(b, S) => a = b
             /\ Place(a, S) < Place(b, S) => Newer(a, b)
  <2>1. a \in Request /\ b \in Request
    OBVIOUS
  <2>2. a = b \/ Newer(a, b) \/ Newer(b, a)
    BY <2>1, NewerOrders
  <2>3. /\ Newer(a, b) => Place(a, S) < Place(b, S)
        /\ Newer(b, a) => Place(b, S) < Place(a, S)
    BY PlaceOrders
  <2>4. Place(a, S) \in Int /\ Place(b, S) \in Int
    BY <1>1
  <2> QED BY <2>2, <2>3, <2>4
<1>3. Cardinality(S) \in Nat
  BY FS_CardinalityType
<1>4. IsFiniteSet(places) /\ Cardinality(places) = Cardinality(S)
  <2>1. /\ IsFiniteSet(0 .. Cardinality(S) - 1)
        /\ Cardinality(0 .. Cardinality(S) - 1) =
             IF 0 > Cardinality(S) - 1 THEN 0 ELSE Cardinality(S) - 1 - 0 + 1
    BY <1>3, FS_Interval
  <2> QED BY <1>3, <2>1
<1>5. place \in Injection(S, places)
  BY <1>1, <1>2 DEF Injection, IsInjective
<1>6. place \in Surjection(S, places)
  BY <1>4, <1>5, FS_Injection
<1>7. \A n \in places : \E r \in S : place[r] = n
  BY <1>6 DEF Surjection
<1> QED BY <1>2, <1>7

\* The list of a set has each of its rows, newest first.
LEMMA ListedIs ==
    ASSUME NEW S \in SUBSET Request, IsFiniteSet(S)
    PROVE  /\ Listed(S) \in Seq(Request) /\ Len(Listed(S)) = Cardinality(S)
           /\ Cardinality(S) \in Nat
           /\ \A i \in 1 .. Cardinality(S) : Listed(S)[i] \in S
           /\ \A i, j \in 1 .. Cardinality(S) : i < j => Newer(Listed(S)[i], Listed(S)[j])
           /\ \A r \in S : \E i \in 1 .. Cardinality(S) : Listed(S)[i] = r
<1> DEFINE n == Cardinality(S)
<1>1. n \in Nat
  BY FS_CardinalityType
<1>2. ASSUME NEW i \in 1 .. n
      PROVE  Listed(S)[i] \in S /\ Place(Listed(S)[i], S) = i - 1
  <2>1. i - 1 \in 0 .. n - 1
    BY <1>1
  <2>2. \E r \in S : Place(r, S) = i - 1
    BY <2>1, PlacesAre
  <2> QED BY <2>2 DEF Listed, Place
<1>3. ASSUME NEW i \in 1 .. n, NEW j \in 1 .. n, i < j
      PROVE  Newer(Listed(S)[i], Listed(S)[j])
  <2>1. i - 1 < j - 1
    BY <1>1, <1>3
  <2> QED BY <1>2, <2>1, PlacesAre
<1>4. ASSUME NEW r \in S PROVE \E i \in 1 .. n : Listed(S)[i] = r
  <2> DEFINE k == Place(r, S) + 1
  <2>1. Place(r, S) \in 0 .. n - 1
    BY PlaceIn
  <2>2. k \in 1 .. n /\ k - 1 = Place(r, S)
    BY <1>1, <2>1
  <2> HIDE DEF k
  <2>3. Listed(S)[k] \in S /\ Place(Listed(S)[k], S) = Place(r, S)
    BY <1>2, <2>2
  <2>4. Listed(S)[k] = r
    BY <2>3, PlacesAre
  <2> QED BY <2>2, <2>4
<1>5. Listed(S) \in [1 .. n -> Request]
  BY <1>2 DEF Listed
<1>6. Listed(S) \in Seq(Request) /\ Len(Listed(S)) = n
  BY <1>1, <1>5
<1> QED BY <1>1, <1>2, <1>3, <1>4, <1>6

\* A page is the newest rows of the range behind the cursor; there is more when
\* it has not all of them, and what is left out is older than all it has.
LEMMA PageIs ==
    ASSUME NEW S \in SUBSET Request, IsFiniteSet(S), NEW n \in Nat \ {0}
    PROVE  LET found == Newest(S, n + 1)
               page == Newest(found, n)
           IN  /\ page \subseteq S
               /\ \A r \in S \ page : found # page /\ \A p \in page : Newer(p, r)
               /\ found # page => page # {}
<1> DEFINE found == Newest(S, n + 1)
           page == Newest(found, n)
<1>1. found = {r \in S : Place(r, S) < n + 1} /\ found \in SUBSET S
  BY DEF Newest, Place
<1>2. \A r \in S : Place(r, S) \in Nat
  BY PlaceIn
<1>3. ASSUME NEW r \in found PROVE Place(r, found) = Place(r, S)
  <2>1. ASSUME NEW s \in S, Newer(s, r) PROVE s \in found
    <3>1. Place(s, S) < Place(r, S)
      BY <1>1, <2>1, PlaceOrders
    <3> QED BY <1>1, <1>2, <3>1
  <2>2. Before(r, found) = Before(r, S)
    BY <1>1, <2>1 DEF Before
  <2> QED BY <2>2 DEF Place
<1>4. page = {r \in found : Place(r, found) < n}
  BY DEF Newest, Place
<1>5. page = {r \in S : Place(r, S) < n}
  BY <1>1, <1>2, <1>3, <1>4
<1> HIDE DEF found, page
<1>6. ASSUME NEW r \in S \ page PROVE found # page /\ \A p \in page : Newer(p, r)
  <2>1. Place(r, S) >= n
    BY <1>2, <1>5
  <2>2. \A p \in page : Newer(p, r)
    BY <1>2, <1>5, <2>1, PlacesAre
  <2>3. Place(r, S) \in 0 .. Cardinality(S) - 1 /\ Cardinality(S) \in Nat
    BY PlaceIn, FS_CardinalityType
  <2>4. PICK last \in S : Place(last, S) = n
    <3>1. n \in 0 .. Cardinality(S) - 1
      BY <2>1, <2>3
    <3> QED BY <3>1, PlacesAre
  <2>5. last \in found /\ last \notin page
    BY <1>1, <1>5, <2>4
  <2> QED BY <2>2, <2>5
<1>7. found # page => page # {}
  <2> SUFFICES ASSUME NEW r \in S PROVE page # {}
    BY <1>1, <1>5
  <2>1. Place(r, S) \in 0 .. Cardinality(S) - 1 /\ Cardinality(S) \in Nat
    BY PlaceIn, FS_CardinalityType
  <2>2. 0 \in 0 .. Cardinality(S) - 1
    BY <2>1
  <2>3. PICK first \in S : Place(first, S) = 0
    BY <2>2, PlacesAre
  <2> QED BY <1>5, <2>3
<1>8. page \subseteq S
  BY <1>5
<1> QED BY <1>6, <1>7, <1>8 DEF found, page
-----------------------------------------------------------------------------
(* The walk.                                                                *)

WalkRecord ==
    [at : {"start", "between", "waiting", "done"}, cursor : Request \union {None}, from : Nat,
     got : Seq(Request), since : SUBSET Request]

\* What is stored once is not stored again.
Kept ==
    /\ walk \in WalkRecord
    /\ written \subseteq Request /\ walk.since \subseteq written
    /\ rows.requests \subseteq written /\ IsFiniteSet(rows.requests)
    /\ purge # None => purge.rows.requests \subseteq rows.requests

\* A query waits for a thread once.
Queued ==
    /\ queue \in Seq(Query)
    /\ \A i \in DOMAIN queue : job[queue[i]].at = "queued"
    /\ \A i, j \in DOMAIN queue : queue[i] = queue[j] => i = j

Waits == walk.at = "waiting" <=> job[Walker].at # "away"

\* What the client has is in order, and not behind the cursor.
Got ==
    /\ \A i, j \in DOMAIN walk.got : i < j => Newer(walk.got[i], walk.got[j])
    /\ walk.cursor = None => walk.at = "done" \/ walk.got = <<>>
    /\ walk.cursor # None /\ walk.at # "done" => \A i \in DOMAIN walk.got :
                                walk.got[i] = walk.cursor \/ Newer(walk.got[i], walk.cursor)

\* What the client has to get, it has or is behind the cursor.
Wanted == {r \in walk.since \intersect rows.requests : At[r] >= walk.from}
Due == \A r \in Wanted :
          r \in Range(walk.got) \/ (walk.at # "done" /\ PastCursor(r))

\* The page on its way takes up at the cursor and leaves out nothing between.
PageOnItsWay ==
    job[Walker].at = "reading" \/ (job[Walker].at = "ended" /\ job[Walker].answer = "ok") =>
        /\ IsFiniteSet(job[Walker].first)
        /\ job[Walker].more => job[Walker].first # {}
        /\ \A p \in job[Walker].first : PastCursor(p)
        /\ \A r \in Wanted : PastCursor(r) =>
              \/ r \in job[Walker].first
              \/ job[Walker].more /\ \A p \in job[Walker].first : Newer(p, r)

WInv == Kept /\ Queued /\ Waits /\ Got /\ Due /\ PageOnItsWay

LEMMA InitWalk == Init => WInv
<1> SUFFICES ASSUME Init PROVE WInv
  OBVIOUS
<1>1. Kept /\ Queued /\ Waits /\ PageOnItsWay
  BY ReadsAssumption DEF Init, Kept, WalkRecord, Queued, Waits, PageOnItsWay, NoJob, Query
<1>2. Got /\ Due
  BY DEF Init, Got, Due, Wanted
<1> QED BY <1>1, <1>2 DEF WInv

LEMMA WritersWalk ==
    ASSUME WInv, Kept', UNCHANGED reader,
           walk.since \intersect rows'.requests \subseteq rows.requests
    PROVE  WInv'
<1>1. walk' = walk /\ job' = job /\ queue' = queue /\ Wanted' \subseteq Wanted
  BY DEF reader, Wanted
<1>2. Queued' /\ Waits' /\ Got'
  BY <1>1 DEF WInv, Queued, Waits, Got
<1>3. Due' /\ PageOnItsWay'
  BY <1>1 DEF WInv, Due, PageOnItsWay, PastCursor
<1> QED BY <1>2, <1>3 DEF WInv

LEMMA WriteWalk == ASSUME IInv, WInv, NEW r \in Request, Write(r) PROVE WInv'
<1>1. /\ rows'.requests = rows.requests \union {r} /\ written' = written \union {r}
      /\ purge' = None /\ UNCHANGED reader /\ walk' = walk /\ r \notin written
  BY DEF Write, reader
<1>2. IsFiniteSet(rows'.requests)
  BY <1>1, FS_AddElement DEF WInv, Kept
<1>3. Kept'
  BY <1>1, <1>2 DEF WInv, Kept
<1>4. walk.since \intersect rows'.requests \subseteq rows.requests
  BY <1>1 DEF WInv, Kept
<1> QED BY <1>1, <1>3, <1>4, WritersWalk

LEMMA PurgeWalk ==
    ASSUME IInv, WInv,
           Expire \/ PurgeBegin \/ PurgeEnd \/ \E table \in {"requests", "parts"} : PurgeTable(table)
    PROVE  WInv'
<1>1. rows \in Tables /\ purge \in PurgeRecord \union {None}
  BY DEF IInv, Typed
<1>2. UNCHANGED reader /\ written' = written /\ walk' = walk
  BY DEF Expire, PurgeBegin, PurgeEnd, PurgeTable, reader
<1>3. rows'.requests \subseteq rows.requests
  BY <1>1 DEF Expire, PurgeBegin, PurgeEnd, PurgeTable, WInv, Kept
<1>4. purge' # None => purge'.rows.requests \subseteq rows'.requests
  <2>1. CASE Expire
    BY <2>1 DEF Expire, WInv, Kept
  <2>2. CASE PurgeBegin
    BY <2>2 DEF PurgeBegin
  <2>3. CASE PurgeEnd
    BY <2>3 DEF PurgeEnd
  <2>4. ASSUME NEW table \in {"requests", "parts"}, PurgeTable(table)
        PROVE  purge'.rows.requests \subseteq rows'.requests
    <3>1. purge \in PurgeRecord /\ rows' = rows /\ purge.rows.requests \subseteq rows.requests
      BY <1>1, <2>4 DEF PurgeTable, WInv, Kept
    <3>2. purge'.rows.requests \subseteq purge.rows.requests
      BY <2>4, <3>1 DEF PurgeTable, PurgeRecord, Tables
    <3> QED BY <3>1, <3>2
  <2> QED BY <2>1, <2>2, <2>3, <2>4
<1>5. IsFiniteSet(rows'.requests)
  BY <1>3, FS_Subset DEF WInv, Kept
<1>6. Kept'
  BY <1>2, <1>3, <1>4, <1>5 DEF WInv, Kept
<1> QED BY <1>2, <1>3, <1>6, WritersWalk

\* What PageOnItsWay says of a query's record.
PageOf(j) ==
    j.at = "reading" \/ (j.at = "ended" /\ j.answer = "ok") =>
        /\ IsFiniteSet(j.first)
        /\ j.more => j.first # {}
        /\ \A p \in j.first : PastCursor(p)
        /\ \A r \in Wanted : PastCursor(r) =>
              \/ r \in j.first
              \/ j.more /\ \A p \in j.first : Newer(p, r)

\* A step that sets one query, and not the walk.
LEMMA QueriesWalk ==
    ASSUME IInv, WInv, NEW q \in Query, NEW j, UNCHANGED store, walk' = walk,
           job' = [job EXCEPT ![q] = j], Queued',
           q = Walker => PageOf(j) /\ (j.at = "away" <=> job[Walker].at = "away")
    PROVE  WInv'
<1>1. job \in [Query -> Job] /\ Walker \in Query
  BY DEF IInv, Typed, Query
<1>2. job'[Walker] = IF q = Walker THEN j ELSE job[Walker]
  BY <1>1
<1>3. Kept' /\ Got' /\ Due'
  BY DEF WInv, Kept, Got, Due, Wanted, PastCursor, store
<1>4. Waits'
  BY <1>2 DEF WInv, Waits
<1>5. Wanted' = Wanted
  BY DEF Wanted, store
<1>6. PageOnItsWay'
  BY <1>2, <1>5 DEF WInv, PageOnItsWay, PageOf, PastCursor
<1> QED BY <1>3, <1>4, <1>6 DEF WInv

\* The queue after a step on a query that is not in it.
LEMMA QueueStays ==
    ASSUME IInv, WInv, NEW q \in Query, NEW j, job' = [job EXCEPT ![q] = j], queue' = queue,
           job[q].at # "queued" \/ j.at = "queued"
    PROVE  Queued'
<1>1. job \in [Query -> Job]
  BY DEF IInv, Typed
<1>2. \A i \in DOMAIN queue : queue[i] \in Query /\ job[queue[i]].at = "queued"
  BY DEF WInv, Queued
<1>3. \A i \in DOMAIN queue : job'[queue[i]].at = "queued"
  BY <1>1, <1>2
<1> QED BY <1>3 DEF WInv, Queued

LEMMA BeginWalk == ASSUME IInv, WInv, NEW q \in Query, Begin(q) PROVE WInv'
<1>1. job \in [Query -> Job] /\ job[q] \in Job
  BY DEF IInv, Typed
<1>2. PICK j \in Job : /\ j.at = "running" \/ (j.at = "ended" /\ j.answer = "failed")
                       /\ job' = [job EXCEPT ![q] = j]
  BY BeginSets
<1>3. queue \in Seq(Query) /\ queue # <<>> /\ q = queue[1] /\ queue' = Tail(queue)
  BY DEF Begin, WInv, Queued
<1>4. job[q].at = "queued"
  BY <1>3 DEF WInv, Queued
<1>5. queue' \in Seq(Query) /\ Len(queue') = Len(queue) - 1
  BY <1>3
<1>6. ASSUME NEW i \in DOMAIN queue'
      PROVE  i + 1 \in DOMAIN queue /\ queue'[i] = queue[i + 1] /\ queue'[i] # q
  <2>1. i \in 1 .. Len(queue) - 1 /\ Len(queue) \in Nat
    BY <1>3, <1>5
  <2>2. i + 1 \in DOMAIN queue /\ i + 1 # 1 /\ 1 \in DOMAIN queue
    BY <1>3, <2>1
  <2>3. queue'[i] = queue[i + 1]
    BY <1>3, <2>1
  <2> QED BY <1>3, <2>2, <2>3 DEF WInv, Queued
<1>7. Queued'
  <2>1. ASSUME NEW i \in DOMAIN queue' PROVE job'[queue'[i]].at = "queued"
    <3>1. queue[i + 1] \in Query /\ queue[i + 1] # q /\ job[queue[i + 1]].at = "queued"
      BY <1>3, <1>6 DEF WInv, Queued
    <3> QED BY <1>1, <1>2, <1>6, <3>1
  <2>2. ASSUME NEW a \in DOMAIN queue', NEW b \in DOMAIN queue', queue'[a] = queue'[b]
        PROVE  a = b
    <3>1. a + 1 = b + 1
      BY <1>6, <2>2 DEF WInv, Queued
    <3>2. a \in Nat /\ b \in Nat
      BY <1>5
    <3> QED BY <3>1, <3>2
  <2> QED BY <1>5, <2>1, <2>2 DEF Queued
<1>8. PageOf(j) /\ j.at # "away" /\ job[q].at # "away"
  BY <1>2, <1>4 DEF PageOf
<1>9. UNCHANGED store /\ walk' = walk
  BY DEF Begin
<1> QED BY <1>2, <1>7, <1>8, <1>9, QueriesWalk

LEMMA FirstWalk == ASSUME IInv, WInv, NEW q \in Query, FirstStatement(q) PROVE WInv'
<1> DEFINE found == Selected(q, rows.requests)
           page == IF q = Walker THEN Newest(found, PageLimit) ELSE found
           j == [job[q] EXCEPT !.at = "reading", !.snap = rows, !.first = page, !.more = found # page]
<1>1. job \in [Query -> Job] /\ job[q] \in Job /\ job[q].at = "running"
  BY DEF IInv, Typed, FirstStatement
<1>2. /\ j.at = "reading" /\ j.first = page /\ j.more = (found # page)
      /\ job' = [job EXCEPT ![q] = j]
      /\ UNCHANGED store /\ walk' = walk /\ queue' = queue
  BY <1>1 DEF Job, FirstStatement
<1> HIDE DEF j
<1>3. Queued'
  BY <1>1, <1>2, QueueStays
<1>4. CASE q = Walker
  <2> DEFINE base == {r \in rows.requests : At[r] >= walk.from /\ PastCursor(r)}
  <2>1. base \in SUBSET rows.requests /\ rows.requests \subseteq Request
    BY DEF WInv, Kept
  <2>2. base \in SUBSET Request /\ IsFiniteSet(base)
    BY <2>1, FS_Subset DEF WInv, Kept
  <2>3. found = Newest(base, PageLimit + 1) /\ page = Newest(found, PageLimit)
    BY <1>4 DEF Selected, Page
  <2> HIDE DEF found, page, base
  <2>4. /\ page \subseteq base
        /\ \A r \in base \ page : found # page /\ \A p \in page : Newer(p, r)
        /\ found # page => page # {}
    BY <2>2, <2>3, PageIs, ReadsAssumption
  <2>5. IsFiniteSet(page)
    BY <2>2, <2>4, FS_Subset
  <2>6. \A r \in Wanted : PastCursor(r) => r \in base
    BY DEF Wanted, base
  <2>7. PageOf(j)
    BY <1>2, <2>4, <2>5, <2>6 DEF PageOf, base
  <2>8. j.at # "away" /\ job[Walker].at # "away"
    BY <1>1, <1>2, <1>4
  <2> QED BY <1>2, <1>3, <2>7, <2>8, QueriesWalk
<1> QED BY <1>2, <1>3, <1>4, QueriesWalk

LEMMA LaterWalk ==
    ASSUME IInv, WInv, NEW q \in Query, LaterStatements(q) \/ QueryFails(q) PROVE WInv'
<1>1. job \in [Query -> Job] /\ job[q] \in Job /\ job[q].at \in {"running", "reading"}
  BY DEF IInv, Typed, LaterStatements, QueryFails
<1>2. UNCHANGED store /\ walk' = walk /\ queue' = queue
  BY DEF LaterStatements, QueryFails
<1>3. CASE LaterStatements(q)
  <2> DEFINE rest == [requests |-> Sections(q, job[q].snap), parts |-> Parts(q, job[q].snap)]
             j == [job[q] EXCEPT !.at = "ended", !.answer = "ok", !.snap = NoRows, !.rest = rest]
  <2>1. /\ j.at = "ended" /\ j.answer = "ok" /\ j.first = job[q].first /\ j.more = job[q].more
        /\ job' = [job EXCEPT ![q] = j] /\ job[q].at = "reading"
    <3> HIDE DEF rest
    <3>1. j.at = "ended" /\ j.answer = "ok" /\ j.first = job[q].first /\ j.more = job[q].more
      BY <1>1 DEF Job
    <3>2. job' = [job EXCEPT ![q] = j] /\ job[q].at = "reading"
      BY <1>3 DEF LaterStatements, Answer, rest
    <3> QED BY <3>1, <3>2
  <2> HIDE DEF j
  <2>2. Queued'
    BY <1>1, <1>2, <2>1, QueueStays
  <2>3. q = Walker => PageOf(j) /\ j.at # "away" /\ job[q].at # "away"
    BY <2>1 DEF PageOf, WInv, PageOnItsWay
  <2> QED BY <1>2, <2>1, <2>2, <2>3, QueriesWalk
<1>4. CASE QueryFails(q)
  <2> DEFINE j == Unanswered(q)
  <2>1. j.at = "ended" /\ j.answer = "failed" /\ job' = [job EXCEPT ![q] = j]
    BY <1>4, UnansweredType DEF QueryFails
  <2> HIDE DEF j
  <2>2. Queued'
    BY <1>1, <1>2, <2>1, QueueStays
  <2>3. PageOf(j) /\ j.at # "away" /\ job[q].at # "away"
    BY <1>1, <2>1 DEF PageOf
  <2> QED BY <1>2, <2>1, <2>2, <2>3, QueriesWalk
<1> QED BY <1>3, <1>4

LEMMA LeavesWalk == ASSUME WInv, NEW q \in Query, CallerLeaves(q) PROVE WInv'
<1>1. UNCHANGED <<store, queue, job, walk>>
  BY DEF CallerLeaves
<1>2. Wanted' = Wanted /\ Kept' /\ Queued' /\ Waits' /\ Got'
  BY <1>1 DEF store, Wanted, WInv, Kept, Queued, Waits, Got
<1>3. Due' /\ PageOnItsWay'
  BY <1>1, <1>2 DEF WInv, Due, PageOnItsWay, PastCursor
<1> QED BY <1>2, <1>3 DEF WInv

LEMMA RefusedWalk ==
    ASSUME IInv, WInv, NEW q \in Query, Refused(q), job[q].at = "away", UNCHANGED store, walk' = walk
    PROVE  WInv'
<1> DEFINE j == [job[q] EXCEPT !.answer = "busy"]
<1>1. job[q] \in Job /\ queue' = queue
  BY DEF IInv, Typed, Refused
<1>2. j.at = "away" /\ job' = [job EXCEPT ![q] = j]
  BY <1>1 DEF Job, Refused
<1> HIDE DEF j
<1>3. Queued'
  BY <1>1, <1>2, QueueStays
<1>4. PageOf(j)
  BY <1>2 DEF PageOf
<1> QED BY <1>2, <1>3, <1>4, QueriesWalk

LEMMA AdmittedQueues ==
    ASSUME IInv, WInv, NEW q \in Query, NEW of, Admitted(q, of), job[q].at = "away"
    PROVE  Queued' /\ job'[q].at = "queued" /\ \A p \in Query \ {q} : job'[p] = job[p]
<1>1. job \in [Query -> Job] /\ queue \in Seq(Query) /\ queue' = Append(queue, q)
  BY DEF IInv, Typed, WInv, Queued, Admitted
<1>2. job'[q].at = "queued" /\ \A p \in Query \ {q} : job'[p] = job[p]
  BY <1>1 DEF Admitted, NoJob
<1>3. queue' \in Seq(Query) /\ Len(queue') = Len(queue) + 1 /\ Len(queue) \in Nat
  BY <1>1
<1>4. /\ queue'[Len(queue) + 1] = q
      /\ \A i \in DOMAIN queue : queue'[i] = queue[i] /\ queue[i] \in Query
  BY <1>1
<1>5. \A i \in DOMAIN queue : queue[i] # q /\ job[queue[i]].at = "queued"
  BY DEF WInv, Queued
<1>6. \A i \in DOMAIN queue' : i \in DOMAIN queue \/ i = Len(queue) + 1
  BY <1>1, <1>3
<1>7. \A i \in DOMAIN queue' : job'[queue'[i]].at = "queued"
  BY <1>2, <1>4, <1>5, <1>6
<1>8. \A i, k \in DOMAIN queue' : queue'[i] = queue'[k] => i = k
  BY <1>4, <1>5, <1>6 DEF WInv, Queued
<1> QED BY <1>2, <1>3, <1>7, <1>8 DEF Queued

LEMMA AskWalk == ASSUME IInv, WInv, NEW q \in Query, NEW of, Ask(q, of) PROVE WInv'
<1>1. q # Walker /\ job[q].at = "away" /\ UNCHANGED store /\ walk' = walk
  BY DEF Ask
<1>2. CASE Refused(q)
  BY <1>1, <1>2, RefusedWalk
<1>3. CASE Admitted(q, of)
  <2>1. Queued'
    BY <1>1, <1>3, AdmittedQueues
  <2>2. \E j : job' = [job EXCEPT ![q] = j]
    BY <1>3 DEF Admitted
  <2> QED BY <1>1, <2>1, <2>2, QueriesWalk
<1> QED BY <1>2, <1>3 DEF Ask

LEMMA AskPageWalk == ASSUME IInv, WInv, NEW from \in Nat, AskPage(from) PROVE WInv'
<1>1. /\ walk \in WalkRecord /\ walk.at \in {"start", "between"} /\ from >= walk.from
      /\ job[Walker].at = "away" /\ UNCHANGED store
  BY DEF AskPage, WInv, Waits, Kept
<1>2. Walker \in Query
  BY DEF Query
<1>3. CASE Refused(Walker) /\ walk' = walk
  BY <1>1, <1>2, <1>3, RefusedWalk
<1>4. CASE ~(Refused(Walker) /\ walk' = walk)
  <2>1. /\ Admitted(Walker, None)
        /\ walk' = [walk EXCEPT !.at = "waiting", !.from = from,
                      !.since = IF walk.cursor = None THEN rows.requests ELSE @]
    BY <1>4 DEF AskPage
  <2>2. /\ walk' \in WalkRecord /\ walk'.at = "waiting" /\ walk'.from = from
        /\ walk'.cursor = walk.cursor /\ walk'.got = walk.got
        /\ walk'.since = IF walk.cursor = None THEN rows.requests ELSE walk.since
    <3>1. rows.requests \subseteq Request
      BY DEF WInv, Kept
    <3> QED BY <1>1, <2>1, <3>1 DEF WalkRecord
  <2>3. Queued' /\ job'[Walker].at = "queued"
    BY <1>1, <1>2, <2>1, AdmittedQueues
  <2>4. Kept'
    BY <1>1, <2>2 DEF WInv, Kept, store
  <2>5. Waits' /\ PageOnItsWay'
    BY <2>2, <2>3 DEF Waits, PageOnItsWay
  <2>6. Got'
    BY <1>1, <2>2 DEF WInv, Got
  <2>7. Due'
    <3> SUFFICES ASSUME NEW r \in Wanted' PROVE r \in Range(walk'.got) \/ PastCursor(r)'
      BY <2>2 DEF Due
    <3>1. CASE walk.cursor = None
      BY <2>2, <3>1 DEF PastCursor
    <3>2. CASE walk.cursor # None
      <4>1. At[r] \in Nat /\ walk.from \in Nat
        BY <1>1, ReadsAssumption DEF Wanted, WInv, Kept, WalkRecord, store
      <4>2. r \in Wanted
        BY <1>1, <2>2, <3>2, <4>1 DEF Wanted, store
      <4> QED BY <2>2, <4>2 DEF WInv, Due, PastCursor
    <3> QED BY <3>1, <3>2
  <2> QED BY <2>3, <2>4, <2>5, <2>6, <2>7 DEF WInv
<1> QED BY <1>3, <1>4

\* The walk goes on behind the last row of a page, or has come to its end.
LEMMA TurnWalk ==
    ASSUME WInv, NEW page \in SUBSET Request, NEW more \in BOOLEAN, IsFiniteSet(page),
           more => page # {}, \A p \in page : PastCursor(p),
           \A r \in Wanted : PastCursor(r) =>
               r \in page \/ (more /\ \A p \in page : Newer(p, r)),
           walk' = Turn(page, more), walk.at = "waiting", UNCHANGED store
    PROVE  /\ walk' \in WalkRecord /\ walk'.at # "waiting" /\ walk'.since = walk.since
           /\ Got' /\ Due'
<1> DEFINE items == Listed(page)
           n == Len(items)
           got == walk.got
           m == Len(got)
<1>1. walk \in WalkRecord /\ walk.cursor \in Request \union {None} /\ got \in Seq(Request)
  BY DEF WInv, Kept, WalkRecord
<1>2. /\ items \in Seq(Request) /\ n \in Nat
      /\ \A i \in 1 .. n : items[i] \in page
      /\ \A i, j \in 1 .. n : i < j => Newer(items[i], items[j])
      /\ \A r \in page : \E i \in 1 .. n : items[i] = r
  BY ListedIs
<1> HIDE DEF items
<1>3. /\ walk'.got = got \o items
      /\ walk'.cursor = IF more THEN Last(items) ELSE walk.cursor
      /\ walk'.at = IF more THEN "between" ELSE "done"
      /\ walk'.from = walk.from /\ walk'.since = walk.since
  BY <1>1 DEF Turn, items, WalkRecord
<1>4. more => n > 0 /\ Last(items) = items[n] /\ Last(items) \in page
  <2> SUFFICES ASSUME more PROVE n > 0 /\ Last(items) = items[n] /\ Last(items) \in page
    OBVIOUS
  <2>1. PICK r \in page : TRUE
    OBVIOUS
  <2>2. n > 0
    BY <1>2, <2>1
  <2> QED BY <1>2, <2>2 DEF Last
<1>5. walk' \in WalkRecord /\ walk'.at # "waiting" /\ walk'.since = walk.since
  <2>1. got \o items \in Seq(Request)
    BY <1>1, <1>2
  <2>2. more => Last(items) \in Request
    BY <1>4
  <2>3. walk' = [walk EXCEPT !.got = @ \o items, !.cursor = IF more THEN Last(items) ELSE @,
                             !.at = IF more THEN "between" ELSE "done"]
    BY DEF Turn, items
  <2>4. walk' \in WalkRecord
    BY <1>1, <2>1, <2>2, <2>3 DEF WalkRecord
  <2> QED BY <1>3, <2>4
<1>6. /\ m \in Nat /\ DOMAIN (got \o items) = 1 .. m + n
      /\ \A i \in 1 .. m : (got \o items)[i] = got[i] /\ got[i] \in Request
      /\ \A i \in m + 1 .. m + n : i - m \in 1 .. n /\ (got \o items)[i] = items[i - m]
  BY <1>1, <1>2
\* What the client has comes before what it gets.
<1>7. ASSUME NEW i \in 1 .. m, NEW p \in page PROVE Newer(got[i], p)
  <2>1. got # <<>>
    BY <1>1, <1>7
  <2>2. walk.cursor # None /\ (got[i] = walk.cursor \/ Newer(got[i], walk.cursor))
    BY <1>1, <2>1 DEF WInv, Got
  <2>3. walk.cursor \in Request /\ p \in Request /\ got[i] \in Request
    BY <1>1, <1>6, <2>2
  <2>4. Newer(walk.cursor, p)
    <3>1. /\ At[walk.cursor] \in Nat /\ At[p] \in Nat /\ walk.cursor \in Nat /\ p \in Nat
      BY <2>3, ReadsAssumption
    <3> QED BY <2>2, <3>1 DEF PastCursor, Newer
  <2> QED BY <2>2, <2>3, <2>4, NewerOrders
<1>8. ASSUME NEW i \in 1 .. m + n, NEW j \in 1 .. m + n, i < j
      PROVE  Newer((got \o items)[i], (got \o items)[j])
  <2>1. CASE j <= m
    BY <1>1, <1>6, <1>8, <2>1 DEF WInv, Got
  <2>2. CASE i <= m /\ j > m
    <3>1. i \in 1 .. m /\ j \in m + 1 .. m + n
      BY <1>2, <1>6, <2>2
    <3> QED BY <1>2, <1>6, <1>7, <3>1
  <2>3. CASE i > m
    <3>1. i \in m + 1 .. m + n /\ j \in m + 1 .. m + n /\ i - m < j - m
      BY <1>2, <1>6, <1>8, <2>3
    <3> QED BY <1>2, <1>6, <3>1
  <2> QED BY <1>2, <1>6, <2>1, <2>2, <2>3
<1>9. Got'
  <2>1. \A i, j \in DOMAIN walk'.got : i < j => Newer(walk'.got[i], walk'.got[j])
    BY <1>3, <1>6, <1>8
  <2>2. walk'.cursor = None => walk'.at = "done" \/ walk'.got = <<>>
    BY <1>3, <1>4, ReadsAssumption
  <2>3. ASSUME walk'.cursor # None, walk'.at # "done", NEW i \in DOMAIN walk'.got
        PROVE  walk'.got[i] = walk'.cursor \/ Newer(walk'.got[i], walk'.cursor)
    <3>1. i \in 1 .. m + n /\ walk'.got[i] = (got \o items)[i]
      BY <1>3, <1>6, <2>3
    <3>2. more
      BY <1>3, <2>3
    <3>3. m + n \in 1 .. m + n /\ (got \o items)[m + n] = items[n] /\ walk'.cursor = items[n]
      <4>1. m + n \in m + 1 .. m + n /\ m + n \in 1 .. m + n /\ (m + n) - m = n
        BY <1>2, <1>4, <1>6, <3>2
      <4> QED BY <1>3, <1>4, <1>6, <3>2, <4>1
    <3>4. i = m + n \/ i < m + n
      <4>1. \A k \in Nat : i \in 1 .. k => i = k \/ i < k
        OBVIOUS
      <4>2. m + n \in Nat
        BY <1>2, <1>6
      <4> QED BY <3>1, <4>1, <4>2
    <3> QED BY <1>8, <3>1, <3>3, <3>4
  <2> QED BY <2>1, <2>2, <2>3 DEF Got
<1>10. Due'
  <2> SUFFICES ASSUME NEW r \in Wanted'
               PROVE  r \in Range(walk'.got) \/ (walk'.at # "done" /\ PastCursor(r)')
    BY DEF Due
  <2>1. r \in Wanted /\ r \in Request
    BY <1>3 DEF Wanted, store, WInv, Kept
  <2>2. CASE r \in Range(got)
    <3>1. PICK i \in 1 .. m : got[i] = r
      BY <1>1, <2>2 DEF Range
    <3>2. i \in DOMAIN walk'.got /\ walk'.got[i] = r
      BY <1>2, <1>3, <1>6, <3>1
    <3> QED BY <3>2 DEF Range
  <2>3. CASE PastCursor(r) /\ r \in page
    <3>1. PICK i \in 1 .. n : items[i] = r
      BY <1>2, <2>3
    <3>2. m + i \in m + 1 .. m + n /\ (m + i) - m = i /\ m + i \in 1 .. m + n
      BY <1>2, <1>6, <3>1
    <3>3. m + i \in DOMAIN walk'.got /\ walk'.got[m + i] = r
      BY <1>3, <1>6, <3>1, <3>2
    <3> QED BY <3>3 DEF Range
  <2>4. CASE more /\ \A p \in page : Newer(p, r)
    <3>1. walk'.cursor \in page /\ walk'.at # "done"
      BY <1>3, <1>4, <2>4
    <3>2. Newer(walk'.cursor, r)
      BY <2>4, <3>1
    <3>3. PastCursor(r)'
      BY <3>2 DEF PastCursor, Newer
    <3> QED BY <3>1, <3>3
  <2> QED BY <2>1, <2>2, <2>3, <2>4 DEF WInv, Due
<1> QED BY <1>5, <1>9, <1>10

LEMMA ReturnWalk == ASSUME IInv, WInv, NEW q \in Query, Return(q) PROVE WInv'
<1>1. /\ job \in [Query -> Job] /\ job[q] \in Job /\ job[q].at = "ended"
      /\ job' = [job EXCEPT ![q] = NoJob] /\ NoJob.at = "away"
      /\ UNCHANGED store /\ queue' = queue /\ Walker \in Query
  BY DEF IInv, Typed, Return, NoJob, Query
<1>2. Queued'
  BY <1>1, QueueStays
<1>3. CASE q # Walker
  <2>1. walk' = walk
    BY <1>3 DEF Return
  <2> QED BY <1>1, <1>2, <1>3, <2>1, QueriesWalk
<1>4. CASE q = Walker
  <2>1. walk \in WalkRecord /\ walk.at = "waiting"
    BY <1>1, <1>4 DEF WInv, Kept, Waits
  <2>2. job'[Walker].at = "away" /\ PageOnItsWay'
    BY <1>1, <1>4 DEF PageOnItsWay
  <2>3. walk' \in WalkRecord /\ walk'.at # "waiting" /\ walk'.since = walk.since /\ Got' /\ Due'
    <3>1. CASE job[q].answer = "ok"
      <4> DEFINE page == job[q].first
                 more == job[q].more
      <4>1. walk' = Turn(page, more) /\ page \in SUBSET Request /\ more \in BOOLEAN
        BY <1>1, <1>4, <3>1 DEF Return, Job
      <4>2. /\ IsFiniteSet(page)
            /\ more => page # {}
            /\ \A p \in page : PastCursor(p)
            /\ \A r \in Wanted : PastCursor(r) =>
                  r \in page \/ (more /\ \A p \in page : Newer(p, r))
        BY <1>1, <1>4, <3>1 DEF WInv, PageOnItsWay
      <4> HIDE DEF page, more
      <4> QED BY <1>1, <2>1, <4>1, <4>2, TurnWalk
    <3>2. CASE job[q].answer # "ok"
      <4>1. walk' = [walk EXCEPT !.at = "between"]
        BY <1>4, <3>2 DEF Return
      <4>2. /\ walk' \in WalkRecord /\ walk'.at = "between" /\ walk'.cursor = walk.cursor
            /\ walk'.from = walk.from /\ walk'.got = walk.got /\ walk'.since = walk.since
        BY <2>1, <4>1 DEF WalkRecord
      <4>3. Got'
        BY <2>1, <4>2 DEF WInv, Got
      <4>4. Due'
        BY <1>1, <2>1, <4>2 DEF WInv, Due, Wanted, PastCursor, store
      <4> QED BY <4>2, <4>3, <4>4
    <3> QED BY <3>1, <3>2
  <2>4. Kept'
    BY <1>1, <2>3 DEF WInv, Kept, store
  <2>5. Waits'
    BY <2>2, <2>3 DEF Waits
  <2> QED BY <1>2, <2>2, <2>3, <2>4, <2>5 DEF WInv
<1> QED BY <1>3, <1>4

LEMMA StepWalk == IInv /\ WInv /\ [Next]_vars => WInv'
<1> SUFFICES ASSUME IInv, WInv, [Next]_vars PROVE WInv'
  OBVIOUS
<1>1. ASSUME NEW r \in Request, Write(r) PROVE WInv'
  BY <1>1, WriteWalk
<1>2. CASE Expire \/ PurgeBegin \/ PurgeEnd \/ \E table \in {"requests", "parts"} : PurgeTable(table)
  BY <1>2, PurgeWalk
<1>3. ASSUME NEW q \in Query, Begin(q) \/ FirstStatement(q) \/ LaterStatements(q)
                              \/ QueryFails(q) \/ CallerLeaves(q) \/ Return(q)
      PROVE WInv'
  BY <1>3, BeginWalk, FirstWalk, LaterWalk, LeavesWalk, ReturnWalk
<1>4. ASSUME NEW q \in Query, NEW of \in Asked, Ask(q, of) PROVE WInv'
  BY <1>4, AskWalk
<1>5. ASSUME NEW r \in Request, AskPage(At[r]) PROVE WInv'
  BY <1>5, AskPageWalk, ReadsAssumption
<1>6. CASE UNCHANGED vars
  <2>1. UNCHANGED reader /\ rows' = rows /\ Kept'
    BY <1>6 DEF vars, reader, WInv, Kept
  <2> QED BY <2>1, WritersWalk
<1> QED BY <1>1, <1>2, <1>3, <1>4, <1>5, <1>6 DEF Next

\* A client that walks to the last page has every request that was stored when
\* it began and still is, newest first and none twice, whatever bundles are
\* stored and deleted between its pages, whichever of its queries are refused or
\* fail (build_request_page(), encode_cursor(), decode_cursor()).
THEOREM WalksAreComplete == Spec => []WalkComplete
<1>1. WInv => WalkComplete
  BY DEF WInv, Got, Due, Wanted, WalkComplete
<1>2. WInv /\ IInv /\ [Next]_vars => WInv'
  BY StepWalk
<1>3. IInv /\ [Next]_vars => IInv'
  BY StepWhole
<1> QED BY InitWhole, InitWalk, <1>1, <1>2, <1>3, PTL DEF Spec

-----------------------------------------------------------------------------
(* Types, and the permits.                                                  *)

\* The queries in the executor whose caller waits for the answer.
Waited == {q \in Query \ left : job[q].at # "away"}

\* A permit is taken by each of them.
PermitsInv ==
    /\ cutoff \in Nat
    /\ left \subseteq Fleeting /\ \A q \in left : job[q].at # "away"
    /\ IsFiniteSet(Waited) /\ permits \in Nat /\ permits + Cardinality(Waited) = Capacity

LEMMA AdmittedPermits ==
    ASSUME IInv, WInv, PermitsInv, NEW q \in Query, NEW of, Admitted(q, of),
           job[q].at = "away", cutoff' = cutoff, left' = left
    PROVE  PermitsInv'
<1>1. job'[q].at = "queued" /\ \A p \in Query \ {q} : job'[p] = job[p]
  BY AdmittedQueues
<1>2. Waited' = Waited \union {q} /\ q \notin Waited /\ \A p \in left' : job'[p].at # "away"
  BY <1>1, ReadsAssumption DEF Waited, PermitsInv, Query
<1>3. IsFiniteSet(Waited') /\ Cardinality(Waited') = Cardinality(Waited) + 1
  BY <1>2, FS_AddElement DEF PermitsInv
<1>4. Cardinality(Waited) \in Nat /\ permits \in Nat /\ permits > 0 /\ permits' = permits - 1
  BY FS_CardinalityType DEF PermitsInv, Admitted
<1> QED BY <1>2, <1>3, <1>4, ReadsAssumption DEF PermitsInv

LEMMA RefusedPermits ==
    ASSUME IInv, PermitsInv, NEW q \in Query, Refused(q), cutoff' = cutoff, left' = left
    PROVE  PermitsInv'
<1>1. job \in [Query -> Job] /\ permits' = permits
  BY DEF IInv, Typed, Refused
<1>2. \A p \in Query : job'[p].at = job[p].at
  BY <1>1 DEF Refused, Job
<1>3. Waited' = Waited /\ \A p \in left' : job'[p].at # "away"
  BY <1>2, ReadsAssumption DEF Waited, PermitsInv, Query
<1> QED BY <1>1, <1>3 DEF PermitsInv

LEMMA FreedPermit ==
    ASSUME PermitsInv, NEW q \in Waited, Waited' = Waited \ {q}, permits' = permits + 1,
           cutoff' = cutoff, left' \subseteq Fleeting, \A p \in left' : job'[p].at # "away"
    PROVE  PermitsInv'
<1>1. IsFiniteSet(Waited') /\ Cardinality(Waited') = Cardinality(Waited) - 1
  BY FS_RemoveElement DEF PermitsInv
<1>2. Cardinality(Waited) \in Nat
  BY FS_CardinalityType DEF PermitsInv
<1> QED BY <1>1, <1>2, ReadsAssumption DEF PermitsInv

LEMMA ReturnPermits ==
    ASSUME IInv, PermitsInv, NEW q \in Query, Return(q) PROVE PermitsInv'
<1>1. /\ job \in [Query -> Job] /\ job[q].at = "ended" /\ left' = left \ {q}
      /\ job' = [job EXCEPT ![q] = NoJob] /\ NoJob.at = "away" /\ cutoff' = cutoff
  BY DEF IInv, Typed, Return, NoJob, store
<1>2. left' \subseteq Fleeting /\ \A p \in left' : job'[p].at # "away"
  BY <1>1, ReadsAssumption DEF PermitsInv, Query
<1>3. CASE q \in left
  <2>1. Waited' = Waited /\ permits' = permits
    BY <1>1, <1>3 DEF Waited, Return
  <2> QED BY <1>1, <1>2, <2>1 DEF PermitsInv
<1>4. CASE q \notin left
  <2>1. Waited' = Waited \ {q} /\ q \in Waited /\ permits' = permits + 1
    BY <1>1, <1>4 DEF Waited, Return
  <2> QED BY <1>1, <1>2, <2>1, FreedPermit
<1> QED BY <1>3, <1>4

LEMMA LeavesPermits ==
    ASSUME IInv, PermitsInv, NEW q \in Query, CallerLeaves(q) PROVE PermitsInv'
<1>1. /\ q \in Fleeting \ left /\ job[q].at # "away" /\ left' = left \union {q}
      /\ permits' = permits + 1 /\ job' = job /\ cutoff' = cutoff
  BY DEF CallerLeaves, store
<1>2. left' \subseteq Fleeting /\ \A p \in left' : job'[p].at # "away"
  BY <1>1 DEF PermitsInv
<1>3. Waited' = Waited \ {q} /\ q \in Waited
  BY <1>1 DEF Waited
<1> QED BY <1>1, <1>2, <1>3, FreedPermit

LEMMA StepPermits == IInv /\ WInv /\ PermitsInv /\ [Next]_vars => PermitsInv'
<1> SUFFICES ASSUME IInv, WInv, PermitsInv, [Next]_vars PROVE PermitsInv'
  OBVIOUS
<1>1. ASSUME permits' = permits, left' = left, cutoff' \in Nat,
             \A p \in Query : job'[p].at = "away" <=> job[p].at = "away"
      PROVE  PermitsInv'
  <2>1. Waited' = Waited /\ \A p \in left' : job'[p].at # "away"
    BY <1>1, ReadsAssumption DEF Waited, PermitsInv, Query
  <2> QED BY <1>1, <2>1 DEF PermitsInv
<1>2. job \in [Query -> Job] /\ cutoff \in Nat
  BY DEF IInv, Typed, PermitsInv
<1>3. ASSUME NEW r \in Request, Write(r) PROVE PermitsInv'
  BY <1>1, <1>2, <1>3 DEF Write, reader
<1>4. CASE Expire \/ PurgeBegin \/ PurgeEnd \/ \E table \in {"requests", "parts"} : PurgeTable(table)
  BY <1>1, <1>2, <1>4 DEF Expire, PurgeBegin, PurgeEnd, PurgeTable, reader
<1>5. ASSUME NEW q \in Query, Begin(q) PROVE PermitsInv'
  <2>1. queue \in Seq(Query) /\ queue # <<>> /\ q = queue[1]
    BY <1>5 DEF Begin, WInv, Queued
  <2>2. job[q].at = "queued"
    BY <2>1 DEF WInv, Queued
  <2>3. job'[q].at # "away" /\ \A p \in Query \ {q} : job'[p] = job[p]
    BY <1>2, <1>5, BeginSets
  <2> QED BY <1>1, <1>2, <1>5, <2>2, <2>3 DEF Begin, store
<1>6. ASSUME NEW q \in Query, FirstStatement(q) PROVE PermitsInv'
  <2>1. job[q].at = "running" /\ job[q] \in Job
    BY <1>2, <1>6 DEF FirstStatement
  <2>2. job'[q].at = "reading" /\ \A p \in Query \ {q} : job'[p] = job[p]
    BY <1>2, <1>6, <2>1 DEF FirstStatement, Job
  <2> QED BY <1>1, <1>2, <1>6, <2>1, <2>2 DEF FirstStatement, store
<1>7. ASSUME NEW q \in Query, LaterStatements(q) \/ QueryFails(q) PROVE PermitsInv'
  <2>1. job[q].at \in {"running", "reading"} /\ job[q] \in Job
    BY <1>2, <1>7 DEF LaterStatements, QueryFails
  <2>2. job'[q].at = "ended" /\ \A p \in Query \ {q} : job'[p] = job[p]
    <3>1. CASE LaterStatements(q)
      BY <1>2, <2>1, <3>1 DEF LaterStatements, Answer, Job
    <3>2. CASE QueryFails(q)
      BY <1>2, <3>2, UnansweredType DEF QueryFails
    <3> QED BY <1>7, <3>1, <3>2
  <2> QED BY <1>1, <1>2, <1>7, <2>1, <2>2 DEF LaterStatements, QueryFails, store
<1>8. ASSUME NEW q \in Query, CallerLeaves(q) \/ Return(q) PROVE PermitsInv'
  BY <1>8, LeavesPermits, ReturnPermits
<1>9. ASSUME NEW q \in Query, NEW of \in Asked, Ask(q, of) PROVE PermitsInv'
  BY <1>9, AdmittedPermits, RefusedPermits DEF Ask, store
<1>10. ASSUME NEW r \in Request, AskPage(At[r]) PROVE PermitsInv'
  <2>1. Walker \in Query /\ job[Walker].at = "away" /\ cutoff' = cutoff /\ left' = left
    BY <1>10 DEF AskPage, Query, WInv, Waits, store
  <2> QED BY <1>10, <2>1, AdmittedPermits, RefusedPermits DEF AskPage
<1>11. CASE UNCHANGED vars
  BY <1>1, <1>2, <1>11 DEF vars
<1> QED BY <1>3, <1>4, <1>5, <1>6, <1>7, <1>8, <1>9, <1>10, <1>11 DEF Next

LEMMA InitPermits == Init => PermitsInv
<1> SUFFICES ASSUME Init PROVE PermitsInv
  OBVIOUS
<1>1. Waited = {} /\ permits = Capacity /\ cutoff = 0 /\ left = {}
  BY DEF Init, Waited, NoJob
<1> QED BY <1>1, FS_EmptySet, ReadsAssumption DEF PermitsInv

\* The executor's permits and the queries whose caller waits for the answer add up
\* to its capacity.  A caller that was cancelled has given its permit back while its
\* query is queued or running, so that more queries than the capacity can be in
\* progress (DashboardQueryExecutor.run()).
THEOREM PermitsAddUp == Spec => [](permits + Cardinality(Waited) = Capacity)
<1>1. PermitsInv => permits + Cardinality(Waited) = Capacity
  BY DEF PermitsInv
<1>2. IInv /\ [Next]_vars => IInv'
  BY StepWhole
<1>3. IInv /\ WInv /\ [Next]_vars => WInv'
  BY StepWalk
<1> QED BY InitWhole, InitWalk, InitPermits, StepPermits, <1>1, <1>2, <1>3, PTL DEF Spec

\* The variables have their types.
THEOREM TypeCorrect == Spec => []TypeOK
<1>1. IInv /\ WInv /\ PermitsInv => TypeOK
  <2> SUFFICES ASSUME IInv, WInv, PermitsInv PROVE TypeOK
    OBVIOUS
  <2>1. permits \in 0 .. Capacity /\ cutoff \in Nat /\ left \subseteq Fleeting
    BY FS_CardinalityType, ReadsAssumption DEF PermitsInv
  <2>2. rows \in Tables /\ written \subseteq Request /\ queue \in Seq(Query) /\ job \in [Query -> Job]
    BY DEF IInv, Typed, WInv, Kept, Queued
  <2>3. /\ walk.at \in {"start", "between", "waiting", "done"}
        /\ walk.cursor \in Request \union {None} /\ walk.from \in Nat
        /\ walk.got \in Seq(Request) /\ walk.since \subseteq Request
    BY DEF WInv, Kept, WalkRecord
  <2>4. purge = None \/ /\ purge.ids \subseteq Request /\ purge.rows \in Tables
                        /\ purge.left \subseteq {"requests", "parts"}
    BY DEF IInv, Typed, PurgeRecord
  <2> QED BY <2>1, <2>2, <2>3, <2>4 DEF TypeOK
<1>2. IInv /\ [Next]_vars => IInv'
  BY StepWhole
<1>3. IInv /\ WInv /\ [Next]_vars => WInv'
  BY StepWalk
<1> QED BY InitWhole, InitWalk, InitPermits, StepPermits, <1>1, <1>2, <1>3, PTL DEF Spec
=============================================================================
