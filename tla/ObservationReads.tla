--------------------------- MODULE ObservationReads ---------------------------
(***************************************************************************)
(* Who reads and who deletes what ObservationPipeline stores: the          *)
(* dashboard, with its executor (dashboard/sqlite_reader.py), its keyset   *)
(* pages and request details (query_requests.py, cursor.py, http.py), and  *)
(* the retention worker (observability/retention.py).  The file is in WAL  *)
(* mode: a read transaction sees what was committed when its first         *)
(* statement ran, and writers exclude each other only.                     *)
(***************************************************************************)
EXTENDS Integers, SequencesExt

CONSTANTS
    Request,    \* ids of the requests that may be stored, in their text order
    Stored,     \* those an earlier process stored
    At,         \* [Request -> received_at]
    Detail,     \* concurrent queries for a request or the overview
    Fleeting,   \* those whose caller may be cancelled
    Asked,      \* what they ask for: a request's detail or, with None, the overview
    Walker,     \* the query of a client that walks through the pages
    PageLimit,  \* items of a page
    Capacity,   \* queries admitted: 10 in the code
    Threads,    \* threads of the executor: 2 in the code
    CutoffBound, \* bound on the passing of time, for TLC
    BatchLimit, \* requests deleted by one run: 1000 in the code
    None

Query == Detail \union {Walker}

ASSUME ReadsAssumption ==
    /\ Request \subseteq Nat /\ At \in [Request -> Nat]
    /\ Stored \subseteq Request /\ IsFiniteSet(Stored) /\ Asked \subseteq Request \union {None}
    /\ Fleeting \subseteq Detail
    /\ Walker \notin Detail /\ None \notin Request
    /\ PageLimit \in Nat \ {0} /\ BatchLimit \in Nat \ {0}
    /\ Threads \in Nat \ {0} /\ Capacity \in Nat /\ Threads <= Capacity

VARIABLES
    rows,    \* committed: ids in route_requests, and in the tables of its parts
    written, \* requests ever stored
    cutoff,  \* what was received before is expired
    purge,   \* the retention worker's transaction: [ids, left, rows], or None
    permits, \* the executor's semaphore
    queue,   \* queries its pool has not begun
    job,     \* each query
    left,    \* queries whose caller was cancelled: nobody takes their answer
    walk     \* the client that walks through the pages

vars == <<rows, written, cutoff, purge, permits, queue, job, left, walk>>
store == <<rows, written, cutoff, purge>>
reader == <<permits, queue, job, left, walk>>

Tables == [requests : SUBSET Request, parts : SUBSET Request]
NoRows == [requests |-> {}, parts |-> {}]

\* of: the request asked for; the overview is a query with None.
Job ==
    [at     : {"away", "queued", "running", "reading", "ended"},
     of     : Request \union {None},
     snap   : Tables,
     first  : SUBSET Request,  \* what the first statement found
     rest   : Tables,          \* what the later ones found of it
     more   : BOOLEAN,
     answer : {"none", "ok", "busy", "failed"}]

NoJob == [at |-> "away", of |-> None, snap |-> NoRows, first |-> {}, rest |-> NoRows,
          more |-> FALSE, answer |-> "none"]

\* Type correctness of the store, the executor and the queries.
TypeOK ==
    /\ rows \in Tables /\ written \subseteq Request
    /\ cutoff \in Nat
    /\ purge = None \/ /\ purge.ids \subseteq Request /\ purge.rows \in Tables
                       /\ purge.left \subseteq {"requests", "parts"}
    /\ permits \in 0 .. Capacity
    /\ queue \in Seq(Query)
    /\ job \in [Query -> Job] /\ left \subseteq Fleeting
    /\ walk.at \in {"start", "between", "waiting", "done"}
    /\ walk.cursor \in Request \union {None} /\ walk.from \in Nat
    /\ walk.got \in Seq(Request) /\ walk.since \subseteq Request

Init ==
    /\ rows = [requests |-> Stored, parts |-> Stored] /\ written = Stored
    /\ cutoff = 0 /\ purge = None
    /\ permits = Capacity /\ queue = <<>>
    /\ job = [q \in Query |-> NoJob] /\ left = {}
    /\ walk = [at |-> "start", cursor |-> None, from |-> 0, got |-> <<>>, since |-> {}]

-----------------------------------------------------------------------------
(* Writers                                                                  *)

\* A bundle is stored in one transaction (ObservationPipeline).
Write(r) ==
    /\ purge = None /\ r \notin written
    /\ rows' = [requests |-> rows.requests \union {r}, parts |-> rows.parts \union {r}]
    /\ written' = written \union {r}
    /\ UNCHANGED <<cutoff, purge, reader>>

Expire ==
    /\ cutoff < CutoffBound
    /\ cutoff' = cutoff + 1
    /\ UNCHANGED <<rows, written, purge, reader>>

Expired == {r \in rows.requests : At[r] < cutoff}

\* run_batch(): BEGIN IMMEDIATE, and the oldest expired requests.
PurgeBegin ==
    /\ purge = None /\ Expired # {}
    /\ \E ids \in SUBSET Expired :
         /\ ids # {} /\ Cardinality(ids) <= BatchLimit
         /\ Cardinality(ids) = BatchLimit \/ ids = Expired
         /\ \A a \in ids, b \in Expired \ ids : At[a] <= At[b]
         /\ purge' = [ids |-> ids, left |-> {"requests", "parts"}, rows |-> rows]
    /\ UNCHANGED <<rows, written, cutoff, reader>>

\* Wrong form: every statement commits.
PurgeTableCommits(table) ==
    /\ purge # None /\ table \in purge.left
    /\ table = "requests" => purge.left = {"requests"}
    /\ purge' = [purge EXCEPT !.left = @ \ {table}, !.rows[table] = @ \ purge.ids]
    /\ rows' = purge'.rows
    /\ UNCHANGED <<written, cutoff, reader>>

\* The parts are deleted table by table, then the requests.
PurgeTable(table) ==
    /\ purge # None /\ table \in purge.left
    /\ table = "requests" => purge.left = {"requests"}
    /\ purge' = [purge EXCEPT !.left = @ \ {table}, !.rows[table] = @ \ purge.ids]
    /\ UNCHANGED <<rows, written, cutoff, reader>>

\* It commits, or fails and is rolled back: the next run begins anew.
PurgeEnd ==
    /\ purge # None /\ purge' = None
    /\ \/ purge.left = {} /\ rows' = purge.rows
       \/ rows' = rows
    /\ UNCHANGED <<written, cutoff, reader>>

-----------------------------------------------------------------------------
(* The executor                                                             *)

\* DashboardQueryExecutor.run(): refused at once when every permit is taken.
Refused(q) ==
    /\ permits = 0
    /\ job' = [job EXCEPT ![q].answer = "busy"]
    /\ UNCHANGED <<permits, queue>>

Admitted(q, of) ==
    /\ permits > 0 /\ permits' = permits - 1
    /\ queue' = Append(queue, q)
    /\ job' = [job EXCEPT ![q] = [NoJob EXCEPT !.at = "queued", !.of = of]]

Running == {q \in Query : job[q].at \in {"running", "reading"}}

\* What is left of a query without an answer.
Unanswered(q) == [NoJob EXCEPT !.at = "ended", !.of = job[q].of, !.answer = "failed"]

\* A thread of the pool takes the oldest query; one that was cancelled in the
\* queue it drops.
Begin(q) ==
    /\ queue # <<>> /\ q = Head(queue)
    /\ Cardinality(Running) < Threads
    /\ queue' = Tail(queue)
    /\ job' = [job EXCEPT ![q] =
                 IF q \in left THEN Unanswered(q) ELSE [job[q] EXCEPT !.at = "running"]]
    /\ UNCHANGED <<store, permits, left, walk>>

-----------------------------------------------------------------------------
(* Transactions of the readers                                              *)

\* ORDER BY received_at DESC, request_id DESC
Newer(a, b) == At[a] > At[b] \/ (At[a] = At[b] /\ a > b)

\* Wrong form: the time alone.
PastTime(r) == walk.cursor = None \/ At[r] < At[walk.cursor]

\* The cursor's clause: received_at < ? OR received_at = ? AND request_id < ?
PastCursor(r) ==
    \/ walk.cursor = None \/ At[r] < At[walk.cursor]
    \/ At[r] = At[walk.cursor] /\ r < walk.cursor

\* The rows of S that come before r.
Before(r, S) == {s \in S : Newer(s, r)}

Newest(S, n) == {r \in S : Cardinality(Before(r, S)) < n}

\* S in that order.
Listed(S) ==
    [i \in 1 .. Cardinality(S) |-> CHOOSE r \in S : Cardinality(Before(r, S)) = i - 1]

\* One more item than the page holds tells whether there is a next one.
Page(requests) ==
    Newest({r \in requests : At[r] >= walk.from /\ PastCursor(r)}, PageLimit + 1)

\* The row of a request, or the rows the overview's filters match.
Matching(q, requests) == {r \in requests : job[q].of \in {r, None}}

Selected(q, requests) == IF q = Walker THEN Page(requests) ELSE Matching(q, requests)

\* BEGIN is deferred: the first statement fixes what the transaction sees.
FirstStatement(q) ==
    /\ job[q].at = "running"
    /\ LET found == Selected(q, rows.requests)
           page == IF q = Walker THEN Newest(found, PageLimit) ELSE found
       IN  job' = [job EXCEPT ![q].at = "reading", ![q].snap = rows,
                              ![q].first = page, ![q].more = found # page]
    /\ UNCHANGED <<store, permits, queue, left, walk>>

\* The later statements: the parts of the rows found, and the sections of the
\* overview, each of which selects its requests again.
Parts(q, seen) == seen.parts \intersect job[q].first
Sections(q, seen) == IF q = Walker THEN job[q].first ELSE Matching(q, seen.requests)

Answer(q, seen) ==
    job' = [job EXCEPT
        ![q].at = "ended", ![q].answer = "ok", ![q].snap = NoRows,
        ![q].rest = [requests |-> Sections(q, seen), parts |-> Parts(q, seen)]]

\* Wrong form: no BEGIN, so every statement sees what is committed by then.
LaterStatementsLive(q) ==
    /\ job[q].at = "reading"
    /\ Answer(q, rows)
    /\ UNCHANGED <<store, permits, queue, left, walk>>

LaterStatements(q) ==
    /\ job[q].at = "reading"
    /\ Answer(q, job[q].snap)
    /\ UNCHANGED <<store, permits, queue, left, walk>>

\* Wrong form: the handler is installed after the first statement.
QueryFailsLate(q) ==
    /\ job[q].at = "reading"
    /\ job' = [job EXCEPT ![q] = Unanswered(q)]
    /\ UNCHANGED <<store, permits, queue, left, walk>>

\* The deadline's progress handler interrupts, or SQLite fails.
QueryFails(q) ==
    /\ job[q].at \in {"running", "reading"}
    /\ job' = [job EXCEPT ![q] = Unanswered(q)]
    /\ UNCHANGED <<store, permits, queue, left, walk>>

-----------------------------------------------------------------------------
(* Clients                                                                  *)

\* A request's detail or, with None, the overview.
Ask(q, of) ==
    /\ q # Walker /\ job[q].at = "away"
    /\ Refused(q) \/ Admitted(q, of)
    /\ UNCHANGED <<store, left, walk>>

\* The request is cancelled inside run(): the permit is free although the query is
\* still queued, or its thread goes on.  The client that walks waits for its pages.
CallerLeaves(q) ==
    /\ q \in Fleeting \ left /\ job[q].at \in {"queued", "running", "reading"}
    /\ permits' = permits + 1
    /\ left' = left \union {q}
    /\ UNCHANGED <<store, queue, job, walk>>

\* The next page, or again the one that was refused or failed.  Without a
\* range in its address the client asks for the last hours anew.
AskPage(from) ==
    /\ walk.at \in {"start", "between"} /\ from >= walk.from
    /\ \/ Refused(Walker) /\ walk' = walk
       \/ /\ Admitted(Walker, None)
          /\ walk' = [walk EXCEPT
                !.at = "waiting", !.from = from,
                !.since = IF walk.cursor = None THEN rows.requests ELSE @]
    /\ UNCHANGED <<store, left>>

\* next_cursor is the last item of a page, when there is more.
Turn(page, more) ==
    LET items == Listed(page)
    IN  [walk EXCEPT !.got = @ \o items,
                     !.cursor = IF more THEN Last(items) ELSE @,
                     !.at = IF more THEN "between" ELSE "done"]

\* run() ends: the permit is returned whatever the thread's outcome was, unless
\* the caller's end had returned it.
Return(q) ==
    /\ job[q].at = "ended"
    /\ permits' = IF q \in left THEN permits ELSE permits + 1
    /\ left' = left \ {q}
    /\ job' = [job EXCEPT ![q] = NoJob]
    /\ walk' = IF q # Walker THEN walk
               ELSE IF job[q].answer = "ok" THEN Turn(job[q].first, job[q].more)
               ELSE [walk EXCEPT !.at = "between"]
    /\ UNCHANGED <<store, queue>>

Next ==
    \/ \E r \in Request : Write(r)
    \/ Expire \/ PurgeBegin \/ PurgeEnd
    \/ \E table \in {"requests", "parts"} : PurgeTable(table)
    \/ \E q \in Query : \/ Begin(q) \/ FirstStatement(q) \/ LaterStatements(q)
                        \/ QueryFails(q) \/ CallerLeaves(q) \/ Return(q)
                        \/ \E of \in Asked : Ask(q, of)
    \/ \E r \in Request : AskPage(At[r])

Spec == Init /\ [][Next]_vars

\* The pool's threads and the event loop go on, and the deadline interrupts.
\* A statement need not end on its own.
FairSpec ==
    /\ Spec
    /\ \A q \in Query : WF_vars(Begin(q)) /\ WF_vars(QueryFails(q)) /\ WF_vars(Return(q))

-----------------------------------------------------------------------------
(* Properties                                                               *)

\* A client that has walked to the last page got the requests newest first,
\* none twice, and every one that was stored when it began, is still stored,
\* and is in the range it asked for (build_request_page(), cursor.py).
WalkComplete ==
    /\ \A i, j \in DOMAIN walk.got : i < j => Newer(walk.got[i], walk.got[j])
    /\ walk.at = "done" =>
         \A r \in walk.since \intersect rows.requests :
             At[r] >= walk.from => r \in Range(walk.got)

\* An answer is about one state of the store: a request found has its parts,
\* and the overview's sections count the same requests, while bundles are
\* stored and deleted (transaction(), run_batch()).
AnswersWhole ==
    \A q \in Query :
        job[q].at = "ended" /\ job[q].answer = "ok" =>
            job[q].rest = [requests |-> job[q].first, parts |-> job[q].first]

\* A query admitted is answered, or dropped if its caller is gone: a statement that
\* does not end is interrupted at the deadline, and its thread serves the next,
\* also one whose caller has left and whose permit is out again.
QueriesAnswered == \A q \in Query : job[q].at = "queued" ~> job[q].at = "away"

=============================================================================
