--------------------------- MODULE SessionRouting ---------------------------
(***************************************************************************)
(* Sessions: routing/session.py (SessionStateStore), as the routing        *)
(* coordinator reads it when a request arrives and record_completion()     *)
(* writes it when the response is complete.  Requests of one session       *)
(* overlap: each is routed on the state of its arrival and recorded in the *)
(* order of completion.                                                    *)
(*                                                                         *)
(* last_tier is left out: nothing reads it.                                *)
(***************************************************************************)
EXTENDS Integers, SequencesExt

CONSTANTS
    Session,       \* x-llm-router-session-id values
    Slot,          \* bound: requests in flight at once
    Capacity,      \* routing.session_capacity
    Ttl,           \* routing.session_ttl_seconds
    DecayRequests, \* the 2 of record()
    None,
    ClockBound,    \* bound: time stops here
    FailureBound   \* bound: failures of one session, recorded or on their way

ASSUME SessionAssumption ==
    /\ Capacity \in Nat \ {0} /\ Ttl \in Nat /\ DecayRequests \in Nat \ {0}
    /\ None \notin Session
    /\ ClockBound \in Nat /\ FailureBound \in Nat

VARIABLES
    items, \* _items: the OrderedDict, least recently used first
    now,   \* time.monotonic()
    slot   \* the request in each slot, from its routing to its completion

vars == <<items, now, slot>>

Signal == {"success", "failure", "unknown"}

SessionState ==
    [id                     : Session,
     last_outcome           : Signal,
     consecutive_failures   : Nat,
     requests_since_failure : Nat,
     last_access            : Nat]

InFlight ==
    [session    : Session \union {None},
     signal     : Signal,       \* routing_request.outcome_signal
     count_only : BOOLEAN,
     seen       : Nat]          \* consecutive_failures the kernel was given

TypeOK ==
    /\ items \in Seq(SessionState)
    /\ now \in Nat
    /\ slot \in [Slot -> InFlight \union {None}]

Init ==
    /\ items = <<>>
    /\ now = 0
    /\ slot = [x \in Slot |-> None]

-----------------------------------------------------------------------------

Fresh(s) ==
    [id |-> s, last_outcome |-> "unknown", consecutive_failures |-> 0,
     requests_since_failure |-> 0, last_access |-> now]

\* Wrong form: the time to live is never looked at.
LiveForever(s) ==
    LET kept == {i \in DOMAIN items : items[i].id = s}
    IN  IF kept = {} THEN Fresh(s) ELSE items[CHOOSE i \in kept : TRUE]

\* What _get() finds, or creates in place of an expired entry.
Live(s) ==
    LET kept == {i \in DOMAIN items : items[i].id = s /\ now - items[i].last_access <= Ttl}
    IN  IF kept = {} THEN Fresh(s) ELSE items[CHOOSE i \in kept : TRUE]

Known(s) == {i \in DOMAIN items : items[i].id = s}

\* The items without the entry of s.
Others(s) ==
    IF Known(s) = {} THEN items ELSE RemoveAt(items, CHOOSE i \in Known(s) : TRUE)

\* Wrong forms: the entry goes to the end it is evicted from; the newest of the
\* other entries is evicted.
StoreFront(s, e) ==
    LET all == <<[e EXCEPT !.last_access = now]>> \o Others(s)
    IN  IF Len(all) > Capacity THEN SubSeq(all, 1, Capacity) ELSE all

StoreEvictNewest(s, e) ==
    LET others == Others(s)
        room == Capacity - 1
    IN  Append(IF Len(others) > room THEN SubSeq(others, 1, room) ELSE others,
               [e EXCEPT !.last_access = now])

\* The items with the entry e of s stored as the most recently used one.
Store(s, e) ==
    LET all == Append(Others(s), [e EXCEPT !.last_access = now])
    IN  IF Len(all) > Capacity THEN Tail(all) ELSE all

\* record(): the update of one entry.
AfterOutcome(e, signal) ==
    CASE signal = "failure" ->
           [e EXCEPT !.last_outcome = signal, !.consecutive_failures = @ + 1,
                     !.requests_since_failure = 0]
      [] signal = "success" ->
           [e EXCEPT !.last_outcome = signal, !.consecutive_failures = 0,
                     !.requests_since_failure = 0]
      [] signal = "unknown" ->
           IF e.requests_since_failure + 1 >= DecayRequests
           THEN [e EXCEPT !.last_outcome = signal, !.requests_since_failure = 0,
                          !.consecutive_failures = IF @ > 0 THEN @ - 1 ELSE 0]
           ELSE [e EXCEPT !.last_outcome = signal, !.requests_since_failure = @ + 1]

\* Bound: the failures of s on the books and on their way.
FailuresComing(s) ==
    Live(s).consecutive_failures
      + Cardinality({x \in Slot : slot[x] # None /\ slot[x].session = s
                                                 /\ slot[x].signal = "failure"})

\* RoutingCoordinator.resolve(): routing_snapshot() creates or refreshes the
\* entry; an anonymous request has none.
Arrive(x, s, signal, count_only) ==
    /\ slot[x] = None
    /\ (signal = "failure" /\ s # None) => FailuresComing(s) < FailureBound
    /\ slot' = [slot EXCEPT ![x] =
                  [session |-> s, signal |-> signal, count_only |-> count_only,
                   seen |-> IF s = None THEN 0 ELSE Live(s).consecutive_failures]]
    /\ items' = IF s = None THEN items ELSE Store(s, Live(s))
    /\ UNCHANGED now

\* Wrong form: the count the request was routed on is written back.
CompleteSeen(x) ==
    LET s == slot[x].session
    IN  /\ slot[x] # None
        /\ slot' = [slot EXCEPT ![x] = None]
        /\ items' = IF s = None \/ slot[x].signal = "unknown" THEN items
                    ELSE Store(s, AfterOutcome(
                           [Live(s) EXCEPT !.consecutive_failures = slot[x].seen], slot[x].signal))
        /\ UNCHANGED now

\* record_completion(): only a signal, and only of a generation request.
Complete(x) ==
    /\ slot[x] # None
    /\ slot' = [slot EXCEPT ![x] = None]
    /\ items' = IF \/ slot[x].signal = "unknown"
                   \/ slot[x].count_only
                   \/ slot[x].session = None
                THEN items
                ELSE Store(slot[x].session,
                           AfterOutcome(Live(slot[x].session), slot[x].signal))
    /\ UNCHANGED now

\* No response: routing or execution raised, or the client went away before the
\* response was committed; record_completion() is not scheduled.
Fail(x) ==
    /\ slot[x] # None
    /\ slot' = [slot EXCEPT ![x] = None]
    /\ UNCHANGED <<items, now>>

Tick ==
    /\ now < ClockBound
    /\ now' = now + 1
    /\ UNCHANGED <<items, slot>>

Next ==
    \/ \E x \in Slot, s \in Session \union {None}, signal \in Signal, count_only \in BOOLEAN :
          Arrive(x, s, signal, count_only)
    \/ \E x \in Slot : Complete(x) \/ Fail(x)
    \/ Tick

Spec == Init /\ [][Next]_vars

\* Every execution ends.
FairSpec == Spec /\ \A x \in Slot : WF_vars(Complete(x) \/ Fail(x))

-----------------------------------------------------------------------------
(* Properties                                                               *)

Failures(s) == IF Known(s) = {} THEN 0 ELSE items[CHOOSE i \in Known(s) : TRUE].consecutive_failures

\* The dictionary stays bounded, names a session once, and its order is the
\* order of last access: what _get() evicts first is what was used least lately,
\* across reads at arrival and writes at completion.
LruOrder ==
    /\ Len(items) <= Capacity
    /\ \A i, j \in DOMAIN items : i < j =>
          /\ items[i].id # items[j].id
          /\ items[i].last_access <= items[j].last_access

\* A session is forgotten only to make room, and only the one idle the longest.
ForgottenInTurn ==
    [][\A s \in Session :
          (/\ \E i \in DOMAIN items : items[i].id = s
           /\ \A i \in DOMAIN items' : items'[i].id # s) =>
          /\ Len(items) = Capacity
          /\ items[1].id = s]_vars

Recorded(x, s, signal) ==
    /\ Complete(x) /\ ~slot[x].count_only
    /\ slot[x].session = s /\ slot[x].signal = signal

\* Failures add up: two overlapping failures of a session both count, and as long
\* as the session is remembered (ForgottenInTurn) only a success of its own or the
\* end of its time to live takes failures away, whatever other requests of it or of
\* other sessions are routed, recorded or end without a record.
NoLostFailure ==
    [][\A s \in Session :
          /\ (\E x \in Slot : Recorded(x, s, "failure")) =>
                \E j \in DOMAIN items' :
                    /\ items'[j].id = s
                    /\ items'[j].consecutive_failures = Live(s).consecutive_failures + 1
          /\ \A i \in DOMAIN items, j \in DOMAIN items' :
                (/\ items[i].id = s /\ items'[j].id = s
                 /\ items'[j].consecutive_failures < items[i].consecutive_failures) =>
                   \/ \E x \in Slot : Recorded(x, s, "success")
                   \/ now - items[i].last_access > Ttl]_vars

\* A session idle for longer than its time to live is a new one: its failures no
\* longer raise the tier of the next request.
ExpiredForgotten ==
    [][\A x \in Slot :
          (slot[x] = None /\ slot'[x] # None /\ slot'[x].seen > 0) =>
             \E i \in DOMAIN items : /\ items[i].id = slot'[x].session
                                     /\ now - items[i].last_access <= Ttl]_vars

\* Escalation wears off: a session that keeps completing requests and has no new
\* failure returns to its normal tier.  The v0.1 spec asks for this and the code
\* does not keep it: README, "Divergences".
EscalationDecays ==
    \A s \in Session :
        (/\ []<><<\E x \in Slot : Complete(x) /\ slot[x].session = s>>_vars
         /\ <>[][~ \E x \in Slot : /\ Complete(x) /\ slot[x].session = s
                                   /\ slot[x].signal = "failure"]_vars)
        => []<>(Failures(s) = 0)
=============================================================================
