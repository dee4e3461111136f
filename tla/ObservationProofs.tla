------------------------- MODULE ObservationProofs -------------------------
(***************************************************************************)
(* Proofs about the observation pipeline, for every set of requests and    *)
(* every capacity: each concluded request is accounted for in one place    *)
(* until the drain deadline, the gauges agree with the registry, no gap of *)
(* a trace is uncounted, and the pipeline implements its ledger.           *)
(*                                                                         *)
(* That a bundle is in one place only rests on requests being registered   *)
(* exactly while they have no terminal fact, and on the queue holding each *)
(* of them once.  The exporter has an invariant of its own.                *)
(***************************************************************************)
EXTENDS ObservationPipeline, FiniteSetTheorems, SequenceTheorems, TLAPS

\* A request is registered while it is open and has no fact; none is after
\* abandon_all().
Registered ==
    /\ IsFiniteSet(active)
    /\ active = {r \in Request : life[r].pc # "idle" /\ life[r].fact = None}
    /\ phase # "serving" => active = {}
    /\ \A r \in Request : life[r].pc = "idle" => life[r].fact = None

Bundles ==
    /\ HubTypeOK
    /\ Injective(queue)

AInv ==
    /\ life \in [Request -> Lifecycle]
    /\ Bundles
    /\ Registered
    /\ Accounted

-----------------------------------------------------------------------------
(* What recording does to the hub.                                          *)

\* The bundles of S are recorded: those of E are queued, the others counted.
Recorded(S, E) ==
    /\ E \subseteq S
    /\ Elements(queue') = Elements(queue) \union E
    /\ counted' = [counted EXCEPT !["queue_full"] = @ \union (S \ E)]
    /\ UNCHANGED <<hand, rows>>

LEMMA InElements ==
    /\ \A q : \A i \in DOMAIN q : q[i] \in Elements(q)
    /\ \A q : \A x \in Elements(q) : \E i \in DOMAIN q : q[i] = x
BY DEF Elements

\* Cut in two, a sequence without duplicates has its elements in one part only.
LEMMA ElementsSplit ==
    ASSUME NEW rs \in Seq(Request), Injective(rs), NEW n \in 0..Len(rs)
    PROVE  /\ Elements(SubSeq(rs, 1, n)) \subseteq Elements(rs)
           /\ Elements(SubSeq(rs, n + 1, Len(rs))) = Elements(rs) \ Elements(SubSeq(rs, 1, n))
<1> DEFINE added == SubSeq(rs, 1, n)
           rest == SubSeq(rs, n + 1, Len(rs))
<1>1. n \in 0..Len(rs) /\ Len(rs) \in Nat
  OBVIOUS
<1>2. /\ added \in Seq(Request) /\ Len(added) = n /\ DOMAIN added = 1..n
      /\ \A i \in 1..n : added[i] = rs[i]
  BY <1>1
<1>3. /\ rest \in Seq(Request) /\ Len(rest) = Len(rs) - n /\ DOMAIN rest = 1..Len(rs) - n
      /\ \A i \in 1..Len(rs) - n : rest[i] = rs[n + i]
  BY <1>1
<1>4. DOMAIN rs = 1..Len(rs)
  OBVIOUS
<1> HIDE DEF added, rest
<1>5. Elements(rs) = Elements(added) \union Elements(rest)
  <2>1. ASSUME NEW i \in DOMAIN rs PROVE rs[i] \in Elements(added) \union Elements(rest)
    <3>1. CASE i <= n
      BY <3>1, <1>1, <1>2, InElements
    <3>2. CASE i > n
      <4>1. i - n \in 1..Len(rs) - n /\ i = n + (i - n)
        BY <3>2, <1>1
      <4> QED BY <4>1, <1>3, InElements
    <3> QED BY <3>1, <3>2, <1>1
  <2>2. Elements(added) \subseteq Elements(rs)
    BY <1>1, <1>2, InElements
  <2>3. ASSUME NEW i \in DOMAIN rest PROVE rest[i] \in Elements(rs)
    <3>1. n + i \in DOMAIN rs /\ rest[i] = rs[n + i]
      BY <1>1, <1>3, <1>4
    <3> QED BY <3>1, InElements
  <2> QED BY <2>1, <2>2, <2>3, InElements
<1>6. Elements(added) \cap Elements(rest) = {}
  <2>1. ASSUME NEW i \in DOMAIN added, NEW j \in DOMAIN rest, added[i] = rest[j]
        PROVE  FALSE
    <3>1. i \in 1..n /\ j \in 1..Len(rs) - n
      BY <1>1, <1>2, <1>3
    <3>2. rs[i] = rs[n + j]
      BY <2>1, <3>1, <1>2, <1>3
    <3>3. i \in DOMAIN rs /\ n + j \in DOMAIN rs /\ i # n + j
      BY <3>1, <1>1
    <3> QED BY <3>2, <3>3 DEF Injective
  <2> QED BY <2>1, InElements
<1> QED BY <1>5, <1>6 DEF added, rest

\* Enqueue() of requests that are not queued yet queues some of them, once, and
\* counts the rest (hub.py:85-93).
LEMMA EnqueueRecords ==
    ASSUME Bundles, NEW rs \in Seq(Request), Injective(rs),
           Elements(rs) \cap Elements(queue) = {}, Enqueue(rs)
    PROVE  /\ \E E : Recorded(Elements(rs), E)
           /\ queue' \in Seq(Request) /\ Len(queue') <= QueueCapacity
           /\ Injective(queue')
           /\ depth' \in 0..QueueCapacity
           /\ counted' \in [Reason -> SUBSET Request]
<1> DEFINE n == Fitting(rs)
           added == SubSeq(rs, 1, n)
           rest == SubSeq(rs, n + 1, Len(rs))
<1>1. /\ n \in 0..Len(rs)
      /\ Len(queue) + n <= QueueCapacity
      /\ queue \in Seq(Request) /\ Len(queue) \in Nat
  BY PipelineAssumption DEF Bundles, HubTypeOK, Fitting
<1>2. /\ added \in Seq(Request) /\ Len(added) = n /\ DOMAIN added = 1..n
      /\ \A i \in 1..n : added[i] = rs[i]
  BY <1>1
<1>3. /\ rest \in Seq(Request) /\ Len(rest) = Len(rs) - n /\ DOMAIN rest = 1..Len(rs) - n
      /\ \A i \in 1..Len(rs) - n : rest[i] = rs[n + i]
  BY <1>1
<1>4. /\ queue' = queue \o added
      /\ depth' = IF n = 0 THEN depth ELSE Len(queue) + n
      /\ counted' = [counted EXCEPT !["queue_full"] = @ \union Elements(rest)]
      /\ UNCHANGED <<hand, rows>>
  BY DEF Enqueue
<1>5. /\ queue' \in Seq(Request) /\ Len(queue') = Len(queue) + n
      /\ DOMAIN queue' = 1..Len(queue) + n
      /\ DOMAIN queue = 1..Len(queue) /\ DOMAIN rs = 1..Len(rs)
      /\ \A i \in 1..Len(queue) : queue'[i] = queue[i]
      /\ \A i \in 1..n : queue'[Len(queue) + i] = rs[i]
  BY <1>1, <1>2, <1>4
<1> HIDE DEF n, added, rest
<1>6. Elements(queue') = Elements(queue) \union Elements(added)
  <2>1. ASSUME NEW i \in DOMAIN queue'
        PROVE  queue'[i] \in Elements(queue) \union Elements(added)
    <3>1. CASE i <= Len(queue)
      BY <3>1, <1>1, <1>2, <1>5, InElements
    <3>2. CASE i > Len(queue)
      <4>1. i - Len(queue) \in 1..n /\ i = Len(queue) + (i - Len(queue))
        BY <3>2, <1>1, <1>5
      <4> QED BY <4>1, <1>2, <1>5, InElements
    <3> QED BY <3>1, <3>2, <1>1, <1>5
  <2>2. ASSUME NEW i \in DOMAIN queue PROVE queue[i] \in Elements(queue')
    BY <1>1, <1>5, InElements
  <2>3. ASSUME NEW i \in DOMAIN added PROVE added[i] \in Elements(queue')
    BY <1>1, <1>2, <1>5, InElements
  <2> QED BY <2>1, <2>2, <2>3, InElements
<1>7. Elements(added) \subseteq Elements(rs) /\ Elements(rest) = Elements(rs) \ Elements(added)
  BY <1>1, ElementsSplit DEF added, rest
<1>8. Injective(queue')
  <2> SUFFICES ASSUME NEW i \in DOMAIN queue', NEW j \in DOMAIN queue',
                      queue'[i] = queue'[j], i < j
               PROVE  FALSE
    BY <1>1, <1>5 DEF Injective
  <2>1. i \in 1..Len(queue) + n /\ j \in 1..Len(queue) + n
    BY <1>1, <1>5
  <2>2. CASE j <= Len(queue)
    BY <2>1, <2>2, <1>1, <1>5 DEF Bundles, Injective
  <2>3. CASE i <= Len(queue) /\ j > Len(queue)
    <3>1. j - Len(queue) \in 1..n /\ j = Len(queue) + (j - Len(queue))
      BY <2>1, <2>3, <1>1
    <3>2. queue'[i] \in Elements(queue) /\ queue'[j] \in Elements(rs)
      BY <2>1, <2>3, <3>1, <1>1, <1>5, InElements
    <3> QED BY <3>2
  <2>4. CASE i > Len(queue)
    <3>1. /\ i - Len(queue) \in 1..n /\ i = Len(queue) + (i - Len(queue))
          /\ j - Len(queue) \in 1..n /\ j = Len(queue) + (j - Len(queue))
      BY <2>1, <2>4, <1>1
    <3>2. rs[i - Len(queue)] = rs[j - Len(queue)]
      BY <3>1, <1>5
    <3> QED BY <3>1, <3>2, <1>1 DEF Injective
  <2> QED BY <2>1, <2>2, <2>3, <2>4, <1>1
<1>9. Recorded(Elements(rs), Elements(added))
  <2>1. Elements(rs) \ Elements(added) = Elements(rest)
    BY <1>7
  <2> QED BY <1>4, <1>6, <1>7, <2>1 DEF Recorded
<1>10. depth' \in 0..QueueCapacity
  BY <1>1, <1>4, PipelineAssumption DEF Bundles, HubTypeOK
<1>11. counted' \in [Reason -> SUBSET Request]
  <2>1. Elements(rest) \subseteq Request
    BY <1>3, InElements
  <2> QED BY <1>4, <2>1 DEF Bundles, HubTypeOK, Reason
<1> QED BY <1>1, <1>5, <1>8, <1>9, <1>10, <1>11

-----------------------------------------------------------------------------
(* What recording does to the places of bundles.                            *)

\* Concluding the requests of S, none of which had a fact, and recording their
\* bundles puts each of them in one place and moves no other.
LEMMA RecordAccounts ==
    ASSUME AInv, life' \in [Request -> Lifecycle], NEW S \in SUBSET Request, NEW E,
           Recorded(S, E), WriterRuns, WriterRuns',
           \A r \in S : life[r].fact = None /\ life'[r].fact # None,
           \A r \in Request \ S : life'[r].fact = life[r].fact
    PROVE  Accounted'
<1> SUFFICES ASSUME NEW r \in Request
             PROVE  /\ \A x, y \in Places(r)' : x = y
                    /\ life'[r].fact = None => Places(r)' = {}
                    /\ life'[r].fact # None => Places(r)' # {}
  BY DEF Accounted
<1>1. /\ \A x, y \in Places(r) : x = y
      /\ life[r].fact = None => Places(r) = {}
      /\ life[r].fact # None => Places(r) # {}
  BY DEF AInv, Accounted
<1>2. counted \in [Reason -> SUBSET Request]
  BY DEF AInv, Bundles, HubTypeOK
<1>3. CASE r \notin S
  <2>1. Places(r)' = Places(r)
    BY <1>2, <1>3 DEF Recorded, Places, Reason
  <2> QED BY <1>1, <1>3, <2>1
<1>4. CASE r \in E
  <2>1. r \in S /\ Places(r) = {}
    BY <1>1, <1>4 DEF Recorded
  <2>2. Places(r)' = {"queued"}
    BY <1>2, <1>4, <2>1 DEF Recorded, Places, Reason
  <2> QED BY <2>1, <2>2
<1>5. CASE r \in S \ E
  <2>1. Places(r) = {}
    BY <1>1, <1>5
  <2>2. Places(r)' = {"queue_full"}
    BY <1>2, <1>5, <2>1 DEF Recorded, Places, Reason
  <2> QED BY <1>5, <2>2
<1> QED BY <1>3, <1>4, <1>5

\* A step of the writer or of the shutdown that changes no fact and moves each
\* bundle from its place to at most one other.
LEMMA MoveAccounts ==
    ASSUME AInv, life' = life,
           WriterRuns' => WriterRuns,
           \A r \in Request :
             \/ Places(r)' = Places(r)
             \/ \E x, y : Places(r) = {x} /\ Places(r)' = {y}
             \/ Places(r)' = {} /\ ~WriterRuns'
    PROVE  Accounted'
BY DEF AInv, Accounted

LEMMA ReleasedKeeps ==
    ASSUME NEW l \in Lifecycle
    PROVE  Released(l) \in Lifecycle /\ Released(l).pc = l.pc /\ Released(l).fact = l.fact
BY DEF Released, Lifecycle

LEMMA StatusIsFact ==
    ASSUME NEW l \in Lifecycle, NEW status \in Status
    PROVE  /\ [l EXCEPT !.fact = status] \in Lifecycle
           /\ [l EXCEPT !.fact = status].pc = l.pc
           /\ [l EXCEPT !.fact = status].fact = status
           /\ status # None
BY PipelineAssumption DEF Lifecycle

\* finish() keeps the books, whichever path calls it first (lifecycle.py:122-168).
LEMMA FinishKeeps ==
    ASSUME AInv, NEW r \in Request, NEW l \in Lifecycle, NEW g, NEW status \in Status, NEW facts,
           l.pc # "idle", l.fact = life[r].fact, l.fact = None => phase = "serving",
           Finish(r, l, g, status, facts)
    PROVE  AInv'
<1>1. CASE /\ l.fact = None
           /\ life' = [life EXCEPT ![r] = Released([l EXCEPT !.fact = status])]
           /\ active' = active \ {r}
           /\ RecordAll(<<r>>, <<facts>>)
           /\ UNCHANGED phase
  <2> DEFINE m == Released([l EXCEPT !.fact = status])
  <2>1. m \in Lifecycle /\ m.pc # "idle" /\ m.fact = status /\ status # None
    <3> DEFINE concluded == [l EXCEPT !.fact = status]
    <3>1. /\ concluded \in Lifecycle /\ concluded.pc = l.pc
          /\ concluded.fact = status /\ status # None
      BY StatusIsFact
    <3> HIDE DEF concluded
    <3>2. /\ Released(concluded) \in Lifecycle
          /\ Released(concluded).pc = concluded.pc
          /\ Released(concluded).fact = concluded.fact
      BY <3>1, ReleasedKeeps
    <3>3. m = Released(concluded)
      BY DEF concluded
    <3> HIDE DEF m
    <3> QED BY <3>1, <3>2, <3>3
  <2> HIDE DEF m
  <2>2. /\ life \in [Request -> Lifecycle]
        /\ life' \in [Request -> Lifecycle]
        /\ life'[r] = m
        /\ \A q \in Request \ {r} : life'[q] = life[q]
    BY <1>1, <2>1 DEF AInv, m
  <2>3. phase = "serving" /\ phase' = "serving" /\ WriterRuns /\ WriterRuns'
    BY <1>1 DEF WriterRuns
  <2>4. <<r>> \in Seq(Request) /\ Injective(<<r>>) /\ Elements(<<r>>) = {r}
    BY DEF Injective, Elements
  <2>5. r \notin Elements(queue)
    <3>1. Places(r) = {}
      BY <1>1 DEF AInv, Accounted
    <3> QED BY <3>1, <2>3 DEF Places
  <2>6. Enqueue(<<r>>)
    BY <1>1 DEF RecordAll
  <2>7. PICK E : Recorded({r}, E)
    BY <2>4, <2>5, <2>6, EnqueueRecords DEF AInv
  <2>8. Bundles'
    <3>1. /\ queue' \in Seq(Request) /\ Len(queue') <= QueueCapacity
          /\ Injective(queue')
          /\ depth' \in 0..QueueCapacity
          /\ counted' \in [Reason -> SUBSET Request]
      BY <2>4, <2>5, <2>6, EnqueueRecords DEF AInv
    <3> QED BY <3>1, <2>3, <2>7 DEF AInv, Bundles, HubTypeOK, Recorded
  <2>9. Accounted'
    <3>1. life[r].fact = None
      BY <1>1
    <3>2. \A q \in {r} : life[q].fact = None /\ life'[q].fact # None
      BY <3>1, <2>1, <2>2
    <3>3. \A q \in Request \ {r} : life'[q].fact = life[q].fact
      BY <2>2
    <3> QED BY <2>2, <2>3, <2>7, <3>2, <3>3, RecordAccounts
  <2>10. Registered'
    <3>1. IsFiniteSet(active')
      BY <1>1, FS_RemoveElement DEF AInv, Registered
    <3>2. active' = {q \in Request : life'[q].pc # "idle" /\ life'[q].fact = None}
      BY <1>1, <2>1, <2>2 DEF AInv, Registered
    <3>3. \A q \in Request : life'[q].pc = "idle" => life'[q].fact = None
      BY <2>1, <2>2 DEF AInv, Registered
    <3> QED BY <2>3, <3>1, <3>2, <3>3 DEF Registered
  <2> QED BY <2>2, <2>8, <2>9, <2>10 DEF AInv
<1>2. CASE /\ l.fact # None
           /\ life' = [life EXCEPT ![r] = Released(l)]
           /\ UNCHANGED active
           /\ Unchanged
  <2> DEFINE m == Released(l)
  <2>1. m \in Lifecycle /\ m.pc # "idle" /\ m.fact = l.fact
    BY ReleasedKeeps
  <2> HIDE DEF m
  <2>2. /\ life' \in [Request -> Lifecycle]
        /\ life'[r] = m
        /\ \A q \in Request \ {r} : life'[q] = life[q]
    BY <1>2, <2>1 DEF AInv, m
  <2>3. \A q \in Request : life'[q].fact = life[q].fact
    BY <2>1, <2>2
  <2>4. UNCHANGED <<queue, hand, depth, rows, counted, phase>>
    BY <1>2 DEF Unchanged, hubVars
  <2>5. Bundles'
    BY <2>4 DEF AInv, Bundles, HubTypeOK, Injective
  <2>6. Accounted'
    <3>1. WriterRuns' = WriterRuns /\ \A q : Places(q)' = Places(q)
      BY <2>4 DEF WriterRuns, Places, Elements
    <3> QED BY <2>3, <3>1 DEF AInv, Accounted
  <2>7. Registered'
    BY <1>2, <2>1, <2>2, <2>3, <2>4 DEF AInv, Registered
  <2> QED BY <2>2, <2>5, <2>6, <2>7 DEF AInv
<1> QED BY <1>1, <1>2 DEF Finish

\* A request that goes on without finishing keeps the books.
LEMMA AdvanceKeeps ==
    ASSUME AInv, NEW r \in Request, NEW l \in Lifecycle,
           l.pc # "idle", l.fact = life[r].fact, l.fact = None => phase = "serving",
           life' = [life EXCEPT ![r] = l],
           active' = IF l.fact = None THEN active \union {r} ELSE active,
           Unchanged
    PROVE  AInv'
<1>1. /\ life' \in [Request -> Lifecycle]
      /\ life'[r] = l
      /\ \A q \in Request \ {r} : life'[q] = life[q]
      /\ \A q \in Request : life'[q].fact = life[q].fact
  BY DEF AInv
<1>2. UNCHANGED <<queue, hand, depth, rows, counted, phase>>
  BY DEF Unchanged, hubVars
<1>3. Bundles'
  BY <1>2 DEF AInv, Bundles, HubTypeOK, Injective
<1>4. Accounted'
  <2>1. WriterRuns' = WriterRuns /\ \A q : Places(q)' = Places(q)
    BY <1>2 DEF WriterRuns, Places, Elements
  <2> QED BY <1>1, <2>1 DEF AInv, Accounted
<1>5. Registered'
  <2>1. IsFiniteSet(active')
    BY FS_AddElement DEF AInv, Registered
  <2>2. active' = {q \in Request : life'[q].pc # "idle" /\ life'[q].fact = None}
    BY <1>1 DEF AInv, Registered
  <2>3. phase' # "serving" => active' = {}
    BY <1>2 DEF AInv, Registered
  <2>4. \A q \in Request : life'[q].pc = "idle" => life'[q].fact = None
    BY <1>1 DEF AInv, Registered
  <2> QED BY <2>1, <2>2, <2>3, <2>4 DEF Registered
<1> QED BY <1>1, <1>3, <1>4, <1>5 DEF AInv

\* Each step of a handler or of a completion task keeps the books.
LEMMA RequestKeeps ==
    ASSUME AInv, NEW r \in Request, RequestStep(r)
    PROVE  AInv'
<1>1. life \in [Request -> Lifecycle] /\ life[r] \in Lifecycle
  BY DEF AInv
<1>2. life[r].pc # "idle" /\ life[r].fact = None => r \in active /\ phase = "serving"
  BY DEF AInv, Registered
<1>3. life[r].pc = "idle" => life[r].fact = None
  BY DEF AInv, Registered
<1> DEFINE over == [life[r] EXCEPT !.pc = "done"]
<1>4. over \in Lifecycle /\ over.pc # "idle" /\ over.fact = life[r].fact
  BY <1>1 DEF Lifecycle
<1>5. CASE Open(r)
  <2> DEFINE opened == [life[r] EXCEPT !.pc = "validating"]
  <2>1. opened \in Lifecycle /\ opened.pc # "idle" /\ opened.fact = life[r].fact
    BY <1>1 DEF Lifecycle
  <2>2. phase = "serving" /\ life[r].fact = None
    BY <1>3, <1>5 DEF Open, At
  <2>3. CASE life' = [life EXCEPT ![r].pc = "validating"] /\ active' = active \union {r} /\ Unchanged
    <3>1. life' = [life EXCEPT ![r] = opened]
      BY <2>3
    <3> HIDE DEF opened
    <3> QED BY <2>1, <2>2, <2>3, <3>1, AdvanceKeeps
  <2>4. CASE Finish(r, over, [gauge EXCEPT !["unknown"] = @ + 1], "error", "none")
    <3> HIDE DEF over
    <3> QED BY <1>4, <2>2, <2>4, FinishKeeps DEF Status
  <2> QED BY <1>5, <2>3, <2>4 DEF Open
<1>6. CASE Invalid(r)
  <2>1. Finish(r, over, gauge, "error", "none") /\ life[r].pc # "idle"
    BY <1>6 DEF Invalid, At
  <2> HIDE DEF over
  <2> QED BY <1>2, <1>4, <2>1, FinishKeeps DEF Status
<1>7. CASE Refuse(r)
  <2> DEFINE l == [Classified(life[r]) EXCEPT !.pc = "done"]
  <2>1. l \in Lifecycle /\ l.pc # "idle" /\ l.fact = life[r].fact
    BY <1>1 DEF Lifecycle, Classified
  <2>2. PICK facts : Finish(r, l, Relabelled(gauge, life[r]), "error", facts)
    BY <1>7 DEF Refuse
  <2>3. life[r].pc # "idle"
    BY <1>7 DEF Refuse, At
  <2> HIDE DEF l
  <2> QED BY <1>2, <2>1, <2>2, <2>3, FinishKeeps DEF Status
<1>8. CASE Execute(r)
  <2> DEFINE l == [Classified(life[r]) EXCEPT !.pc = "executing"]
  <2>1. l \in Lifecycle /\ l.pc # "idle" /\ l.fact = life[r].fact
    BY <1>1 DEF Lifecycle, Classified
  <2>2. /\ life' = [life EXCEPT ![r] = l]
        /\ phase = "serving" /\ life[r].pc # "idle" /\ UNCHANGED active /\ Unchanged
    BY <1>1, <1>8 DEF Execute, At
  <2> HIDE DEF l
  <2>3. active' = IF l.fact = None THEN active \union {r} ELSE active
    BY <1>2, <2>1, <2>2
  <2> QED BY <2>1, <2>2, <2>3, AdvanceKeeps
<1>9. CASE Fail(r)
  <2>1. PICK status \in {"error", "cancelled"}, facts \in {"routed", "failed"} : Finish(r, over, gauge, status, facts)
    BY <1>9 DEF Fail
  <2>2. life[r].pc # "idle"
    BY <1>9 DEF Fail, At
  <2> HIDE DEF over
  <2> QED BY <1>2, <1>4, <2>1, <2>2, FinishKeeps DEF Status
<1>10. CASE CancelHandler(r)
  <2>1. PICK facts : Finish(r, over, gauge, "cancelled", facts)
    BY <1>10 DEF CancelHandler
  <2>2. life[r].pc # "idle"
    BY <1>10 DEF CancelHandler, At
  <2> HIDE DEF over
  <2> QED BY <1>2, <1>4, <2>1, <2>2, FinishKeeps DEF Status
<1>11. CASE Respond(r)
  <2> DEFINE l == Started(r)
  <2>1. l \in Lifecycle /\ l.pc # "idle" /\ l.fact = life[r].fact
    BY <1>1 DEF Lifecycle, Started
  <2>2. life[r].pc # "idle"
    BY <1>11 DEF Respond, At
  <2>3. CASE life' = [life EXCEPT ![r] = l] /\ UNCHANGED active /\ Unchanged
    <3> HIDE DEF l
    <3>1. active' = IF l.fact = None THEN active \union {r} ELSE active
      BY <1>2, <2>1, <2>2, <2>3
    <3> QED BY <1>2, <2>1, <2>2, <2>3, <3>1, AdvanceKeeps
  <2>4. CASE Finish(r, l, Streaming(r), "error", "routed")
    <3> HIDE DEF l
    <3> QED BY <1>2, <2>1, <2>2, <2>4, FinishKeeps DEF Status
  <2> QED BY <1>11, <2>3, <2>4 DEF Respond
<1>12. CASE Complete(r)
  <2>1. PICK status \in Status : Finish(r, over, gauge, status, "committed")
    BY <1>12 DEF Complete
  <2>2. life[r].pc # "idle"
    BY <1>12 DEF Complete, At
  <2> HIDE DEF over
  <2> QED BY <1>2, <1>4, <2>1, <2>2, FinishKeeps
<1> QED BY <1>5, <1>6, <1>7, <1>8, <1>9, <1>10, <1>11, <1>12 DEF RequestStep

\* What a step of the task of r does to facts.
LEMMA RequestLeavesFacts ==
    ASSUME life \in [Request -> Lifecycle], NEW r \in Request, RequestStep(r),
           NEW q \in Request, life[q].fact # None
    PROVE  life'[q].fact = life[q].fact
<1>1. life[r] \in Lifecycle
  OBVIOUS
<1>2. ASSUME NEW l \in Lifecycle, NEW g, NEW status \in Status, NEW facts,
             l.fact = life[r].fact, Finish(r, l, g, status, facts)
      PROVE  life'[q].fact = life[q].fact
  <2>1. CASE l.fact = None
    <3>1. q # r
      BY <1>2, <2>1
    <3>2. \E m : life' = [life EXCEPT ![r] = m]
      BY <1>2 DEF Finish
    <3> QED BY <3>1, <3>2
  <2>2. CASE l.fact # None
    <3>1. life' = [life EXCEPT ![r] = Released(l)]
      BY <1>2, <2>2 DEF Finish
    <3>2. Released(l).fact = life[r].fact
      BY <1>2, ReleasedKeeps
    <3> QED BY <3>1, <3>2
  <2> QED BY <2>1, <2>2
<1>3. ASSUME NEW l \in Lifecycle, l.fact = life[r].fact, life' = [life EXCEPT ![r] = l]
      PROVE  life'[q].fact = life[q].fact
  BY <1>3
<1> DEFINE over == [life[r] EXCEPT !.pc = "done"]
           opened == [life[r] EXCEPT !.pc = "validating"]
           refused == [Classified(life[r]) EXCEPT !.pc = "done"]
           executing == [Classified(life[r]) EXCEPT !.pc = "executing"]
           started == Started(r)
<1>4. /\ over \in Lifecycle /\ over.fact = life[r].fact
      /\ opened \in Lifecycle /\ opened.fact = life[r].fact
      /\ refused \in Lifecycle /\ refused.fact = life[r].fact
      /\ executing \in Lifecycle /\ executing.fact = life[r].fact
      /\ started \in Lifecycle /\ started.fact = life[r].fact
  BY <1>1 DEF Lifecycle, Classified, Started
<1>5. \/ \E g, facts : \E status \in Status :
           \/ Finish(r, over, g, status, facts)
           \/ Finish(r, refused, g, status, facts)
           \/ Finish(r, started, g, status, facts)
      \/ life' = [life EXCEPT ![r] = opened]
      \/ life' = [life EXCEPT ![r] = executing]
      \/ life' = [life EXCEPT ![r] = started]
  BY DEF RequestStep, Open, Invalid, Refuse, Execute, Fail, CancelHandler, Respond, Complete, Status
<1> HIDE DEF over, opened, refused, executing, started
<1> QED BY <1>2, <1>3, <1>4, <1>5

-----------------------------------------------------------------------------
(* The writer and the shutdown.                                             *)

LEMMA TakeKeeps ==
    ASSUME AInv, Take
    PROVE  AInv'
<1>1. /\ queue \in Seq(Request) /\ queue # <<>> /\ hand = None /\ WriterRuns
      /\ hand' = Head(queue) /\ queue' = Tail(queue)
      /\ UNCHANGED <<life, active, depth, rows, counted, phase>>
  BY DEF Take, AInv, Bundles, HubTypeOK
<1>2. /\ queue' \in Seq(Request) /\ Len(queue') = Len(queue) - 1
      /\ hand' = queue[1] /\ hand' \in Request
      /\ DOMAIN queue' = 1..Len(queue) - 1 /\ DOMAIN queue = 1..Len(queue)
      /\ Len(queue) \in Nat \ {0}
      /\ \A i \in 1..Len(queue) - 1 : queue'[i] = queue[i + 1]
  BY <1>1
<1>3. Injective(queue) /\ Injective(queue')
  <2>1. Injective(queue)
    BY DEF AInv, Bundles
  <2>2. ASSUME NEW i \in DOMAIN queue', NEW j \in DOMAIN queue', queue'[i] = queue'[j]
        PROVE  i = j
    <3>1. /\ i + 1 \in DOMAIN queue /\ j + 1 \in DOMAIN queue
          /\ queue[i + 1] = queue[j + 1] /\ i \in Int /\ j \in Int
      BY <1>2, <2>2
    <3>2. i + 1 = j + 1
      BY <2>1, <3>1 DEF Injective
    <3> QED BY <3>1, <3>2
  <2> QED BY <2>1, <2>2 DEF Injective
<1>4. Bundles'
  <2>1. Len(queue') <= QueueCapacity
    BY <1>2, PipelineAssumption DEF AInv, Bundles, HubTypeOK
  <2> QED BY <1>1, <1>2, <1>3, <2>1 DEF AInv, Bundles, HubTypeOK
<1>5. Elements(queue') = Elements(queue) \ {hand'} /\ hand' \in Elements(queue)
  <2>1. hand' \in Elements(queue)
    BY <1>2, InElements
  <2>2. ASSUME NEW i \in DOMAIN queue' PROVE queue'[i] \in Elements(queue) \ {hand'}
    <3>1. i + 1 \in DOMAIN queue /\ 1 \in DOMAIN queue /\ i + 1 # 1 /\ queue'[i] = queue[i + 1]
      BY <1>2
    <3> QED BY <1>2, <1>3, <3>1, InElements DEF Injective
  <2>3. ASSUME NEW i \in DOMAIN queue, queue[i] # hand' PROVE queue[i] \in Elements(queue')
    <3>1. i - 1 \in DOMAIN queue' /\ queue'[i - 1] = queue[i]
      BY <1>2, <2>3
    <3> QED BY <3>1, InElements
  <2> QED BY <2>1, <2>2, <2>3, InElements
<1>6. Accounted'
  <2> SUFFICES ASSUME NEW r \in Request
               PROVE  \/ Places(r)' = Places(r)
                      \/ \E x, y : Places(r) = {x} /\ Places(r)' = {y}
    BY <1>1, MoveAccounts DEF WriterRuns
  <2>1. WriterRuns' /\ hand = None /\ None \notin Request
    BY <1>1, PipelineAssumption DEF WriterRuns
  <2>2. CASE r # hand'
    BY <1>1, <1>5, <2>1, <2>2 DEF Places
  <2>3. CASE r = hand'
    <3>1. "queued" \in Places(r) /\ \A x, y \in Places(r) : x = y
      BY <1>1, <1>5, <2>3 DEF Places, AInv, Accounted
    <3>2. Places(r) = {"queued"}
      BY <3>1
    <3>3. Places(r)' = {"writing"}
      BY <1>1, <1>5, <2>1, <2>3, <3>2 DEF Places, Reason
    <3> QED BY <3>2, <3>3
  <2> QED BY <2>2, <2>3
<1>7. Registered'
  BY <1>1 DEF AInv, Registered
<1> QED BY <1>1, <1>4, <1>6, <1>7 DEF AInv

LEMMA WriteKeeps ==
    ASSUME AInv, Write
    PROVE  AInv'
<1>1. /\ hand \in Request /\ hand # None /\ hand' = None /\ depth' = Len(queue) /\ WriterRuns
      /\ UNCHANGED <<life, active, queue, phase>>
      /\ counted \in [Reason -> SUBSET Request]
      /\ Len(queue) \in 0..QueueCapacity
  BY DEF Write, AInv, Bundles, HubTypeOK
<1>2. \/ rows' = rows \union {hand} /\ UNCHANGED counted
      \/ /\ counted' = [counted EXCEPT !["write_failed"] = @ \union {hand}]
         /\ UNCHANGED rows
  BY DEF Write
<1>3. Bundles'
  BY <1>1, <1>2 DEF AInv, Bundles, HubTypeOK, Injective, Reason
<1>4. Accounted'
  <2> SUFFICES ASSUME NEW r \in Request
               PROVE  \/ Places(r)' = Places(r)
                      \/ \E x, y : Places(r) = {x} /\ Places(r)' = {y}
    BY <1>1, MoveAccounts DEF WriterRuns
  <2>1. WriterRuns' /\ Elements(queue') = Elements(queue) /\ None \notin Request
    BY <1>1, PipelineAssumption DEF WriterRuns
  <2>2. CASE r # hand
    BY <1>1, <1>2, <2>1, <2>2 DEF Places, Reason
  <2>3. CASE r = hand
    <3>1. "writing" \in Places(r) /\ \A x, y \in Places(r) : x = y
      BY <2>3 DEF Places, AInv, Accounted
    <3>2. Places(r) = {"writing"}
      BY <3>1
    <3>3. \/ Places(r)' = {"stored"}
          \/ Places(r)' = {"write_failed"}
      BY <1>1, <1>2, <2>1, <2>3, <3>2 DEF Places, Reason
    <3> QED BY <3>2, <3>3
  <2> QED BY <2>2, <2>3
<1>5. Registered'
  BY <1>1 DEF AInv, Registered
<1> QED BY <1>1, <1>3, <1>4, <1>5 DEF AInv

\* abandon_all() concludes and records every registered request (lifecycle.py:212-218).
LEMMA ShutdownKeeps ==
    ASSUME AInv, Shutdown
    PROVE  AInv'
<1>1. phase = "serving" /\ phase' = "closing_workers" /\ active' = {} /\ WriterRuns /\ WriterRuns'
  BY DEF Shutdown, WriterRuns
<1>2. PICK order \in Orders(active) : Enqueue(order)
  BY DEF Shutdown, RecordAll
<1>3. /\ active \subseteq Request /\ IsFiniteSet(active)
      /\ \A r \in active : life[r].fact = None
      /\ \A r \in Request \ active : life[r].fact = None => life[r].pc = "idle"
  BY DEF AInv, Registered
<1>4. order \in Seq(Request) /\ Injective(order) /\ Elements(order) = active
  <2>1. Cardinality(active) \in Nat
    BY <1>3, FS_CardinalityType
  <2> QED BY <1>2, <1>3, <2>1 DEF Orders
<1>5. Elements(order) \cap Elements(queue) = {}
  <2>1. ASSUME NEW r \in active PROVE r \notin Elements(queue)
    <3>1. Places(r) = {}
      BY <1>3 DEF AInv, Accounted
    <3> QED BY <1>1, <3>1 DEF Places
  <2> QED BY <1>4, <2>1
<1>6. PICK E : Recorded(active, E)
  BY <1>2, <1>4, <1>5, EnqueueRecords DEF AInv
<1>7. Bundles'
  <2>1. /\ queue' \in Seq(Request) /\ Len(queue') <= QueueCapacity
        /\ Injective(queue')
        /\ depth' \in 0..QueueCapacity
        /\ counted' \in [Reason -> SUBSET Request]
    BY <1>2, <1>4, <1>5, EnqueueRecords DEF AInv
  <2> QED BY <1>1, <1>6, <2>1 DEF AInv, Bundles, HubTypeOK, Recorded
<1>8. /\ life' \in [Request -> Lifecycle]
      /\ \A r \in active : life'[r].fact = "abandoned" /\ life'[r].fact # None /\ life'[r].pc = life[r].pc
      /\ \A r \in Request \ active : life'[r] = life[r]
  <2> DEFINE left(r) == [life[r] EXCEPT !.fact = "abandoned"]
  <2>1. \A r \in Request : /\ left(r) \in Lifecycle /\ left(r).fact = "abandoned" /\ left(r).pc = life[r].pc
                           /\ "abandoned" # None
    BY StatusIsFact DEF AInv, Status
  <2>2. life' = [r \in Request |-> IF r \in active THEN left(r) ELSE life[r]]
    BY DEF Shutdown
  <2> HIDE DEF left
  <2> QED BY <1>3, <2>1, <2>2 DEF AInv
<1>9. Accounted'
  BY <1>1, <1>3, <1>6, <1>8, RecordAccounts
<1>10. Registered'
  <2>1. IsFiniteSet(active')
    BY <1>1, FS_EmptySet
  <2>2. {r \in Request : life'[r].pc # "idle" /\ life'[r].fact = None} = {}
    BY <1>3, <1>8
  <2>3. \A r \in Request : life'[r].pc = "idle" => life'[r].fact = None
    BY <1>3, <1>8 DEF AInv, Registered
  <2> QED BY <1>1, <2>1, <2>2, <2>3 DEF Registered
<1> QED BY <1>7, <1>8, <1>9, <1>10 DEF AInv

\* close() keeps the books, whether the queue drains or the deadline passes.
LEMMA ClosingKeeps ==
    ASSUME AInv, Closing
    PROVE  AInv'
<1>1. /\ UNCHANGED <<life, active, queue>> /\ phase # "serving" /\ phase' # "serving"
      /\ phase' \in {"draining", "exporting", "closing_store", "closed"}
      /\ WriterRuns' => WriterRuns
  BY DEF Closing, HubCloses, Drained, DrainTimeout, ExporterCloses, StoreCloses, hubVars, WriterRuns
<1>2. Registered'
  BY <1>1 DEF AInv, Registered
<1>3. CASE DrainTimeout
  <2>1. /\ counted' = [counted EXCEPT !["shutdown_timeout"] = @ \union Elements(queue)]
        /\ rows' \in {rows, rows \union ({hand} \ {None})}
        /\ hand' = None /\ ~WriterRuns' /\ WriterRuns
        /\ depth' = IF hand = None THEN depth ELSE Len(queue)
    BY <1>3 DEF DrainTimeout, WriterRuns
  <2>2. /\ counted \in [Reason -> SUBSET Request] /\ hand \in Request \union {None}
        /\ queue \in Seq(Request) /\ Len(queue) \in 0..QueueCapacity
        /\ Elements(queue) \subseteq Request /\ None \notin Request
    BY PipelineAssumption DEF AInv, Bundles, HubTypeOK, Elements
  <2>3. Bundles'
    BY <1>1, <2>1, <2>2 DEF AInv, Bundles, HubTypeOK, Injective, Reason
  <2>4. ASSUME NEW r \in Request
        PROVE  \/ Places(r)' = Places(r)
               \/ \E x, y : Places(r) = {x} /\ Places(r)' = {y}
               \/ Places(r)' = {} /\ ~WriterRuns'
    <3>1. \A x, y \in Places(r) : x = y
      BY DEF AInv, Accounted
    <3>2. CASE r \in Elements(queue)
      <4>1. Places(r) = {"queued"}
        BY <2>1, <3>1, <3>2 DEF Places
      <4>2. \A x \in Reason : r \in counted'[x] <=> x = "shutdown_timeout"
        <5>1. \A x \in Reason : r \notin counted[x]
          BY <4>1 DEF Places, Reason
        <5>2. \A x \in Reason :
                counted'[x] = IF x = "shutdown_timeout"
                              THEN counted[x] \union Elements(queue) ELSE counted[x]
          BY <2>1, <2>2
        <5> QED BY <3>2, <5>1, <5>2
      <4>3. r # hand /\ r \notin rows
        BY <4>1 DEF Places
      <4>4. r # hand' /\ r \notin rows' /\ ~WriterRuns'
        BY <2>1, <2>2, <4>3
      <4>5. Places(r)' = {"shutdown_timeout"}
        BY <4>2, <4>4 DEF Places, Reason
      <4> QED BY <4>1, <4>5
    <3>3. CASE r = hand
      <4>1. "writing" \in Places(r) /\ Places(r) = {"writing"}
        BY <3>1, <3>3 DEF Places
      <4>2. Places(r)' = {"stored"} \/ Places(r)' = {}
        BY <1>1, <2>1, <2>2, <3>3, <4>1 DEF Places, Reason
      <4> QED BY <2>1, <4>1, <4>2
    <3>4. CASE r # hand /\ r \notin Elements(queue)
      <4>1. Places(r)' = Places(r)
        BY <1>1, <2>1, <2>2, <3>4 DEF Places, Reason
      <4> QED BY <4>1
    <3> QED BY <3>2, <3>3, <3>4
  <2>5. Accounted'
    BY <1>1, <2>4, MoveAccounts
  <2> QED BY <1>1, <1>2, <2>3, <2>5 DEF AInv
<1>4. CASE ~DrainTimeout
  <2>1. UNCHANGED hubVars
    BY <1>4 DEF Closing, HubCloses, Drained, ExporterCloses, StoreCloses
  <2>2. Bundles'
    BY <1>1, <2>1 DEF AInv, Bundles, HubTypeOK, Injective, hubVars
  <2>3. WriterRuns' = WriterRuns \/ Elements(queue) = {}
    BY <1>4 DEF Closing, HubCloses, Drained, ExporterCloses, StoreCloses, WriterRuns, Elements
  <2>4. \A r \in Request : Places(r)' = Places(r)
    BY <2>1, <2>3 DEF Places, hubVars, Elements
  <2>5. Accounted'
    BY <1>1, <2>4, MoveAccounts
  <2> QED BY <1>1, <1>2, <2>2, <2>5 DEF AInv
<1> QED BY <1>3, <1>4

-----------------------------------------------------------------------------

\* The books are kept for ever.
LEMMA BooksKept == Spec => []AInv
<1>1. Init => AInv
  <2> SUFFICES ASSUME Init PROVE AInv
    OBVIOUS
  <2>1. life \in [Request -> Lifecycle] /\ \A r \in Request : life[r].pc = "idle" /\ life[r].fact = None
    BY DEF Init, Lifecycle
  <2>2. Bundles
    BY PipelineAssumption DEF Init, Bundles, HubTypeOK, Injective
  <2>3. Registered
    BY <2>1, FS_EmptySet DEF Init, Registered
  <2>4. \A r \in Request : Places(r) = {}
    BY PipelineAssumption DEF Init, Places, Elements
  <2> QED BY <2>1, <2>2, <2>3, <2>4 DEF AInv, Accounted
<1>2. AInv /\ [Next]_vars => AInv'
  <2> SUFFICES ASSUME AInv, [Next]_vars PROVE AInv'
    OBVIOUS
  <2>1. CASE UNCHANGED pipelineVars
    <3>1. UNCHANGED <<life, active, queue, hand, depth, rows, counted, phase>>
      BY <2>1 DEF pipelineVars, hubVars
    <3>2. Bundles' /\ Registered'
      BY <3>1 DEF AInv, Bundles, HubTypeOK, Injective, Registered
    <3>3. WriterRuns' = WriterRuns /\ \A q : Places(q)' = Places(q)
      BY <3>1 DEF WriterRuns, Places, Elements
    <3>4. Accounted'
      BY <3>1, <3>3 DEF AInv, Accounted
    <3> QED BY <3>1, <3>2, <3>4 DEF AInv
  <2>2. CASE \E r \in Request : RequestStep(r)
    BY <2>2, RequestKeeps
  <2>3. CASE Writer
    BY <2>3, TakeKeeps, WriteKeeps DEF Writer
  <2>4. CASE Shutdown
    BY <2>4, ShutdownKeeps
  <2>5. CASE Closing
    BY <2>5, ClosingKeeps
  <2> QED BY <2>1, <2>2, <2>3, <2>4, <2>5 DEF Next, Stopped, vars
<1> QED BY <1>1, <1>2, PTL DEF Spec

(* The bundle of each concluded request is in one place only: queued, being  *)
(* written, stored, or counted under one reason; none is missing before the  *)
(* drain deadline, whatever the order in which handlers, completion tasks,   *)
(* the writer and the shutdown run (hub.py:85-130, lifecycle.py:122-168).    *)
THEOREM EachBundleAccounted == Spec => []Accounted
BY BooksKept, PTL DEF AInv

(* The terminal fact of a request never changes once it is set: the first of *)
(* the gateway, the completion task and abandon_all() wins                   *)
(* (lifecycle.py:133-138).                                                   *)
THEOREM FirstFactStays ==
    Spec => [][\A r \in Request : life[r].fact # None => life'[r].fact = life[r].fact]_vars
<1> DEFINE Stays == \A r \in Request : life[r].fact # None => life'[r].fact = life[r].fact
<1>1. AInv /\ [Next]_vars => [Stays]_vars
  <2> SUFFICES ASSUME AInv, Next PROVE Stays
    BY DEF vars
  <2>1. ASSUME NEW q \in Request, RequestStep(q) PROVE Stays
    BY <2>1, RequestLeavesFacts DEF AInv
  <2>2. CASE Writer \/ Closing \/ Stopped \/ UNCHANGED pipelineVars
    BY <2>2 DEF Writer, Take, Write, Closing, HubCloses, Drained, DrainTimeout, ExporterCloses,
                StoreCloses, Stopped, vars, pipelineVars
  <2>3. CASE Shutdown
    BY <2>3 DEF Shutdown, AInv, Registered
  <2> QED BY <2>1, <2>2, <2>3 DEF Next
<1> QED BY <1>1, BooksKept, PTL DEF Spec
-----------------------------------------------------------------------------
(* The gauges.                                                              *)

Meter == {"unknown", "known", "streams"}

\* What a registered lifecycle l adds to the gauge x.
Share(l, x) == IF (IF x = "streams" THEN l.counts ELSE l.label = x) THEN 1 ELSE 0

Metered(x) == {r \in active : Share(life[r], x) = 1}

\* While the router serves, a handler that has not returned yet is open, and a
\* request nobody opened has no label of its own and counts as no stream.
GInv ==
    /\ AInv
    /\ gauge \in [Meter -> Int]
    /\ GaugesMatch
    /\ \A r \in Request :
         /\ phase = "serving" /\ life[r].pc \in {"validating", "executing"} => life[r].fact = None
         /\ life[r].pc = "idle" => life[r].label = "unknown" /\ ~life[r].counts

\* The task of r leaves its lifecycle at l and, before finish() lowers them, the
\* gauges at g.
Adjusts(r, l, g) ==
    /\ l \in Lifecycle /\ l.pc # "idle" /\ l.fact = life[r].fact
    /\ g \in [Meter -> Int]
    /\ l.fact = None =>
         /\ phase = "serving"
         /\ \A x \in Meter :
              g[x] = gauge[x] + Share(l, x) - (IF r \in active THEN Share(life[r], x) ELSE 0)
    /\ l.fact # None =>
         /\ phase = "serving" => g = gauge
         /\ g["unknown"] + g["known"] = gauge["unknown"] + gauge["known"]

Finishes(r, l, g) ==
    /\ l.pc \in {"completing", "done"}
    /\ \E status \in Status, facts \in {"none", "routed", "failed", "committed"} :
         Finish(r, l, g, status, facts)

GoesOn(r, l, g) ==
    /\ phase = "serving" /\ l.pc \in {"validating", "executing"} => l.fact = None
    /\ life' = [life EXCEPT ![r] = l]
    /\ active' = IF l.fact = None THEN active \union {r} ELSE active
    /\ gauge' = g
    /\ phase' = phase

LEMMA MetersAreSets ==
    ASSUME GInv, phase = "serving"
    PROVE  \A x \in Meter : gauge[x] = Cardinality(Metered(x))
<1>1. \A r \in active : life[r] \in Lifecycle
  BY DEF GInv, AInv, Registered
<1>2. /\ Metered("unknown") = {r \in active : life[r].label = "unknown"}
      /\ Metered("known") = {r \in active : life[r].label = "known"}
      /\ Metered("streams") = {r \in active : life[r].counts}
  BY <1>1 DEF Metered, Share, Lifecycle
<1> QED BY <1>2 DEF GInv, GaugesMatch, Meter

\* One element more or less.
LEMMA OneMember ==
    ASSUME NEW S, NEW T, IsFiniteSet(S), NEW r, T \ {r} = S \ {r}
    PROVE  /\ IsFiniteSet(T)
           /\ Cardinality(S) \in Nat
           /\ Cardinality(T) = Cardinality(S) + (IF r \in T THEN 1 ELSE 0)
                                              - (IF r \in S THEN 1 ELSE 0)
<1>1. Cardinality(S) \in Nat
  BY FS_CardinalityType
<1>2. CASE (r \in S) <=> (r \in T)
  <2>1. T = S
    BY <1>2
  <2> QED BY <1>1, <1>2, <2>1
<1>3. CASE r \in S /\ r \notin T
  <2>1. T = S \ {r}
    BY <1>3
  <2> QED BY <1>1, <1>3, <2>1, FS_RemoveElement
<1>4. CASE r \notin S /\ r \in T
  <2>1. T = S \union {r}
    BY <1>4
  <2> QED BY <1>1, <1>4, <2>1, FS_AddElement
<1> QED BY <1>2, <1>3, <1>4

\* Each step of a handler or of a completion task adjusts the gauges by what it
\* changes in its own lifecycle.
LEMMA StepAdjusts ==
    ASSUME GInv, NEW r \in Request, RequestStep(r)
    PROVE  \E l, g : Adjusts(r, l, g) /\ (Finishes(r, l, g) \/ GoesOn(r, l, g))
<1>1. /\ life[r] \in Lifecycle /\ life \in [Request -> Lifecycle]
      /\ gauge \in [Meter -> Int]
      /\ gauge["unknown"] \in Int /\ gauge["known"] \in Int /\ gauge["streams"] \in Int
  BY DEF GInv, AInv, Meter
<1>2. life[r].pc # "idle" /\ life[r].fact = None => r \in active /\ phase = "serving"
  BY DEF GInv, AInv, Registered
<1>3. life[r].pc = "idle" =>
        life[r].fact = None /\ life[r].label = "unknown" /\ ~life[r].counts /\ r \notin active
  BY DEF GInv, AInv, Registered
<1>4. phase = "serving" /\ life[r].pc \in {"validating", "executing"} => life[r].fact = None
  BY DEF GInv
<1> DEFINE over == [life[r] EXCEPT !.pc = "done"]
           opened == [life[r] EXCEPT !.pc = "validating"]
           refused == [Classified(life[r]) EXCEPT !.pc = "done"]
           executing == [Classified(life[r]) EXCEPT !.pc = "executing"]
           started == Started(r)
           raised == [gauge EXCEPT !["unknown"] = @ + 1]
           relabelled == Relabelled(gauge, life[r])
           streaming == Streaming(r)
<1>5. /\ over \in Lifecycle /\ over.pc = "done" /\ over.fact = life[r].fact
      /\ over.label = life[r].label /\ over.counts = life[r].counts
      /\ opened \in Lifecycle /\ opened.pc = "validating" /\ opened.fact = life[r].fact
      /\ opened.label = life[r].label /\ opened.counts = life[r].counts
  BY <1>1 DEF Lifecycle
<1>6. /\ refused \in Lifecycle /\ refused.pc = "done" /\ refused.fact = life[r].fact
      /\ refused.label = "known" /\ refused.counts = life[r].counts
      /\ executing \in Lifecycle /\ executing.pc = "executing" /\ executing.fact = life[r].fact
      /\ executing.label = "known" /\ executing.counts = life[r].counts
      /\ started \in Lifecycle /\ started.pc = "completing" /\ started.fact = life[r].fact
      /\ started.label = life[r].label /\ (started.counts <=> (life[r].counts \/ r \in Streams))
  BY <1>1 DEF Lifecycle, Classified, Started
<1>7. /\ raised \in [Meter -> Int]
      /\ raised["unknown"] = gauge["unknown"] + 1
      /\ raised["known"] = gauge["known"] /\ raised["streams"] = gauge["streams"]
      /\ relabelled \in [Meter -> Int]
      /\ relabelled["unknown"] = gauge["unknown"] - (IF life[r].label = "unknown" THEN 1 ELSE 0)
      /\ relabelled["known"] = gauge["known"] + (IF life[r].label = "unknown" THEN 1 ELSE 0)
      /\ relabelled["streams"] = gauge["streams"]
  BY <1>1 DEF Relabelled, Meter
<1>8. /\ streaming \in [Meter -> Int]
      /\ streaming["streams"] = gauge["streams"]
           + (IF r \in Streams /\ ~life[r].counts THEN 1 ELSE 0)
      /\ streaming["unknown"] = gauge["unknown"] /\ streaming["known"] = gauge["known"]
  BY <1>1 DEF Streaming, Meter
<1>9. life[r].label \in {"unknown", "known"} /\ life[r].counts \in BOOLEAN
  BY <1>1 DEF Lifecycle
<1> HIDE DEF over, opened, refused, executing, started, raised, relabelled, streaming
<1>10. life[r].pc = "idle" /\ phase = "serving" =>
         Adjusts(r, opened, raised) /\ Adjusts(r, over, raised)
  BY <1>1, <1>3, <1>5, <1>7 DEF Adjusts, Share, Meter
<1>11. life[r].pc # "idle" => Adjusts(r, over, gauge)
  <2> SUFFICES ASSUME life[r].pc # "idle" PROVE Adjusts(r, over, gauge)
    OBVIOUS
  <2>1. \A x \in Meter : Share(over, x) = Share(life[r], x) /\ Share(over, x) \in Int
                         /\ gauge[x] \in Int
    BY <1>1, <1>5 DEF Share, Meter
  <2> QED BY <1>1, <1>2, <1>5, <2>1 DEF Adjusts
<1>12. life[r].pc = "validating" =>
         Adjusts(r, refused, relabelled) /\ Adjusts(r, executing, relabelled)
  BY <1>1, <1>2, <1>4, <1>6, <1>7, <1>9 DEF Adjusts, Share, Meter
<1>13. life[r].pc = "executing" => Adjusts(r, started, streaming)
  <2> SUFFICES ASSUME life[r].pc = "executing" PROVE Adjusts(r, started, streaming)
    OBVIOUS
  <2>1. /\ \A x \in {"unknown", "known"} :
             Share(started, x) = Share(life[r], x) /\ Share(started, x) \in Int /\ gauge[x] \in Int
        /\ Share(started, "streams")
             = Share(life[r], "streams") + (IF r \in Streams /\ ~life[r].counts THEN 1 ELSE 0)
        /\ Share(life[r], "streams") \in Int
    <3>1. /\ Share(started, "unknown") = Share(life[r], "unknown")
          /\ Share(started, "known") = Share(life[r], "known")
      BY <1>6 DEF Share
    <3>2. Share(started, "streams")
            = Share(life[r], "streams") + (IF r \in Streams /\ ~life[r].counts THEN 1 ELSE 0)
      <4>1. CASE life[r].counts
        BY <1>6, <4>1 DEF Share
      <4>2. CASE ~life[r].counts
        BY <1>6, <4>2 DEF Share
      <4> QED BY <4>1, <4>2
    <3>3. \A x : Share(started, x) \in Int /\ Share(life[r], x) \in Int
      BY DEF Share
    <3> QED BY <1>1, <3>1, <3>2, <3>3
  <2>2. \A x \in Meter : streaming[x] = gauge[x] + Share(started, x) - Share(life[r], x)
    BY <1>1, <1>8, <2>1 DEF Meter
  <2>3. life[r].fact = None => r \in active /\ phase = "serving"
    BY <1>2
  <2>4. /\ life[r].fact # None => phase # "serving"
        /\ streaming["unknown"] + streaming["known"] = gauge["unknown"] + gauge["known"]
    BY <1>4, <1>8
  <2>5. /\ started \in Lifecycle /\ started.pc # "idle" /\ started.fact = life[r].fact
        /\ streaming \in [Meter -> Int]
    BY <1>6, <1>8
  <2> QED BY <2>2, <2>3, <2>4, <2>5 DEF Adjusts
<1>14. CASE Open(r)
  <2>1. life[r].pc = "idle" /\ phase = "serving"
    BY <1>14 DEF Open, At
  <2>2. \/ /\ life' = [life EXCEPT ![r] = opened]
           /\ active' = active \union {r} /\ gauge' = raised /\ Unchanged
        \/ Finish(r, over, raised, "error", "none")
    BY <1>14 DEF Open, opened, over, raised
  <2>3. GoesOn(r, opened, raised) \/ Finishes(r, over, raised)
    BY <1>3, <1>5, <2>1, <2>2 DEF GoesOn, Finishes, Unchanged, Status
  <2> QED BY <1>10, <2>1, <2>3
<1>15. CASE Invalid(r) \/ Fail(r) \/ CancelHandler(r) \/ Complete(r)
  <2>1. life[r].pc # "idle"
    BY <1>15 DEF Invalid, Fail, CancelHandler, Complete, At
  <2>2. \E status \in Status, facts \in {"none", "routed", "failed", "committed"} :
          Finish(r, over, gauge, status, facts)
    BY <1>15 DEF Invalid, Fail, CancelHandler, Complete, Status, over
  <2>3. Finishes(r, over, gauge)
    BY <1>5, <2>2 DEF Finishes
  <2> QED BY <1>11, <2>1, <2>3
<1>16. CASE Refuse(r)
  <2>1. life[r].pc = "validating"
    BY <1>16 DEF Refuse, At
  <2>2. \E facts \in {"none", "routed"} : Finish(r, refused, relabelled, "error", facts)
    BY <1>16 DEF Refuse, refused, relabelled
  <2>3. Finishes(r, refused, relabelled)
    BY <1>6, <2>2 DEF Finishes, Status
  <2> QED BY <1>12, <2>1, <2>3
<1>17. CASE Execute(r)
  <2>1. life[r].pc = "validating" /\ phase = "serving"
    BY <1>17 DEF Execute, At
  <2>2. /\ life' = [life EXCEPT ![r] = executing]
        /\ gauge' = relabelled /\ active' = active /\ phase' = phase
    BY <1>17 DEF Execute, Unchanged, executing, relabelled
  <2>3. GoesOn(r, executing, relabelled)
    BY <1>2, <1>4, <1>6, <2>1, <2>2 DEF GoesOn
  <2> QED BY <1>12, <2>1, <2>3
<1>18. CASE Respond(r)
  <2>1. life[r].pc = "executing"
    BY <1>18 DEF Respond, At
  <2>2. \/ /\ life' = [life EXCEPT ![r] = started]
           /\ gauge' = streaming /\ active' = active /\ phase' = phase
        \/ Finish(r, started, streaming, "error", "routed")
    BY <1>18 DEF Respond, Unchanged, started, streaming
  <2>3. GoesOn(r, started, streaming) \/ Finishes(r, started, streaming)
    BY <1>2, <1>6, <2>1, <2>2 DEF GoesOn, Finishes, Status
  <2> QED BY <1>13, <2>1, <2>3
<1> QED BY <1>14, <1>15, <1>16, <1>17, <1>18 DEF RequestStep

\* A registered request comes, goes or changes its share: so do the gauges.
LEMMA MetersFollow ==
    ASSUME GInv, NEW r \in Request, NEW m \in Lifecycle,
           phase = "serving", gauge' \in [Meter -> Int],
           life'[r] = m, \A q \in Request \ {r} : life'[q] = life[q],
           active' \ {r} = active \ {r}, active' \subseteq Request,
           \A x \in Meter : gauge'[x] = gauge[x] + (IF r \in active' THEN Share(m, x) ELSE 0)
                                                 - (IF r \in active THEN Share(life[r], x) ELSE 0)
    PROVE  GaugesMatch'
<1>1. active \subseteq Request /\ IsFiniteSet(active) /\ life[r] \in Lifecycle
  BY DEF GInv, AInv, Registered
<1>2. \A l : \A x : Share(l, x) \in {0, 1}
  BY DEF Share
<1>3. ASSUME NEW x \in Meter
      PROVE  gauge'[x] = Cardinality(Metered(x)')
  <2>1. Metered(x)' \ {r} = Metered(x) \ {r}
    BY <1>1 DEF Metered
  <2>2. IsFiniteSet(Metered(x))
    <3>1. Metered(x) \subseteq active
      BY DEF Metered
    <3> QED BY <1>1, <3>1, FS_Subset
  <2>3. /\ Cardinality(Metered(x)) \in Nat
        /\ Cardinality(Metered(x)') = Cardinality(Metered(x))
                                        + (IF r \in Metered(x)' THEN 1 ELSE 0)
                                        - (IF r \in Metered(x) THEN 1 ELSE 0)
    BY <2>1, <2>2, OneMember
  <2>4. /\ (IF r \in Metered(x)' THEN 1 ELSE 0) = (IF r \in active' THEN Share(m, x) ELSE 0)
        /\ (IF r \in Metered(x) THEN 1 ELSE 0) = (IF r \in active THEN Share(life[r], x) ELSE 0)
    BY <1>2 DEF Metered
  <2>5. gauge[x] = Cardinality(Metered(x))
    BY MetersAreSets
  <2> QED BY <2>3, <2>4, <2>5
<1>4. /\ Metered("unknown")' = {q \in active' : life'[q].label = "unknown"}
      /\ Metered("known")' = {q \in active' : life'[q].label = "known"}
      /\ Metered("streams")' = {q \in active' : life'[q].counts}
  BY DEF Metered, Share
<1>5. gauge'["unknown"] + gauge'["known"] = Cardinality(active')
  <2>1. Cardinality(active') = Cardinality(active) + (IF r \in active' THEN 1 ELSE 0)
                                                   - (IF r \in active THEN 1 ELSE 0)
        /\ Cardinality(active) \in Nat
    BY <1>1, OneMember
  <2>2. /\ Share(m, "unknown") + Share(m, "known") = 1
        /\ Share(life[r], "unknown") + Share(life[r], "known") = 1
    BY <1>1 DEF Share, Lifecycle
  <2>3. gauge["unknown"] + gauge["known"] = Cardinality(active)
    BY DEF GInv, GaugesMatch
  <2>4. /\ gauge["unknown"] \in Int /\ gauge["known"] \in Int
        /\ "unknown" \in Meter /\ "known" \in Meter
    BY DEF GInv, Meter
  <2>5. /\ gauge'["unknown"] = gauge["unknown"] + (IF r \in active' THEN Share(m, "unknown") ELSE 0)
                             - (IF r \in active THEN Share(life[r], "unknown") ELSE 0)
        /\ gauge'["known"] = gauge["known"] + (IF r \in active' THEN Share(m, "known") ELSE 0)
                           - (IF r \in active THEN Share(life[r], "known") ELSE 0)
    BY <2>4
  <2>6. /\ Share(m, "unknown") \in Int /\ Share(m, "known") \in Int
        /\ Share(life[r], "unknown") \in Int /\ Share(life[r], "known") \in Int
    BY DEF Share
  <2>7. CASE r \in active /\ r \in active'
    BY <2>1, <2>2, <2>3, <2>4, <2>5, <2>6, <2>7
  <2>8. CASE r \in active /\ r \notin active'
    BY <2>1, <2>2, <2>3, <2>4, <2>5, <2>6, <2>8
  <2>9. CASE r \notin active /\ r \in active'
    BY <2>1, <2>2, <2>3, <2>4, <2>5, <2>6, <2>9
  <2>10. CASE r \notin active /\ r \notin active'
    BY <2>1, <2>2, <2>3, <2>4, <2>5, <2>6, <2>10
  <2> QED BY <2>7, <2>8, <2>9, <2>10
<1>6. /\ gauge'["unknown"] = Cardinality({q \in active' : life'[q].label = "unknown"})
      /\ gauge'["known"] = Cardinality({q \in active' : life'[q].label = "known"})
      /\ gauge'["streams"] = Cardinality({q \in active' : life'[q].counts})
  BY <1>3, <1>4 DEF Meter
<1>7. \A x \in {"unknown", "known"} :
        gauge'[x] = Cardinality({q \in active' : life'[q].label = x})
  BY <1>6
<1> QED BY <1>5, <1>6, <1>7 DEF GaugesMatch

\* Gauges and registry at rest: after abandon_all() nothing is registered, and no
\* step changes the sum.
LEMMA MetersRest ==
    ASSUME GInv, active' = {}, active = {}, phase' # "serving",
           gauge'["unknown"] + gauge'["known"] = gauge["unknown"] + gauge["known"]
    PROVE  GaugesMatch'
BY FS_EmptySet DEF GInv, GaugesMatch

LEMMA RequestKeepsGauges ==
    ASSUME GInv, NEW r \in Request, RequestStep(r)
    PROVE  GInv'
<1>1. AInv'
  BY RequestKeeps DEF GInv
<1>2. PICK l, g : Adjusts(r, l, g) /\ (Finishes(r, l, g) \/ GoesOn(r, l, g))
  BY StepAdjusts
<1>3. /\ l \in Lifecycle /\ l.pc # "idle" /\ l.fact = life[r].fact
      /\ g \in [Meter -> Int] /\ gauge \in [Meter -> Int] /\ life \in [Request -> Lifecycle]
      /\ l.label \in {"unknown", "known"} /\ l.counts \in BOOLEAN
      /\ "unknown" \in Meter /\ "known" \in Meter /\ "streams" \in Meter
  BY <1>2 DEF Adjusts, GInv, AInv, Lifecycle, Meter
<1>4. active' \subseteq Request /\ (phase' # "serving" => active' = {})
      /\ (phase # "serving" => active = {}) /\ active \subseteq Request
      /\ (life[r].fact # None => r \notin active)
  BY <1>1 DEF GInv, AInv, Registered
<1>5. \A x : Share(l, x) \in Int /\ Share(life[r], x) \in Int
  BY DEF Share
<1>6. /\ Released(l) \in Lifecycle /\ Released(l).pc = l.pc /\ Released(l).fact = l.fact
  BY <1>3, ReleasedKeeps
<1>7. CASE l.fact = None /\ Finishes(r, l, g)
  <2>1. PICK status \in Status :
          /\ life' = [life EXCEPT ![r] = Released([l EXCEPT !.fact = status])]
          /\ gauge' = Lowered(g, l)
          /\ active' = active \ {r}
          /\ phase' = phase
    BY <1>7 DEF Finishes, Finish
  <2> DEFINE m == Released([l EXCEPT !.fact = status])
  <2>2. m \in Lifecycle /\ m.pc = l.pc
    <3> DEFINE concluded == [l EXCEPT !.fact = status]
    <3>1. concluded \in Lifecycle /\ concluded.pc = l.pc
      BY <1>3, StatusIsFact
    <3> HIDE DEF concluded
    <3>2. Released(concluded) \in Lifecycle /\ Released(concluded).pc = l.pc
      BY <3>1, ReleasedKeeps
    <3> QED BY <3>2 DEF concluded
  <2>3. /\ gauge' \in [Meter -> Int]
        /\ \A x \in Meter : gauge'[x] = g[x] - Share(l, x)
    BY <1>3, <2>1 DEF Lowered, Share, Meter
  <2> HIDE DEF m
  <2>4. life'[r] = m /\ \A q \in Request \ {r} : life'[q] = life[q]
    BY <1>3, <2>1 DEF m
  <2>5. phase = "serving" /\ \A x \in Meter :
          g[x] = gauge[x] + Share(l, x) - (IF r \in active THEN Share(life[r], x) ELSE 0)
    BY <1>2, <1>7 DEF Adjusts
  <2>6. \A x \in Meter :
          gauge'[x] = gauge[x] + (IF r \in active' THEN Share(m, x) ELSE 0)
                               - (IF r \in active THEN Share(life[r], x) ELSE 0)
    <3>1. r \notin active'
      BY <2>1
    <3>2. \A x \in Meter : gauge[x] \in Int /\ g[x] \in Int
      BY <1>3
    <3> QED BY <1>5, <2>3, <2>5, <3>1, <3>2
  <2>7. GaugesMatch'
    BY <1>4, <2>1, <2>2, <2>3, <2>4, <2>5, <2>6, MetersFollow
  <2>8. m.pc \notin {"idle", "validating", "executing"}
    BY <1>7, <2>2 DEF Finishes
  <2> QED BY <1>1, <2>1, <2>3, <2>4, <2>7, <2>8 DEF GInv
<1>8. CASE l.fact = None /\ GoesOn(r, l, g)
  <2>1. /\ life' = [life EXCEPT ![r] = l] /\ active' = active \union {r}
        /\ gauge' = g /\ phase' = phase
    BY <1>8 DEF GoesOn
  <2>2. life'[r] = l /\ \A q \in Request \ {r} : life'[q] = life[q]
    BY <1>3, <2>1
  <2>3. phase = "serving" /\ \A x \in Meter :
          gauge'[x] = gauge[x] + (IF r \in active' THEN Share(l, x) ELSE 0)
                               - (IF r \in active THEN Share(life[r], x) ELSE 0)
    BY <1>2, <1>8, <2>1 DEF Adjusts
  <2>4. GaugesMatch'
    BY <1>3, <1>4, <2>1, <2>2, <2>3, MetersFollow
  <2> QED BY <1>1, <1>3, <1>8, <2>1, <2>2, <2>4 DEF GInv
<1>9. CASE l.fact # None
  <2>1. /\ \E m \in {l, Released(l)} : life' = [life EXCEPT ![r] = m]
        /\ active' = active /\ gauge' = g /\ phase' = phase
    BY <1>2, <1>9 DEF Finishes, Finish, GoesOn, Unchanged
  <2>2. PICK m \in {l, Released(l)} : life' = [life EXCEPT ![r] = m]
    BY <2>1
  <2>3. m \in Lifecycle /\ m.pc = l.pc /\ m.fact = l.fact
    BY <1>3, <1>6
  <2>4. life'[r] = m /\ \A q \in Request \ {r} : life'[q] = life[q]
    BY <1>3, <2>2
  <2>5. r \notin active
    BY <1>3, <1>4, <1>9
  <2>6. GaugesMatch'
    <3>1. CASE phase = "serving"
      <4>1. gauge' = gauge
        BY <1>2, <1>9, <2>1, <3>1 DEF Adjusts
      <4>2. \A x \in Meter : gauge'[x] = gauge[x] + 0 - 0
        BY <1>3, <4>1
      <4> QED BY <1>3, <1>4, <2>1, <2>3, <2>4, <2>5, <3>1, <4>1, <4>2, MetersFollow
    <3>2. CASE phase # "serving"
      <4>1. g["unknown"] + g["known"] = gauge["unknown"] + gauge["known"]
        BY <1>2, <1>9 DEF Adjusts
      <4> QED BY <1>4, <2>1, <3>2, <4>1, MetersRest
    <3> QED BY <3>1, <3>2
  <2>7. phase = "serving" => m.pc \notin {"validating", "executing"}
    BY <1>2, <1>9, <2>3 DEF Finishes, GoesOn
  <2> QED BY <1>1, <1>3, <2>1, <2>3, <2>4, <2>6, <2>7 DEF GInv
<1> QED BY <1>2, <1>7, <1>8, <1>9

\* abandon_all() lowers the gauges by what is registered.
LEMMA ShutdownKeepsGauges ==
    ASSUME GInv, Shutdown
    PROVE  GInv'
<1>1. AInv'
  BY ShutdownKeeps DEF GInv
<1>2. phase = "serving" /\ phase' # "serving" /\ active' = {}
  BY DEF Shutdown
<1>3. /\ gauge' = [unknown |-> gauge["unknown"] - Cardinality({r \in active : life[r].label = "unknown"}),
                   known   |-> gauge["known"] - Cardinality({r \in active : life[r].label = "known"}),
                   streams |-> gauge["streams"] - Cardinality({r \in active : life[r].counts})]
      /\ gauge["unknown"] \in Int /\ gauge["known"] \in Int /\ gauge["streams"] \in Int
      /\ gauge["unknown"] = Cardinality({r \in active : life[r].label = "unknown"})
      /\ gauge["known"] = Cardinality({r \in active : life[r].label = "known"})
      /\ gauge["streams"] = Cardinality({r \in active : life[r].counts})
  BY <1>2 DEF Shutdown, GInv, GaugesMatch, Meter
<1>4. gauge' = [unknown |-> 0, known |-> 0, streams |-> 0]
  BY <1>3
<1>5. gauge' \in [Meter -> Int] /\ gauge'["unknown"] + gauge'["known"] = 0
  BY <1>4 DEF Meter
<1>6. GaugesMatch'
  BY <1>2, <1>5, FS_EmptySet DEF GaugesMatch
<1>7. \A r \in Request : life'[r].pc = "idle" => life'[r].label = "unknown" /\ ~life'[r].counts
  <2> TAKE r \in Request
  <2>1. r \in active => life[r].pc # "idle" /\ life'[r].pc = life[r].pc
    <3>1. r \in active => life'[r] = [life[r] EXCEPT !.fact = "abandoned"] /\ life[r] \in Lifecycle
      BY DEF Shutdown, GInv, AInv
    <3> QED BY <3>1 DEF GInv, AInv, Registered, Lifecycle
  <2>2. r \notin active => life'[r] = life[r]
    BY DEF Shutdown
  <2> QED BY <2>1, <2>2 DEF GInv
<1> QED BY <1>1, <1>2, <1>5, <1>6, <1>7 DEF GInv

LEMMA GaugesKept == Spec => []GInv
<1>1. Init /\ AInv => GInv
  <2> SUFFICES ASSUME Init, AInv PROVE GInv
    OBVIOUS
  <2>1. /\ gauge \in [Meter -> Int] /\ active = {}
        /\ gauge["unknown"] = 0 /\ gauge["known"] = 0 /\ gauge["streams"] = 0
    BY DEF Init, Meter
  <2>2. GaugesMatch
    <3>1. /\ \A x : {r \in active : life[r].label = x} = {}
          /\ {r \in active : life[r].counts} = {}
      BY <2>1
    <3> QED BY <2>1, <3>1, FS_EmptySet DEF GaugesMatch
  <2>3. \A r \in Request : life[r].pc = "idle" /\ life[r].label = "unknown" /\ ~life[r].counts
    BY DEF Init
  <2> QED BY <2>1, <2>2, <2>3 DEF GInv
<1>2. GInv /\ AInv' /\ [Next]_vars => GInv'
  <2> SUFFICES ASSUME GInv, AInv', [Next]_vars PROVE GInv'
    OBVIOUS
  <2>1. CASE UNCHANGED <<life, active, gauge, phase>>
    BY <2>1 DEF GInv, GaugesMatch
  <2>2. CASE \E r \in Request : RequestStep(r)
    BY <2>2, RequestKeepsGauges
  <2>3. CASE Writer
    BY <2>1, <2>3 DEF Writer, Take, Write
  <2>4. CASE Shutdown
    BY <2>4, ShutdownKeepsGauges
  <2>5. CASE Closing
    <3>1. UNCHANGED <<life, active, gauge>> /\ phase # "serving" /\ phase' # "serving"
      BY <2>5 DEF Closing, HubCloses, Drained, DrainTimeout, ExporterCloses, StoreCloses
    <3>2. active = {}
      BY <3>1 DEF GInv, AInv, Registered
    <3>3. GaugesMatch'
      BY <3>1, <3>2, MetersRest
    <3> QED BY <3>1, <3>3 DEF GInv
  <2> QED BY <2>1, <2>2, <2>3, <2>4, <2>5 DEF Next, Stopped, vars, pipelineVars
<1> QED BY <1>1, <1>2, BooksKept, PTL DEF Spec

(* The gauges agree with the registry, whichever of the handler, the         *)
(* completion task and abandon_all() finishes a request, and in whatever     *)
(* order: none is lowered twice or left raised (lifecycle.py:63-64, 86-89,   *)
(* 100-102, 164-170).                                                        *)
THEOREM GaugesMatchHolds == Spec => []GaugesMatch
BY GaugesKept, PTL DEF GInv
-----------------------------------------------------------------------------
(* The exporter.                                                            *)

\* The least-number principle, as the library's theorem on minimal elements
\* states it for the relation < on Nat.
LEMMA LeastNatural ==
    ASSUME NEW S, S \subseteq Nat, S # {}
    PROVE  \E n \in S : \A m \in S : n <= m
<1>1. PICK n \in S : \A m \in S : ~ (<<m, n>> \in OpToRel(<, Nat))
  BY WFMin, NatLessThanWellFounded
<1>2. \A m \in S : ~ (m < n)
  BY <1>1 DEF OpToRel
<1> QED BY <1>2

\* Induction up to n: a set that holds 0, and each number whose predecessor it holds.
LEMMA UpTo ==
    ASSUME NEW n \in Nat, NEW S, 0 \in S, \A i \in 1..n : i - 1 \in S => i \in S
    PROVE  \A i \in 0..n : i \in S
<1> DEFINE Missing == {i \in 0..n : i \notin S}
<1>1. CASE Missing # {}
  <2>1. Missing \subseteq Nat
    OBVIOUS
  <2> HIDE DEF Missing
  <2>2. PICK i \in Missing : \A j \in Missing : i <= j
    BY <1>1, <2>1, LeastNatural
  <2> USE DEF Missing
  <2>3. i \in 1..n /\ i - 1 \in 0..n /\ i - 1 < i
    BY <2>2
  <2>4. i - 1 \in S
    BY <2>2, <2>3
  <2> QED BY <2>2, <2>3, <2>4
<1> QED BY <1>1

\* The positions of the spans of r in q.
SpansAt(r, q) == {i \in DOMAIN q : q[i] = r}

LEMMA SpansAreFinite ==
    ASSUME NEW r, NEW q \in Seq(Request)
    PROVE  /\ IsFiniteSet(SpansAt(r, q))
           /\ SpansOf(r, q) = Cardinality(SpansAt(r, q)) /\ SpansOf(r, q) \in Nat
<1>1. IsFiniteSet(1..Len(q)) /\ SpansAt(r, q) \in SUBSET (1..Len(q))
  BY FS_Interval DEF SpansAt
<1>2. IsFiniteSet(SpansAt(r, q))
  BY <1>1, FS_Subset
<1>3. SpansOf(r, q) = Cardinality(SpansAt(r, q))
  BY DEF SpansOf, SpansAt
<1> QED BY <1>2, <1>3, FS_CardinalityType

LEMMA NoSpans == ASSUME NEW r PROVE SpansOf(r, <<>>) = 0
<1>1. {i \in DOMAIN <<>> : <<>>[i] = r} = {}
  OBVIOUS
<1> QED BY <1>1, FS_EmptySet DEF SpansOf

\* The spans of two sequences, one behind the other, add up.
LEMMA SpansAdd ==
    ASSUME NEW r, NEW p \in Seq(Request), NEW q \in Seq(Request)
    PROVE  SpansOf(r, p \o q) = SpansOf(r, p) + SpansOf(r, q)
<1> DEFINE s == p \o q
           n == Len(p)
           behind == {i \in DOMAIN s : i > n /\ s[i] = r}
           shift == [i \in SpansAt(r, q) |-> n + i]
<1>1. /\ n \in Nat /\ Len(q) \in Nat
      /\ s \in Seq(Request) /\ Len(s) = n + Len(q)
      /\ \A i \in 1..n : s[i] = p[i]
      /\ \A i \in 1..Len(q) : s[n + i] = q[i]
  OBVIOUS
<1> HIDE DEF s
<1>2. SpansAt(r, p) \cap behind = {}
  BY DEF SpansAt
<1>3. SpansAt(r, s) = SpansAt(r, p) \union behind
  <2>1. ASSUME NEW i \in 1..n PROVE i \in SpansAt(r, s) <=> i \in SpansAt(r, p)
    BY <1>1 DEF SpansAt
  <2>2. ASSUME NEW i \in DOMAIN s, i > n PROVE i \in SpansAt(r, s) <=> i \in behind
    BY <2>2 DEF SpansAt
  <2>3. SpansAt(r, s) \subseteq DOMAIN s /\ SpansAt(r, p) \subseteq 1..n /\ behind \subseteq DOMAIN s
        /\ DOMAIN s \subseteq Nat
    BY <1>1 DEF SpansAt
  <2>4. \A i \in DOMAIN s : i \in 1..n \/ i > n
    BY <1>1
  <2>5. \A i \in behind : i > n
    OBVIOUS
  <2> HIDE DEF behind, n
  <2> QED BY <2>1, <2>2, <2>3, <2>4, <2>5
<1>4. ExistsBijection(SpansAt(r, q), behind)
  <2>1. ASSUME NEW i \in SpansAt(r, q) PROVE n + i \in behind
    <3>1. i \in 1..Len(q) /\ q[i] = r
      BY DEF SpansAt
    <3>2. n + i \in 1..n + Len(q) /\ n + i > n /\ s[n + i] = r
      BY <1>1, <3>1
    <3> QED BY <1>1, <3>2
  <2>2. ASSUME NEW j \in behind PROVE j - n \in SpansAt(r, q) /\ n + (j - n) = j
    <3>1. j \in 1..n + Len(q) /\ j > n /\ s[j] = r
      BY <1>1
    <3>2. j - n \in 1..Len(q) /\ n + (j - n) = j
      BY <1>1, <3>1
    <3>3. q[j - n] = r
      BY <1>1, <3>1, <3>2
    <3> QED BY <3>2, <3>3 DEF SpansAt
  <2>3. \A i \in SpansAt(r, q) : i \in Nat
    BY DEF SpansAt
  <2> HIDE DEF behind
  <2>4. shift \in [SpansAt(r, q) -> behind]
    BY <2>1
  <2>5. \A i, j \in SpansAt(r, q) : shift[i] = shift[j] => i = j
    BY <1>1, <2>3
  <2>6. \A j \in behind : \E i \in SpansAt(r, q) : shift[i] = j
    BY <2>2
  <2>7. shift \in Bijection(SpansAt(r, q), behind)
    BY <2>4, <2>5, <2>6 DEF Bijection, Injection, IsInjective, Surjection
  <2> QED BY <2>7 DEF ExistsBijection
<1> HIDE DEF behind, n
<1>5. IsFiniteSet(behind) /\ Cardinality(behind) = SpansOf(r, q)
  BY <1>4, SpansAreFinite, FS_Bijection
<1>6. Cardinality(SpansAt(r, p) \union behind) = SpansOf(r, p) + SpansOf(r, q) - Cardinality({})
  BY <1>2, <1>5, SpansAreFinite, FS_Union
<1>7. Cardinality({}) = 0 /\ SpansOf(r, p) \in Nat /\ SpansOf(r, q) \in Nat
  BY SpansAreFinite, FS_EmptySet
<1>8. SpansOf(r, s) = Cardinality(SpansAt(r, s))
  BY <1>1, SpansAreFinite
<1> QED BY <1>3, <1>6, <1>7, <1>8 DEF s

\* The recursion of Flat(), unfolded: f[i] spans belong to the first i traces.
Offsets(f, n, count) ==
    f = [i \in 0..n |-> IF i = 0 THEN 0 ELSE f[i - 1] + count[i]]

LEMMA OffsetsExist ==
    ASSUME NEW n \in Nat, NEW count
    PROVE  \E f : Offsets(f, n, count)
<1> DEFINE S == {m \in Nat : \E f : Offsets(f, m, count)}
<1>1. 0 \in S
  <2>1. Offsets([i \in 0..0 |-> 0], 0, count)
    BY DEF Offsets
  <2> QED BY <2>1
<1>2. ASSUME NEW m \in 1..n, m - 1 \in S PROVE m \in S
  <2>1. PICK f : Offsets(f, m - 1, count)
    BY <1>2
  <2> DEFINE g == [i \in 0..m |-> IF i = m THEN f[m - 1] + count[m] ELSE f[i]]
  <2>2. \A i \in 0..m - 1 : f[i] = IF i = 0 THEN 0 ELSE f[i - 1] + count[i]
    BY <2>1 DEF Offsets
  <2>3. \A i \in 0..m : g[i] = IF i = 0 THEN 0 ELSE g[i - 1] + count[i]
    BY <2>2
  <2>4. Offsets(g, m, count)
    BY <2>3 DEF Offsets
  <2> QED BY <2>4
<1> HIDE DEF S
<1>3. n \in S
  BY <1>1, <1>2, UpTo
<1> QED BY <1>3 DEF S

\* The spans of traces are spans of their requests.
LEMMA FlatIsSequence ==
    ASSUME NEW rs \in Seq(Request), NEW count \in [DOMAIN rs -> Nat]
    PROVE  Flat(rs, count) \in Seq(Request)
<1> DEFINE f == CHOOSE g : Offsets(g, Len(rs), count)
           of(j) == CHOOSE i \in 1..Len(rs) : f[i - 1] < j /\ j <= f[i]
<1>1. Offsets(f, Len(rs), count)
  BY OffsetsExist
<1>2. Flat(rs, count) = [j \in 1..f[Len(rs)] |-> rs[of(j)]]
  BY DEF Flat, Offsets
<1> HIDE DEF f
<1>3. /\ Len(rs) \in Nat /\ f[0] = 0
      /\ \A i \in 1..Len(rs) : f[i] = f[i - 1] + count[i] /\ count[i] \in Nat /\ rs[i] \in Request
  BY <1>1 DEF Offsets
<1>4. \A i \in 0..Len(rs) : f[i] \in Nat
  <2> DEFINE S == {i \in 0..Len(rs) : f[i] \in Nat}
  <2>1. 0 \in S
    BY <1>3
  <2>2. \A i \in 1..Len(rs) : i - 1 \in S => i \in S
    BY <1>3
  <2> HIDE DEF S
  <2>3. \A i \in 0..Len(rs) : i \in S
    BY <1>3, <2>1, <2>2, UpTo
  <2> QED BY <2>3 DEF S
<1>5. ASSUME NEW j \in 1..f[Len(rs)] PROVE rs[of(j)] \in Request
  <2> DEFINE Reached == {i \in 0..Len(rs) : j <= f[i]}
  <2>1. Len(rs) \in Reached /\ 0 \notin Reached /\ Reached \subseteq Nat
    BY <1>3, <1>4
  <2>2. PICK i \in Reached : \A l \in Reached : i <= l
    BY <2>1, LeastNatural
  <2>3. i \in 1..Len(rs) /\ i - 1 \in 0..Len(rs) /\ i - 1 < i
    BY <1>3, <2>1, <2>2
  <2>4. f[i - 1] < j /\ j <= f[i]
    BY <1>4, <2>2, <2>3
  <2>5. of(j) \in 1..Len(rs)
    BY <2>3, <2>4
  <2> QED BY <1>3, <2>5
<1>6. f[Len(rs)] \in Nat
  BY <1>3, <1>4
<1> HIDE DEF of
<1> DEFINE n == f[Len(rs)]
<1>7. Flat(rs, count) \in [1..n -> Request]
  BY <1>2, <1>5
<1> HIDE DEF n
<1>8. n \in Nat
  BY <1>6 DEF n
<1> QED BY <1>7, <1>8

\* What was given and is not counted yet is queued or in the batch, but for the
\* traces that were cut, of which more may be owed.
XInv ==
    /\ ExporterTypeOK
    /\ exporter \in {"running", "stopping"} =>
         \A r \in Request : owed[r] >= SpansOf(r, spans) + SpansOf(r, batch)
    /\ TraceGapShows

\* record() cuts the traces that do not fit, and counts each (otlp.py:87-94).
LEMMA OfferKeeps ==
    ASSUME XInv, NEW rs \in Seq(Request), NEW count \in [DOMAIN rs -> Nat], Offer(rs, count)
    PROVE  XInv'
<1> DEFINE flat == Flat(rs, count)
           all == spans \o flat
           room == IF Len(all) > SpanCapacity THEN SpanCapacity ELSE Len(all)
           fits == SubSeq(all, 1, room)
           lost == SubSeq(all, room + 1, Len(all))
<1>1. CASE /\ exporter = "running"
           /\ spans' = fits
           /\ owed' = [r \in Request |-> owed[r] + SpansOf(r, flat)]
           /\ cut' = cut \union {r \in Request : SpansOf(r, fits) < SpansOf(r, all)}
           /\ UNCHANGED <<exporter, batch, late>>
  <2>1. flat \in Seq(Request) /\ spans \in Seq(Request) /\ batch \in Seq(Request)
    BY FlatIsSequence DEF XInv, ExporterTypeOK
  <2> HIDE DEF flat
  <2>2. all \in Seq(Request) /\ Len(all) \in Nat
    BY <2>1
  <2>3. \A r : SpansOf(r, all) = SpansOf(r, spans) + SpansOf(r, flat)
    BY <2>1, SpansAdd
  <2> HIDE DEF all
  <2>4. room \in 0..Len(all) /\ room <= SpanCapacity
    BY <2>2, ExporterAssumption
  <2> HIDE DEF room
  <2>5. fits \in Seq(Request) /\ Len(fits) = room /\ lost \in Seq(Request)
    BY <2>2, <2>4
  <2>6. fits \o lost = all
    <3>1. 1 \in 1..Len(all) + 1 /\ room \in 1 - 1..Len(all) /\ Len(all) \in room..Len(all)
      BY <2>2, <2>4
    <3>2. fits \o lost = SubSeq(all, 1, Len(all))
      BY <2>2, <3>1, ConcatAdjacentSubSeq
    <3> QED BY <2>2, <3>2, SubSeqFull
  <2> HIDE DEF fits, lost
  <2>7. \A r : SpansOf(r, all) = SpansOf(r, fits) + SpansOf(r, lost)
    BY <2>5, <2>6, SpansAdd
  <2>8. \A r : /\ SpansOf(r, fits) \in Nat /\ SpansOf(r, lost) \in Nat
               /\ SpansOf(r, spans) \in Nat /\ SpansOf(r, flat) \in Nat
               /\ SpansOf(r, batch) \in Nat
    BY <2>1, <2>5, SpansAreFinite
  <2>9. ASSUME NEW r \in Request
        PROVE  /\ owed'[r] \in Nat
               /\ owed'[r] >= SpansOf(r, spans') + SpansOf(r, batch')
               /\ r \notin cut' => owed'[r] = SpansOf(r, spans') + SpansOf(r, batch')
    <3>1. /\ owed[r] \in Nat /\ owed[r] >= SpansOf(r, spans) + SpansOf(r, batch)
          /\ r \notin cut => owed[r] = SpansOf(r, spans) + SpansOf(r, batch)
      BY <1>1 DEF XInv, ExporterTypeOK, TraceGapShows
    <3>2. owed'[r] = owed[r] + SpansOf(r, flat)
      BY <1>1
    <3>3. r \notin cut' => r \notin cut /\ ~ (SpansOf(r, fits) < SpansOf(r, all))
      BY <1>1
    <3>4. SpansOf(r, spans') = SpansOf(r, fits) /\ SpansOf(r, batch') = SpansOf(r, batch)
      BY <1>1
    <3>5. /\ SpansOf(r, all) = SpansOf(r, spans) + SpansOf(r, flat)
          /\ SpansOf(r, all) = SpansOf(r, fits) + SpansOf(r, lost)
          /\ SpansOf(r, fits) \in Nat /\ SpansOf(r, lost) \in Nat
          /\ SpansOf(r, spans) \in Nat /\ SpansOf(r, flat) \in Nat
          /\ SpansOf(r, batch) \in Nat
      BY <2>3, <2>7, <2>8
    <3> QED BY <3>1, <3>2, <3>3, <3>4, <3>5
  <2>10. ExporterTypeOK'
    <3>1. /\ spans' \in Seq(Request) /\ Len(spans') <= SpanCapacity
          /\ cut' \subseteq Request /\ UNCHANGED <<exporter, batch, late>>
      BY <1>1, <2>4, <2>5 DEF XInv, ExporterTypeOK
    <3>2. owed' \in [Request -> Nat]
      BY <1>1, <2>9
    <3> QED BY <3>1, <3>2 DEF XInv, ExporterTypeOK
  <2> QED BY <2>9, <2>10 DEF XInv, TraceGapShows
<1>2. CASE exporter # "running" /\ UNCHANGED exporterVars
  BY <1>2 DEF exporterVars, XInv, ExporterTypeOK, TraceGapShows
<1> QED BY <1>1, <1>2 DEF Offer

\* The worker moves spans into a batch, and counts those of a batch.
LEMMA ExporterWorksKeeps == ASSUME XInv, ExporterWorks PROVE XInv'
<1>1. CASE Collect
  <2> DEFINE n == IF Len(spans) < BatchSize THEN Len(spans) ELSE BatchSize
  <2>1. spans \in Seq(Request) /\ Len(spans) \in Nat /\ Len(spans) <= SpanCapacity
    BY DEF XInv, ExporterTypeOK
  <2>2. n \in 0..Len(spans) /\ n <= BatchSize
    BY <2>1, ExporterAssumption
  <2>3. /\ batch = <<>> /\ batch' = SubSeq(spans, 1, n)
        /\ spans' = SubSeq(spans, n + 1, Len(spans))
        /\ UNCHANGED <<exporter, owed, cut, late>>
    BY <1>1 DEF Collect
  <2> HIDE DEF n
  <2>4. /\ batch' \in Seq(Request) /\ Len(batch') = n
        /\ spans' \in Seq(Request) /\ Len(spans') = Len(spans) - n
    BY <2>1, <2>2, <2>3
  <2>5. batch' \o spans' = spans
    <3>1. 1 \in 1..Len(spans) + 1 /\ n \in 1 - 1..Len(spans) /\ Len(spans) \in n..Len(spans)
      BY <2>1, <2>2
    <3>2. batch' \o spans' = SubSeq(spans, 1, Len(spans))
      BY <2>1, <2>3, <3>1, ConcatAdjacentSubSeq
    <3> QED BY <2>1, <3>2, SubSeqFull
  <2>6. ASSUME NEW r
        PROVE  SpansOf(r, spans) + SpansOf(r, batch) = SpansOf(r, spans') + SpansOf(r, batch')
    <3>1. SpansOf(r, spans) = SpansOf(r, batch') + SpansOf(r, spans')
      BY <2>4, <2>5, SpansAdd
    <3>2. SpansOf(r, batch) = 0
      BY <2>3, NoSpans
    <3>3. SpansOf(r, batch') \in Nat /\ SpansOf(r, spans') \in Nat
      BY <2>4, SpansAreFinite
    <3> QED BY <3>1, <3>2, <3>3
  <2>7. ExporterTypeOK'
    <3>1. Len(spans') <= SpanCapacity /\ Len(batch') <= BatchSize
      BY <2>1, <2>2, <2>4, ExporterAssumption
    <3> QED BY <2>3, <2>4, <3>1 DEF XInv, ExporterTypeOK
  <2> QED BY <2>3, <2>6, <2>7 DEF XInv, TraceGapShows
<1>2. CASE ExportEnds
  <2>1. /\ owed' = [r \in Request |-> owed[r] - SpansOf(r, batch)]
        /\ batch' = <<>> /\ exporter \in {"running", "stopping"}
        /\ UNCHANGED <<exporter, spans, cut, late>>
    BY <1>2 DEF ExportEnds
  <2>2. ASSUME NEW r \in Request
        PROVE  /\ owed'[r] \in Nat
               /\ owed'[r] >= SpansOf(r, spans') + SpansOf(r, batch')
               /\ r \notin cut' => owed'[r] = SpansOf(r, spans') + SpansOf(r, batch')
    <3>1. /\ owed[r] \in Nat /\ owed[r] >= SpansOf(r, spans) + SpansOf(r, batch)
          /\ r \notin cut => owed[r] = SpansOf(r, spans) + SpansOf(r, batch)
      BY <2>1 DEF XInv, ExporterTypeOK, TraceGapShows
    <3>2. SpansOf(r, batch') = 0 /\ SpansOf(r, spans') = SpansOf(r, spans)
      BY <2>1, NoSpans
    <3>3. SpansOf(r, batch) \in Nat /\ SpansOf(r, spans) \in Nat
      BY SpansAreFinite DEF XInv, ExporterTypeOK
    <3> QED BY <2>1, <3>1, <3>2, <3>3
  <2>3. owed' \in [Request -> Nat]
    BY <2>1, <2>2
  <2>4. batch' \in Seq(Request) /\ Len(batch') <= BatchSize
    BY <2>1, ExporterAssumption
  <2>5. ExporterTypeOK'
    BY <2>1, <2>3, <2>4 DEF XInv, ExporterTypeOK
  <2> QED BY <2>2, <2>5 DEF XInv, TraceGapShows
<1> QED BY <1>1, <1>2 DEF ExporterWorks

\* close() begins, drains or gives up: nothing is owed but what was.
LEMMA ExporterClosesKeeps ==
    ASSUME XInv, ExporterStops \/ ExporterDrained \/ ExporterTimeout \/ UNCHANGED exporterVars
    PROVE  XInv'
<1> USE DEF XInv, ExporterTypeOK, TraceGapShows
<1>1. CASE ExporterStops
  BY <1>1 DEF ExporterStops
<1>2. CASE ExporterDrained
  BY <1>2 DEF ExporterDrained
<1>3. CASE ExporterTimeout
  <2>1. batch' \in Seq(Request) /\ Len(batch') <= BatchSize /\ late' \in Nat
    BY <1>3, ExporterAssumption DEF ExporterTimeout
  <2> QED BY <1>3, <2>1 DEF ExporterTimeout
<1>4. CASE UNCHANGED exporterVars
  BY <1>4 DEF exporterVars
<1> QED BY <1>1, <1>2, <1>3, <1>4

\* What finish() is told of how far a request came.
Facts == {"none", "routed", "failed", "committed"}

LEMMA CountsAreNumbers ==
    ASSUME NEW r, NEW facts \in Facts
    PROVE  SpanCount(r, facts) \in Nat
BY DEF SpanCount, Facts

LEMMA FinishTraces ==
    ASSUME XInv, NEW r \in Request, NEW l, NEW g, NEW status, NEW facts \in Facts,
           Finish(r, l, g, status, facts)
    PROVE  XInv'
<1>1. CASE Unchanged
  BY <1>1, ExporterClosesKeeps DEF Unchanged
<1>2. CASE RecordAll(<<r>>, <<facts>>)
  <2> DEFINE count == [i \in DOMAIN <<r>> |-> SpanCount(<<r>>[i], <<facts>>[i])]
  <2>1. <<r>> \in Seq(Request) /\ DOMAIN <<r>> = {1}
    OBVIOUS
  <2>2. count \in [DOMAIN <<r>> -> Nat]
    BY <2>1, CountsAreNumbers
  <2>3. Offer(<<r>>, count)
    BY <1>2 DEF RecordAll
  <2> HIDE DEF count
  <2> QED BY <2>1, <2>2, <2>3, OfferKeeps
<1> QED BY <1>1, <1>2 DEF Finish

LEMMA RequestTraces ==
    ASSUME XInv, NEW r \in Request, RequestStep(r)
    PROVE  XInv'
<1> USE DEF Facts
<1>1. CASE Unchanged
  BY <1>1, ExporterClosesKeeps DEF Unchanged
<1>2. CASE Open(r) /\ ~Unchanged
  BY <1>2, FinishTraces DEF Open
<1>3. CASE Invalid(r)
  BY <1>3, FinishTraces DEF Invalid
<1>4. CASE Refuse(r)
  <2>1. (IF phase = "serving" THEN "routed" ELSE "none") \in Facts
    OBVIOUS
  <2> QED BY <1>4, <2>1, FinishTraces DEF Refuse
<1>5. CASE Execute(r)
  BY <1>1, <1>5 DEF Execute
<1>6. CASE Fail(r)
  BY <1>6, FinishTraces DEF Fail
<1>7. CASE CancelHandler(r)
  BY <1>7, FinishTraces DEF CancelHandler
<1>8. CASE Respond(r) /\ ~Unchanged
  BY <1>8, FinishTraces DEF Respond
<1>9. CASE Complete(r)
  BY <1>9, FinishTraces DEF Complete
<1> QED BY <1>1, <1>2, <1>3, <1>4, <1>5, <1>6, <1>7, <1>8, <1>9 DEF RequestStep

LEMMA ShutdownTraces ==
    ASSUME AInv, XInv, Shutdown
    PROVE  XInv'
<1>1. PICK order \in Orders(active) :
        Offer(order, [i \in DOMAIN order |->
                SpanCount(order[i],
                          [j \in DOMAIN order |->
                             IF At(order[j], "validating") THEN "none" ELSE "routed"][i])])
  BY DEF Shutdown, RecordAll
<1> DEFINE count == [i \in DOMAIN order |->
                       SpanCount(order[i],
                                 [j \in DOMAIN order |->
                                    IF At(order[j], "validating") THEN "none" ELSE "routed"][i])]
<1>2. order \in Seq(Request)
  <2>1. Cardinality(active) \in Nat /\ active \subseteq Request
    BY FS_CardinalityType DEF AInv, Registered
  <2> QED BY <2>1 DEF Orders
<1>3. count \in [DOMAIN order -> Nat]
  BY CountsAreNumbers DEF Facts
<1> HIDE DEF count
<1> QED BY <1>1, <1>2, <1>3, OfferKeeps DEF count

LEMMA TracesKept == Spec => []XInv
<1>1. Init => XInv
  <2> SUFFICES ASSUME Init PROVE XInv
    OBVIOUS
  <2>1. /\ exporter \in {"running", "unavailable"} /\ spans = <<>> /\ batch = <<>>
        /\ owed = [r \in Request |-> 0] /\ cut = {} /\ late = 0
    BY DEF Init, ExporterInit
  <2>2. <<>> \in Seq(Request) /\ Len(<<>>) = 0
    OBVIOUS
  <2>3. ExporterTypeOK
    BY <2>1, <2>2, ExporterAssumption DEF ExporterTypeOK
  <2>4. \A r : SpansOf(r, spans) = 0 /\ SpansOf(r, batch) = 0
    BY <2>1, NoSpans
  <2> QED BY <2>1, <2>3, <2>4 DEF XInv, TraceGapShows
<1>2. AInv /\ XInv /\ [Next]_vars => XInv'
  <2> SUFFICES ASSUME AInv, XInv, [Next]_vars PROVE XInv'
    OBVIOUS
  <2>1. ASSUME NEW r \in Request, RequestStep(r) PROVE XInv'
    BY <2>1, RequestTraces
  <2>2. CASE ExporterWorks
    BY <2>2, ExporterWorksKeeps
  <2>3. CASE Shutdown
    BY <2>3, ShutdownTraces
  <2>4. CASE Writer \/ Closing \/ Stopped \/ UNCHANGED vars
    <3>1. ExporterStops \/ ExporterDrained \/ ExporterTimeout \/ UNCHANGED exporterVars
      BY <2>4 DEF Writer, Take, Write, Closing, HubCloses, Drained, DrainTimeout, ExporterCloses,
                  StoreCloses, Stopped, vars, exporterVars
    <3> QED BY <3>1, ExporterClosesKeeps
  <2> QED BY <2>1, <2>2, <2>3, <2>4 DEF Next
<1> QED BY <1>1, <1>2, BooksKept, PTL DEF Spec

(* Every variable of the lifecycles, the hub and the exporter keeps its type *)
(* and every queue its capacity; no count of owed spans is ever negative     *)
(* (hub.py:85-93, otlp.py:89-94).                                            *)
THEOREM TypeCorrect == Spec => []TypeOK
<1>1. AInv /\ GInv /\ XInv => TypeOK
  BY DEF AInv, Bundles, Registered, GInv, Meter, XInv, TypeOK, LifeTypeOK
<1> QED BY <1>1, BooksKept, GaugesKept, TracesKept, PTL

(* No trace has a gap that is not counted: until the drain deadline, every   *)
(* span given to the exporter is queued, in a batch or counted, but for the  *)
(* traces counted as cut, whatever the sizes of traces, batches and queue    *)
(* (otlp.py:87-132).                                                         *)
THEOREM TraceGapShowsHolds == Spec => []TraceGapShows
BY TracesKept, PTL DEF XInv
-----------------------------------------------------------------------------
(* The ledger.                                                              *)

\* The variables of the ledger: the facts, the bundles not yet written, the
\* writer's first, the stored ones and the gaps.
Facted == [r \in Request |-> life[r].fact]
Pending == IF ~WriterRuns THEN <<>> ELSE IF hand = None THEN queue ELSE <<hand>> \o queue
ledgerVars == <<Facted, Pending, rows, GaveUp>>

\* Counting more requests adds them to the gaps.
LEMMA GapsAdd ==
    ASSUME counted \in [Reason -> SUBSET Request], NEW x \in Reason, NEW S,
           counted' = [counted EXCEPT ![x] = @ \union S]
    PROVE  GaveUp' = GaveUp \union S
<1>1. \A y \in Reason : counted'[y] = IF y = x THEN counted[x] \union S ELSE counted[y]
  OBVIOUS
<1> QED BY <1>1 DEF GaveUp

\* Enqueue() queues the requests in their order, and counts some only when it
\* leaves the queue full (hub.py:85-93).
LEMMA EnqueueOrders ==
    ASSUME Bundles, NEW rs \in Seq(Request), Injective(rs), Enqueue(rs)
    PROVE  \E o \in Seq(Request) :
             /\ queue' = queue \o o /\ Len(queue') <= QueueCapacity
             /\ o \in Ledger!Orders(Elements(o)) /\ Elements(o) \subseteq Elements(rs)
             /\ Elements(o) # Elements(rs) => Len(queue') = QueueCapacity
             /\ counted' = [counted EXCEPT !["queue_full"] = @ \union (Elements(rs) \ Elements(o))]
             /\ UNCHANGED <<hand, rows>>
<1> DEFINE n == Fitting(rs)
           o == SubSeq(rs, 1, n)
<1>1. /\ n \in 0..Len(rs) /\ Len(queue) + n <= QueueCapacity
      /\ n # Len(rs) => Len(queue) + n = QueueCapacity
      /\ queue \in Seq(Request) /\ Len(queue) \in Nat
  BY PipelineAssumption DEF Bundles, HubTypeOK, Fitting
<1>2. /\ queue' = queue \o o
      /\ counted' = [counted EXCEPT !["queue_full"] = @ \union Elements(SubSeq(rs, n + 1, Len(rs)))]
      /\ UNCHANGED <<hand, rows>>
  BY DEF Enqueue
<1> HIDE DEF n
<1>3. /\ Elements(o) \subseteq Elements(rs)
      /\ Elements(SubSeq(rs, n + 1, Len(rs))) = Elements(rs) \ Elements(o)
  BY <1>1, ElementsSplit
<1>4. n = Len(rs) => o = rs
  BY SubSeqFull
<1>5. /\ o \in Seq(Request) /\ Len(o) = n /\ DOMAIN o = 1..n
      /\ \A i \in 1..n : o[i] = rs[i] /\ i \in DOMAIN rs
  BY <1>1
<1> HIDE DEF o
<1>6. Len(queue') = Len(queue) + n
  <2>1. Len(queue \o o) = Len(queue) + Len(o)
    BY <1>1, <1>5
  <2> QED BY <1>2, <1>5, <2>1
<1>7. o \in Ledger!Orders(Elements(o))
  <2>1. \A i, j \in DOMAIN o : o[i] = o[j] => i = j
    BY <1>5 DEF Injective
  <2>2. o \in Bijection(1..n, Elements(o))
    BY <1>5, <2>1, InElements DEF Bijection, Injection, IsInjective, Surjection
  <2>3. Cardinality(Elements(o)) = n
    BY <1>1, <2>2, FS_CountingElements DEF ExistsBijection
  <2>4. o \in [1..n -> Elements(o)]
    BY <2>2 DEF Bijection, Injection
  <2>5. o \in [1..Cardinality(Elements(o)) -> Elements(o)]
    BY <2>3, <2>4
  <2>6. Cardinality(Elements(o)) = Ledger!Cardinality(Elements(o))
    BY DEF Cardinality, Ledger!Cardinality
  <2> QED BY <2>1, <2>5, <2>6 DEF Ledger!Orders
<1>8. Elements(o) # Elements(rs) => Len(queue') = QueueCapacity
  BY <1>1, <1>4, <1>6
<1>9. Len(queue') <= QueueCapacity
  BY <1>1, <1>6
<1> QED BY <1>2, <1>3, <1>5, <1>7, <1>8, <1>9

\* Recording the requests that were just concluded is a step of the ledger.
LEMMA RecordConcludes ==
    ASSUME AInv, WriterRuns, WriterRuns',
           NEW rs \in Seq(Request), Injective(rs), Elements(rs) # {}, Enqueue(rs),
           \A r \in Elements(rs) : life[r].fact = None /\ life'[r].fact # None,
           \A r \in Request \ Elements(rs) : life'[r].fact = life[r].fact
    PROVE  Ledger!Conclude
<1>1. /\ queue \in Seq(Request) /\ hand \in Request \union {None}
      /\ counted \in [Reason -> SUBSET Request] /\ QueueCapacity \in Nat
      /\ Elements(rs) \subseteq Request
  BY PipelineAssumption DEF AInv, Bundles, HubTypeOK, Elements
<1>2. PICK o \in Seq(Request) :
        /\ queue' = queue \o o /\ Len(queue') <= QueueCapacity
        /\ o \in Ledger!Orders(Elements(o)) /\ Elements(o) \subseteq Elements(rs)
        /\ Elements(o) # Elements(rs) => Len(queue') = QueueCapacity
        /\ counted' = [counted EXCEPT !["queue_full"] = @ \union (Elements(rs) \ Elements(o))]
        /\ UNCHANGED <<hand, rows>>
  BY EnqueueOrders DEF AInv
<1>3. Ledger!Concluded = Elements(rs)
  BY <1>1 DEF Ledger!Concluded
<1>4. /\ Pending' = Pending \o o
      /\ Len(Pending') >= Len(queue') /\ Len(Pending') <= Len(queue') + 1
  <2>1. CASE hand = None
    BY <1>1, <1>2, <2>1 DEF Pending
  <2>2. CASE hand # None
    <3>1. <<hand>> \in Seq(Request)
      BY <1>1, <2>2
    <3>2. Pending' = <<hand>> \o (queue \o o) /\ Pending = <<hand>> \o queue
      BY <1>2, <2>2 DEF Pending
    <3>3. <<hand>> \o (queue \o o) = (<<hand>> \o queue) \o o
      BY <1>1, <3>1, ConcatAssociative
    <3>4. Len(<<hand>> \o (queue \o o)) = 1 + Len(queue \o o)
      BY <1>1, <3>1
    <3>5. Len(queue \o o) \in Nat
      BY <1>1
    <3> QED BY <1>2, <3>2, <3>3, <3>4, <3>5
  <2> QED BY <2>1, <2>2
<1>5. Len(queue') \in Nat /\ Len(Pending') \in Nat
  BY <1>1, <1>2, <1>4 DEF Pending
<1>6. GaveUp' = GaveUp \union (Elements(rs) \ Elements(o))
  BY <1>1, <1>2, GapsAdd DEF Reason
<1>7. /\ Len(Pending') <= QueueCapacity + 1
      /\ Elements(o) # Elements(rs) => Len(Pending') >= QueueCapacity
  BY <1>1, <1>2, <1>4, <1>5
<1>8. \A r \in Elements(rs) : Facted[r] = None
  BY <1>1 DEF Facted
<1> QED
  BY <1>2, <1>3, <1>4, <1>6, <1>7, <1>8 DEF Ledger!Conclude, Pending, Facted

\* A lifecycle that moves without a new fact leaves the ledger alone.
LEMMA ResumeRests ==
    ASSUME AInv, NEW r \in Request, NEW l, l.fact = life[r].fact,
           life' = [life EXCEPT ![r] = l], Unchanged
    PROVE  UNCHANGED ledgerVars
<1>1. Facted' = Facted
  <2>1. \A q \in Request : life'[q].fact = life[q].fact
    BY DEF AInv
  <2> QED BY <2>1 DEF Facted
<1>2. UNCHANGED <<Pending, rows, GaveUp>>
  BY DEF Unchanged, hubVars, Pending, WriterRuns, GaveUp
<1> QED BY <1>1, <1>2 DEF ledgerVars

\* finish() concludes a request, or changes nothing (lifecycle.py:125-171).
LEMMA FinishConcludes ==
    ASSUME AInv, NEW r \in Request, NEW l \in Lifecycle, NEW g, NEW status \in Status, NEW facts,
           l.fact = life[r].fact, l.fact = None => phase = "serving",
           Finish(r, l, g, status, facts)
    PROVE  Ledger!Conclude \/ UNCHANGED ledgerVars
<1>1. CASE /\ l.fact = None
           /\ life' = [life EXCEPT ![r] = Released([l EXCEPT !.fact = status])]
           /\ RecordAll(<<r>>, <<facts>>)
           /\ UNCHANGED phase
  <2> DEFINE m == Released([l EXCEPT !.fact = status])
  <2>1. m.fact = status /\ status # None
    <3> DEFINE concluded == [l EXCEPT !.fact = status]
    <3>1. concluded \in Lifecycle /\ concluded.fact = status /\ status # None
      BY StatusIsFact
    <3> HIDE DEF concluded
    <3>2. Released(concluded).fact = concluded.fact
      BY <3>1, ReleasedKeeps
    <3> QED BY <3>1, <3>2 DEF concluded
  <2> HIDE DEF m
  <2>2. life'[r] = m /\ \A q \in Request \ {r} : life'[q] = life[q]
    BY <1>1 DEF AInv, m
  <2>3. WriterRuns /\ WriterRuns'
    BY <1>1 DEF WriterRuns
  <2>4. <<r>> \in Seq(Request) /\ Injective(<<r>>) /\ Elements(<<r>>) = {r}
    BY DEF Injective, Elements
  <2>5. Enqueue(<<r>>)
    BY <1>1 DEF RecordAll
  <2>6. /\ \A q \in {r} : life[q].fact = None /\ life'[q].fact # None
        /\ \A q \in Request \ {r} : life'[q].fact = life[q].fact
    BY <1>1, <2>1, <2>2
  <2>7. /\ Elements(<<r>>) # {}
        /\ \A q \in Elements(<<r>>) : life[q].fact = None /\ life'[q].fact # None
        /\ \A q \in Request \ Elements(<<r>>) : life'[q].fact = life[q].fact
    BY <2>4, <2>6
  <2> QED BY <2>3, <2>4, <2>5, <2>7, RecordConcludes
<1>2. CASE life' = [life EXCEPT ![r] = Released(l)] /\ Unchanged
  <2>1. Released(l).fact = life[r].fact
    BY ReleasedKeeps
  <2> QED BY <1>2, <2>1, ResumeRests
<1> QED BY <1>1, <1>2 DEF Finish

LEMMA RequestConcludes ==
    ASSUME AInv, NEW r \in Request, RequestStep(r)
    PROVE  Ledger!Conclude \/ UNCHANGED ledgerVars
<1>1. life[r] \in Lifecycle /\ (life[r].fact = None => phase = "serving")
  <2>1. life[r].pc = "idle" => phase = "serving"
    BY DEF RequestStep, Open, Invalid, Refuse, Execute, Fail, CancelHandler, Respond, Complete, At
  <2>2. life[r].pc # "idle" /\ life[r].fact = None => phase = "serving"
    BY DEF AInv, Registered
  <2> QED BY <2>1, <2>2 DEF AInv
<1> DEFINE over == [life[r] EXCEPT !.pc = "done"]
           opened == [life[r] EXCEPT !.pc = "validating"]
           refused == [Classified(life[r]) EXCEPT !.pc = "done"]
           executing == [Classified(life[r]) EXCEPT !.pc = "executing"]
           started == Started(r)
<1>2. /\ over \in Lifecycle /\ over.fact = life[r].fact
      /\ opened \in Lifecycle /\ opened.fact = life[r].fact
      /\ refused \in Lifecycle /\ refused.fact = life[r].fact
      /\ executing \in Lifecycle /\ executing.fact = life[r].fact
      /\ started \in Lifecycle /\ started.fact = life[r].fact
  BY <1>1 DEF Lifecycle, Classified, Started
<1>3. \/ \E g, facts : \E status \in Status :
           \/ Finish(r, over, g, status, facts)
           \/ Finish(r, refused, g, status, facts)
           \/ Finish(r, started, g, status, facts)
      \/ Unchanged /\ \/ life' = [life EXCEPT ![r] = opened]
                      \/ life' = [life EXCEPT ![r] = executing]
                      \/ life' = [life EXCEPT ![r] = started]
  BY DEF RequestStep, Open, Invalid, Refuse, Execute, Fail, CancelHandler, Respond, Complete, Status
<1> HIDE DEF over, opened, refused, executing, started
<1> QED BY <1>1, <1>2, <1>3, FinishConcludes, ResumeRests

\* The writer takes the oldest bundle, and settles it.
LEMMA WriterSettles ==
    ASSUME AInv, Writer
    PROVE  Ledger!Settle \/ UNCHANGED ledgerVars
<1>1. queue \in Seq(Request) /\ hand \in Request \union {None} /\ None \notin Request
      /\ counted \in [Reason -> SUBSET Request]
  BY PipelineAssumption DEF AInv, Bundles, HubTypeOK
<1>2. CASE Take
  <2>1. /\ WriterRuns /\ WriterRuns' /\ hand = None /\ queue # <<>>
        /\ hand' = Head(queue) /\ queue' = Tail(queue)
        /\ UNCHANGED <<life, rows, counted>>
    BY <1>2 DEF Take, WriterRuns
  <2>2. hand' \in Request /\ <<hand'>> \o queue' = queue
    BY <1>1, <2>1
  <2>3. Pending' = Pending
    BY <1>1, <2>1, <2>2 DEF Pending
  <2> QED BY <2>1, <2>3 DEF ledgerVars, Facted, GaveUp
<1>3. CASE Write
  <2>1. /\ WriterRuns /\ WriterRuns' /\ hand # None /\ hand' = None
        /\ UNCHANGED <<life, queue>>
        /\ \/ rows' = rows \union {hand} /\ UNCHANGED counted
           \/ /\ counted' = [counted EXCEPT !["write_failed"] = @ \union {hand}]
              /\ UNCHANGED rows
    BY <1>3 DEF Write, WriterRuns
  <2>2. Pending = <<hand>> \o queue /\ Pending' = queue
    BY <2>1 DEF Pending
  <2>3. Pending # <<>> /\ Pending' = Tail(Pending) /\ Head(Pending) = hand
    BY <1>1, <2>1, <2>2
  <2>4. \/ rows' = rows \union {hand} /\ GaveUp' = GaveUp
        \/ GaveUp' = GaveUp \union {hand} /\ rows' = rows
    BY <1>1, <2>1, GapsAdd DEF Reason, GaveUp
  <2>5. Facted' = Facted
    BY <2>1 DEF Facted
  <2> QED BY <2>3, <2>4, <2>5 DEF Ledger!Settle, Pending, Facted
<1> QED BY <1>2, <1>3 DEF Writer

\* abandon_all() concludes all that is registered.
LEMMA ShutdownConcludes ==
    ASSUME AInv, Shutdown
    PROVE  Ledger!Conclude \/ UNCHANGED ledgerVars
<1>1. WriterRuns /\ WriterRuns'
  BY DEF Shutdown, WriterRuns
<1>2. PICK order \in Orders(active) : Enqueue(order)
  BY DEF Shutdown, RecordAll
<1>3. /\ active \subseteq Request /\ IsFiniteSet(active)
      /\ \A r \in active : life[r].fact = None
  BY DEF AInv, Registered
<1>4. order \in Seq(Request) /\ Injective(order) /\ Elements(order) = active
  <2>1. Cardinality(active) \in Nat
    BY <1>3, FS_CardinalityType
  <2> QED BY <1>2, <1>3, <2>1 DEF Orders
<1>5. /\ \A r \in active : life'[r].fact # None
      /\ \A r \in Request \ active : life'[r].fact = life[r].fact
  <2> DEFINE left(r) == [life[r] EXCEPT !.fact = "abandoned"]
  <2>1. \A r \in Request : left(r).fact = "abandoned" /\ "abandoned" # None
    BY StatusIsFact DEF AInv, Status
  <2>2. life' = [r \in Request |-> IF r \in active THEN left(r) ELSE life[r]]
    BY DEF Shutdown
  <2> HIDE DEF left
  <2> QED BY <1>3, <2>1, <2>2
<1>6. CASE active # {}
  BY <1>1, <1>2, <1>3, <1>4, <1>5, <1>6, RecordConcludes
<1>7. CASE active = {}
  <2>1. PICK o \in Seq(Request) :
          /\ queue' = queue \o o /\ Elements(o) \subseteq Elements(order)
          /\ counted' = [counted EXCEPT !["queue_full"] = @ \union (Elements(order) \ Elements(o))]
          /\ UNCHANGED <<hand, rows>>
    BY <1>2, <1>4, EnqueueOrders DEF AInv
  <2>2. /\ queue \in Seq(Request) /\ counted \in [Reason -> SUBSET Request]
        /\ Elements(order) = {}
    BY <1>4, <1>7 DEF AInv, Bundles, HubTypeOK
  <2>3. o = <<>>
    <3>1. \A i \in DOMAIN o : o[i] \in Elements(o)
      BY InElements
    <3>2. DOMAIN o = {}
      BY <2>1, <2>2, <3>1
    <3> QED BY <3>2
  <2>4. queue' = queue
    BY <2>1, <2>2, <2>3
  <2>5. GaveUp' = GaveUp
    <3>1. "queue_full" \in Reason
      BY DEF Reason
    <3>2. GaveUp' = GaveUp \union (Elements(order) \ Elements(o))
      BY <2>1, <2>2, <3>1, GapsAdd
    <3> QED BY <2>2, <3>2
  <2>6. Facted' = Facted
    BY <1>5, <1>7 DEF Facted
  <2>7. Pending' = Pending
    BY <1>1, <2>1, <2>4 DEF Pending
  <2> QED BY <2>1, <2>5, <2>6, <2>7 DEF ledgerVars
<1> QED BY <1>6, <1>7

\* The end of the drain gives up what is pending, if anything is (hub.py:113-130).
LEMMA ClosingGivesUp ==
    ASSUME AInv, Closing
    PROVE  Ledger!GiveUp \/ UNCHANGED ledgerVars
<1>1. Facted' = Facted
  BY DEF Closing, HubCloses, Drained, DrainTimeout, ExporterCloses, StoreCloses, Facted
<1>2. CASE ~DrainTimeout
  <2>1. UNCHANGED hubVars
    BY <1>2 DEF Closing, HubCloses, Drained, ExporterCloses, StoreCloses
  <2>2. \/ WriterRuns' = WriterRuns
        \/ queue = <<>> /\ hand = None /\ ~WriterRuns'
    BY <1>2 DEF Closing, HubCloses, Drained, ExporterCloses, StoreCloses, WriterRuns
  <2>3. Pending' = Pending
    BY <2>1, <2>2 DEF Pending, hubVars
  <2> QED BY <1>1, <2>1, <2>3 DEF ledgerVars, hubVars, GaveUp
<1>3. CASE DrainTimeout
  <2>1. /\ WriterRuns /\ ~WriterRuns' /\ (queue # <<>> \/ hand # None)
        /\ counted' = [counted EXCEPT !["shutdown_timeout"] = @ \union Elements(queue)]
        /\ rows' \in {rows, rows \union ({hand} \ {None})}
    BY <1>3 DEF DrainTimeout, WriterRuns
  <2>2. /\ queue \in Seq(Request) /\ hand \in Request \union {None}
        /\ counted \in [Reason -> SUBSET Request]
    BY DEF AInv, Bundles, HubTypeOK
  <2>3. GaveUp' = GaveUp \union Elements(queue)
    BY <2>1, <2>2, GapsAdd DEF Reason
  <2>4. Pending' = <<>>
    BY <2>1 DEF Pending
  <2> DEFINE rest == {Pending[i] : i \in 2..Len(Pending)}
  <2>5. CASE hand = None
    <3>1. Pending = queue /\ Pending # <<>> /\ rows' = rows
      BY <2>1, <2>5 DEF Pending
    <3>2. Elements(queue) = rest \union {Head(queue)}
      <4>1. Len(queue) \in Nat \ {0} /\ DOMAIN queue = 1..Len(queue) /\ Head(queue) = queue[1]
        BY <2>2, <3>1
      <4>2. 1..Len(queue) = {1} \union (2..Len(queue))
        BY <4>1
      <4> QED BY <3>1, <4>1, <4>2 DEF Elements
    <3> HIDE DEF rest
    <3>3. rows' = rows /\ GaveUp' \in {GaveUp \union rest, GaveUp \union rest \union {Head(Pending)}}
      BY <2>3, <3>1, <3>2
    <3> QED BY <1>1, <2>4, <3>1, <3>3 DEF Ledger!GiveUp, Pending, Facted, rest
  <2>6. CASE hand # None
    <3>1. Pending = <<hand>> \o queue /\ hand \in Request /\ rows' \in {rows, rows \union {hand}}
      BY <2>1, <2>2, <2>6 DEF Pending
    <3>2. /\ Pending # <<>> /\ Head(Pending) = hand /\ Len(Pending) = Len(queue) + 1
          /\ \A i \in 1..Len(queue) : Pending[i + 1] = queue[i]
      BY <2>2, <3>1
    <3>3. rest = Elements(queue)
      <4>1. Len(queue) \in Nat /\ DOMAIN queue = 1..Len(queue)
        BY <2>2
      <4>2. \A j \in 2..Len(Pending) : j - 1 \in 1..Len(queue) /\ Pending[j] = queue[j - 1]
        BY <3>2, <4>1
      <4>3. \A i \in 1..Len(queue) : i + 1 \in 2..Len(Pending)
        BY <3>2, <4>1
      <4> QED BY <3>2, <4>1, <4>2, <4>3 DEF Elements
    <3> HIDE DEF rest
    <3>4. \/ rows' = rows /\ GaveUp' = GaveUp \union rest
          \/ rows' = rows \union {Head(Pending)} /\ GaveUp' = GaveUp \union rest
      BY <2>3, <3>1, <3>2, <3>3
    <3> QED BY <1>1, <2>4, <3>2, <3>4 DEF Ledger!GiveUp, Pending, Facted, rest
  <2> QED BY <2>5, <2>6
<1> QED BY <1>2, <1>3

(* The pipeline implements the ledger, for every set of requests and every   *)
(* capacity: one fact per request that never changes, bundles settled in the *)
(* order of conclusion, a new one refused only when the queue is full, and   *)
(* at most one lost at the drain deadline (lifecycle.py:125-171,             *)
(* hub.py:85-130).                                                           *)
THEOREM PipelineImplementsLedger == Spec => ImplementsLedger
<1>1. Init => Ledger!Init
  <2> SUFFICES ASSUME Init PROVE Ledger!Init
    OBVIOUS
  <2>1. Facted = [r \in Request |-> None]
    BY DEF Init, Facted
  <2>2. Pending = <<>>
    BY DEF Init, Pending
  <2>3. rows = {} /\ GaveUp = {}
    BY DEF Init, GaveUp
  <2> QED BY <2>1, <2>2, <2>3 DEF Ledger!Init, Facted, Pending
<1>2. AInv /\ [Next]_vars => [Ledger!Next]_(Ledger!vars)
  <2> SUFFICES ASSUME AInv, [Next]_vars PROVE Ledger!Next \/ UNCHANGED ledgerVars
    BY DEF Ledger!vars, ledgerVars, Facted, Pending
  <2>1. ASSUME NEW r \in Request, RequestStep(r) PROVE Ledger!Next \/ UNCHANGED ledgerVars
    BY <2>1, RequestConcludes DEF Ledger!Next
  <2>2. CASE Writer
    BY <2>2, WriterSettles DEF Ledger!Next
  <2>3. CASE Shutdown
    BY <2>3, ShutdownConcludes DEF Ledger!Next
  <2>4. CASE Closing
    BY <2>4, ClosingGivesUp DEF Ledger!Next
  <2>5. CASE UNCHANGED pipelineVars
    <3>1. UNCHANGED <<life, queue, hand, rows, counted, phase>>
      BY <2>5 DEF pipelineVars, hubVars
    <3>2. UNCHANGED <<Facted, Pending, rows, GaveUp>>
      BY <3>1 DEF Facted, Pending, WriterRuns, GaveUp
    <3> QED BY <3>2 DEF ledgerVars
  <2> QED BY <2>1, <2>2, <2>3, <2>4, <2>5 DEF Next, Stopped, vars
<1> QED BY <1>1, <1>2, BooksKept, PTL DEF Spec, ImplementsLedger, Ledger!Spec

=============================================================================
