----------------------------- MODULE RelayProofs -----------------------------
(***************************************************************************)
(* Proofs about StreamRelay, for every set of events and every way to cut  *)
(* the body into chunks.  Settlement says when the stream is settled, and  *)
(* is enough to implement CommittedStream; Handed adds the bytes the       *)
(* client has at each place, and Reports what the parser has made of them. *)
(***************************************************************************)
EXTENDS StreamRelay, SequenceTheorems, WellFoundedInduction, TLAPS

\* Places at which nothing is settled, and at which one outcome is.
Before == Suspended \union {"reading", "refused", "committed", "raised", "dropped"}
After  == {"rendering", "closing", "done"}

Settlement ==
    /\ pc \in Before \union After
    /\ pc \in Before => recorded = <<>> /\ completion.status = None
    /\ pc \in After => recorded # <<>>

\* The first settlement leaves one outcome, the last of the list.
LEMMA OneOutcome ==
    ASSUME NEW class, NEW status, NEW usage, NEW code,
           recorded = <<>>, Settle(class, status, usage, code)
    PROVE  /\ recorded' # <<>>
           /\ Last(recorded') = class
           /\ completion'.status = status
PROOF
<1>1. recorded' = <<class>>
  BY SMT DEF Settle
<1>2. <<class>> # <<>> /\ <<class>>[Len(<<class>>)] = class
  OBVIOUS
<1>3. completion'.status = status
  BY DEF Settle
<1> QED
  BY <1>1, <1>2, <1>3 DEF Last

\* A stream is settled at most once, and no place after its end is reached otherwise.
LEMMA SettlesOnce == Settlement /\ [Next]_vars => Settlement'
PROOF
<1> SUFFICES ASSUME Settlement, [Next]_vars PROVE Settlement'
  OBVIOUS
<1> USE DEF Settlement, Before, After, Suspended
<1>1. ASSUME NEW chunk \in Chunk, ReadFirst(chunk) PROVE Settlement'
  BY <1>1 DEF ReadFirst
<1>2. ASSUME NEW chunk \in Chunk, Relay(chunk) PROVE Settlement'
  <2>1. CASE Feed(acc, chunk).broken
    BY <1>2, <2>1, OneOutcome DEF Relay, Break
  <2>2. CASE ~Feed(acc, chunk).broken
    BY <1>2, <2>2 DEF Relay
  <2> QED
    BY <2>1, <2>2
<1>3. CASE Refuse
  BY <1>3 DEF Refuse
<1>4. CASE Drop
  BY <1>4 DEF Drop
<1>5. CASE Start
  BY <1>5 DEF Start
<1>6. CASE Resume
  BY <1>6 DEF Resume
<1>7. CASE Fail
  BY <1>7, OneOutcome DEF Fail, Break
<1>8. CASE EndOfBody
  BY <1>8, OneOutcome DEF EndOfBody, Break
<1>9. CASE Cancel
  BY <1>9, OneOutcome DEF Cancel
<1>10. CASE Rendered
  BY <1>10 DEF Rendered
<1>11. CASE Close
  BY <1>11 DEF Close
<1>12. CASE Over
  BY <1>12 DEF Over, vars
<1>13. CASE UNCHANGED vars
  BY <1>13 DEF vars
<1> QED
  BY <1>1, <1>2, <1>3, <1>4, <1>5, <1>6, <1>7, <1>8, <1>9, <1>10, <1>11, <1>12, <1>13 DEF Next

\* A settlement, seen from CommittedStream.
LEMMA SettlingEnds ==
    ASSUME Settlement, pc \in Suspended, NEW class, NEW status, NEW usage, NEW code,
           Settle(class, status, usage, code), pc' \in {"rendering", "closing"}
    PROVE  Promise!End(class, status)
PROOF
<1>1. recorded = <<>> /\ completion.status = None
  BY DEF Settlement, Before
<1>2. recorded' # <<>> /\ Last(recorded') = class /\ completion'.status = status
  BY <1>1, OneOutcome
<1>3. Phase = "committed"
  BY DEF Phase, Suspended
<1>4. Phase' = "ended"
  BY DEF Phase, Suspended
<1> QED
  BY <1>2, <1>3, <1>4 DEF Promise!End

\* Nothing settles: the mapped state moves only with the phase.
LEMMA MovingOnly ==
    ASSUME UNCHANGED <<recorded, completion>>
    PROVE  UNCHANGED <<IF recorded = <<>> THEN None ELSE Last(recorded), completion.status>>
PROOF
  OBVIOUS

\* Breaking off is one of the ends.
LEMMA BreakEnds ==
    ASSUME Settlement, pc \in Suspended, NEW code, Break(code)
    PROVE  Promise!Next
PROOF
  BY SettlingEnds DEF Break, Promise!Next

\* Every step of the relay is one of the promise, or is not seen by it.
LEMMA StepsImplement == Settlement /\ [Next]_vars => [Promise!Next]_(Promise!vars)
PROOF
<1> SUFFICES ASSUME Settlement, [Next]_vars PROVE [Promise!Next]_(Promise!vars)
  OBVIOUS
<1> USE DEF Promise!vars
<1>1. ASSUME NEW chunk \in Chunk, ReadFirst(chunk) PROVE [Promise!Next]_(Promise!vars)
  <2>1. UNCHANGED <<IF recorded = <<>> THEN None ELSE Last(recorded), completion.status>>
    BY <1>1, MovingOnly DEF ReadFirst
  <2>2. Phase = "offered" /\ Phase' \in {"offered", "refused", "committed"}
    BY <1>1 DEF ReadFirst, Phase, Suspended
  <2> QED
    BY <2>1, <2>2 DEF Promise!Next, Promise!Refuse, Promise!Commit
<1>2. ASSUME NEW chunk \in Chunk, Relay(chunk) PROVE [Promise!Next]_(Promise!vars)
  <2>1. CASE Feed(acc, chunk).broken
    BY <1>2, <2>1, BreakEnds DEF Relay, Suspended
  <2>2. CASE ~Feed(acc, chunk).broken
    <3>1. UNCHANGED <<IF recorded = <<>> THEN None ELSE Last(recorded), completion.status>>
      BY <1>2, <2>2, MovingOnly DEF Relay
    <3>2. Phase = "committed" /\ Phase' = "committed"
      BY <1>2, <2>2 DEF Relay, Phase, Suspended
    <3> QED
      BY <3>1, <3>2
  <2> QED
    BY <2>1, <2>2
<1>3. CASE Refuse
  <2>1. UNCHANGED <<IF recorded = <<>> THEN None ELSE Last(recorded), completion.status>>
    BY <1>3, MovingOnly DEF Refuse
  <2>2. Phase = "offered" /\ Phase' = "refused"
    BY <1>3 DEF Refuse, Phase, Suspended
  <2> QED
    BY <2>1, <2>2 DEF Promise!Next, Promise!Refuse
<1>4. CASE Drop \/ Start \/ Resume
  <2>1. UNCHANGED <<IF recorded = <<>> THEN None ELSE Last(recorded), completion.status>>
    BY <1>4, MovingOnly DEF Drop, Start, Resume
  <2>2. Phase = "committed" /\ Phase' = "committed"
    BY <1>4 DEF Drop, Start, Resume, Phase, Suspended
  <2> QED
    BY <2>1, <2>2
<1>5. CASE Fail
  BY <1>5, BreakEnds DEF Fail, Suspended
<1>6. CASE EndOfBody
  BY <1>6, SettlingEnds, BreakEnds DEF EndOfBody, Suspended, Promise!Next
<1>7. CASE Cancel
  BY <1>7, SettlingEnds DEF Cancel, Promise!Next
<1>8. CASE Rendered
  <2>1. UNCHANGED <<IF recorded = <<>> THEN None ELSE Last(recorded), completion.status>>
    BY <1>8, MovingOnly DEF Rendered
  <2>2. Phase = "ended" /\ Phase' = "ended"
    BY <1>8 DEF Rendered, Phase, Suspended
  <2> QED
    BY <2>1, <2>2
<1>9. CASE Close
  <2>1. UNCHANGED <<IF recorded = <<>> THEN None ELSE Last(recorded), completion.status>>
    BY <1>9, MovingOnly DEF Close
  <2>2. Phase = "ended" /\ Phase' = "closed"
    BY <1>9 DEF Close, Phase, Suspended
  <2> QED
    BY <2>1, <2>2 DEF Promise!Next, Promise!Close
<1>10. CASE Over \/ UNCHANGED vars
  BY <1>10 DEF Over, vars, Phase
<1> QED
  BY <1>1, <1>2, <1>3, <1>4, <1>5, <1>6, <1>7, <1>8, <1>9, <1>10 DEF Next

\* relay_stream() and read_first_event() keep the promise of a streamed
\* response: settled once, with outcomes that agree, before the exchange closes.
THEOREM RelayImplementsStream == Spec => ImplementsStream
PROOF
<1>1. Init => Settlement /\ Promise!Init
  BY DEF Init, Settlement, Before, After, Suspended, Promise!Init, Phase
<1> QED
  BY <1>1, SettlesOnce, StepsImplement, PTL DEF Spec, ImplementsStream, Promise!Spec
-----------------------------------------------------------------------------
(* Induction.  The least-number principle for a set of naturals is what the *)
(* library's theorem on minimal elements says of the relation < on Nat.     *)

LEMMA LeastNatural ==
    ASSUME NEW S, S \subseteq Nat, S # {}
    PROVE  \E n \in S : \A m \in S : n <= m
PROOF
<1>1. PICK n \in S : \A m \in S : ~ (<<m, n>> \in OpToRel(<, Nat))
  BY WFMin, NatLessThanWellFounded
<1>2. \A m \in S : ~ (m < n)
  BY <1>1 DEF OpToRel
<1> QED
  BY <1>2

\* Induction up to n: a set that holds 0, and each number whose predecessor it holds.
LEMMA UpTo ==
    ASSUME NEW n \in Nat, NEW S, 0 \in S, \A i \in 1 .. n : i - 1 \in S => i \in S
    PROVE  \A i \in 0 .. n : i \in S
PROOF
<1> DEFINE Missing == {i \in 0 .. n : i \notin S}
<1>1. CASE Missing # {}
  <2>1. Missing \subseteq Nat
    OBVIOUS
  <2> HIDE DEF Missing
  <2>2. PICK i \in Missing : \A j \in Missing : i <= j
    BY <1>1, <2>1, LeastNatural
  <2> USE DEF Missing
  <2>3. i \in 1 .. n /\ i - 1 \in 0 .. n /\ i - 1 < i
    BY <2>2
  <2>4. i - 1 \in S
    BY <2>2, <2>3
  <2> QED
    BY <2>2, <2>3, <2>4
<1> QED
  BY <1>1

-----------------------------------------------------------------------------
(* The bytes.                                                               *)

\* What the client has, at each place: nothing before the generator runs, the
\* first event, then all that was received; at the end a prefix of it, perhaps
\* with an error event behind.
Handed ==
    /\ sent \in Seq(Token)
    /\ pc \in {"reading", "refused", "committed", "raised", "dropped"} => out = <<>>
    /\ pc \in {"committed", "first"} => EventEnd(sent) \in 1 .. Len(sent)
    /\ pc = "first" => out = First
    /\ pc \in {"rest", "waiting", "yielded"} => out = sent
    /\ pc \in After =>
         \E n \in 0 .. Len(sent) :
             out \in {SubSeq(sent, 1, n), Append(SubSeq(sent, 1, n), RouterError)}
    /\ completion.status = "success" => pc \in After /\ out = sent

LEMMA ChunkIsSequence == ASSUME NEW chunk \in Chunk PROVE chunk \in Seq(Token)
PROOF
  BY DEF Chunk

\* delimiter() finds the first of the places where an event ends.
LEMMA EventEndIsFirst ==
    ASSUME NEW s \in Seq(Token), Delimiters(s) # {}
    PROVE  EventEnd(s) \in Delimiters(s) /\ \A j \in Delimiters(s) : EventEnd(s) <= j
PROOF
<1>1. Delimiters(s) \subseteq Nat
  BY DEF Delimiters
<1>2. \E i \in Delimiters(s) : \A j \in Delimiters(s) : i <= j
  BY <1>1, LeastNatural
<1> QED
  BY <1>2 DEF EventEnd

\* A sequence is the tokens up to a place and those behind it.
LEMMA CutInTwo ==
    ASSUME NEW s \in Seq(Token), NEW n \in 0 .. Len(s)
    PROVE  /\ SubSeq(s, 1, n) \in Seq(Token) /\ Len(SubSeq(s, 1, n)) = n
           /\ SubSeq(s, n + 1, Len(s)) \in Seq(Token)
           /\ SubSeq(s, 1, n) \o SubSeq(s, n + 1, Len(s)) = s
           /\ SubSeq(s, n + 1, Len(s)) = <<>> => SubSeq(s, 1, n) = s
PROOF
<1> DEFINE taken == SubSeq(s, 1, n)
           left == SubSeq(s, n + 1, Len(s))
<1>1. /\ taken \in Seq(Token) /\ Len(taken) = n
      /\ \A i \in 1 .. n : taken[i] = s[i]
  OBVIOUS
<1>2. /\ left \in Seq(Token) /\ Len(left) = Len(s) - n
      /\ \A i \in 1 .. Len(s) - n : left[i] = s[n + i]
  OBVIOUS
<1>3. taken \o left = s
  <2>1. 1 \in 1 .. Len(s) + 1 /\ n \in 1 - 1 .. Len(s) /\ Len(s) \in n .. Len(s)
    OBVIOUS
  <2>2. taken \o left = SubSeq(s, 1, Len(s))
    BY <2>1, ConcatAdjacentSubSeq
  <2> QED
    BY <2>2, SubSeqFull
<1> HIDE DEF taken, left
<1>4. left = <<>> => taken = s
  BY <1>1, <1>2, <1>3, ConcatEmptySeq
<1> QED
  BY <1>1, <1>2, <1>3, <1>4 DEF taken, left

\* Breaking off hands an error event over, after a prefix of what was received.
LEMMA BreakHands ==
    ASSUME Settlement, Handed, NEW code, NEW n \in 0 .. Len(sent'), sent' \in Seq(Token),
           out = SubSeq(sent', 1, n), pc \in Suspended, Break(code)
    PROVE  Handed'
PROOF
<1>1. pc' = "rendering" /\ out' = Append(SubSeq(sent', 1, n), RouterError)
  BY DEF Break
<1>2. completion'.status = "error"
  BY DEF Break, Settle
<1> QED
  BY <1>1, <1>2 DEF Handed, After

\* Each step hands over what it should (read_first_event(), relay_stream()).
LEMMA StepHands == Settlement /\ Handed /\ [Next]_vars => Handed'
PROOF
<1> SUFFICES ASSUME Settlement, Handed, [Next]_vars PROVE Handed'
  OBVIOUS
<1> USE DEF After
<1>1. sent \in Seq(Token) /\ Len(sent) \in Nat
  BY DEF Handed
<1>2. ASSUME NEW chunk \in Chunk, ReadFirst(chunk) PROVE Handed'
  <2>1. chunk \in Seq(Token)
    BY ChunkIsSequence
  <2>2. sent' = sent \o chunk /\ sent' \in Seq(Token)
    BY <1>1, <1>2, <2>1 DEF ReadFirst
  <2>3. pc' = "committed" => EventEnd(sent') \in 1 .. Len(sent')
    <3>1. pc' = "committed" => Delimiters(sent') # {}
      BY <1>2 DEF ReadFirst
    <3>2. Delimiters(sent') \subseteq 1 .. Len(sent')
      BY <2>2 DEF Delimiters
    <3> QED
      BY <2>2, <3>1, <3>2, EventEndIsFirst
  <2>4. pc = "reading" /\ pc' \in {"reading", "committed", "refused"}
    BY <1>2 DEF ReadFirst
  <2> QED
    BY <1>2, <2>2, <2>3, <2>4 DEF ReadFirst, Handed
<1>3. ASSUME NEW chunk \in Chunk, Relay(chunk) PROVE Handed'
  <2>1. chunk \in Seq(Token)
    BY ChunkIsSequence
  <2>2. sent' = sent \o chunk /\ sent' \in Seq(Token) /\ pc = "waiting" /\ out = sent
    BY <1>1, <1>3, <2>1 DEF Relay, Handed
  <2>3. CASE Feed(acc, chunk).broken
    <3>1. out = SubSeq(sent', 1, Len(sent)) /\ Len(sent) \in 0 .. Len(sent')
      BY <1>1, <2>1, <2>2
    <3>2. Break("broken")
      BY <1>3, <2>3 DEF Relay
    <3> QED
      BY <2>2, <3>1, <3>2, BreakHands DEF Suspended
  <2>4. CASE ~Feed(acc, chunk).broken
    <3>1. out' = sent' /\ pc' = "yielded" /\ completion' = completion
      BY <1>3, <2>2, <2>4 DEF Relay
    <3> QED
      BY <2>2, <3>1 DEF Handed
  <2> QED
    BY <2>3, <2>4
<1>4. CASE Refuse \/ Drop
  BY <1>4 DEF Refuse, Drop, Handed
<1>5. CASE Start
  BY <1>5 DEF Start, Handed, First
<1>6. CASE Resume
  <2>1. CASE pc = "first"
    <3>1. EventEnd(sent) \in 0 .. Len(sent) /\ out = First
      BY <2>1 DEF Handed
    <3>2. First \o Remainder = sent /\ (Remainder = <<>> => First = sent)
      BY <1>1, <3>1, CutInTwo DEF First, Remainder
    <3>3. out' = sent /\ pc' \in {"rest", "waiting"} /\ sent' = sent
      BY <1>6, <2>1, <3>1, <3>2 DEF Resume
    <3> QED
      BY <1>6, <2>1, <3>3 DEF Resume, Handed
  <2>2. CASE pc # "first"
    BY <1>6, <2>2 DEF Resume, Handed
  <2> QED
    BY <2>1, <2>2
<1>7. CASE Fail
  <2>1. sent' = sent /\ pc \in Suspended /\ Break("broken")
    BY <1>7 DEF Fail, Suspended
  <2>2. CASE pc = "first"
    BY <1>1, <2>1, <2>2, BreakHands DEF Handed, First
  <2>3. CASE pc # "first"
    <3>1. out = SubSeq(sent, 1, Len(sent))
      BY <1>1, <1>7, <2>3 DEF Fail, Handed
    <3> QED
      BY <1>1, <2>1, <3>1, BreakHands
  <2> QED
    BY <2>2, <2>3
<1>8. CASE EndOfBody
  <2>1. pc = "waiting" /\ sent' = sent /\ out = sent /\ out = SubSeq(sent, 1, Len(sent))
    BY <1>1, <1>8 DEF EndOfBody, Handed
  <2>2. CASE Break("incomplete_stream")
    BY <1>1, <2>1, <2>2, BreakHands DEF Suspended
  <2>3. CASE pc' = "closing" /\ out' = out
    BY <1>1, <2>1, <2>3 DEF Handed
  <2> QED
    BY <1>8, <2>2, <2>3 DEF EndOfBody
<1>9. CASE Cancel
  <2>1. pc \in Suspended /\ pc' = "closing" /\ UNCHANGED <<sent, out>>
    BY <1>9 DEF Cancel
  <2>2. completion'.status = "cancelled"
    BY <1>9 DEF Cancel, Settle
  <2>3. \E n \in 0 .. Len(sent) : out = SubSeq(sent, 1, n)
    <3>1. CASE pc = "first"
      BY <3>1 DEF Handed, First
    <3>2. CASE pc # "first"
      <4>1. out = SubSeq(sent, 1, Len(sent))
        BY <1>1, <2>1, <3>2 DEF Handed, Suspended
      <4> QED
        BY <1>1, <4>1
    <3> QED
      BY <3>1, <3>2
  <2> QED
    BY <2>1, <2>2, <2>3 DEF Handed
<1>10. CASE Rendered \/ Close
  BY <1>10 DEF Rendered, Close, Handed
<1>11. CASE Over \/ UNCHANGED vars
  BY <1>11 DEF Over, vars, Handed, First
<1> QED
  BY <1>2, <1>3, <1>4, <1>5, <1>6, <1>7, <1>8, <1>9, <1>10, <1>11 DEF Next

\* A prefix of what was received, alone or with the error event behind it.
LEMMA PrefixRelayed ==
    ASSUME NEW n \in 0 .. Len(sent), sent \in Seq(Token),
           out \in {SubSeq(sent, 1, n), Append(SubSeq(sent, 1, n), RouterError)}
    PROVE  Relayed = SubSeq(sent, 1, n)
PROOF
<1> DEFINE taken == SubSeq(sent, 1, n)
<1>1. taken \in Seq(Token) /\ Len(taken) = n
  BY CutInTwo
<1>2. RouterError \notin Token
  BY RelayAssumption DEF Token
<1> HIDE DEF taken
<1>3. CASE out = taken
  <2>1. out # <<>> => Last(out) # RouterError
    BY <1>1, <1>2, <1>3 DEF Last
  <2> QED
    BY <1>3, <2>1 DEF Relayed, taken
<1>4. CASE out = Append(taken, RouterError)
  <2>1. out # <<>> /\ Last(out) = RouterError
    BY <1>1, <1>4 DEF Last
  <2>2. Front(out) = taken
    BY <1>1, <1>4 DEF Front
  <2> QED
    BY <2>1, <2>2 DEF Relayed, taken
<1> QED
  BY <1>3, <1>4 DEF taken

LEMMA HandedFaithful == Settlement /\ Handed => RelayFaithful
PROOF
<1> SUFFICES ASSUME Settlement, Handed PROVE RelayFaithful
  OBVIOUS
<1>1. sent \in Seq(Token) /\ RouterError \notin Token
  BY RelayAssumption DEF Handed, Token
<1>2. \E n \in 0 .. Len(sent) :
         out \in {SubSeq(sent, 1, n), Append(SubSeq(sent, 1, n), RouterError)}
  <2>1. CASE out = <<>>
    <3>1. out = SubSeq(sent, 1, 0)
      BY <1>1, <2>1
    <3> QED
      BY <1>1, <3>1
  <2>2. CASE out = sent
    <3>1. out = SubSeq(sent, 1, Len(sent))
      BY <1>1, <2>2
    <3> QED
      BY <1>1, <3>1
  <2>3. CASE pc = "first"
    BY <1>1, <2>3 DEF Handed, First
  <2>4. CASE pc \in After
    BY <2>4 DEF Handed
  <2> QED
    BY <2>1, <2>2, <2>3, <2>4 DEF Settlement, Handed, Before, After, Suspended
<1>3. PICK n \in 0 .. Len(sent) : Relayed = SubSeq(sent, 1, n)
  BY <1>1, <1>2, PrefixRelayed
<1>4. /\ Relayed \in Seq(Token) /\ Len(Relayed) = n
      /\ SubSeq(Relayed, 1, n) = SubSeq(sent, 1, n)
  BY <1>1, <1>3
<1>5. IsPrefix(Relayed, sent)
  BY <1>1, <1>4 DEF IsPrefix
<1>6. \A i \in DOMAIN Relayed : Relayed[i] # RouterError
  BY <1>1, <1>4
<1> QED
  BY <1>5, <1>6 DEF RelayFaithful, Handed

\* Whatever the chunks and whatever ends the stream, the client has a prefix of
\* what the upstream sent, then at most one error event, and all of it when the
\* stream is a success: the switch from read_first_event() to relay_stream()
\* loses and doubles nothing.
THEOREM ClientHasPrefix == Spec => []RelayFaithful
PROOF
<1>1. Init => Settlement /\ Handed
  BY RelayAssumption DEF Init, Settlement, Before, After, Suspended, Handed, Class
<1> QED
  BY <1>1, SettlesOnce, StepHands, HandedFaithful, PTL DEF Spec

-----------------------------------------------------------------------------
(* The parser.                                                              *)

\* The recursion of Parsed(), unfolded: f[i] is what i tokens of the chunk make of a.
Unfolds(f, n, a, chunk) ==
    f = [i \in 0 .. n |-> IF i = 0 THEN a ELSE Take(f[i - 1], chunk[i])]

LEMMA UnfoldingExists ==
    ASSUME NEW n \in Nat, NEW a, NEW chunk
    PROVE  \E f : Unfolds(f, n, a, chunk)
PROOF
<1> DEFINE S == {m \in Nat : \E f : Unfolds(f, m, a, chunk)}
<1>1. 0 \in S
  <2>1. Unfolds([i \in 0 .. 0 |-> a], 0, a, chunk)
    BY DEF Unfolds
  <2> QED
    BY <2>1
<1>2. ASSUME NEW m \in 1 .. n, m - 1 \in S PROVE m \in S
  <2>1. PICK f : Unfolds(f, m - 1, a, chunk)
    BY <1>2
  <2> DEFINE g == [i \in 0 .. m |-> IF i = m THEN Take(f[m - 1], chunk[m]) ELSE f[i]]
  <2>2. \A i \in 0 .. m - 1 : f[i] = IF i = 0 THEN a ELSE Take(f[i - 1], chunk[i])
    BY <2>1 DEF Unfolds
  <2>3. \A i \in 0 .. m : g[i] = IF i = 0 THEN a ELSE Take(g[i - 1], chunk[i])
    BY <2>2
  <2>4. Unfolds(g, m, a, chunk)
    BY <2>3 DEF Unfolds
  <2> QED
    BY <2>4
<1> HIDE DEF S
<1>3. n \in S
  BY <1>1, <1>2, UpTo
<1> QED
  BY <1>3 DEF S

\* A chunk is parsed token by token.
LEMMA ParsedUnfolds ==
    ASSUME NEW a, NEW chunk, Len(chunk) \in Nat
    PROVE  \E f : /\ f[0] = a
                  /\ \A i \in 1 .. Len(chunk) : f[i] = Take(f[i - 1], chunk[i])
                  /\ Parsed(a, chunk) = f[Len(chunk)]
PROOF
<1> DEFINE f == CHOOSE g : Unfolds(g, Len(chunk), a, chunk)
<1>1. Unfolds(f, Len(chunk), a, chunk)
  BY UnfoldingExists
<1>2. Parsed(a, chunk) = f[Len(chunk)]
  BY DEF Parsed, Unfolds
<1> HIDE DEF f
<1>3. \A i \in 0 .. Len(chunk) : f[i] = IF i = 0 THEN a ELSE Take(f[i - 1], chunk[i])
  BY <1>1 DEF Unfolds
<1> QED
  BY <1>2, <1>3

\* A text stands at the beginning of the body or behind a blank line.
Spaced(s) ==
    \A i \in 2 .. Len(s) : s[i] # NL => s[i - 1] = NL /\ (i = 2 \/ s[i - 2] = NL)

\* The complete terminal events among the first n tokens of s.
TerminalsUpTo(n, s) ==
    {i \in 1 .. n - 2 : /\ s[i] # NL /\ s[i + 1] = NL /\ s[i + 2] = NL
                        /\ s[i].ends # None}

\* t is the outcome of the last of them.
Decides(t, n, s) ==
    \/ t = None /\ TerminalsUpTo(n, s) = {}
    \/ \E i \in TerminalsUpTo(n, s) :
           t = s[i].ends /\ \A j \in TerminalsUpTo(n, s) : j <= i

\* The buffer holds the tokens of s from k + 1 to n, and no delimiter among them.
Buffers(b, k, n, s) ==
    /\ b = SubSeq(s, k + 1, n)
    /\ k = 0 \/ (k \in 2 .. n /\ s[k] = NL /\ s[k - 1] = NL)
    /\ \A i \in k + 2 .. n : ~ (s[i - 1] = NL /\ s[i] = NL)

\* The accumulator a has read n tokens of s, however they were cut.
HasRead(a, n, s) ==
    /\ \E k \in 0 .. n : Buffers(a.buffer, k, n, s)
    /\ Decides(a.terminal, n, s)

\* A delimiter completed by the token n + 1 is the only one, and the text before
\* it, if there is one, stands right before it.
LEMMA DelimiterClosesText ==
    ASSUME NEW s \in Seq(Token), Spaced(s), NEW n \in 0 .. Len(s) - 1, NEW k \in 0 .. n, NEW b,
           Buffers(b, k, n, s)
    PROVE  LET filled == Append(b, s[n + 1])
           IN  /\ filled = SubSeq(s, k + 1, n + 1) /\ filled \in Seq(Token)
               /\ Delimiters(filled) = {} =>
                    ~ (n > k /\ s[n] = NL /\ s[n + 1] = NL)
               /\ Delimiters(filled) # {} =>
                    /\ n > k /\ s[n] = NL /\ s[n + 1] = NL
                    /\ Text(filled) = IF n - 1 > k /\ s[n - 1] # NL THEN {s[n - 1]} ELSE {}
PROOF
<1> DEFINE filled == Append(b, s[n + 1])
<1>1. /\ Len(s) \in Nat /\ n \in Nat /\ k \in Nat /\ k <= n /\ n + 1 <= Len(s)
      /\ \A i \in 1 .. Len(s) : s[i] \in Token
  OBVIOUS
<1>2. /\ b \in Seq(Token) /\ Len(b) = n - k
      /\ \A i \in 1 .. n - k : b[i] = s[k + i]
  BY <1>1 DEF Buffers
<1>3. /\ filled \in Seq(Token) /\ Len(filled) = n + 1 - k
      /\ \A i \in 1 .. n + 1 - k : filled[i] = s[k + i]
  <2>1. s[n + 1] \in Token
    BY <1>1
  <2>2. filled \in Seq(Token) /\ Len(filled) = n + 1 - k
    BY <1>1, <1>2, <2>1
  <2>3. ASSUME NEW i \in 1 .. n + 1 - k PROVE filled[i] = s[k + i]
    <3>1. CASE i = n + 1 - k
      BY <1>1, <1>2, <3>1
    <3>2. CASE i # n + 1 - k
      BY <1>1, <1>2, <3>2
    <3> QED
      BY <3>1, <3>2
  <2> QED
    BY <2>2, <2>3
<1>4. filled = SubSeq(s, k + 1, n + 1)
  <2> DEFINE part == SubSeq(s, k + 1, n + 1)
  <2>1. /\ part \in Seq(Token) /\ Len(part) = n + 1 - k
        /\ \A i \in 1 .. n + 1 - k : part[i] = s[k + i]
    BY <1>1
  <2> HIDE DEF part, filled
  <2>2. Len(filled) = Len(part) /\ \A i \in 1 .. Len(filled) : filled[i] = part[i]
    BY <1>1, <1>3, <2>1
  <2>3. filled = part
    BY <1>3, <2>1, <2>2, SeqEqual
  <2> QED
    BY <2>3 DEF part
<1> HIDE DEF filled
<1>5. \A i \in Delimiters(filled) : i = n + 1 - k /\ n > k /\ s[n] = NL /\ s[n + 1] = NL
  <2> SUFFICES ASSUME NEW i \in Delimiters(filled)
               PROVE  i = n + 1 - k /\ n > k /\ s[n] = NL /\ s[n + 1] = NL
    OBVIOUS
  <2>1. i \in 2 .. n + 1 - k /\ filled[i - 1] = NL /\ filled[i] = NL
    BY <1>3 DEF Delimiters
  <2>2. s[k + i - 1] = NL /\ s[k + i] = NL
    <3>1. i - 1 \in 1 .. n + 1 - k /\ k + (i - 1) = k + i - 1
      BY <1>1, <2>1
    <3> QED
      BY <1>1, <1>3, <2>1, <3>1
  <2>3. ~ (k + i \in k + 2 .. n)
    BY <1>1, <2>1, <2>2 DEF Buffers
  <2>4. i = n + 1 - k /\ n > k
    BY <1>1, <2>1, <2>3
  <2>5. k + i = n + 1 /\ k + i - 1 = n
    BY <1>1, <2>4
  <2> QED
    BY <2>2, <2>4, <2>5
<1>6. n > k /\ s[n] = NL /\ s[n + 1] = NL => n + 1 - k \in Delimiters(filled)
  <2> SUFFICES ASSUME n > k, s[n] = NL, s[n + 1] = NL PROVE n + 1 - k \in Delimiters(filled)
    OBVIOUS
  <2>1. /\ n + 1 - k \in 2 .. Len(filled) /\ n - k \in 1 .. n + 1 - k
        /\ k + (n + 1 - k) = n + 1 /\ k + (n - k) = n /\ (n + 1 - k) - 1 = n - k
    BY <1>1, <1>3
  <2>2. filled[n + 1 - k] = NL /\ filled[n - k] = NL
    BY <1>1, <1>3, <2>1
  <2> QED
    BY <2>1, <2>2 DEF Delimiters
<1>7. ASSUME n > k, s[n] = NL, s[n + 1] = NL
      PROVE  Text(filled) = IF n - 1 > k /\ s[n - 1] # NL THEN {s[n - 1]} ELSE {}
  <2>1. Text(filled) = {s[j] : j \in k + 1 .. n + 1} \intersect Event
    <3>1. DOMAIN filled = 1 .. n + 1 - k
      BY <1>1, <1>3
    <3>2. \A j \in k + 1 .. n + 1 : j - k \in 1 .. n + 1 - k /\ k + (j - k) = j
      BY <1>1
    <3>3. \A i \in 1 .. n + 1 - k : k + i \in k + 1 .. n + 1
      BY <1>1
    <3> QED
      BY <1>3, <3>1, <3>2, <3>3 DEF Text
  <2>2. ASSUME NEW j \in k + 1 .. n + 1, s[j] \in Event PROVE j = n - 1
    <3>1. s[j] # NL /\ j \in 1 .. n - 1
      BY <1>1, <1>7, <2>2, RelayAssumption
    <3>2. j + 1 \in 2 .. Len(s) /\ (j + 1) - 1 = j
      BY <1>1, <3>1
    <3>3. s[j + 1] = NL
      BY <3>1, <3>2 DEF Spaced
    <3>4. CASE j < n - 1
      <4>1. j + 2 \in k + 2 .. n /\ j + 2 \in 2 .. Len(s) /\ j + 2 # 2
            /\ (j + 2) - 1 = j + 1 /\ (j + 2) - 2 = j
        BY <1>1, <2>2, <3>1, <3>4
      <4>2. s[j + 2] # NL
        BY <3>3, <4>1 DEF Buffers
      <4> QED
        BY <3>1, <4>1, <4>2 DEF Spaced
    <3> QED
      BY <1>1, <3>1, <3>4
  <2>3. n - 1 > k /\ s[n - 1] # NL => s[n - 1] \in Event /\ n - 1 \in k + 1 .. n + 1
    BY <1>1 DEF Token
  <2>4. n - 1 \in k + 1 .. n + 1 => n - 1 > k
    BY <1>1
  <2>5. s[n - 1] \in Event => s[n - 1] # NL
    BY RelayAssumption
  <2> QED
    BY <2>1, <2>2, <2>3, <2>4, <2>5
<1> QED
  BY <1>3, <1>4, <1>5, <1>6, <1>7 DEF filled

\* An event parsed sets the terminal outcome if it is one, and leaves the buffer alone.
LEMMA ObserveKeeps ==
    ASSUME NEW a \in Accumulator, NEW e \in Event
    PROVE  LET o == Observe(a, e)
           IN  /\ o \in Accumulator /\ o.buffer = a.buffer /\ o.overflowed = a.overflowed
               /\ o.terminal = IF e.ends = None THEN a.terminal ELSE e.ends
PROOF
<1>1. /\ e \in EventType /\ (e.json # "object" => e.ends = None /\ e.usage = None)
      /\ None \notin UsageStatus
  BY RelayAssumption
<1>2. CASE e.json = "other"
  <2>1. Observe(a, e) = [a EXCEPT !.broken = TRUE] /\ e.ends = None
    BY <1>1, <1>2 DEF Observe
  <2> QED
    BY <2>1 DEF Accumulator
<1>3. CASE e.json # "other"
  <2> DEFINE merged == IF e.usage = None THEN a ELSE Merge(a, e.usage)
  <2>1. /\ merged \in Accumulator /\ merged.buffer = a.buffer
        /\ merged.overflowed = a.overflowed /\ merged.terminal = a.terminal
    <3>1. CASE e.usage = None
      BY <3>1
    <3>2. CASE e.usage # None /\ e.usage = "invalid"
      <4>1. merged = [a EXCEPT !.usage = "invalid", !.counted = FALSE]
        BY <3>2 DEF Merge
      <4> QED
        BY <4>1 DEF Accumulator, UsageStatus
    <3>3. CASE e.usage # None /\ e.usage # "invalid"
      <4> DEFINE known == a.counted \/ e.usage \in {"complete", "partial"}
                 usage == IF "complete" \in {a.usage, e.usage} THEN "complete"
                          ELSE IF known THEN "partial" ELSE "missing"
      <4>1. merged = [a EXCEPT !.counted = known, !.usage = usage]
        BY <3>3 DEF Merge
      <4>2. usage \in UsageStatus /\ known \in BOOLEAN
        BY DEF UsageStatus, Accumulator
      <4> HIDE DEF usage, known
      <4> QED
        BY <4>1, <4>2 DEF Accumulator
    <3> QED
      BY <3>1, <3>2, <3>3
  <2>2. Observe(a, e) = IF e.ends = None THEN merged ELSE [merged EXCEPT !.terminal = e.ends]
    BY <1>3 DEF Observe
  <2>3. e.ends \in {"success", "post_commit_stream_failure", None}
    BY <1>1 DEF EventType
  <2> HIDE DEF merged
  <2>4. CASE e.ends = None
    BY <2>1, <2>2, <2>4
  <2>5. CASE e.ends # None
    <3>1. Observe(a, e) = [merged EXCEPT !.terminal = e.ends]
      BY <2>2, <2>5
    <3> QED
      BY <2>1, <2>3, <2>5, <3>1 DEF Accumulator
  <2> QED
    BY <2>4, <2>5
<1> QED
  BY <1>2, <1>3

\* What a token can make of the accumulator.
LEMMA TakeKeeps ==
    ASSUME NEW a \in Accumulator, NEW token \in Token
    PROVE  /\ Take(a, token) \in Accumulator
           /\ Take(a, token).overflowed = a.overflowed
           /\ a.broken => Take(a, token) = a
PROOF
<1> DEFINE filled == Append(a.buffer, token)
<1>1. filled \in Seq(Token) /\ <<>> \in Seq(Token)
  BY DEF Accumulator
<1> HIDE DEF filled
<1>2. CASE a.broken
  BY <1>2 DEF Take
<1>3. CASE ~a.broken /\ Delimiters(filled) = {}
  <2>1. Take(a, token) = [a EXCEPT !.buffer = filled]
    BY <1>3 DEF Take, filled
  <2> QED
    BY <1>1, <1>3, <2>1 DEF Accumulator
<1>4. CASE ~a.broken /\ Delimiters(filled) # {} /\ Text(filled) = {}
  <2>1. Take(a, token) = [a EXCEPT !.buffer = <<>>]
    BY <1>4 DEF Take, filled
  <2> QED
    BY <1>1, <1>4, <2>1 DEF Accumulator
<1>5. CASE ~a.broken /\ Delimiters(filled) # {} /\ Text(filled) # {}
  <2> DEFINE e == CHOOSE x \in Text(filled) : TRUE
             emptied == [a EXCEPT !.buffer = <<>>]
  <2>1. e \in Event
    BY <1>5 DEF Text
  <2>2. emptied \in Accumulator /\ emptied.overflowed = a.overflowed
    BY <1>1 DEF Accumulator
  <2>3. Take(a, token) = Observe(emptied, e)
    BY <1>5 DEF Take, filled
  <2> HIDE DEF e, emptied
  <2> QED
    BY <1>5, <2>1, <2>2, <2>3, ObserveKeeps
<1> QED
  BY <1>2, <1>3, <1>4, <1>5

\* The terminal events among one token more.
LEMMA OneMoreTerminal ==
    ASSUME NEW s, NEW n \in Nat
    PROVE  /\ TerminalsUpTo(n, s) \subseteq TerminalsUpTo(n + 1, s)
           /\ \A i \in TerminalsUpTo(n, s) : i <= n - 2
           /\ \A i \in TerminalsUpTo(n + 1, s) \ TerminalsUpTo(n, s) :
                /\ i = n - 1 /\ n >= 2 /\ s[n - 1] # NL /\ s[n] = NL /\ s[n + 1] = NL
                /\ s[n - 1].ends # None
           /\ n >= 2 /\ s[n - 1] # NL /\ s[n] = NL /\ s[n + 1] = NL /\ s[n - 1].ends # None
                => n - 1 \in TerminalsUpTo(n + 1, s)
PROOF
<1>1. TerminalsUpTo(n, s) \subseteq TerminalsUpTo(n + 1, s)
  BY DEF TerminalsUpTo
<1>2. \A i \in TerminalsUpTo(n, s) : i <= n - 2
  BY DEF TerminalsUpTo
<1>3. ASSUME NEW i \in TerminalsUpTo(n + 1, s), i \notin TerminalsUpTo(n, s)
      PROVE  /\ i = n - 1 /\ n >= 2 /\ s[n - 1] # NL /\ s[n] = NL /\ s[n + 1] = NL
             /\ s[n - 1].ends # None
  <2>1. /\ i \in 1 .. n - 1 /\ s[i] # NL /\ s[i + 1] = NL /\ s[i + 2] = NL
        /\ s[i].ends # None
    BY DEF TerminalsUpTo
  <2>2. i \notin 1 .. n - 2
    BY <1>3, <2>1 DEF TerminalsUpTo
  <2>3. i = n - 1 /\ i + 1 = n /\ i + 2 = n + 1 /\ n >= 2
    BY <2>1, <2>2
  <2> QED
    BY <2>1, <2>3
<1>4. ASSUME n >= 2, s[n - 1] # NL, s[n] = NL, s[n + 1] = NL, s[n - 1].ends # None
      PROVE  n - 1 \in TerminalsUpTo(n + 1, s)
  <2>1. n - 1 \in 1 .. (n + 1) - 2 /\ (n - 1) + 1 = n /\ (n - 1) + 2 = n + 1
    BY <1>4
  <2> QED
    BY <1>4, <2>1 DEF TerminalsUpTo
<1> QED
  BY <1>1, <1>2, <1>3, <1>4

LEMMA NoNewTerminal ==
    ASSUME NEW s, NEW n \in Nat,
           ~ (/\ n >= 2 /\ s[n - 1] # NL /\ s[n] = NL /\ s[n + 1] = NL
              /\ s[n - 1].ends # None)
    PROVE  TerminalsUpTo(n + 1, s) = TerminalsUpTo(n, s)
PROOF
<1>1. TerminalsUpTo(n, s) \subseteq TerminalsUpTo(n + 1, s)
  BY OneMoreTerminal
<1>2. ASSUME NEW i \in TerminalsUpTo(n + 1, s) \ TerminalsUpTo(n, s) PROVE FALSE
  BY OneMoreTerminal
<1> QED
  BY <1>1, <1>2

\* One token more is read as it should.
LEMMA TakeReads ==
    ASSUME NEW s \in Seq(Token), Spaced(s), NEW n \in 0 .. Len(s) - 1,
           NEW a \in Accumulator, ~a.broken, HasRead(a, n, s)
    PROVE  Take(a, s[n + 1]).broken \/ HasRead(Take(a, s[n + 1]), n + 1, s)
PROOF
<1> DEFINE filled == Append(a.buffer, s[n + 1])
           new == Take(a, s[n + 1])
<1>1. PICK k \in 0 .. n : Buffers(a.buffer, k, n, s)
  BY DEF HasRead
<1>2. /\ Len(s) \in Nat /\ n \in Nat /\ k \in Nat /\ k <= n /\ n + 1 <= Len(s)
      /\ k = 0 \/ (k >= 2 /\ s[k] = NL /\ s[k - 1] = NL)
      /\ s[n + 1] \in Token
  BY <1>1 DEF Buffers
<1>3. /\ filled = SubSeq(s, k + 1, n + 1)
      /\ Delimiters(filled) = {} => ~ (n > k /\ s[n] = NL /\ s[n + 1] = NL)
      /\ Delimiters(filled) # {} =>
           /\ n > k /\ s[n] = NL /\ s[n + 1] = NL
           /\ Text(filled) = IF n - 1 > k /\ s[n - 1] # NL THEN {s[n - 1]} ELSE {}
  BY <1>1, DelimiterClosesText
<1>4. \/ a.terminal = None /\ TerminalsUpTo(n, s) = {}
      \/ \E i \in TerminalsUpTo(n, s) :
           a.terminal = s[i].ends /\ \A j \in TerminalsUpTo(n, s) : j <= i
  BY DEF HasRead, Decides
<1>5. TerminalsUpTo(n + 1, s) = TerminalsUpTo(n, s) => Decides(a.terminal, n + 1, s)
  BY <1>4 DEF Decides
<1>6. /\ \A x : x \in Accumulator => x.buffer \in Seq(Token)
      /\ <<>> \in Seq(Token)
  BY DEF Accumulator
<1> HIDE DEF filled
<1>7. CASE Delimiters(filled) = {}
  <2>1. new = [a EXCEPT !.buffer = filled]
    BY <1>7 DEF Take, filled
  <2>2. new.buffer = filled /\ new.terminal = a.terminal
    BY <2>1 DEF Accumulator
  <2>3. Buffers(filled, k, n + 1, s)
    <3>1. ASSUME NEW i \in k + 2 .. n + 1 PROVE ~ (s[i - 1] = NL /\ s[i] = NL)
      <4>1. CASE i = n + 1
        BY <1>2, <1>3, <1>7, <3>1, <4>1
      <4>2. CASE i # n + 1
        BY <1>1, <1>2, <3>1, <4>2 DEF Buffers
      <4> QED
        BY <4>1, <4>2
    <3> QED
      BY <1>1, <1>2, <1>3, <3>1 DEF Buffers
  <2>4. TerminalsUpTo(n + 1, s) = TerminalsUpTo(n, s)
    <3>1. ASSUME n >= 2, s[n - 1] # NL, s[n] = NL, s[n + 1] = NL PROVE FALSE
      <4>1. n = k
        BY <1>2, <1>3, <1>7, <3>1
      <4> QED
        BY <1>2, <3>1, <4>1
    <3> QED
      BY <3>1, NoNewTerminal
  <2>5. Decides(new.terminal, n + 1, s)
    BY <1>5, <2>2, <2>4
  <2>6. k \in 0 .. n + 1
    BY <1>2
  <2> QED
    BY <2>2, <2>3, <2>5, <2>6 DEF HasRead
<1>8. CASE Delimiters(filled) # {}
  <2>1. n > k /\ s[n] = NL /\ s[n + 1] = NL
    BY <1>3, <1>8
  <2>2. Buffers(<<>>, n + 1, n + 1, s)
    <3>1. SubSeq(s, n + 1 + 1, n + 1) = <<>>
      BY <1>2, SubSeqEmpty
    <3>2. n + 1 \in 2 .. n + 1 /\ (n + 1) - 1 = n
      BY <1>2, <2>1
    <3>3. (n + 1) + 2 .. n + 1 = {}
      BY <1>2
    <3> QED
      BY <2>1, <3>1, <3>2, <3>3 DEF Buffers
  <2>3. CASE Text(filled) = {}
    <3>1. new = [a EXCEPT !.buffer = <<>>]
      BY <1>8, <2>3 DEF Take, filled
    <3>2. new.buffer = <<>> /\ new.terminal = a.terminal
      BY <3>1 DEF Accumulator
    <3>3. TerminalsUpTo(n + 1, s) = TerminalsUpTo(n, s)
      <4>1. ASSUME n >= 2, s[n - 1] # NL PROVE FALSE
        <5>1. ~ (n - 1 > k)
          BY <1>3, <1>8, <2>3, <4>1
        <5>2. n - 1 = k
          BY <1>2, <2>1, <5>1
        <5> QED
          BY <1>2, <4>1, <5>2
      <4> QED
        BY <4>1, NoNewTerminal
    <3>4. Decides(new.terminal, n + 1, s)
      BY <1>5, <3>2, <3>3
    <3>5. n + 1 \in 0 .. n + 1
      BY <1>2
    <3> QED
      BY <2>2, <3>2, <3>4, <3>5 DEF HasRead
  <2>4. CASE Text(filled) # {}
    <3> DEFINE e == s[n - 1]
               emptied == [a EXCEPT !.buffer = <<>>]
    <3>1. n - 1 > k /\ e # NL /\ Text(filled) = {e}
      BY <1>3, <1>8, <2>4
    <3>2. e \in Event
      BY <3>1 DEF Text
    <3>3. (CHOOSE x \in Text(filled) : TRUE) = e
      BY <3>1
    <3>4. new = Observe(emptied, e)
      BY <1>8, <2>4, <3>3 DEF Take, filled
    <3>5. emptied \in Accumulator /\ emptied.buffer = <<>> /\ emptied.terminal = a.terminal
      BY <1>6 DEF Accumulator
    <3> HIDE DEF emptied, new
    <3>6. new.buffer = <<>> /\ new.terminal = IF e.ends = None THEN a.terminal ELSE e.ends
      BY <3>2, <3>4, <3>5, ObserveKeeps
    <3>7. Decides(new.terminal, n + 1, s)
      <4>1. CASE e.ends = None
        <5>1. TerminalsUpTo(n + 1, s) = TerminalsUpTo(n, s)
          BY <4>1, NoNewTerminal
        <5> QED
          BY <1>5, <3>6, <4>1, <5>1
      <4>2. CASE e.ends # None
        <5>1. n - 1 \in TerminalsUpTo(n + 1, s)
          BY <1>2, <2>1, <3>1, <4>2, OneMoreTerminal
        <5>2. \A j \in TerminalsUpTo(n + 1, s) : j <= n - 1
          BY <1>2, OneMoreTerminal
        <5> QED
          BY <3>6, <4>2, <5>1, <5>2 DEF Decides
      <4> QED
        BY <4>1, <4>2
    <3>8. n + 1 \in 0 .. n + 1
      BY <1>2
    <3> QED
      BY <2>2, <3>6, <3>7, <3>8 DEF HasRead, new
  <2> QED
    BY <2>3, <2>4
<1> QED
  BY <1>7, <1>8

\* A chunk of s is read as it should, token by token, and nothing of it is
\* forgotten by an accumulator that broke or overflowed before.
LEMMA ParsedReads ==
    ASSUME NEW s \in Seq(Token), Spaced(s), NEW n \in 0 .. Len(s), NEW m \in n .. Len(s),
           NEW a \in Accumulator, a.broken \/ a.overflowed \/ HasRead(a, n, s)
    PROVE  LET b == Parsed(a, SubSeq(s, n + 1, m))
           IN  /\ b \in Accumulator /\ b.overflowed = a.overflowed
               /\ b.broken \/ b.overflowed \/ HasRead(b, m, s)
PROOF
<1> DEFINE chunk == SubSeq(s, n + 1, m)
<1>1. n \in Nat /\ m \in Nat /\ n <= m /\ m <= Len(s) /\ Len(s) \in Nat
  OBVIOUS
<1>2. /\ chunk \in Seq(Token) /\ Len(chunk) = m - n
      /\ \A i \in 1 .. m - n : chunk[i] = s[n + i]
  BY <1>1
<1> HIDE DEF chunk
<1>3. PICK f : /\ f[0] = a
               /\ \A i \in 1 .. Len(chunk) : f[i] = Take(f[i - 1], chunk[i])
               /\ Parsed(a, chunk) = f[Len(chunk)]
  <2>1. Len(chunk) \in Nat
    BY <1>2
  <2> QED
    BY <2>1, ParsedUnfolds
<1> DEFINE Good(i) == /\ f[i] \in Accumulator /\ f[i].overflowed = a.overflowed
                      /\ f[i].broken \/ f[i].overflowed \/ HasRead(f[i], n + i, s)
           S == {i \in 0 .. m - n : Good(i)}
<1>4. 0 \in S
  BY <1>1, <1>3
<1>5. ASSUME NEW i \in 1 .. m - n, i - 1 \in S PROVE i \in S
  <2> DEFINE b == f[i - 1]
  <2>1. /\ b \in Accumulator /\ b.overflowed = a.overflowed
        /\ b.broken \/ b.overflowed \/ HasRead(b, n + (i - 1), s)
    BY <1>5
  <2>2. f[i] = Take(b, s[n + i]) /\ s[n + i] \in Token
    BY <1>1, <1>2, <1>3
  <2> HIDE DEF b
  <2>3. /\ f[i] \in Accumulator /\ f[i].overflowed = a.overflowed
        /\ b.broken => f[i] = b
    BY <2>1, <2>2, TakeKeeps
  <2>4. CASE ~b.broken /\ ~b.overflowed
    <3>1. n + (i - 1) \in 0 .. Len(s) - 1 /\ (n + (i - 1)) + 1 = n + i
      BY <1>1
    <3>2. HasRead(b, n + (i - 1), s)
      BY <2>1, <2>4
    <3>3. Take(b, s[(n + (i - 1)) + 1]).broken
          \/ HasRead(Take(b, s[(n + (i - 1)) + 1]), (n + (i - 1)) + 1, s)
      BY <2>1, <2>4, <3>1, <3>2, TakeReads
    <3> QED
      BY <2>2, <2>3, <3>1, <3>3
  <2>5. CASE b.broken \/ b.overflowed
    BY <2>1, <2>3, <2>5
  <2> QED
    BY <2>4, <2>5
<1> HIDE DEF S
<1>6. m - n \in S
  <2>1. m - n \in Nat /\ m - n \in 0 .. m - n
    BY <1>1
  <2> QED
    BY <1>4, <1>5, <2>1, UpTo
<1>7. Good(m - n) /\ n + (m - n) = m /\ Len(chunk) = m - n
  BY <1>1, <1>2, <1>6 DEF S
<1> QED
  BY <1>3, <1>7 DEF chunk

\* The limits of the buffer change nothing but what is known of the usage, unless
\* an event is too big.
LEMMA BoundedKeeps ==
    ASSUME NEW a \in Accumulator
    PROVE  /\ Bounded(a) \in Accumulator /\ Bounded(a).broken = a.broken
           /\ a.overflowed => Bounded(a).overflowed
           /\ ~Bounded(a).overflowed =>
                Bounded(a).buffer = a.buffer /\ Bounded(a).terminal = a.terminal
           /\ Bounded(a).overflowed => Bounded(a).usage # "complete"
PROOF
<1> DEFINE lowered == IF a.overflowed /\ a.usage = "complete" THEN [a EXCEPT !.usage = "partial"] ELSE a
<1>1. /\ lowered \in Accumulator /\ lowered.buffer = a.buffer /\ lowered.terminal = a.terminal
      /\ lowered.overflowed = a.overflowed /\ lowered.broken = a.broken
      /\ lowered.overflowed => lowered.usage # "complete"
  BY DEF Accumulator, UsageStatus
<1> HIDE DEF lowered
<1>2. CASE \E e \in Text(a.buffer) : e.big
  <2> DEFINE usage == IF lowered.usage = "invalid" THEN "invalid" ELSE "partial"
  <2>1. Bounded(a) = [lowered EXCEPT !.buffer = <<>>, !.overflowed = TRUE, !.usage = usage]
    BY <1>1, <1>2 DEF Bounded, lowered, Accumulator
  <2>2. usage \in UsageStatus /\ usage # "complete" /\ <<>> \in Seq(Token)
    BY DEF UsageStatus
  <2> HIDE DEF usage
  <2> QED
    BY <1>1, <2>1, <2>2 DEF Accumulator
<1>3. CASE ~ \E e \in Text(a.buffer) : e.big
  <2>1. Bounded(a) = lowered
    BY <1>3 DEF Bounded, lowered
  <2> QED
    BY <1>1, <2>1
<1> QED
  BY <1>2, <1>3

\* feed() reads a chunk of the body as it should.
LEMMA FeedReads ==
    ASSUME NEW s \in Seq(Token), Spaced(s), NEW n \in 0 .. Len(s), NEW m \in n .. Len(s),
           NEW a \in Accumulator, a.broken \/ a.overflowed \/ HasRead(a, n, s)
    PROVE  LET b == Feed(a, SubSeq(s, n + 1, m))
           IN  /\ b \in Accumulator
               /\ b.broken \/ b.overflowed \/ HasRead(b, m, s)
               /\ b.broken \/ (b.overflowed => b.usage # "complete")
PROOF
<1> DEFINE parsed == Parsed(a, SubSeq(s, n + 1, m))
           fed == Feed(a, SubSeq(s, n + 1, m))
<1>1. /\ parsed \in Accumulator /\ parsed.overflowed = a.overflowed
      /\ parsed.broken \/ parsed.overflowed \/ HasRead(parsed, m, s)
  BY ParsedReads
<1>2. fed = IF parsed.broken THEN parsed ELSE Bounded(parsed)
  BY DEF Feed
<1> HIDE DEF parsed, fed
<1>3. CASE parsed.broken
  BY <1>1, <1>2, <1>3 DEF fed
<1>4. CASE ~parsed.broken
  <2>1. /\ fed \in Accumulator
        /\ parsed.overflowed => fed.overflowed
        /\ ~fed.overflowed => fed.buffer = parsed.buffer /\ fed.terminal = parsed.terminal
        /\ fed.overflowed => fed.usage # "complete"
    BY <1>1, <1>2, <1>4, BoundedKeeps
  <2>2. ~fed.overflowed => HasRead(fed, m, s)
    BY <1>1, <1>4, <2>1 DEF HasRead
  <2> QED
    BY <2>1, <2>2 DEF fed
<1> QED
  BY <1>3, <1>4

\* What an accumulator has read depends on what it has read only.
LEMMA ReadOfLonger ==
    ASSUME NEW s \in Seq(Token), NEW chunk \in Seq(Token), NEW a, HasRead(a, Len(s), s)
    PROVE  HasRead(a, Len(s), s \o chunk)
PROOF
<1> DEFINE t == s \o chunk
           n == Len(s)
<1>1. n \in Nat /\ t \in Seq(Token) /\ Len(t) = n + Len(chunk) /\ \A i \in 1 .. n : t[i] = s[i]
  OBVIOUS
<1>2. PICK k \in 0 .. n : Buffers(a.buffer, k, n, s)
  BY DEF HasRead
<1> HIDE DEF t
<1>3. SubSeq(t, k + 1, n) = SubSeq(s, k + 1, n)
  <2>1. CASE k = n
    <3>1. n < k + 1 /\ k + 1 \in Int /\ n \in Int
      BY <1>1, <2>1
    <3> QED
      BY <3>1, SubSeqEmpty
  <2>2. CASE k # n
    <3>1. k + 1 \in 1 .. Len(s) /\ n \in 1 .. Len(s)
      BY <1>1, <2>2
    <3> QED
      BY <3>1, SubSeqOfConcat1 DEF t
  <2> QED
    BY <2>1, <2>2
<1> HIDE DEF n
<1>4. Buffers(a.buffer, k, n, t)
  <2>1. k \in 2 .. n => k \in 1 .. n /\ k - 1 \in 1 .. n
    BY <1>1
  <2>2. \A i \in k + 2 .. n : i \in 1 .. n /\ i - 1 \in 1 .. n
    BY <1>1
  <2> QED
    BY <1>1, <1>2, <1>3, <2>1, <2>2 DEF Buffers
<1>5. TerminalsUpTo(n, t) = TerminalsUpTo(n, s) /\ \A i \in TerminalsUpTo(n, s) : t[i] = s[i]
  <2>1. \A i \in 1 .. n - 2 : i \in 1 .. n /\ i + 1 \in 1 .. n /\ i + 2 \in 1 .. n
    BY <1>1
  <2>2. \A i \in 1 .. n - 2 : t[i] = s[i] /\ t[i + 1] = s[i + 1] /\ t[i + 2] = s[i + 2]
    BY <1>1, <2>1
  <2> HIDE DEF n
  <2> QED
    BY <2>2 DEF TerminalsUpTo
<1>6. Decides(a.terminal, n, t)
  BY <1>5 DEF HasRead, Decides, n
<1> QED
  BY <1>4, <1>6 DEF HasRead, t, n

LEMMA ReadIsLast ==
    ASSUME NEW s \in Seq(Token), NEW t, Decides(t, Len(s), s)
    PROVE  t = LastTerminal(s)
PROOF
<1>1. TerminalsUpTo(Len(s), s) = Terminals(s) /\ Terminals(s) \subseteq Nat
  BY DEF TerminalsUpTo, Terminals
<1>2. CASE Terminals(s) = {}
  BY <1>1, <1>2 DEF Decides, LastTerminal
<1>3. CASE Terminals(s) # {}
  <2>1. PICK i \in Terminals(s) : t = s[i].ends /\ \A j \in Terminals(s) : j <= i
    BY <1>1, <1>3 DEF Decides
  <2> DEFINE last == CHOOSE l \in Terminals(s) : \A j \in Terminals(s) : j <= l
  <2>2. last \in Terminals(s) /\ \A j \in Terminals(s) : j <= last
    BY <2>1
  <2>3. last = i
    BY <1>1, <2>1, <2>2
  <2>4. LastTerminal(s) = s[last].ends
    BY <1>3 DEF LastTerminal
  <2> QED
    BY <2>1, <2>3, <2>4
<1> QED
  BY <1>2, <1>3

\* A chunk continues the body as the upstream writes it.
LEMMA ChunkSpaces ==
    ASSUME sent \in Seq(Token), Spaced(sent), NEW chunk \in Chunk
    PROVE  Spaced(sent \o chunk)
PROOF
<1> DEFINE s == sent \o chunk
           n == Len(sent)
<1>1. chunk \in Seq(Token) /\ \A i \in DOMAIN chunk : Fits(sent \o SubSeq(chunk, 1, i - 1), chunk[i])
  BY DEF Chunk
<1>2. /\ n \in Nat /\ Len(chunk) \in Nat /\ s \in Seq(Token) /\ Len(s) = n + Len(chunk)
      /\ DOMAIN chunk = 1 .. Len(chunk)
      /\ \A i \in 1 .. n : s[i] = sent[i]
      /\ \A i \in 1 .. Len(chunk) : s[n + i] = chunk[i]
  BY <1>1
<1> HIDE DEF s
<1> SUFFICES ASSUME NEW i \in 2 .. Len(s), s[i] # NL
             PROVE  s[i - 1] = NL /\ (i = 2 \/ s[i - 2] = NL)
  BY DEF Spaced, s
<1>3. CASE i <= n
  <2>1. i \in 2 .. n /\ i \in 1 .. n /\ i - 1 \in 1 .. n /\ (i # 2 => i - 2 \in 1 .. n)
    BY <1>2, <1>3
  <2>2. sent[i] # NL
    BY <1>2, <2>1
  <2>3. sent[i - 1] = NL /\ (i = 2 \/ sent[i - 2] = NL)
    BY <2>1, <2>2 DEF Spaced
  <2> QED
    BY <1>2, <2>1, <2>3
<1>4. CASE i > n
  <2> DEFINE before == sent \o SubSeq(chunk, 1, (i - n) - 1)
  <2>1. i - n \in 1 .. Len(chunk) /\ n + (i - n) = i
    BY <1>2, <1>4
  <2>2. s[i] = chunk[i - n] /\ Fits(before, chunk[i - n])
    BY <1>1, <1>2, <2>1
  <2>3. /\ before = SubSeq(s, 1, i - 1) /\ Len(before) = i - 1
        /\ \A j \in 1 .. i - 1 : before[j] = s[j]
    <3> DEFINE part == SubSeq(chunk, 1, (i - n) - 1)
    <3>1. /\ part \in Seq(Token) /\ Len(part) = (i - n) - 1
          /\ \A j \in 1 .. (i - n) - 1 : part[j] = chunk[j]
      BY <1>1, <1>2, <2>1
    <3> HIDE DEF part
    <3> DEFINE joined == sent \o part
    <3>2. /\ joined \in Seq(Token) /\ Len(joined) = i - 1
          /\ \A j \in 1 .. n : joined[j] = sent[j]
          /\ \A j \in 1 .. (i - n) - 1 : joined[n + j] = part[j]
      BY <1>2, <2>1, <3>1
    <3> HIDE DEF joined
    <3>3. ASSUME NEW j \in 1 .. i - 1 PROVE joined[j] = s[j]
      <4>1. CASE j <= n
        BY <1>2, <3>2, <4>1
      <4>2. CASE j > n
        <5> DEFINE l == j - n
        <5>1. n \in Nat /\ Len(chunk) \in Nat
          BY <1>2
        <5>2. l \in 1 .. (i - n) - 1 /\ l \in 1 .. Len(chunk) /\ n + l = j
          BY <2>1, <4>2, <5>1
        <5> HIDE DEF l
        <5>3. joined[n + l] = part[l] /\ part[l] = chunk[l]
          BY <3>1, <3>2, <5>2
        <5>4. s[n + l] = chunk[l]
          BY <1>2, <5>2
        <5> QED
          BY <5>2, <5>3, <5>4
      <4>3. j \in Nat /\ n \in Nat
        BY <1>2
      <4> QED
        BY <4>1, <4>2, <4>3
    <3> QED
      BY <3>2, <3>3 DEF part, joined
  <2> HIDE DEF before
  <2>4. i - 1 \in 1 .. i - 1 /\ (i # 2 => i - 2 \in 1 .. i - 1)
        /\ Len(before) # 0 /\ (Len(before) = 1 => i = 2)
    BY <2>3
  <2>5. before # <<>>
    BY <2>4
  <2>6. before[i - 1] = NL /\ (i = 2 \/ before[(i - 1) - 1] = NL)
    BY <2>2, <2>3, <2>4, <2>5 DEF Fits
  <2> QED
    BY <2>3, <2>4, <2>6
<1> QED
  BY <1>2, <1>3, <1>4

\* What the parser knows while the generator is suspended, and what the
\* completion reports after it.
Reports ==
    /\ Spaced(sent)
    /\ acc \in Accumulator
    /\ pc \in Suspended =>
         /\ ~acc.broken
         /\ acc.overflowed \/ HasRead(acc, Len(sent), sent)
         /\ acc.overflowed => acc.usage # "complete"
    /\ pc \in Before => completion.usage # "complete" /\ completion.code # "incomplete_stream"
    /\ ReportHonest

\* feed() reads what stands in s behind what was read, up to its end.
LEMMA FeedReadsOn ==
    ASSUME NEW s \in Seq(Token), NEW chunk \in Seq(Token), Spaced(s \o chunk), NEW a \in Accumulator,
           a.overflowed \/ HasRead(a, Len(s), s)
    PROVE  LET b == Feed(a, chunk)
           IN  /\ b \in Accumulator
               /\ b.broken \/ b.overflowed \/ HasRead(b, Len(s \o chunk), s \o chunk)
               /\ b.broken \/ (b.overflowed => b.usage # "complete")
PROOF
<1> DEFINE t == s \o chunk
<1>1. /\ t \in Seq(Token) /\ Len(t) = Len(s) + Len(chunk)
      /\ Len(s) \in 0 .. Len(t) /\ Len(t) \in Len(s) .. Len(t)
  OBVIOUS
<1>2. SubSeq(t, Len(s) + 1, Len(t)) = chunk
  <2> DEFINE part == SubSeq(t, Len(s) + 1, Len(t))
  <2>1. \A i \in Len(s) + 1 .. Len(t) : t[i] \in Token
    BY <1>1
  <2>2. /\ part \in Seq(Token) /\ Len(part) = Len(chunk)
        /\ \A i \in 1 .. Len(chunk) : part[i] = chunk[i]
    OBVIOUS
  <2> HIDE DEF part
  <2>3. part = chunk
    BY <2>2, SeqEqual
  <2> QED
    BY <2>3 DEF part
<1>3. a.overflowed \/ HasRead(a, Len(s), t)
  BY ReadOfLonger
<1> HIDE DEF t
<1> QED
  BY <1>1, <1>2, <1>3, FeedReads DEF t

\* The head of relay_stream() reads the first event and what stands behind it.
LEMMA HeadReads ==
    ASSUME sent \in Seq(Token), Spaced(sent), EventEnd(sent) \in 1 .. Len(sent)
    PROVE  LET b == Feed(Feed(Empty, First), Remainder)
           IN  /\ b \in Accumulator
               /\ b.broken \/ b.overflowed \/ HasRead(b, Len(sent), sent)
               /\ b.broken \/ (b.overflowed => b.usage # "complete")
PROOF
<1> DEFINE e == EventEnd(sent)
           a == Feed(Empty, First)
<1>1. /\ Len(sent) \in Nat /\ 0 \in 0 .. Len(sent) /\ e \in 0 .. Len(sent)
      /\ Len(sent) \in e .. Len(sent)
  OBVIOUS
<1>2. Empty \in Accumulator /\ <<>> \in Seq(Token)
  BY DEF Empty, Accumulator, UsageStatus
<1>3. HasRead(Empty, 0, sent)
  <2>1. SubSeq(sent, 0 + 1, 0) = <<>>
    BY SubSeqEmpty
  <2>2. Buffers(Empty.buffer, 0, 0, sent)
    BY <2>1 DEF Buffers, Empty
  <2>3. TerminalsUpTo(0, sent) = {}
    BY DEF TerminalsUpTo
  <2>4. Decides(Empty.terminal, 0, sent)
    BY <2>3 DEF Decides, Empty
  <2> QED
    BY <2>2, <2>4 DEF HasRead
<1> HIDE DEF e
<1>4. a \in Accumulator /\ (a.broken \/ a.overflowed \/ HasRead(a, e, sent))
  <2>1. First = SubSeq(sent, 0 + 1, e)
    BY DEF First, e
  <2> QED
    BY <1>1, <1>2, <1>3, <2>1, FeedReads
<1> HIDE DEF a
<1>5. Remainder = SubSeq(sent, e + 1, Len(sent))
  BY DEF Remainder, e
<1> QED
  BY <1>1, <1>4, <1>5, FeedReads DEF a

LEMMA ReadDecides ==
    ASSUME Handed, Reports, pc \in Suspended, ~acc.overflowed
    PROVE  acc.terminal = LastTerminal(sent)
PROOF
<1>1. HasRead(acc, Len(sent), sent) /\ sent \in Seq(Token)
  BY DEF Handed, Reports
<1> QED
  BY <1>1, ReadIsLast DEF HasRead

\* The stream is settled without a word on its usage.
LEMMA UnmeasuredReports ==
    ASSUME Reports, Spaced(sent'), acc' \in Accumulator, pc' \in After,
           NEW class, NEW status \in {"error", "cancelled"}, NEW code \in {"broken", None},
           Settle(class, status, None, code)
    PROVE  Reports'
PROOF
<1>1. completion' = [status |-> status, usage |-> None, code |-> code]
  BY DEF Settle
<1>2. None # "complete" /\ None # "incomplete_stream"
  BY RelayAssumption DEF UsageStatus
<1>3. ReportHonest'
  BY <1>1, <1>2 DEF ReportHonest
<1> QED
  BY <1>3 DEF Reports, After, Before, Suspended

\* Nothing is reported while the generator goes on.
LEMMA SilentReports ==
    ASSUME Settlement, Reports, Spaced(sent'), acc' \in Accumulator,
           pc \in Before, pc' \in Before, UNCHANGED <<recorded, completion>>,
           pc' \in Suspended =>
             /\ ~acc'.broken
             /\ acc'.overflowed \/ HasRead(acc', Len(sent'), sent')
             /\ acc'.overflowed => acc'.usage # "complete"
    PROVE  Reports'
PROOF
<1>1. completion.status = None /\ None # "success"
  BY RelayAssumption DEF Settlement, Class
<1>2. ReportHonest'
  BY <1>1 DEF ReportHonest, Reports
<1> QED
  BY <1>2 DEF Reports

\* Each step reports what the parser knows, at each of its five ends.
LEMMA StepReports == Settlement /\ Handed /\ Reports /\ [Next]_vars => Reports'
PROOF
<1> SUFFICES ASSUME Settlement, Handed, Reports, [Next]_vars PROVE Reports'
  OBVIOUS
<1>1. /\ sent \in Seq(Token) /\ Len(sent) \in Nat
      /\ Spaced(sent) /\ acc \in Accumulator
  BY DEF Handed, Reports
<1>2. ASSUME NEW chunk \in Chunk, ReadFirst(chunk) PROVE Reports'
  <2>1. /\ sent' = sent \o chunk /\ acc' = acc /\ pc = "reading"
        /\ pc' \in {"reading", "committed", "refused"}
        /\ UNCHANGED <<recorded, completion>>
    BY <1>2 DEF ReadFirst
  <2>2. Spaced(sent')
    BY <1>1, <2>1, ChunkSpaces
  <2> QED
    BY <1>1, <2>1, <2>2, SilentReports DEF Before, Suspended
<1>3. ASSUME NEW chunk \in Chunk, Relay(chunk) PROVE Reports'
  <2> DEFINE fed == Feed(acc, chunk)
  <2>1. chunk \in Seq(Token) /\ sent' = sent \o chunk /\ acc' = fed /\ pc = "waiting"
    BY <1>3, ChunkIsSequence DEF Relay
  <2>2. Spaced(sent')
    BY <1>1, <2>1, ChunkSpaces
  <2>3. acc.overflowed \/ HasRead(acc, Len(sent), sent)
    BY <2>1 DEF Reports, Suspended
  <2>4. /\ fed \in Accumulator
        /\ fed.broken \/ fed.overflowed \/ HasRead(fed, Len(sent'), sent')
        /\ fed.broken \/ (fed.overflowed => fed.usage # "complete")
    BY <1>1, <2>1, <2>2, <2>3, FeedReadsOn
  <2>5. IF fed.broken THEN Break("broken")
        ELSE pc' = "yielded" /\ UNCHANGED <<recorded, completion>>
    BY <1>3 DEF Relay
  <2> HIDE DEF fed
  <2>6. CASE fed.broken
    <3>1. pc' \in After /\ Settle("post_commit_stream_failure", "error", None, "broken")
      BY <2>5, <2>6 DEF Break, After
    <3> QED
      BY <2>1, <2>2, <2>4, <3>1, UnmeasuredReports
  <2>7. CASE ~fed.broken
    BY <2>1, <2>2, <2>4, <2>5, <2>7, SilentReports DEF Before, Suspended
  <2> QED
    BY <2>6, <2>7
<1>4. CASE Refuse \/ Drop \/ Resume
  <2>1. /\ UNCHANGED <<sent, acc, recorded, completion>> /\ pc \in Before
        /\ pc' \in Before
        /\ pc' \in Suspended => pc \in Suspended
    BY <1>4 DEF Refuse, Drop, Resume, Before, Suspended
  <2>2. pc' \in Suspended =>
          /\ ~acc.broken
          /\ acc.overflowed \/ HasRead(acc, Len(sent), sent)
          /\ acc.overflowed => acc.usage # "complete"
    BY <2>1 DEF Reports
  <2> QED
    BY <1>1, <2>1, <2>2, SilentReports
<1>5. CASE Start
  <2> DEFINE fed == Feed(Feed(Empty, First), Remainder)
  <2>1. /\ pc = "committed" /\ acc' = fed /\ UNCHANGED <<sent, recorded, completion>>
        /\ pc' = IF fed.broken THEN "raised" ELSE "first"
    BY <1>5 DEF Start
  <2>2. /\ fed \in Accumulator
        /\ fed.broken \/ fed.overflowed \/ HasRead(fed, Len(sent), sent)
        /\ fed.broken \/ (fed.overflowed => fed.usage # "complete")
    BY <1>1, <2>1, HeadReads DEF Handed
  <2> HIDE DEF fed
  <2> QED
    BY <1>1, <2>1, <2>2, SilentReports DEF Before, Suspended
<1>6. CASE Fail \/ Cancel
  <2>1. UNCHANGED <<sent, acc>> /\ pc' \in After
    BY <1>6 DEF Fail, Break, Cancel, After
  <2>2. \/ Settle("post_commit_stream_failure", "error", None, "broken")
        \/ Settle("client_cancelled", "cancelled", None, None)
    BY <1>6 DEF Fail, Break, Cancel
  <2> QED
    BY <1>1, <2>1, <2>2, UnmeasuredReports
<1>7. CASE EndOfBody
  <2>1. UNCHANGED <<sent, acc>> /\ pc = "waiting" /\ pc' \in After
    BY <1>7 DEF EndOfBody, Break, After
  <2>2. /\ out = sent
        /\ ~acc.overflowed => acc.terminal = LastTerminal(sent)
        /\ acc.overflowed => acc.usage # "complete"
    BY <2>1, ReadDecides DEF Handed, Reports, Suspended
  <2>3. None \notin {"success", "error", "complete", "incomplete_stream"}
    BY RelayAssumption DEF Class, UsageStatus
  <2>4. ReportHonest'
    <3>1. CASE /\ acc.terminal = "post_commit_stream_failure"
               /\ completion' = [status |-> "error", usage |-> acc.usage,
                                 code |-> "stream_error"]
      BY <2>1, <2>2, <3>1 DEF ReportHonest
    <3>2. CASE /\ acc.terminal = "success" /\ out' = out
               /\ completion' = [status |-> "success", usage |-> acc.usage, code |-> None]
      BY <2>1, <2>2, <2>3, <3>2 DEF ReportHonest
    <3>3. CASE /\ acc.terminal = None
               /\ completion' = [status |-> "error", usage |-> None,
                                 code |-> "incomplete_stream"]
      BY <2>1, <2>2, <2>3, <3>3 DEF ReportHonest
    <3> QED
      BY <1>7, <3>1, <3>2, <3>3 DEF EndOfBody, Break, Settle
  <2> QED
    BY <1>1, <2>1, <2>4 DEF Reports, After, Before, Suspended
<1>8. CASE Rendered \/ Close
  BY <1>8 DEF Rendered, Close, Reports, ReportHonest, Before, Suspended
<1>9. CASE Over \/ UNCHANGED vars
  BY <1>9 DEF Over, vars, Reports, ReportHonest
<1> QED
  BY <1>2, <1>3, <1>4, <1>5, <1>6, <1>7, <1>8, <1>9 DEF Next

LEMMA ReportsFromStart == Init => Settlement /\ Handed /\ Reports
PROOF
<1> SUFFICES ASSUME Init PROVE Settlement /\ Handed /\ Reports
  OBVIOUS
<1>1. Settlement /\ Handed
  BY RelayAssumption DEF Init, Settlement, Before, After, Suspended, Handed, Class
<1>2. Spaced(sent)
  BY DEF Init, Spaced
<1>3. acc \in Accumulator
  <2>1. <<>> \in Seq(Token)
    OBVIOUS
  <2> QED
    BY <2>1 DEF Init, Empty, Accumulator, UsageStatus
<1>4. /\ pc = "reading" /\ completion.status = None /\ completion.usage = None
      /\ completion.code = None
      /\ None \notin {"success", "complete", "incomplete_stream"}
  BY RelayAssumption DEF Init, Class, UsageStatus
<1> QED
  BY <1>1, <1>2, <1>3, <1>4 DEF Reports, ReportHonest, Before, Suspended

\* SSEUsageAccumulator.feed(): wherever the chunks cut the body, inside a
\* delimiter too, and however many there are, the terminal outcome it holds is
\* that of the last complete terminal event of the body.
THEOREM ParserIsChunkingBlind == Spec => []ParserMatches
PROOF
<1>1. Handed /\ Reports => ParserMatches
  BY ReadDecides DEF ParserMatches
<1> QED
  BY <1>1, ReportsFromStart, SettlesOnce, StepHands, StepReports, PTL DEF Spec

\* relay_stream(): unless an event did not fit the buffer, the completion says
\* success only of a stream whose last terminal event, handed to the client,
\* says so, and incomplete only of one without a terminal event; the usage is
\* never complete after an event that did not fit.
THEOREM CompletionIsHonest == Spec => []ReportHonest
PROOF
<1>1. Reports => ReportHonest
  BY DEF Reports
<1> QED
  BY <1>1, ReportsFromStart, SettlesOnce, StepHands, StepReports, PTL DEF Spec

-----------------------------------------------------------------------------
(* Types.                                                                   *)

Settled == recorded \in Seq(Class) /\ completion \in Completion

\* Nothing but the settlement of the stream writes what Settled is about.
LEMMA SettleTypes ==
    ASSUME Settled, NEW class \in Class, NEW status \in {"success", "error", "cancelled"},
           NEW usage \in UsageStatus \union {None},
           NEW code \in {"stream_error", "incomplete_stream", "broken", None},
           Settle(class, status, usage, code)
    PROVE  Settled'
PROOF
<1>1. recorded' \in Seq(Class)
  BY DEF Settled, Settle
<1>2. completion' \in Completion
  BY DEF Settle, Completion
<1> QED
  BY <1>1, <1>2 DEF Settled

LEMMA StepTypes == Reports /\ Settled /\ [Next]_vars => Settled'
PROOF
<1> SUFFICES ASSUME Reports, Settled, [Next]_vars PROVE Settled'
  OBVIOUS
<1>1. ASSUME NEW code \in {"incomplete_stream", "broken"}, Break(code) PROVE Settled'
  BY <1>1, SettleTypes DEF Break, Class
<1>2. CASE UNCHANGED <<recorded, completion>>
  BY <1>2 DEF Settled
<1>3. ASSUME NEW chunk \in Chunk, Relay(chunk) PROVE Settled'
  BY <1>1, <1>2, <1>3 DEF Relay
<1>4. CASE Fail
  BY <1>1, <1>4 DEF Fail
<1>5. CASE EndOfBody
  <2>1. acc.usage \in UsageStatus
    BY DEF Reports, Accumulator
  <2> QED
    BY <1>1, <1>5, <2>1, SettleTypes DEF EndOfBody, Class
<1>6. CASE Cancel
  BY <1>6, SettleTypes DEF Cancel, Class
<1>7. \/ UNCHANGED <<recorded, completion>>
      \/ Fail \/ EndOfBody \/ Cancel \/ \E chunk \in Chunk : Relay(chunk)
  BY DEF Next, ReadFirst, Refuse, Drop, Start, Resume, Rendered, Close, Over, vars
<1> QED
  BY <1>2, <1>3, <1>4, <1>5, <1>6, <1>7

\* The client is given tokens of the upstream and error events, and no others.
LEMMA OutTypes == Settlement /\ Handed => out \in Seq(Token \union {RouterError})
PROOF
<1> SUFFICES ASSUME Settlement, Handed PROVE out \in Seq(Token \union {RouterError})
  OBVIOUS
<1>1. sent \in Seq(Token) /\ \A s \in Seq(Token) : s \in Seq(Token \union {RouterError})
  BY DEF Handed
<1>2. CASE pc \in {"reading", "refused", "committed", "raised", "dropped"}
  <2>1. out = <<>>
    BY <1>2 DEF Handed
  <2> QED
    BY <2>1
<1>3. CASE pc = "first"
  <2>1. EventEnd(sent) \in 0 .. Len(sent)
    BY <1>3 DEF Handed
  <2>2. First \in Seq(Token)
    BY <1>1, <2>1, CutInTwo DEF First
  <2> QED
    BY <1>1, <1>3, <2>2 DEF Handed
<1>4. CASE pc \in {"rest", "waiting", "yielded"}
  BY <1>1, <1>4 DEF Handed
<1>5. CASE pc \in After
  <2>1. PICK n \in 0 .. Len(sent) :
            out \in {SubSeq(sent, 1, n), Append(SubSeq(sent, 1, n), RouterError)}
    BY <1>5 DEF Handed
  <2>2. SubSeq(sent, 1, n) \in Seq(Token \union {RouterError})
    BY <1>1, CutInTwo
  <2>3. Append(SubSeq(sent, 1, n), RouterError) \in Seq(Token \union {RouterError})
    BY <2>2
  <2> QED
    BY <2>1, <2>2, <2>3
<1> QED
  BY <1>2, <1>3, <1>4, <1>5 DEF Settlement, Before, Suspended

\* The variables have their types, whatever events a body is made of and
\* wherever it is cut.
THEOREM TypeCorrect == Spec => []TypeOK
PROOF
<1>1. Init => Settled
  BY DEF Init, Settled, Completion
<1>2. Settlement /\ Handed /\ Reports /\ Settled => TypeOK
  <2> SUFFICES ASSUME Settlement, Handed, Reports, Settled PROVE TypeOK
    OBVIOUS
  <2>1. pc \in Suspended \union {"reading", "refused", "committed", "raised", "dropped",
                                 "rendering", "closing", "done"}
    BY DEF Settlement, Before, After
  <2> QED
    BY <2>1, OutTypes DEF Handed, Reports, Settled, TypeOK
<1> QED
  BY ReportsFromStart, SettlesOnce, StepHands, StepReports, StepTypes, <1>1, <1>2, PTL DEF Spec
=============================================================================
