----------------------------- MODULE StreamRelay -----------------------------
(***************************************************************************)
(* One streamed response: execution/streaming.py (read_first_event,        *)
(* SSEUsageAccumulator, relay_stream) with execution/stream_semantics.py.  *)
(* The upstream's bytes are tokens: the text of an event, or one line end; *)
(* two line ends in a row are the delimiter of an event.  A chunk is cut   *)
(* anywhere between two tokens.                                            *)
(***************************************************************************)
EXTENDS Integers, Sequences, SequencesExt

CONSTANTS
    Event,      \* texts of events the upstream may send
    NL,         \* a line end
    RouterError, \* the event render_post_commit_error() renders
    BodyBound,  \* bound: tokens in one body
    ChunkBound, \* bound: tokens in one chunk
    None

\* json: what _event_payload() makes of the text; ends: terminal_outcome();
\* usage: status of the fragment extract_usage() returns; big: above 4 MiB.
EventType ==
    [json  : {"object", "other", "invalid"},
     ends  : {"success", "post_commit_stream_failure", None},
     usage : {"complete", "partial", "missing", "invalid", None},
     big   : BOOLEAN]

Class == {"success", "post_commit_stream_failure", "client_cancelled"}
UsageStatus == {"complete", "partial", "missing", "invalid"}

\* ExecutionStats: what the completion resolves to; no status while it is pending.
Completion ==
    [status : {"success", "error", "cancelled", None},
     usage  : UsageStatus \union {None},
     code   : {"stream_error", "incomplete_stream", "broken", None}]

ASSUME RelayAssumption ==
    /\ None \notin Class \union UsageStatus
                \union {"error", "cancelled", "stream_error", "incomplete_stream", "broken"}
    /\ Event \subseteq EventType
    /\ NL \notin Event /\ RouterError \notin Event \union {NL}
    /\ \A e \in Event : e.json # "object" => e.ends = None /\ e.usage = None
    /\ BodyBound \in Nat /\ ChunkBound \in Nat

Token == Event \union {NL}

VARIABLES
    pc,         \* the await or yield where the response is
    sent,       \* tokens received from the upstream
    out,        \* tokens handed to the client
    acc,        \* the SSEUsageAccumulator
    recorded,   \* outcomes given to record_outcome()
    completion  \* the completion future

vars == <<pc, sent, out, acc, recorded, completion>>

\* At one of these the generator is suspended inside the try block.
Suspended == {"first", "rest", "waiting", "yielded"}

Accumulator ==
    [buffer     : Seq(Token),
     terminal   : {"success", "post_commit_stream_failure", None},
     usage      : UsageStatus,
     counted    : BOOLEAN,   \* some token count is known
     overflowed : BOOLEAN,
     broken     : BOOLEAN]   \* feed() raised TypeError

TypeOK ==
    /\ pc \in Suspended \union {"reading", "refused", "committed", "raised", "dropped",
                                "rendering", "closing", "done"}
    /\ sent \in Seq(Token)
    /\ out \in Seq(Token \union {RouterError})
    /\ acc \in Accumulator
    /\ recorded \in Seq(Class)
    /\ completion \in Completion

Empty ==
    [buffer |-> <<>>, terminal |-> None, usage |-> "missing", counted |-> FALSE,
     overflowed |-> FALSE, broken |-> FALSE]

Init ==
    /\ pc = "reading"
    /\ sent = <<>> /\ out = <<>> /\ acc = Empty
    /\ recorded = <<>>
    /\ completion = [status |-> None, usage |-> None, code |-> None]

-----------------------------------------------------------------------------
(* SSEUsageAccumulator                                                      *)

\* The places in s where a delimiter ends.
Delimiters(s) == {i \in 2 .. Len(s) : s[i - 1] = NL /\ s[i] = NL}

\* delimiter(): where the first event of s ends.
EventEnd(s) == CHOOSE i \in Delimiters(s) : \A j \in Delimiters(s) : i <= j

Text(s) == {s[i] : i \in DOMAIN s} \intersect Event

\* merge_usage(): the later fragment wins, except that complete stays complete.
Merge(a, fragment) ==
    IF fragment = "invalid" THEN [a EXCEPT !.usage = "invalid", !.counted = FALSE]
    ELSE LET known == a.counted \/ fragment \in {"complete", "partial"}
         IN  [a EXCEPT !.counted = known,
                       !.usage = IF "complete" \in {a.usage, fragment} THEN "complete"
                                 ELSE IF known THEN "partial" ELSE "missing"]

\* The event e is parsed, for its usage first.
Observe(a, e) ==
    IF e.json = "other" THEN [a EXCEPT !.broken = TRUE]
    ELSE LET merged == IF e.usage = None THEN a ELSE Merge(a, e.usage)
         IN  IF e.ends = None THEN merged ELSE [merged EXCEPT !.terminal = e.ends]

\* One more token in the buffer: a delimiter takes the event out of it.  An
\* event without text, or the rest of one that was too big, says nothing.
Take(a, token) ==
    LET filled == Append(a.buffer, token)
    IN  IF a.broken THEN a
        ELSE IF Delimiters(filled) = {} THEN [a EXCEPT !.buffer = filled]
        ELSE IF Text(filled) = {} THEN [a EXCEPT !.buffer = <<>>]
        ELSE Observe([a EXCEPT !.buffer = <<>>], CHOOSE e \in Text(filled) : TRUE)

\* The end of feed(): the limits of the buffer.
Bounded(a) ==
    LET lowered == IF a.overflowed /\ a.usage = "complete" THEN [a EXCEPT !.usage = "partial"] ELSE a
    IN  IF \E e \in Text(a.buffer) : e.big
        THEN [lowered EXCEPT !.buffer = <<>>, !.overflowed = TRUE,
                             !.usage = IF @ = "invalid" THEN @ ELSE "partial"]
        ELSE lowered

\* The tokens of a chunk, one after the other.
Parsed(a, chunk) ==
    LET after[i \in 0 .. Len(chunk)] == IF i = 0 THEN a ELSE Take(after[i - 1], chunk[i])
    IN  after[Len(chunk)]

\* Wrong form: each chunk is parsed on its own.
FeedAlone(a, chunk) == Bounded(Parsed([a EXCEPT !.buffer = <<>>], chunk))

Feed(a, chunk) ==
    LET parsed == Parsed(a, chunk) IN IF parsed.broken THEN parsed ELSE Bounded(parsed)

-----------------------------------------------------------------------------
(* The upstream: events one after the other, blank lines between them.      *)

\* A text is never written into an event that has one already.
Fits(s, token) ==
    \/ token = NL
    \/ s = <<>>
    \/ s[Len(s)] = NL /\ (Len(s) = 1 \/ s[Len(s) - 1] = NL)

Chunk ==
    {c \in UNION {[1 .. n -> Token] : n \in 1 .. ChunkBound} :
        /\ Len(sent) + Len(c) <= BodyBound
        /\ \A i \in DOMAIN c : Fits(sent \o SubSeq(c, 1, i - 1), c[i])}

-----------------------------------------------------------------------------
(* read_first_event() and validate_first_event()                            *)

First == SubSeq(sent, 1, EventEnd(sent))
Remainder == SubSeq(sent, EventEnd(sent) + 1, Len(sent))

\* A delimiter before the first event stays in the buffer, where it is found
\* again after every chunk: such a stream never has a first event.
ReadFirst(chunk) ==
    LET body == sent \o chunk
        first == Text(SubSeq(body, 1, EventEnd(body)))
    IN  /\ pc = "reading"
        /\ sent' = body
        /\ pc' = IF Delimiters(body) = {} \/ first = {} THEN "reading"
                 ELSE IF \A e \in first : e.json = "object" THEN "committed"
                 ELSE "refused"
        /\ UNCHANGED <<out, acc, recorded, completion>>

\* The body ends or fails, the timeout expires, or the client goes away: the
\* handlers of execute() close the exchange.
Refuse ==
    /\ pc = "reading"
    /\ pc' = "refused"
    /\ UNCHANGED <<sent, out, acc, recorded, completion>>

-----------------------------------------------------------------------------
(* relay_stream()                                                           *)

\* The server drops the response before it iterates over the body.
Drop ==
    /\ pc = "committed"
    /\ pc' = "dropped"
    /\ UNCHANGED <<sent, out, acc, recorded, completion>>

\* The head of the generator, outside its try block, and the first yield.
Start ==
    LET fed == Feed(Feed(Empty, First), Remainder)
    IN  /\ pc = "committed"
        /\ acc' = fed
        /\ IF fed.broken
           THEN pc' = "raised" /\ UNCHANGED out
           ELSE pc' = "first" /\ out' = First
        /\ UNCHANGED <<sent, recorded, completion>>

\* Wrong form: the bytes behind the first event are forgotten.
ResumeForgets ==
    /\ pc \in {"first", "rest", "yielded"}
    /\ pc' = "waiting"
    /\ UNCHANGED <<sent, out, acc, recorded, completion>>

\* The client takes what was yielded.
Resume ==
    /\ pc \in {"first", "rest", "yielded"}
    /\ IF pc = "first" /\ Remainder # <<>>
       THEN pc' = "rest" /\ out' = out \o Remainder
       ELSE pc' = "waiting" /\ UNCHANGED out
    /\ UNCHANGED <<sent, acc, recorded, completion>>

\* finish() and the completion.
Settle(class, status, usage, code) ==
    /\ recorded' = Append(recorded, class)
    /\ completion' = [status |-> status, usage |-> usage, code |-> code]

\* Wrong form: the error is yielded before the outcome is recorded.
BreakLate(code) ==
    /\ completion' = [status |-> "error", usage |-> None, code |-> code]
    /\ UNCHANGED recorded
    /\ out' = Append(out, RouterError)
    /\ pc' = "rendering"

\* The handlers of RouterError and Exception: one error event for the client.
Break(code) ==
    /\ Settle("post_commit_stream_failure", "error", None, code)
    /\ out' = Append(out, RouterError)
    /\ pc' = "rendering"

Relay(chunk) ==
    LET fed == Feed(acc, chunk)
    IN  /\ pc = "waiting"
        /\ sent' = sent \o chunk
        /\ acc' = fed
        /\ IF fed.broken THEN Break("broken")
           ELSE /\ out' = out \o chunk
                /\ pc' = "yielded"
                /\ UNCHANGED <<recorded, completion>>

\* The idle timeout, the deadline, or an exception of the body.
Fail ==
    /\ pc \in {"waiting", "first", "rest", "yielded"}
    /\ ~(pc = "first" /\ Remainder # <<>>)
    /\ Break("broken")
    /\ UNCHANGED <<sent, acc>>

\* Wrong form: the end of the body is the success of the stream.
EndOfBodySucceeds ==
    /\ pc = "waiting"
    /\ Settle("success", "success", acc.usage, None)
    /\ pc' = "closing" /\ UNCHANGED out
    /\ UNCHANGED <<sent, acc>>

\* StopAsyncIteration
EndOfBody ==
    /\ pc = "waiting"
    /\ \/ /\ acc.terminal = "post_commit_stream_failure"
          /\ Settle("post_commit_stream_failure", "error", acc.usage, "stream_error")
          /\ pc' = "closing" /\ UNCHANGED out
       \/ /\ acc.terminal = "success"
          /\ Settle("success", "success", acc.usage, None)
          /\ pc' = "closing" /\ UNCHANGED out
       \/ acc.terminal = None /\ Break("incomplete_stream")
    /\ UNCHANGED <<sent, acc>>

\* CancelledError at the await, GeneratorExit at a yield.
Cancel ==
    /\ pc \in Suspended
    /\ Settle("client_cancelled", "cancelled", None, None)
    /\ pc' = "closing"
    /\ UNCHANGED <<sent, out, acc>>

\* The error event was taken, or the client went away instead.
Rendered ==
    /\ pc = "rendering"
    /\ pc' = "closing"
    /\ UNCHANGED <<sent, out, acc, recorded, completion>>

\* The finally clause: exchange.close().
Close ==
    /\ pc = "closing"
    /\ pc' = "done"
    /\ UNCHANGED <<sent, out, acc, recorded, completion>>

-----------------------------------------------------------------------------

Over == pc \in {"refused", "raised", "dropped", "done"} /\ UNCHANGED vars

Next ==
    \/ \E chunk \in Chunk : ReadFirst(chunk) \/ Relay(chunk)
    \/ Refuse \/ Drop \/ Start \/ Resume \/ Fail \/ EndOfBody \/ Cancel \/ Rendered \/ Close
    \/ Over

Spec == Init /\ [][Next]_vars

-----------------------------------------------------------------------------
(* Properties                                                               *)

\* The tokens of the upstream among those the client was given.
Relayed == IF out # <<>> /\ Last(out) = RouterError THEN Front(out) ELSE out

\* The terminal event that decides: the last complete one in s, however s was
\* cut into chunks.
Terminals(s) ==
    {i \in 1 .. Len(s) - 2 : /\ s[i] # NL /\ s[i + 1] = NL /\ s[i + 2] = NL
                             /\ s[i].ends # None}
LastTerminal(s) ==
    IF Terminals(s) = {} THEN None
    ELSE s[CHOOSE i \in Terminals(s) : \A j \in Terminals(s) : j <= i].ends

\* relay_stream() yields the first event, the bytes read behind it and every
\* chunk: what the client has is a prefix of what the upstream sent, nothing
\* lost or doubled between the two readers of the body, then at most one error
\* event; a stream that succeeded was handed over entirely.
RelayFaithful ==
    /\ IsPrefix(Relayed, sent)
    /\ \A i \in DOMAIN Relayed : Relayed[i] # RouterError
    /\ completion.status = "success" => out = sent

\* SSEUsageAccumulator.feed() sees through the chunks: wherever they are cut,
\* inside a delimiter too, the terminal outcome it holds is that of the last
\* complete terminal event.
ParserMatches ==
    pc \in Suspended /\ ~acc.overflowed => acc.terminal = LastTerminal(sent)

\* What relay_stream() puts into the completion: unless an event did not fit the
\* buffer, a success only when the client was given a successful terminal event
\* and no failed one after it, and an incomplete stream only when there was
\* none; and never a complete usage after an event that did not fit.
ReportHonest ==
    /\ completion.status = "success" => acc.overflowed \/ LastTerminal(out) = "success"
    /\ completion.code = "incomplete_stream" => acc.overflowed \/ LastTerminal(sent) = None
    /\ completion.usage = "complete" => ~acc.overflowed

Phase ==
    CASE pc = "reading" -> "offered"
      [] pc = "refused" -> "refused"
      [] pc \in Suspended \union {"committed", "raised", "dropped"} -> "committed"
      [] pc \in {"rendering", "closing"} -> "ended"
      [] pc = "done" -> "closed"

Promise ==
    INSTANCE CommittedStream WITH
        phase <- Phase,
        outcome <- IF recorded = <<>> THEN None ELSE Last(recorded),
        status <- completion.status

\* Whatever ends a committed stream (relay_stream()'s five ways out), the lease
\* and the completion are settled once, with outcomes that agree, before the
\* exchange is closed and before an error event is handed over.
ImplementsStream == Promise!Spec

\* finish() in relay_stream(): "Record the admitted stream lease exactly once."
\* A generator that ran is not left without having done so.
LeaseRecorded == pc \in {"raised", "done"} => Len(recorded) = 1

\* The v0.7 plan: an event over the limit affects the coverage of usage only
\* and does not change the bytes relayed (SSEUsageAccumulator.feed()).  A stream
\* whose last event says success gets no error event for being incomplete.
OverflowOnlyUsage ==
    completion.code = "incomplete_stream" => LastTerminal(sent) # "success"
=============================================================================
