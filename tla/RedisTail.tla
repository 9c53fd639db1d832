----------------------------- MODULE RedisTail -----------------------------
(***************************************************************************)
(* Reading a stream over HTTP from any proxy.  A request reaches the proxy  *)
(* that owns the stream (directly or through the relay of relay.go), which  *)
(* serves it from its runtime, or another proxy, which reads Redis:         *)
(* Redis.Tail and runTail of internal/journal/redis.go, the delivery pump   *)
(* of redis_tail_delivery.go, and serveLocalJournal and serveJournalTail    *)
(* of internal/proxy/durable_http.go without a local runtime.               *)
(*                                                                         *)
(* The generation's events are numbered in the order they are produced:     *)
(* log first, then the suffix an owner relays without journaling it once    *)
(* its journal failed.  What an owner's own reader receives is what module  *)
(* DegradedFeed shows of it: every event after the cursor, in order.  An    *)
(* entry counts one against the lag budget.  One reader has at most one     *)
(* connection; a handler whose client is gone is not followed further.      *)
(***************************************************************************)
EXTENDS Naturals, Sequences

CONSTANTS MaxEvents,  \* bound: events of the generation
          MaxLag,     \* ReaderMaxLagBytes, in entries
          SocketCap,  \* frames the connection holds
          MaxFaults   \* bound: network and Redis faults, crashes

ASSUME TailAssumption ==
    /\ MaxEvents \in Nat /\ MaxEvents > 1
    /\ MaxLag \in Nat \ {0} /\ SocketCap \in Nat \ {0} /\ MaxFaults \in Nat

VARIABLES
    mode,     \* how the generation runs: none, durable, degraded, bypass
    log,      \* kinds of the journaled events
    suffix,   \* kinds of the events relayed after the journal failed
    doubled,  \* the event the journal failed at is in it all the same
    closing,  \* the terminal kind being committed, or "no" (terminating)
    claim,    \* the orphan claim is held
    marked,   \* the stream's degraded field in Redis
    gone,     \* the stream's keys have expired
    alive,    \* the owner's process runs
    rd,       \* the request's handler and its tail
    wire,     \* frames sent and not yet read by the client
    faults    \* used faults

streamVars == <<mode, log, suffix, doubled, closing, claim, marked, gone, alive>>
tailVars == <<streamVars, rd, wire, faults>>

Terminals == {"done", "error", "stopped"}

Generation == log \o suffix
Ended(s) == s # <<>> /\ s[Len(s)] \in Terminals

(* r.lastSeq: the sequences the runtime knows of, and the feed's boundary.  *)
Boundary == IF doubled THEN Len(log) - 1 ELSE Len(log)

(* Events produced so far: neither the warning nor a doubled event counts.  *)
Produced == Boundary + (IF mode = "degraded" THEN Len(suffix) - 1 ELSE Len(suffix))

(* What the connection carries: a status, then events and control frames.  *)
Control(t) == [t |-> t, ev |-> 0, sequenced |-> FALSE]
Event(e) == [t |-> "event", ev |-> e, sequenced |-> e <= Len(log)]
Eof == Control("eof")

(* WriteEntry and WriteDegradedFrame: done is followed by the sentinel.     *)
Frames(e) == IF Generation[e] = "done" THEN <<Event(e), Control("sentinel")>>
                                       ELSE <<Event(e)>>

Off == [pc |-> "off", post |-> FALSE, cursor |-> 0, src |-> "closed", through |-> 0,
        mark |-> FALSE, over |-> FALSE, sentinel |-> FALSE, gap |-> FALSE, pend |-> <<>>]

Fault == faults < MaxFaults /\ faults' = faults + 1

-----------------------------------------------------------------------------
(* The generation: the owner's producer, seen from its journal.            *)

Producing == alive /\ mode = "durable" /\ log # <<>> /\ ~Ended(log) /\ closing = "no"

AppendChunk ==
    /\ Producing
    /\ Produced < MaxEvents - 1
    /\ log' = Append(log, "chunk")
    /\ UNCHANGED <<mode, suffix, doubled, closing, claim, marked, gone, alive, rd, wire, faults>>

(* A terminal transition refuses readers until its Close has answered.     *)
StartClose(kind) ==
    /\ Producing
    /\ closing' = kind
    /\ UNCHANGED <<mode, log, suffix, doubled, claim, marked, gone, alive, rd, wire, faults>>

(* cancelOrphan: with no reader left the owner claims the stream and        *)
(* closes it with an error.                                                *)
ClaimOrphan ==
    /\ Producing
    /\ rd.pc \in {"off", "attach"}
    /\ claim' = TRUE
    /\ closing' = "error"
    /\ UNCHANGED <<mode, log, suffix, doubled, marked, gone, alive, rd, wire, faults>>

CloseCommits ==
    /\ alive
    /\ closing # "no"
    /\ log' = Append(log, closing)
    /\ closing' = "no"
    /\ UNCHANGED <<mode, suffix, doubled, claim, marked, gone, alive, rd, wire, faults>>

(* The claim's lifetime is bounded, and may end before the Close does.      *)
ClaimLapses ==
    /\ claim
    /\ claim' = FALSE
    /\ UNCHANGED <<mode, log, suffix, doubled, closing, marked, gone, alive, rd, wire, faults>>

(* An append or the Close fails, possibly after it was committed: the       *)
(* warning and the event are relayed without sequences.                    *)
JournalFails ==
    LET failed == IF closing = "no" THEN "chunk" ELSE closing IN
    /\ Producing \/ (alive /\ mode = "durable" /\ closing # "no")
    /\ failed = "chunk" => Produced < MaxEvents - 1
    /\ Fault
    /\ mode' = "degraded"
    /\ suffix' = <<"warning", failed>>
    /\ \/ doubled' = FALSE /\ log' = log
       \/ doubled' = TRUE /\ log' = Append(log, failed)
    /\ closing' = "no"
    /\ UNCHANGED <<claim, marked, gone, alive, rd, wire>>

(* An event of a generation that is not journaled.                         *)
RelayEvent(kind) ==
    /\ alive
    /\ mode = "degraded" \/ rd.pc = "bypass"
    /\ ~Ended(suffix)
    /\ Produced < IF kind = "chunk" THEN MaxEvents - 1 ELSE MaxEvents
    /\ mode = "bypass" => kind \in {"chunk", "done"}
    /\ suffix' = Append(suffix, kind)
    /\ UNCHANGED <<mode, log, doubled, closing, claim, marked, gone, alive, rd, wire, faults>>

(* tryMarkJournalDegraded, retried until it is answered; the script leaves  *)
(* a stream that is terminal as it is.                                      *)
MarkDegraded ==
    /\ alive
    /\ mode = "degraded"
    /\ ~marked /\ ~gone /\ ~Ended(log)
    /\ marked' = TRUE
    /\ UNCHANGED <<mode, log, suffix, doubled, closing, claim, gone, alive, rd, wire, faults>>

(* The journal's TTL is renewed while the owner produces.                  *)
Expire ==
    /\ log # <<>>
    /\ ~gone
    /\ Ended(log) \/ ~alive \/ marked
    /\ gone' = TRUE
    /\ UNCHANGED <<mode, log, suffix, doubled, closing, claim, marked, alive, rd, wire, faults>>

(* The owner's process ends: its own connections close.                    *)
Crash ==
    /\ alive
    /\ log # <<>>
    /\ Fault
    /\ alive' = FALSE
    /\ closing' = "no"
    /\ IF rd.pc \in {"local", "bypass"}
       THEN rd' = Off /\ wire' = Append(wire, Eof)
       ELSE UNCHANGED <<rd, wire>>
    /\ UNCHANGED <<mode, log, suffix, doubled, claim, marked, gone>>

-----------------------------------------------------------------------------
(* Attaching.  A handler answers once, with a status.                      *)

Answer(status, handler) ==
    /\ wire' = Append(wire, Control(status))
    /\ rd' = handler

Refuse(status) == Answer(status, Off)

Runtime == alive /\ mode \in {"durable", "degraded"} /\ ~gone

(* handleCompletion: a first POST creates the stream, or streams past the   *)
(* journal when it cannot be opened.  That leaves no trace of the key: the  *)
(* POST of a client that lost the response starts another generation, the  *)
(* first having ended with its request.                                    *)
PostCreates ==
    /\ rd.pc = "attach" /\ rd.post
    /\ mode \in {"none", "bypass"}
    /\ mode' = "durable"
    /\ log' = <<"open">>
    /\ suffix' = <<>>
    /\ Answer("ok", [rd EXCEPT !.pc = "local"])
    /\ UNCHANGED <<doubled, closing, claim, marked, gone, alive, faults>>

PostBypasses ==
    /\ rd.pc = "attach" /\ rd.post
    /\ mode \in {"none", "bypass"}
    /\ Fault
    /\ mode' = "bypass"
    /\ suffix' = <<>>
    /\ Answer("degraded", [rd EXCEPT !.pc = "bypass"])
    /\ UNCHANGED <<log, doubled, closing, claim, marked, gone, alive>>

Unsent == mode = "durable" /\ rd.cursor > 0 /\ rd.cursor = Len(log)

(* serveLocalJournal at the owner, reached directly or through the relay:   *)
(* a stream that is ending takes no reader; after the journal's failure     *)
(* only what was journaled is left to resume, and a cursor at its end has   *)
(* nothing.  A cursor beyond the boundary, which only the journal can have  *)
(* given, is left to the journal.  The relay passes 200, 409 and 410 on.  A *)
(* reader that attaches before the last commit was broadcast is sent that   *)
(* event again.                                                            *)
AttachOwner ==
    /\ rd.pc = "attach"
    /\ Runtime
    /\ CASE closing # "no" -> Refuse("409")
         [] closing = "no" /\ log[Len(log)] = "stopped" -> Refuse("410")
         [] closing = "no" /\ log[Len(log)] # "stopped"
              /\ mode = "degraded" /\ rd.cursor = Boundary -> Refuse("410")
         [] closing = "no" /\ log[Len(log)] # "stopped"
              /\ mode = "degraded" /\ rd.cursor > Boundary ->
              rd' = [rd EXCEPT !.pc = "state"] /\ UNCHANGED wire
         [] OTHER ->
              \E start \in {rd.cursor} \cup (IF Unsent THEN {rd.cursor - 1} ELSE {}) :
                 Answer("ok", [rd EXCEPT !.pc = "local", !.cursor = start,
                                         !.gap = (mode = "degraded")])
    /\ UNCHANGED <<streamVars, faults>>

(* Another proxy that finds no owner, or gets no answer from it, reads      *)
(* Redis.  The reader's lease is refused while the orphan claim is held.    *)
AcquireReader ==
    /\ rd.pc = "attach"
    /\ mode \in {"durable", "degraded"}
    /\ IF claim THEN Refuse("409")
       ELSE rd' = [rd EXCEPT !.pc = "state"] /\ UNCHANGED wire
    /\ UNCHANGED <<streamVars, faults>>

(* State, before Tail: the sentinel is decided here.                       *)
ReadState ==
    /\ rd.pc = "state"
    /\ IF gone THEN Refuse("410")
       ELSE /\ rd' = [rd EXCEPT !.pc = "tail",
                        !.sentinel = log[Len(log)] = "done" /\ rd.cursor = Len(log)]
            /\ UNCHANGED wire
    /\ UNCHANGED <<streamVars, faults>>

(* A call of the handler fails: the journal, or any backend for a POST.     *)
Unavailable ==
    /\ rd.pc \in {"attach", "state", "tail"}
    /\ Fault
    /\ Refuse("503")
    /\ UNCHANGED streamVars

(* Redis.Tail over boundedRedisSnapshot and validateRedisCursor.           *)
OpenTail ==
    /\ rd.pc = "tail"
    /\ IF gone \/ log[Len(log)] = "stopped" \/ (marked /\ rd.cursor = Len(log))
       THEN Refuse("410")
       ELSE Answer("ok", [rd EXCEPT !.pc = "tailing", !.src = "replay", !.through = Len(log),
                                    !.mark = marked, !.over = Ended(log)])
    /\ UNCHANGED <<streamVars, faults>>

-----------------------------------------------------------------------------
(* runTail and the delivery pump: the goroutine hands an entry or an error  *)
(* to the pump, which queues it or evicts the reader.                      *)

Entry(e) == [seq |-> e, err |-> "none"]
Failure(err) == [seq |-> 0, err |-> err]

Hand(h, item, src) ==
    IF item.err = "none" /\ h.pend # <<>> /\ Len(h.pend) + 1 > MaxLag
    THEN [h EXCEPT !.pend = <<Failure("lag")>>, !.src = "closed"]
    ELSE [h EXCEPT !.pend = Append(@, item), !.src = src,
                   !.cursor = IF item.err = "none" THEN item.seq ELSE @]

(* The next entry, after which the tail goes on as src unless it was the    *)
(* terminal one.                                                           *)
HandNext(h, src) ==
    Hand(h, Entry(h.cursor + 1), IF log[h.cursor + 1] \in Terminals THEN "closed" ELSE src)

(* replayRedisRange up to the snapshot's last sequence.                    *)
TailReplay ==
    /\ rd.src = "replay"
    /\ rd' = IF rd.cursor < rd.through
             THEN IF gone THEN Hand(rd, Failure("offset"), "closed")
                          ELSE HandNext(rd, "replay")
             ELSE IF rd.mark THEN Hand(rd, Failure("offset"), "closed")
             ELSE [rd EXCEPT !.src = IF rd.over THEN "closed" ELSE "live"]
    /\ UNCHANGED <<streamVars, wire, faults>>

(* The loop's head and XREAD: one entry, or none within the block.         *)
TailRead ==
    /\ rd.src = "live"
    /\ rd' = IF rd.mark /\ rd.cursor >= rd.through THEN Hand(rd, Failure("offset"), "closed")
             ELSE IF rd.over /\ rd.cursor >= rd.through THEN [rd EXCEPT !.src = "closed"]
             ELSE IF Len(log) > rd.cursor /\ ~gone THEN HandNext(rd, "live")
             ELSE [rd EXCEPT !.src = "header"]
    /\ UNCHANGED <<streamVars, wire, faults>>

(* header and decodeState after an empty read.                             *)
TailHeader ==
    /\ rd.src = "header"
    /\ rd' = IF gone THEN Hand(rd, Failure("other"), "closed")
             ELSE [rd EXCEPT !.through = Len(log), !.mark = marked, !.over = Ended(log),
                             !.src = IF Len(log) > rd.cursor THEN "range" ELSE "live"]
    /\ UNCHANGED <<streamVars, wire, faults>>

(* XRANGE of an entry that was committed after the empty read.             *)
TailRange ==
    /\ rd.src = "range"
    /\ rd' = IF gone THEN Hand(rd, Failure("offset"), "closed") ELSE HandNext(rd, "live")
    /\ UNCHANGED <<streamVars, wire, faults>>

(* A Redis call fails.  During replay, and for an XRANGE, the error is       *)
(* wrapped as ErrOffsetExpired.                                            *)
TailFails ==
    /\ \/ rd.src = "replay" /\ rd.cursor < rd.through
       \/ rd.src \in {"live", "header", "range"}
    /\ Fault
    /\ rd' = Hand(rd, Failure(IF rd.src \in {"replay", "range"} THEN "offset" ELSE "other"),
                  "closed")
    /\ UNCHANGED <<streamVars, wire>>

-----------------------------------------------------------------------------
(* The handlers' loops.  A write waits while the connection is full.       *)

Writable == Len(wire) < SocketCap

Ends(frames) == wire' = wire \o Append(frames, Eof) /\ rd' = Off

(* Mutant: an evicted reader's response ends like a finished one.          *)
ServeItemSilently ==
    /\ rd.pc = "tailing"
    /\ rd.pend # <<>>
    /\ Writable
    /\ LET item == Head(rd.pend) IN
       CASE item.err = "lag" -> Ends(<<Control("sentinel")>>)
         [] item.err = "offset" -> Ends(<<Control("expired")>>)
         [] item.err = "other" -> Ends(<<>>)
         [] OTHER -> IF log[item.seq] \in Terminals THEN Ends(Frames(item.seq))
                     ELSE wire' = wire \o Frames(item.seq) /\ rd' = [rd EXCEPT !.pend = Tail(@)]
    /\ UNCHANGED <<streamVars, faults>>

(* serveJournalTail without a subscription: an entry or an error.          *)
ServeItem ==
    /\ rd.pc = "tailing"
    /\ rd.pend # <<>>
    /\ Writable
    /\ LET item == Head(rd.pend) IN
       CASE item.err = "lag" -> Ends(<<Control("lag")>>)
         [] item.err = "offset" -> Ends(<<Control("expired")>>)
         [] item.err = "other" -> Ends(<<>>)
         [] OTHER -> IF log[item.seq] \in Terminals THEN Ends(Frames(item.seq))
                     ELSE wire' = wire \o Frames(item.seq) /\ rd' = [rd EXCEPT !.pend = Tail(@)]
    /\ UNCHANGED <<streamVars, faults>>

(* The tail's channel is closed: a cursor at a done terminal gets the       *)
(* sentinel alone.                                                         *)
ServeEnds ==
    /\ rd.pc = "tailing"
    /\ rd.pend = <<>>
    /\ rd.src = "closed"
    /\ Ends(IF rd.sentinel THEN <<Control("sentinel")>> ELSE <<>>)
    /\ UNCHANGED <<streamVars, faults>>

(* The owner's reader: its next event, the gap a resume cannot cross, or    *)
(* the end of a stream it had read already.  At the boundary the feed's     *)
(* warning may come before the tail has the event that was journaled all    *)
(* the same.                                                               *)
ServeLocal ==
    /\ rd.pc = "local"
    /\ Writable
    /\ \E next \in {rd.cursor + 1} \cup (IF doubled /\ rd.cursor = Boundary
                                         THEN {rd.cursor + 2} ELSE {}) :
       IF rd.gap /\ rd.cursor >= Boundary THEN Ends(<<Control("expired")>>)
       ELSE IF next <= Len(Generation)
       THEN IF Generation[next] \in Terminals THEN Ends(Frames(next))
            ELSE wire' = wire \o Frames(next) /\ rd' = [rd EXCEPT !.cursor = next]
       ELSE /\ Ended(Generation)
            /\ Ends(IF Generation[rd.cursor] = "done" THEN <<Control("sentinel")>> ELSE <<>>)
    /\ UNCHANGED <<streamVars, faults>>

LagLocal ==
    /\ rd.pc = "local"
    /\ Len(Generation) > rd.cursor + MaxLag
    /\ Ends(<<Control("lag")>>)
    /\ UNCHANGED <<streamVars, faults>>

(* serveDegradedCompletion: the backend's own stream, [DONE] included.      *)
ServeBypass ==
    /\ rd.pc = "bypass"
    /\ Writable
    /\ rd.cursor < Len(suffix)
    /\ IF suffix[rd.cursor + 1] = "done" THEN Ends(<<Control("sentinel")>>)
       ELSE wire' = Append(wire, Event(rd.cursor + 1)) /\ rd' = [rd EXCEPT !.cursor = @ + 1]
    /\ UNCHANGED <<streamVars, faults>>

(* The network or a proxy fails, or a write misses its deadline: what is    *)
(* on the wire may be lost.                                                *)
Disconnect ==
    /\ rd.pc # "off" \/ wire # <<>>
    /\ Fault
    /\ rd' = Off
    /\ wire' \in {<<Eof>>, Append(wire, Eof)}
    /\ UNCHANGED streamVars

-----------------------------------------------------------------------------
TailInit ==
    /\ mode = "none"
    /\ log = <<>> /\ suffix = <<>> /\ doubled = FALSE
    /\ closing = "no" /\ claim = FALSE
    /\ marked = FALSE /\ gone = FALSE /\ alive = TRUE
    /\ rd = Off /\ wire = <<>> /\ faults = 0

Owner ==
    \/ AppendChunk \/ \E kind \in Terminals : StartClose(kind)
    \/ ClaimOrphan \/ CloseCommits \/ ClaimLapses
    \/ JournalFails \/ \E kind \in {"chunk"} \cup Terminals : RelayEvent(kind)
    \/ MarkDegraded \/ Crash

Attaching == PostCreates \/ PostBypasses \/ AttachOwner
             \/ AcquireReader \/ ReadState \/ Unavailable \/ OpenTail

Tailing == TailReplay \/ TailRead \/ TailHeader \/ TailRange \/ TailFails

Serving == ServeItem \/ ServeEnds \/ ServeLocal \/ LagLocal \/ ServeBypass
=============================================================================
