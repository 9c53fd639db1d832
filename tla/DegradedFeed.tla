---------------------------- MODULE DegradedFeed ----------------------------
(***************************************************************************)
(* How one stream's events reach its readers (internal/proxy):              *)
(* serveInitialJournal, serveLocalJournal, serveJournalTail and             *)
(* serveDegradedFeed of durable_http.go, over the process-local relay of    *)
(* degradation.go that shadows every commit so that a reader can leave a    *)
(* failed journal tail without losing an event.                             *)
(*                                                                         *)
(* The generation's events are numbered in the order the producer accepts   *)
(* them: 1 is open, Last is terminal.  Appends are in that order, so the    *)
(* journal is the prefix 1..committed and an event's sequence is its        *)
(* number.  The producer holds writeMu through a commit and its broadcast;  *)
(* readers run between its steps.  A frame counts one against the lag       *)
(* budget.  The client applies a sequenced frame only above the cursor it   *)
(* holds (packages/client, #handleFrame); `repeated' records that the       *)
(* server sent one that is not.                                             *)
(***************************************************************************)
EXTENDS Naturals, Sequences, FiniteSets

CONSTANTS Readers,     \* requests that read the stream
          Last,        \* the terminal event
          MaxLag,      \* maxLagBytes, in frames
          Ambiguous,   \* an append may fail after it was committed
          MaxFaults    \* bound: tail and state errors, disconnects

ASSUME FeedAssumption ==
    /\ Last \in Nat /\ Last > 1
    /\ MaxLag \in Nat /\ MaxFaults \in Nat
    /\ Ambiguous \in BOOLEAN

VARIABLES
    committed, \* length of the journal
    marked,    \* MarkDegraded reached the journal
    prod,      \* the producer under writeMu
    feed,      \* degradedFeed
    sub,       \* degradedSubscriber of each reader
    rd,        \* each reader's handler
    faults     \* used faults

vars == <<committed, marked, prod, feed, sub, rd, faults>>

Warning == 0

Shadow(e) == [seq |-> e, ev |-> e]        \* publishCommitted
Unsequenced(e) == [seq |-> 0, ev |-> e]   \* degradedChunkFrame and its kin

-----------------------------------------------------------------------------
(* The feed.                                                               *)

NoSub == [here |-> FALSE, queue |-> <<>>, acked |-> 0, lagged |-> FALSE]

(* Mutant: an eviction forgets the flag that stops the reader.             *)
EnqueueDropping(s, frame) ==
    IF ~s.here \/ s.lagged \/ (frame.seq # 0 /\ frame.seq <= s.acked)
    THEN s
    ELSE IF s.queue # <<>> /\ Len(s.queue) + 1 > MaxLag
    THEN s
    ELSE [s EXCEPT !.queue = Append(@, frame)]

(* enqueueSecondary: never blocks; a reader over its budget is evicted.     *)
Enqueue(s, frame) ==
    IF ~s.here \/ s.lagged \/ feed.closed \/ (frame.seq # 0 /\ frame.seq <= s.acked)
    THEN s
    ELSE IF s.queue # <<>> /\ Len(s.queue) + 1 > MaxLag
    THEN [s EXCEPT !.queue = <<>>, !.lagged = TRUE]
    ELSE [s EXCEPT !.queue = Append(@, frame)]

(* acknowledge: drops the queued shadows up to seq.                        *)
Acknowledge(s, seq) ==
    LET keep == {i \in 1..Len(s.queue) :
                    \E j \in 1..i : s.queue[j].seq = 0 \/ s.queue[j].seq > seq}
        kept == SubSeq(s.queue, Len(s.queue) - Cardinality(keep) + 1, Len(s.queue))
    IN  IF ~s.here \/ seq <= s.acked THEN s ELSE [s EXCEPT !.acked = seq, !.queue = kept]

-----------------------------------------------------------------------------
(* The producer: appendChunk, appendNonTerminal and finish under writeMu.  *)

Broadcasting(frames) == [prod EXCEPT !.pc = "frames", !.frames = frames]

(* A commit, or an event of a stream that is degraded already.             *)
Produce ==
    /\ prod.pc = "idle"
    /\ IF prod.degraded
       THEN /\ prod' = Broadcasting(<<Unsequenced(prod.ev)>>)
            /\ UNCHANGED committed
       ELSE /\ committed' = committed + 1
            /\ prod' = Broadcasting(<<Shadow(prod.ev)>>)
    /\ UNCHANGED <<marked, feed, sub, rd, faults>>

(* The append fails: enterJournalDegradedLocked relays the warning, then    *)
(* the event.  An ambiguous failure left the event in the journal.          *)
ProduceFails ==
    /\ prod.pc = "idle"
    /\ ~prod.degraded
    /\ committed' \in IF Ambiguous THEN {committed, committed + 1} ELSE {committed}
    /\ prod' = [prod EXCEPT !.pc = "activate", !.degraded = TRUE,
                            !.frames = <<Unsequenced(Warning), Unsequenced(prod.ev)>>]
    /\ UNCHANGED <<marked, feed, sub, rd, faults>>

(* activate: the boundary is the runtime's last sequence.                  *)
Activate ==
    /\ prod.pc = "activate"
    /\ feed' = [feed EXCEPT !.active = TRUE, !.boundary = prod.ev - 1]
    /\ prod' = [prod EXCEPT !.pc = "frames"]
    /\ UNCHANGED <<committed, marked, sub, rd, faults>>

(* broadcast: the ids are taken under the lock, then each is served.       *)
Broadcast ==
    /\ prod.pc = "frames"
    /\ prod.frames # <<>>
    /\ prod' = [prod EXCEPT !.pc = "send", !.targets = {r \in Readers : sub[r].here}]
    /\ UNCHANGED <<committed, marked, feed, sub, rd, faults>>

Send(r) ==
    /\ prod.pc = "send"
    /\ r \in prod.targets
    /\ sub' = [sub EXCEPT ![r] = Enqueue(@, Head(prod.frames))]
    /\ prod' = [prod EXCEPT !.targets = @ \ {r}]
    /\ UNCHANGED <<committed, marked, feed, rd, faults>>

Sent ==
    /\ prod.pc = "send"
    /\ prod.targets = {}
    /\ prod' = [prod EXCEPT !.pc = "frames", !.frames = Tail(@)]
    /\ UNCHANGED <<committed, marked, feed, sub, rd, faults>>

(* Mutant: the feed is not closed after the terminal event.                *)
ProducedOpen ==
    /\ prod.pc = "frames"
    /\ prod.frames = <<>>
    /\ prod' = [prod EXCEPT !.pc = IF prod.ev = Last THEN "done" ELSE "idle",
                            !.ev = @ + 1,
                            !.first = IF @ = 0 /\ ~prod.degraded THEN prod.ev ELSE @]
    /\ UNCHANGED <<committed, marked, feed, sub, rd, faults>>

(* publishFirst after a commit; close after the terminal event.            *)
Produced ==
    /\ prod.pc = "frames"
    /\ prod.frames = <<>>
    /\ prod' = [prod EXCEPT !.pc = IF prod.ev = Last THEN "done" ELSE "idle",
                            !.ev = @ + 1,
                            !.first = IF @ = 0 /\ ~prod.degraded THEN prod.ev ELSE @]
    /\ feed' = IF prod.ev = Last THEN [feed EXCEPT !.closed = TRUE] ELSE feed
    /\ UNCHANGED <<committed, marked, sub, rd, faults>>

(* tryMarkJournalDegraded succeeds in the background, or never.            *)
MarkDegraded ==
    /\ prod.degraded
    /\ ~marked
    /\ marked' = TRUE
    /\ UNCHANGED <<committed, prod, feed, sub, rd, faults>>

-----------------------------------------------------------------------------
(* Readers.                                                                *)

Fault == faults < MaxFaults /\ faults' = faults + 1

Step(r, next) == rd' = [rd EXCEPT ![r] = next]

(* The handler returns; its deferred unsubscribe runs.                     *)
Finish(r, why) ==
    /\ Step(r, [rd[r] EXCEPT !.pc = "ended", !.end = why])
    /\ sub' = [sub EXCEPT ![r] = NoSub]

(* What the client makes of a frame the handler writes.                    *)
Written(reader, frame) ==
    IF frame.seq # 0 /\ frame.seq <= reader.seen
    THEN [reader EXCEPT !.repeated = TRUE]
    ELSE [reader EXCEPT !.out = Append(@, frame.ev),
                        !.seen = IF frame.seq # 0 THEN frame.seq ELSE @]

(* serveInitialJournal: the open entry, acknowledged.                      *)
WriteOpen(r) ==
    /\ rd[r].pc = "open"
    /\ Step(r, [Written(rd[r], Shadow(1)) EXCEPT !.pc = "first"])
    /\ sub' = [sub EXCEPT ![r] = Acknowledge(@, 1)]
    /\ UNCHANGED <<committed, marked, prod, feed, faults>>

TakeFirst(r) ==
    /\ rd[r].pc = "first"
    /\ prod.first # 0
    /\ Step(r, [Written(rd[r], Shadow(prod.first)) EXCEPT !.pc = "ackFirst"])
    /\ UNCHANGED <<committed, marked, prod, feed, sub, faults>>

FirstActivated(r) ==
    /\ rd[r].pc = "first"
    /\ feed.active
    /\ Step(r, [rd[r] EXCEPT !.pc = "feed"])
    /\ UNCHANGED <<committed, marked, prod, feed, sub, faults>>

AckFirst(r) ==
    /\ rd[r].pc = "ackFirst"
    /\ IF prod.first = Last
       THEN Finish(r, "terminal")
       ELSE /\ sub' = [sub EXCEPT ![r] = Acknowledge(@, prod.first)]
            /\ Step(r, [rd[r] EXCEPT !.pc = "openTail", !.last = prod.first, !.start = prod.first])
    /\ UNCHANGED <<committed, marked, prod, feed, faults>>

(* serveLocalJournal: the cursor is checked against an active feed.        *)
CheckBoundary(r, inactive) ==
    IF feed.active
    THEN IF rd[r].last = feed.boundary
         THEN Finish(r, "expired")
         ELSE /\ Step(r, [rd[r] EXCEPT !.pc = "state",
                                       !.gap = IF rd[r].last < feed.boundary THEN feed.boundary ELSE 0])
              /\ UNCHANGED sub
    ELSE /\ Step(r, [rd[r] EXCEPT !.pc = inactive])
         /\ UNCHANGED sub

(* The request arrives with a cursor its client got from the journal.      *)
Attach(r) ==
    /\ rd[r].pc = "away"
    /\ \E cursor \in 0..committed :
          Step(r, [rd[r] EXCEPT !.pc = "status", !.last = cursor, !.seen = cursor, !.cursor = cursor])
    /\ UNCHANGED <<committed, marked, prod, feed, sub, faults>>

FeedStatus(r) ==
    /\ rd[r].pc = "status"
    /\ CheckBoundary(r, "subscribe")
    /\ UNCHANGED <<committed, marked, prod, feed, faults>>

Subscribe(r) ==
    /\ rd[r].pc = "subscribe"
    /\ IF feed.active \/ feed.closed
       THEN /\ Step(r, [rd[r] EXCEPT !.pc = "again"])
            /\ UNCHANGED sub
       ELSE /\ sub' = [sub EXCEPT ![r] = [NoSub EXCEPT !.here = TRUE]]
            /\ Step(r, [rd[r] EXCEPT !.pc = "state"])
    /\ UNCHANGED <<committed, marked, prod, feed, faults>>

FeedStatusAgain(r) ==
    /\ rd[r].pc = "again"
    /\ CheckBoundary(r, "state")
    /\ UNCHANGED <<committed, marked, prod, feed, faults>>

(* Mutant: the relay may take over at the cursor.                          *)
ReadStateAtCursor(r) ==
    /\ rd[r].pc = "state"
    /\ Step(r, [rd[r] EXCEPT !.pc = "openTail", !.start = rd[r].last])
    /\ UNCHANGED <<committed, marked, prod, feed, sub, faults>>

(* journal.State: what was committed before it is the tail's to deliver.    *)
ReadState(r) ==
    /\ rd[r].pc = "state"
    /\ Step(r, [rd[r] EXCEPT !.pc = "openTail", !.start = committed])
    /\ UNCHANGED <<committed, marked, prod, feed, sub, faults>>

(* journal.Tail, which refuses a cursor at the boundary of a marked stream. *)
OpenTail(r) ==
    /\ rd[r].pc = "openTail"
    /\ IF marked /\ rd[r].last = committed
       THEN IF rd[r].initial
            THEN Step(r, [rd[r] EXCEPT !.pc = "feed"]) /\ UNCHANGED sub
            ELSE Finish(r, "expired")
       ELSE Step(r, [rd[r] EXCEPT !.pc = "loop"]) /\ UNCHANGED sub
    /\ UNCHANGED <<committed, marked, prod, feed, faults>>

(* State or Tail fails.  The initial reader's subscription predates every   *)
(* commit and serves on its own.                                            *)
OpenFails(r) ==
    /\ rd[r].pc \in {"state", "openTail"}
    /\ Fault
    /\ IF rd[r].initial
       THEN Step(r, [rd[r] EXCEPT !.pc = "feed"]) /\ UNCHANGED sub
       ELSE Finish(r, "refused")
    /\ UNCHANGED <<committed, marked, prod, feed>>

-----------------------------------------------------------------------------
(* serveJournalTail.                                                       *)

AtGap(r) == rd[r].gap # 0 /\ rd[r].last >= rd[r].gap

MayRelay(r) == sub[r].here /\ rd[r].last >= rd[r].start

(* Nothing to do before the select.                                        *)
Selecting(r) == rd[r].pc = "loop" /\ ~AtGap(r) /\ ~(rd[r].deg /\ MayRelay(r))

TailAtGap(r) ==
    /\ rd[r].pc = "loop"
    /\ AtGap(r)
    /\ Finish(r, "expired")
    /\ UNCHANGED <<committed, marked, prod, feed, faults>>

TailToFeed(r) ==
    /\ rd[r].pc = "loop"
    /\ ~AtGap(r)
    /\ rd[r].deg
    /\ MayRelay(r)
    /\ Step(r, [rd[r] EXCEPT !.pc = "feed"])
    /\ UNCHANGED <<committed, marked, prod, feed, sub, faults>>

TailActivated(r) ==
    /\ Selecting(r)
    /\ sub[r].here
    /\ feed.active
    /\ ~rd[r].deg
    /\ Step(r, [rd[r] EXCEPT !.deg = TRUE])
    /\ UNCHANGED <<committed, marked, prod, feed, sub, faults>>

Evicted(r) ==
    /\ Selecting(r) \/ rd[r].pc \in {"first", "feed"}
    /\ sub[r].here
    /\ sub[r].lagged
    /\ Finish(r, "lag")
    /\ UNCHANGED <<committed, marked, prod, feed, faults>>

TailEntry(r) ==
    /\ Selecting(r)
    /\ rd[r].last < committed
    /\ Step(r, [Written(rd[r], Shadow(rd[r].last + 1)) EXCEPT !.pc = "ack", !.last = @ + 1])
    /\ UNCHANGED <<committed, marked, prod, feed, sub, faults>>

TailAck(r) ==
    /\ rd[r].pc = "ack"
    /\ IF rd[r].last = Last
       THEN Finish(r, "terminal")
       ELSE /\ sub' = [sub EXCEPT ![r] = Acknowledge(@, rd[r].last)]
            /\ Step(r, [rd[r] EXCEPT !.pc = "loop"])
    /\ UNCHANGED <<committed, marked, prod, feed, faults>>

(* The tail ends: by an error, after the terminal entry, or at the boundary *)
(* of a marked stream.  A reader whose cursor is the terminal entry gets    *)
(* the sentinel.                                                            *)
TailEnds(r, why) ==
    IF MayRelay(r)
    THEN Step(r, [rd[r] EXCEPT !.pc = "feed"]) /\ UNCHANGED sub
    ELSE Finish(r, why)

TailFails(r) ==
    /\ Selecting(r)
    /\ Fault
    /\ TailEnds(r, "cut")
    /\ UNCHANGED <<committed, marked, prod, feed>>

TailCloses(r) ==
    /\ Selecting(r)
    /\ rd[r].last = Last
    /\ TailEnds(r, "terminal")
    /\ UNCHANGED <<committed, marked, prod, feed, faults>>

TailExpires(r) ==
    /\ Selecting(r)
    /\ marked
    /\ rd[r].last = committed
    /\ TailEnds(r, "expired")
    /\ UNCHANGED <<committed, marked, prod, feed, faults>>

-----------------------------------------------------------------------------
(* serveDegradedFeed: subscription.next and the write.                     *)

FeedFrame(r) ==
    /\ rd[r].pc = "feed"
    /\ ~sub[r].lagged
    /\ sub[r].queue # <<>>
    /\ LET frame == Head(sub[r].queue)
       IN  IF frame.ev = Last
           THEN /\ Step(r, [Written(rd[r], frame) EXCEPT !.pc = "ended", !.end = "terminal"])
                /\ sub' = [sub EXCEPT ![r] = NoSub]
           ELSE /\ Step(r, Written(rd[r], frame))
                /\ sub' = [sub EXCEPT ![r].queue = Tail(@)]
    /\ UNCHANGED <<committed, marked, prod, feed, faults>>

FeedEnds(r) ==
    /\ rd[r].pc = "feed"
    /\ ~sub[r].lagged
    /\ sub[r].queue = <<>>
    /\ feed.closed
    /\ Finish(r, IF rd[r].cursor = Last THEN "terminal" ELSE "short")
    /\ UNCHANGED <<committed, marked, prod, feed, faults>>

(* The request's context ends.                                             *)
Disconnect(r) ==
    /\ rd[r].pc \notin {"away", "ended"}
    /\ Fault
    /\ Finish(r, "gone")
    /\ UNCHANGED <<committed, marked, prod, feed>>

-----------------------------------------------------------------------------
Reader(initial) ==
    [pc |-> IF initial THEN "open" ELSE "away", initial |-> initial, cursor |-> 0, last |-> 0, start |-> 0, gap |-> 0, deg |-> FALSE,
     seen |-> 0, out |-> <<>>, repeated |-> FALSE, end |-> "none"]

(* handleCompletion after Open: the reader of the request that opened the   *)
(* stream subscribes before the producer starts, unless its client is gone. *)
Init ==
    /\ committed = 1
    /\ marked = FALSE
    /\ prod = [pc |-> "idle", ev |-> 2, degraded |-> FALSE, frames |-> <<>>, targets |-> {}, first |-> 0]
    /\ feed = [active |-> FALSE, boundary |-> 0, closed |-> FALSE]
    /\ \E opener \in SUBSET Readers :
          /\ Cardinality(opener) <= 1
          /\ sub = [r \in Readers |-> [NoSub EXCEPT !.here = r \in opener]]
          /\ rd = [r \in Readers |-> Reader(r \in opener)]
    /\ faults = 0

Producer ==
    \/ Produce \/ ProduceFails \/ Activate \/ Broadcast \/ Sent \/ Produced
    \/ \E r \in Readers : Send(r)

Handler(r) ==
    \/ WriteOpen(r) \/ TakeFirst(r) \/ FirstActivated(r) \/ AckFirst(r)
    \/ FeedStatus(r) \/ Subscribe(r) \/ FeedStatusAgain(r) \/ ReadState(r) \/ OpenTail(r)
    \/ TailAtGap(r) \/ TailToFeed(r) \/ TailActivated(r) \/ Evicted(r)
    \/ TailEntry(r) \/ TailAck(r) \/ TailCloses(r) \/ TailExpires(r)
    \/ FeedFrame(r) \/ FeedEnds(r)

Next ==
    \/ Producer
    \/ MarkDegraded
    \/ \E r \in Readers : Handler(r) \/ OpenFails(r) \/ TailFails(r) \/ Disconnect(r) \/ Attach(r)

(* The producer's goroutine and the handlers run; MarkDegraded, faults and  *)
(* new requests are never owed.                                             *)
Fairness ==
    /\ WF_vars(Producer)
    /\ \A r \in Readers : WF_vars(Handler(r))

Spec == Init /\ [][Next]_vars /\ Fairness

-----------------------------------------------------------------------------
(* Properties.                                                             *)

Events(out) == SelectSeq(out, LAMBDA e : e # Warning)

(* What a reader's client holds after its cursor is the generation without  *)
(* a gap or a duplicate, across replay, live tail and relay; the warning    *)
(* comes once, right before the first event that has no sequence.           *)
SuffixExact ==
    \A r \in Readers :
        LET out == rd[r].out
            events == Events(out)
        IN  /\ \A i \in 1..Len(events) : events[i] = rd[r].cursor + i
            /\ \A i \in 1..Len(out) :
                  out[i] = Warning <=> i = rd[r].seen - rd[r].cursor + 1

(* A response that ends by itself in the relay has its terminal event, and  *)
(* one that reports the terminal event delivered everything before it.      *)
EndHonest ==
    \A r \in Readers :
        /\ rd[r].end = "terminal" => Len(Events(rd[r].out)) = Last - rd[r].cursor
        /\ rd[r].end # "short"
        /\ rd[r].end = "expired" => prod.degraded

(* The server never sends an entry at or below the cursor of the request.   *)
CursorExclusive == \A r \in Readers : ~rd[r].repeated

(* Every attached reader's response ends, whatever the journal and the feed *)
(* do. (How it ends is EndHonest's; a tail error other than lag or expiry   *)
(* ends it without a word, and the client resumes.)                         *)
ReadersEnd ==
    \A r \in Readers : rd[r].pc # "away" ~> rd[r].pc = "ended"

=============================================================================
