---------------------------- MODULE MemoryJournal ----------------------------
(***************************************************************************)
(* The in-process journal (internal/journal/memory.go): retained entries,  *)
(* byte limits, expiry, LRU eviction, and the goroutine of every Tail. One *)
(* action is one critical section of Memory.mu, or one channel operation   *)
(* of a tail's goroutine or of its consumer.                               *)
(*                                                                         *)
(* runTail takes deliveryMu between m.mu and its select. A goroutine that  *)
(* is about to take it and one blocked in the select behave alike: when    *)
(* the tail is stopped with discard the buffer is drained, and the select  *)
(* may still choose to send.                                               *)
(***************************************************************************)
EXTENDS Naturals, Sequences, FiniteSets, FiniteSetsExt

CONSTANTS
    Streams, Tails,
    Sizes,              \* encoded sizes of an entry
    MaxBytesPerStream, MaxTotalBytes, ReaderMaxLagBytes,
    TTL,                \* retention of every stream
    MaxSeq,             \* math.MaxUint64
    MaxTime,            \* bound: the clock stops here
    NoStream

ASSUME JournalConstants ==
    /\ Sizes \subseteq Nat \ {0}
    /\ MaxBytesPerStream \in Nat \ {0} /\ MaxTotalBytes \in Nat \ {0}
    /\ ReaderMaxLagBytes \in Nat \ {0} /\ TTL \in Nat \ {0}
    /\ MaxSeq \in Nat \ {0} /\ MaxTime \in Nat /\ NoStream \notin Streams

VARIABLES
    now,
    stream,      \* the memoryStream of every identifier
    tombstone,   \* until when an identifier is remembered as expired; 0 for not
    lru,         \* terminalLRU, front first
    totalBytes,
    tail         \* the tailReader of every Tail call, its goroutine and consumer

vars == <<now, stream, tombstone, lru, totalBytes, tail>>

Terminals == {"done", "error", "stopped"}

\* What is left of a stream that was removed, or never opened.
Gone == [status |-> "gone", entries |-> <<>>, bytes |-> 0, earliestSeq |-> 0, lastSeq |-> 0,
         resumable |-> FALSE, degraded |-> FALSE, expiresAt |-> 0]

NoEntry == [seq |-> 0, kind |-> "none", size |-> 0]

\* pc is where runTail is; got is the last entry the consumer received, ended
\* how it saw the channel end.
NoTail == [pc |-> "none", stream |-> NoStream, cursor |-> 0, liveAfter |-> 0, liveLag |-> 0,
           inFlight |-> NoEntry, stopped |-> FALSE, stopErr |-> "", wake |-> FALSE,
           out |-> <<>>, ctxDone |-> FALSE, canceled |-> FALSE, got |-> NoEntry, ended |-> ""]

Init ==
    /\ now = 1
    /\ stream = [s \in Streams |-> Gone] /\ tombstone = [s \in Streams |-> 0]
    /\ lru = <<>> /\ totalBytes = 0
    /\ tail = [r \in Tails |-> NoTail]

Live == {s \in Streams : stream[s].status # "gone"}
Attached == {r \in Tails : tail[r].pc # "none" /\ ~tail[r].stopped}

SizeOf(entries) == MapThenSumSet(LAMBDA i : entries[i].size, DOMAIN entries)
BytesOf(S) == MapThenSumSet(LAMBDA s : stream[s].bytes, S)

-----------------------------------------------------------------------------
(* Removal: cleanupExpiredLocked runs first in every operation.              *)

Expired == {s \in Live : /\ stream[s].status # "open" \/ stream[s].degraded
                         /\ now >= stream[s].expiresAt}

\* lookupLocked finds the stream.
Found(s) == s \in Live \ Expired

BuriedUntil(s) ==
    IF s \in Expired THEN stream[s].expiresAt + TTL ELSE tombstone[s]

stopTailLocked(t, reason, discard) ==
    IF t.stopped THEN t
    ELSE [t EXCEPT !.stopped = TRUE, !.stopErr = reason, !.out = IF discard THEN <<>> ELSE @]

Kept(victims) == [s \in Streams |-> IF s \in Expired \cup victims THEN Gone ELSE stream[s]]

\* The end of every operation: the expired streams and the victims are removed,
\* the rest is as the operation leaves it.
Finish(victims, streams, added, order, tails) ==
    LET removed == Expired \cup victims IN
    /\ stream' = streams
    /\ totalBytes' = (totalBytes - BytesOf(removed)) + added
    /\ lru' = SelectSeq(order, LAMBDA s : s \notin removed)
    /\ tombstone' = [s \in Streams |->
                        IF s \in victims THEN now + TTL
                        ELSE IF now < BuriedUntil(s) THEN BuriedUntil(s) ELSE 0]
    /\ tail' = [r \in Tails |-> IF r \in Attached /\ tail[r].stream \in removed
                                THEN stopTailLocked(tail[r], "expired", TRUE) ELSE tails[r]]
    /\ UNCHANGED now

\* An operation that fails, or only looks, still cleans up.
CleanupOnly == Finish({}, Kept({}), 0, lru, tail)

-----------------------------------------------------------------------------
(* Room for an entry: makeRoomLocked.                                         *)

\* Mutant: the limit is met before the new entry is added.
TrimTooLate(s, size) ==
    Min({k \in 0..Len(stream[s].entries) :
            stream[s].bytes - SizeOf(SubSeq(stream[s].entries, 1, k)) <= MaxBytesPerStream})

\* How many of the oldest entries give way under the stream's own limit.
TrimCount(s, size) ==
    Min({k \in 0..Len(stream[s].entries) :
            stream[s].bytes - SizeOf(SubSeq(stream[s].entries, 1, k)) <= MaxBytesPerStream - size})

CleanLRU == SelectSeq(lru, LAMBDA s : s \notin Expired)
Coldest(k) == {CleanLRU[i] : i \in (Len(CleanLRU) - k + 1)..Len(CleanLRU)}

\* How many terminal streams, coldest first, free enough of the total limit when
\* base bytes stay; none does when only active streams remain.
EnoughVictims(base, size) ==
    {k \in 0..Len(CleanLRU) : base + size <= MaxTotalBytes + BytesOf(Coldest(k))}

Victims(base, size) == Coldest(Min(EnoughVictims(base, size)))

-----------------------------------------------------------------------------
(* Open, Append, Close, MarkDegraded, Read and State.                         *)

Open(s, size) ==
    LET base == totalBytes - BytesOf(Expired) IN
    IF \/ Found(s) \/ now < BuriedUntil(s)
       \/ size > MaxBytesPerStream \/ EnoughVictims(base, size) = {}
    THEN CleanupOnly
    ELSE LET victims == Victims(base, size) IN
         Finish(victims,
                [Kept(victims) EXCEPT ![s] =
                    [status |-> "open", bytes |-> size, earliestSeq |-> 1, lastSeq |-> 1,
                     entries |-> <<[seq |-> 1, kind |-> "open", size |-> size]>>,
                     resumable |-> TRUE, degraded |-> FALSE, expiresAt |-> now + TTL]],
                size, lru, tail)

\* Mutant: readers are not woken.
PublishedSilently(t, earliest, size) ==
    IF \/ earliest > 1 /\ Max({t.cursor, t.inFlight.seq}) < earliest - 1
       \/ t.liveLag + size > ReaderMaxLagBytes + t.inFlight.size
    THEN stopTailLocked(t, "lagged", TRUE)
    ELSE [t EXCEPT !.liveLag = @ + size]

\* dropReadersBehindRingLocked, then publishLocked, for one reader of the stream.
Published(t, earliest, size) ==
    LET cursor == Max({t.cursor, t.inFlight.seq})
        lag == t.liveLag + size IN
    IF \/ earliest > 1 /\ cursor < earliest - 1
       \/ lag > ReaderMaxLagBytes + t.inFlight.size
    THEN stopTailLocked(t, "lagged", TRUE)
    ELSE [t EXCEPT !.liveLag = lag, !.wake = TRUE]

\* Mutants: a terminal stream, or a sealed one, still takes entries.
AcceptsTerminal(s) == ~Found(s) \/ stream[s].degraded \/ stream[s].lastSeq = MaxSeq
AcceptsSealed(s) == ~Found(s) \/ stream[s].status # "open" \/ stream[s].lastSeq = MaxSeq

Refuses(s) ==
    ~Found(s) \/ stream[s].status # "open" \/ stream[s].degraded \/ stream[s].lastSeq = MaxSeq

\* Append with a non-terminal kind, Close with a terminal one.
Commit(s, kind, size) ==
    LET old == stream[s]
        trim == TrimCount(s, size)
        trimmed == SizeOf(SubSeq(old.entries, 1, trim))
        base == totalBytes - BytesOf(Expired) - trimmed
        entries == Append(SubSeq(old.entries, trim + 1, Len(old.entries)),
                          [seq |-> old.lastSeq + 1, kind |-> kind, size |-> size])
        earliest == IF trim = 0 THEN old.earliestSeq ELSE entries[1].seq IN
    IF Refuses(s) \/ size > MaxBytesPerStream \/ EnoughVictims(base, size) = {}
    THEN CleanupOnly
    ELSE LET victims == Victims(base, size) IN
         Finish(victims,
                [Kept(victims) EXCEPT ![s] =
                    [old EXCEPT !.entries = entries, !.bytes = (@ - trimmed) + size,
                                !.earliestSeq = earliest, !.lastSeq = @ + 1, !.expiresAt = now + TTL,
                                !.status = IF kind \in Terminals THEN kind ELSE @,
                                !.resumable = (kind # "stopped")]],
                size - trimmed,
                IF kind \in Terminals THEN <<s>> \o lru ELSE lru,
                [r \in Tails |-> IF r \in Attached /\ tail[r].stream = s
                                 THEN Published(tail[r], earliest, size) ELSE tail[r]])

\* Mutant: readers waiting for the next entry are not woken.
MarkDegradedSilently(s) ==
    IF ~Found(s) \/ stream[s].status # "open" THEN CleanupOnly
    ELSE Finish({}, [Kept({}) EXCEPT ![s].degraded = TRUE, ![s].expiresAt = now + TTL], 0, lru, tail)

MarkDegraded(s) ==
    IF ~Found(s) \/ stream[s].status # "open"
    THEN CleanupOnly
    ELSE Finish({}, [Kept({}) EXCEPT ![s].degraded = TRUE, ![s].expiresAt = now + TTL], 0, lru,
                [r \in Tails |-> IF r \in Attached /\ tail[r].stream = s /\ ~stream[s].degraded
                                 THEN [tail[r] EXCEPT !.wake = TRUE] ELSE tail[r]])

\* touchTerminalLocked
Touched(s) ==
    IF stream[s].status \in Terminals THEN <<s>> \o SelectSeq(lru, LAMBDA q : q # s) ELSE lru

\* State, and a Read that is accepted: they use the stream.
Look(s) == IF Found(s) THEN Finish({}, Kept({}), 0, Touched(s), tail) ELSE CleanupOnly

validateCursor(s, fromSeq) ==
    /\ fromSeq <= stream[s].lastSeq
    /\ stream[s].earliestSeq > 1 => fromSeq >= stream[s].earliestSeq - 1

AttachTail(r, s, fromSeq) ==
    /\ tail[r].pc = "none"
    /\ IF /\ Found(s) /\ stream[s].resumable /\ validateCursor(s, fromSeq)
          /\ ~(stream[s].degraded /\ fromSeq = stream[s].lastSeq)
       THEN Finish({}, Kept({}), 0, Touched(s),
                   [tail EXCEPT ![r] =
                       [NoTail EXCEPT !.pc = "fetch", !.stream = s, !.cursor = fromSeq,
                                      !.liveAfter = stream[s].lastSeq,
                                      !.got = [NoEntry EXCEPT !.seq = fromSeq]]])
       ELSE CleanupOnly

-----------------------------------------------------------------------------
(* runTail, finishTail and the consumer of the channel.                       *)

\* A step of one tail only.
TailStep(r, t) ==
    /\ tail' = [tail EXCEPT ![r] = t]
    /\ UNCHANGED <<now, stream, tombstone, lru, totalBytes>>

Ending(t, reason, discard) == [stopTailLocked(t, reason, discard) EXCEPT !.pc = "finish"]

\* Mutant: the index ignores what was trimmed.
IndexUntrimmed(t, s) == t.cursor

\* Where the next entry is in the retained ones, from 0.
IndexOf(t, s) == t.cursor + 1 - s.earliestSeq

\* The top of runTail's loop.
Fetch(r) ==
    LET t == tail[r]
        s == stream[t.stream]
        index == IndexOf(t, s) IN
    /\ t.pc = "fetch"
    /\ TailStep(r,
          IF t.stopped THEN [t EXCEPT !.pc = "finish"]
          ELSE IF \/ s.earliestSeq > 1 /\ t.cursor < s.earliestSeq - 1
                  \/ t.cursor < s.lastSeq /\ index >= Len(s.entries)
          THEN Ending(t, "lagged", TRUE)
          ELSE IF t.cursor < s.lastSeq
          THEN [t EXCEPT !.pc = "deliver", !.inFlight = s.entries[index + 1]]
          ELSE IF s.status # "open" THEN Ending(t, "", FALSE)
          ELSE IF s.degraded THEN Ending(t, "gap", FALSE)
          ELSE [t EXCEPT !.pc = "wait"])

\* The select that sends: it may take any case that is ready.
Deliver(r) ==
    LET t == tail[r] IN
    /\ t.pc = "deliver"
    /\ \/ t.out = <<>> /\ TailStep(r, [t EXCEPT !.pc = "sent", !.out = <<t.inFlight>>])
       \/ t.stopped /\ TailStep(r, [t EXCEPT !.pc = "finish"])
       \/ t.ctxDone /\ TailStep(r, Ending(t, "", TRUE))

LagAfter(t, e) ==
    IF e.seq <= t.liveAfter THEN t.liveLag
    ELSE IF t.liveLag > e.size THEN t.liveLag - e.size ELSE 0

\* The bookkeeping after a send.
Delivered(r) ==
    LET t == tail[r]
        e == t.inFlight
        moved == [t EXCEPT !.cursor = e.seq, !.liveLag = LagAfter(t, e), !.inFlight = NoEntry] IN
    /\ t.pc = "sent"
    /\ TailStep(r, IF t.stopped THEN [t EXCEPT !.pc = "finish"]
                   ELSE IF e.kind \in Terminals THEN Ending(moved, "", FALSE)
                   ELSE [moved EXCEPT !.pc = "fetch"])

Wait(r) ==
    LET t == tail[r] IN
    /\ t.pc = "wait"
    /\ \/ t.wake /\ TailStep(r, [t EXCEPT !.pc = "fetch", !.wake = FALSE])
       \/ t.stopped /\ TailStep(r, [t EXCEPT !.pc = "finish"])
       \/ t.ctxDone /\ TailStep(r, Ending(t, "", TRUE))

\* Mutant: the channel is closed without the error.
FinishSilently(r) == tail[r].pc = "finish" /\ TailStep(r, [tail[r] EXCEPT !.pc = "closed"])

\* finishTail: the error is sent, which waits for room in the channel, and the
\* channel is closed.
FinishTail(r) ==
    LET t == tail[r] IN
    /\ t.pc = "finish"
    /\ t.stopErr = "" \/ t.out = <<>>
    /\ TailStep(r, [t EXCEPT !.pc = "closed",
                             !.out = IF t.stopErr = "" THEN @
                                     ELSE <<[NoEntry EXCEPT !.kind = t.stopErr]>>])

\* serveJournalTail: receive until the end, or leave. A request that is over
\* cancels the context, and the deferred cancel follows.
Receive(r) ==
    LET t == tail[r] IN
    /\ t.pc # "none" /\ ~t.canceled /\ t.ended = ""
    /\ \/ /\ t.out # <<>> /\ Head(t.out).seq # 0
          /\ TailStep(r, [t EXCEPT !.out = <<>>, !.got = Head(t.out)])
       \/ /\ t.out # <<>> /\ Head(t.out).seq = 0
          /\ TailStep(r, [t EXCEPT !.out = <<>>, !.ended = Head(t.out).kind])
       \/ /\ t.out = <<>> /\ t.pc = "closed"
          /\ TailStep(r, [t EXCEPT !.ended = "eof"])

ContextDone(r) ==
    /\ tail[r].pc \notin {"none", "closed"} /\ ~tail[r].ctxDone
    /\ TailStep(r, [tail[r] EXCEPT !.ctxDone = TRUE])

Cancel(r) ==
    /\ tail[r].pc # "none" /\ ~tail[r].canceled /\ tail[r].ended = ""
    /\ TailStep(r, [stopTailLocked(tail[r], "", TRUE) EXCEPT !.canceled = TRUE])

-----------------------------------------------------------------------------
(* The specification.                                                         *)

Tick ==
    /\ now < MaxTime
    /\ now' = now + 1
    /\ UNCHANGED <<stream, tombstone, lru, totalBytes, tail>>

Operation(s) ==
    \/ \E size \in Sizes :
          Open(s, size) \/ \E kind \in {"chunk"} \cup Terminals : Commit(s, kind, size)
    \/ MarkDegraded(s) \/ Look(s)

RunTail(r) == Fetch(r) \/ Deliver(r) \/ Delivered(r) \/ Wait(r) \/ FinishTail(r)

Next ==
    \/ Tick
    \/ \E s \in Streams : Operation(s)
    \/ \E r \in Tails, s \in Streams, fromSeq \in 0..MaxSeq : AttachTail(r, s, fromSeq)
    \/ \E r \in Tails : RunTail(r) \/ Receive(r) \/ ContextDone(r) \/ Cancel(r)

Spec == Init /\ [][Next]_vars

\* Goroutines run, and a consumer that has not left receives. Nothing is assumed
\* of writers, of the clock or of who cancels.
FairSpec ==
    /\ Spec
    /\ \A r \in Tails : WF_vars(RunTail(r)) /\ WF_vars(Receive(r))

-----------------------------------------------------------------------------
(* Properties.                                                                *)

\* The counters makeRoomLocked decides by are the sizes of what is retained, and
\* both limits hold: no path of trim, eviction, expiry or open miscounts.
BytesAccounted ==
    /\ \A s \in Streams : stream[s].bytes = SizeOf(stream[s].entries)
                          /\ stream[s].bytes <= MaxBytesPerStream
    /\ totalBytes = BytesOf(Live) /\ totalBytes <= MaxTotalBytes

\* A live stream retains exactly the sequences from earliestSeq to lastSeq, which
\* runTail's index arithmetic and the offset_expired answer rely on.
RetainedContiguous ==
    \A s \in Live :
        /\ Len(stream[s].entries) = stream[s].lastSeq + 1 - stream[s].earliestSeq
        /\ stream[s].entries # <<>>
        /\ \A i \in DOMAIN stream[s].entries :
              /\ stream[s].entries[i].seq = stream[s].earliestSeq + i - 1
              /\ stream[s].entries[i].kind \in Terminals <=>
                    stream[s].status \in Terminals /\ i = Len(stream[s].entries)

\* The LRU list holds the live terminal streams, each once: only those can be
\* evicted, and none is forgotten by it.
LRUHoldsTerminal ==
    /\ {lru[i] : i \in DOMAIN lru} = {s \in Live : stream[s].status \in Terminals}
    /\ \A i, j \in DOMAIN lru : lru[i] = lru[j] => i = j

\* What makeRoomLocked goes by is right on every path: the byte counters, and the
\* list of streams it may evict.
BudgetExact == BytesAccounted /\ LRUHoldsTerminal

\* The lag a reader is charged is what was committed since it attached and not
\* handed to it yet, the entry in flight included even after it was trimmed.
LagAccounted ==
    \A r \in Attached :
        LET t == tail[r]
            es == stream[t.stream].entries
            owed == {i \in DOMAIN es : es[i].seq > Max({t.cursor, t.liveAfter})}
            inFlightTrimmed == t.inFlight.seq > t.liveAfter
                               /\ t.inFlight.seq < stream[t.stream].earliestSeq IN
        t.liveLag = MapThenSumSet(LAMBDA i : es[i].size, owed)
                    + (IF inFlightTrimmed THEN t.inFlight.size ELSE 0)

\* A reader goes to sleep only when there is nothing for it, or its wake-up is
\* already buffered.
NoLostWakeup ==
    \A r \in Attached :
        LET t == tail[r] IN
        /\ stream[t.stream].status # "gone"
        /\ t.pc = "wait" => \/ t.wake
                            \/ /\ t.cursor = stream[t.stream].lastSeq
                               /\ stream[t.stream].status = "open" /\ ~stream[t.stream].degraded

\* What the publishers and runTail keep about a reader is right whenever m.mu is
\* free: the lag it is cut off by, and the wake-up it sleeps on.
ReaderExact == LagAccounted /\ NoLostWakeup

\* A reader that neither left nor was cut off sees the channel close only after
\* the terminal entry, or when it attached behind it: never at the tip of a
\* stream that is open.
TailComplete ==
    \A r \in Tails :
        LET t == tail[r] IN
        t.ended = "eof" /\ ~t.ctxDone =>
            \/ t.got.kind \in Terminals
            \/ t.got = [NoEntry EXCEPT !.seq = t.liveAfter] /\ stream[t.stream].status # "open"

\* "Replay followed by live tailing has no gap and no duplicate" (docs/protocol.md).
TailNoGap ==
    [][\A r \in Tails : tail[r].pc # "none" /\ tail'[r].got # tail[r].got
                        => tail'[r].got.seq = tail[r].got.seq + 1]_tail

\* Until the journal cuts it off, a reader receives every entry once and in order,
\* across replay, live fan-out, trims and removal; after that, nothing twice.
TailInOrder ==
    [][\A r \in Tails : tail[r].pc # "none" /\ tail'[r].got # tail[r].got
                        => /\ tail'[r].got.seq > tail[r].got.seq
                           /\ tail[r].stopErr = "" => tail'[r].got.seq = tail[r].got.seq + 1]_tail

\* A consumer that stays learns how its stream ended: no tail is left waiting on
\* a stream that is terminal, degraded or removed.
TailEnds ==
    \A r \in Tails :
        tail[r].pc # "none" /\ (tail[r].stopped \/ stream[tail[r].stream].status # "open"
                                \/ stream[tail[r].stream].degraded)
        ~> tail[r].ended # "" \/ tail[r].canceled

\* "The cancel function is idempotent, releases backend resources, and causes the
\* channel to close" (docs/protocol.md).
CancelCloses == \A r \in Tails : tail[r].canceled ~> tail[r].pc = "closed"

\* Each stream behaves as the Journal contract says.
Contract(s) == INSTANCE Journal WITH
    phase <- IF stream[s].status = "open" THEN (IF stream[s].degraded THEN "sealed" ELSE "open")
             ELSE IF stream[s].status = "gone" THEN "gone" ELSE "closed",
    earliest <- stream[s].earliestSeq,
    last <- stream[s].lastSeq
MeetsContract ==
    /\ \A s \in Streams : Contract(s)!Init
    /\ [][\A s \in Streams : [Contract(s)!Next]_(Contract(s)!vars)]_vars

=============================================================================
