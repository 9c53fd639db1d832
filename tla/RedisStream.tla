----------------------------- MODULE RedisStream -----------------------------
(***************************************************************************)
(* One live stream of the Redis journal (internal/journal/redis.go,        *)
(* redis_receipts.go, redis_readers.go) and the replica that owns it       *)
(* (internal/proxy/durable.go, distributed_readers.go, degradation.go):    *)
(* mutations that are retried and reconciled by their receipts, the lease  *)
(* that marks a degraded journal, remote readers' leases and the claim     *)
(* under which the owner ends a stream nobody reads.                       *)
(*                                                                         *)
(* A script is atomic; a call is not. Its answer may be lost after it ran, *)
(* or it may run after the caller gave it up. A call ends within Deadline  *)
(* ticks (ReadinessTimeout), the lookup of its receipt within              *)
(* ReconcileDeadline more, so Tick waits for calls that are due. The       *)
(* stream's own retention is renewed by each mutation and is not counted   *)
(* here (module SharedKey does).                                           *)
(***************************************************************************)
EXTENDS Naturals, Sequences, FiniteSets

CONSTANTS
    Readers,     \* readers on other replicas
    MaxOps,      \* Append and Close calls of the owner
    MaxClaims,   \* TryClaimOrphan calls of the owner
    Batch,       \* entries appended under one hold of writeMu
    Deadline,    \* ReadinessTimeout in ticks
    ReconcileDeadline,  \* redisReceiptReconcileTimeout in ticks
    ReceiptTTL,  \* MutationReceiptTTL in ticks
    WireTTL,     \* ticks a command stays on the wire after its caller gave up
    MaxFaults,   \* lost answers, delayed commands and failed reads
    CancelAfter, \* OrphanPolicy is cancel_after rather than cancel
    None

ASSUME TimeAssumption ==
    /\ ReconcileDeadline \in Nat /\ Deadline \in Nat /\ Deadline > ReconcileDeadline
    /\ WireTTL \in Nat /\ ReceiptTTL \in Nat
    /\ ReceiptTTL >= Deadline + ReconcileDeadline + WireTTL

VARIABLES
    log,       \* the nonces of the entries, the open entry first
    status, marked,
    receipt,   \* remaining life of the receipt of each nonce
    claim,     \* the orphan claim: None or its ID and remaining life
    lease,     \* remaining life of every reader's lease
    acked,     \* the sequences and nonces the runtime has told its readers
    degraded, terminal,   \* of the runtime
    call,      \* what holds writeMu: a mutation, or None
    marker,    \* runJournalDegradedLease: "off", "on" or "done"
    orphan,    \* cancelOrphan: its step, claim ID and time left, and whether
               \* a mutation began after the claim and before its Close
    answer,    \* of TryClaimOrphan, on its way back
    seen,      \* r.remoteReaderWasAttached
    ops, claims, wire, faults

redis == <<log, status, marked, receipt>>
leases == <<claim, lease>>
runtime == <<acked, degraded, terminal, call>>
owner == <<marker, orphan, answer, seen, ops, claims>>
vars == <<redis, leases, runtime, owner, wire, faults>>

\* Mutant: the claim lasts for its own answer and the Close alone.
ClaimTTLShort == 2 * Deadline

\* claimTTL and the readers' ttl: three deadlines
ClaimTTL == 3 * Deadline
LeaseTTL == 3 * Deadline

Fault == faults < MaxFaults /\ faults' = faults + 1

-----------------------------------------------------------------------------
(* Mutations and their receipts.                                           *)

\* The receipt is not looked at.
MutateAlways(op, n) ==
    IF status = "open" /\ ~marked
    THEN /\ log' = Append(log, n)
         /\ receipt' = [receipt EXCEPT ![n] = ReceiptTTL]
         /\ status' = IF op = "append" THEN "open" ELSE "closed"
         /\ UNCHANGED marked
    ELSE UNCHANGED redis

\* redisAppendReceiptScript and redisCloseReceiptScript
Mutate(op, n) ==
    IF receipt[n] > 0
    THEN /\ receipt' = [receipt EXCEPT ![n] = ReceiptTTL]
         /\ UNCHANGED <<log, status, marked>>
    ELSE IF status = "open" /\ ~marked
    THEN /\ log' = Append(log, n)
         /\ receipt' = [receipt EXCEPT ![n] = ReceiptTTL]
         /\ status' = IF op = "append" THEN "open" ELSE "closed"
         /\ UNCHANGED marked
    ELSE UNCHANGED redis

\* The script answers with a sequence rather than an error.
Accepts(n) == receipt[n] > 0 \/ (status = "open" /\ ~marked)

\* The sequence of nonce n: the value of its receipt.
SeqOf(l, n) == CHOOSE s \in 1..Len(l) : l[s] = n

\* The script ran and its answer came: a sequence, or an error (0).
Answer ==
    /\ call # None /\ call.step = "call"
    /\ Mutate(call.op, call.nonce)
    /\ call' = [call EXCEPT !.step = "answered", !.left = 0,
                  !.seq = IF Accepts(call.nonce) THEN SeqOf(log', call.nonce) ELSE 0]
    /\ UNCHANGED <<leases, acked, degraded, terminal, owner, wire, faults>>

\* The call ends without an answer: retryRedisOperation runs it once more with
\* its nonce unless the deadline has passed, then the receipt is looked up.
Unanswered ==
    /\ call # None /\ call.step = "call"
    /\ Fault
    /\ \/ Mutate(call.op, call.nonce) /\ UNCHANGED wire
       \/ /\ wire' = wire \cup {[op |-> call.op, nonce |-> call.nonce,
                                 ttl |-> WireTTL]}
          /\ UNCHANGED redis
    /\ \/ ~call.retried /\ call' = [call EXCEPT !.retried = TRUE]
       \/ call' = [call EXCEPT !.step = "reconcile", !.left = ReconcileDeadline]
    /\ UNCHANGED <<leases, acked, degraded, terminal, owner>>

\* reconcileMutationReceipt: a read, under a context of its own
Reconcile ==
    /\ call # None /\ call.step = "reconcile"
    /\ \/ /\ call' = [call EXCEPT !.step = "answered", !.left = 0, !.seq =
                         IF receipt[call.nonce] > 0 THEN SeqOf(log, call.nonce) ELSE 0]
          /\ UNCHANGED faults
       \/ Fault /\ call' = [call EXCEPT !.step = "answered", !.left = 0]
    /\ UNCHANGED <<redis, leases, acked, degraded, terminal, owner, wire>>

\* A mutation starts under writeMu, with a deadline of its own.
Begins(c) ==
    /\ ops' = ops + 1
    /\ call' = [c EXCEPT !.nonce = ops + 1, !.step = "call", !.left = Deadline]
    /\ orphan' = [orphan EXCEPT !.late = (orphan.step = "lock")]

\* What the caller of journal.Append or Close does with the answer: lastSeq,
\* the published entry and, after Close, r.terminal. A batch of entries keeps
\* writeMu for the next one.
Succeeds ==
    /\ acked' = acked \cup {[seq |-> call.seq, nonce |-> call.nonce]}
    /\ IF call.more > 0 /\ ops < MaxOps
       THEN Begins([call EXCEPT !.more = @ - 1, !.seq = 0, !.retried = FALSE])
       ELSE call' = None /\ UNCHANGED <<ops, orphan>>
    /\ UNCHANGED <<degraded, marker>>

\* enterJournalDegradedLocked, and finishDegradedLocked after a failed Close
Degrades ==
    /\ degraded' = TRUE
    /\ marker' = "on"
    /\ call' = None
    /\ UNCHANGED <<acked, ops, orphan>>

Claiming == orphan.step \in {"claim", "claimed"}

\* The runtime needs r.mu, which an orphan check holds while it claims.
Returns ==
    /\ call # None /\ call.step = "answered" /\ ~Claiming
    /\ IF call.seq > 0 THEN Succeeds ELSE Degrades
    /\ terminal' = (call.op = "close")
    /\ UNCHANGED <<redis, leases, answer, seen, claims, wire, faults>>

\* A command that its caller has given up.
Late ==
    \E c \in wire :
       /\ Mutate(c.op, c.nonce)
       /\ wire' = wire \ {c}
       /\ UNCHANGED <<leases, runtime, owner, faults>>

Holding(op, more, by) ==
    [op |-> op, more |-> more, by |-> by, step |-> "enter", nonce |-> 0,
     retried |-> FALSE, left |-> 0, seq |-> 0, late |-> FALSE]

\* The producer takes writeMu, to append up to Batch entries or to end the
\* stream; it may be there before an orphan check that waits for it.
Produce ==
    /\ call = None /\ ~terminal
    /\ ops < MaxOps \/ degraded
    /\ \/ \E more \in 0..Batch - 1 : call' = Holding("append", more, "producer")
       \/ call' = Holding("close", 0, "producer")
    /\ UNCHANGED <<redis, leases, acked, degraded, terminal, owner, wire, faults>>

\* Then it needs r.mu, to see whether the stream is degraded: an append is
\* then relayed only, and the stream ends without the journal
\* (finishDegradedLocked).
Enter ==
    /\ call # None /\ call.step = "enter" /\ ~Claiming
    /\ \/ ~degraded /\ Begins(call) /\ UNCHANGED terminal
       \/ /\ degraded
          /\ terminal' = (call.op = "close")
          /\ call' = None
          /\ UNCHANGED <<orphan, ops>>
    /\ UNCHANGED <<redis, leases, acked, degraded, marker, answer, seen, claims>>
    /\ UNCHANGED <<wire, faults>>

\* Mutant: a failed attempt is the last one.
MarkOnce ==
    /\ marker = "on"
    /\ \/ /\ marked' = (status = "open")
          /\ marker' = IF terminal \/ status = "closed" THEN "done" ELSE "on"
          /\ UNCHANGED faults
       \/ Fault /\ marked' \in {marked, status = "open"} /\ marker' = "done"
    /\ UNCHANGED <<log, status, receipt, leases, runtime, wire>>
    /\ UNCHANGED <<orphan, answer, seen, ops, claims>>

\* runJournalDegradedLease: MarkDegraded is idempotent and tried until it
\* succeeds or the journal turns out to be closed. (It gives up JournalTTL
\* after the stream's end, which outlasts any fault here.)
Mark ==
    /\ marker = "on"
    /\ \/ /\ marked' = (status = "open")
          /\ marker' = IF terminal \/ status = "closed" THEN "done" ELSE "on"
          /\ UNCHANGED faults
       \/ Fault /\ marked' \in {marked, status = "open"} /\ UNCHANGED marker
    /\ UNCHANGED <<log, status, receipt, leases, runtime, wire>>
    /\ UNCHANGED <<orphan, answer, seen, ops, claims>>

-----------------------------------------------------------------------------
(* Remote readers and the orphan claim.                                    *)

\* redisAcquireReaderScript: refused while an open stream is claimed. A
\* heartbeat that finds its lease expired acquires it again.
AcquireReader(q) ==
    /\ status = "open" => claim = None
    /\ lease' = [lease EXCEPT ![q] = LeaseTTL]
    /\ UNCHANGED <<redis, claim, runtime, owner, wire, faults>>

\* redisRefreshReaderScript, every third of LeaseTTL
RefreshReader(q) ==
    /\ lease[q] > 0
    /\ status = "open" => claim = None
    /\ lease' = [lease EXCEPT ![q] = LeaseTTL]
    /\ UNCHANGED <<redis, claim, runtime, owner, wire, faults>>

ReleaseReader(q) ==
    /\ lease[q] > 0
    /\ lease' = [lease EXCEPT ![q] = 0]
    /\ UNCHANGED <<redis, claim, runtime, owner, wire, faults>>

NoReaders == \A q \in Readers : lease[q] = 0

\* redisClaimOrphanScript
ClaimScript(id) ==
    /\ claim' = IF status = "open" /\ (IF claim = None THEN NoReaders
                                       ELSE claim.id = id)
                THEN [id |-> id, left |-> ClaimTTL] ELSE claim
    /\ UNCHANGED lease

Claims(id) == claim' # None /\ claim'.id = id

Idle == [step |-> "idle", id |-> 0, retried |-> FALSE, left |-> 0, late |-> FALSE]

\* cancelOrphan takes r.mu and draws a claim ID.
CancelOrphan ==
    /\ orphan.step = "idle" /\ ~terminal /\ claims < MaxClaims
    /\ ~(call # None /\ call.op = "close" /\ call.step # "enter")
    /\ claims' = claims + 1
    /\ orphan' = [Idle EXCEPT !.step = "claim", !.id = claims + 1,
                              !.left = Deadline]
    /\ UNCHANGED <<redis, leases, runtime, marker, answer, seen, ops, wire, faults>>

ClaimRuns ==
    /\ orphan.step = "claim"
    /\ ClaimScript(orphan.id)
    /\ orphan' = [orphan EXCEPT !.step = "claimed"]
    /\ answer' = IF Claims(orphan.id) THEN "claimed"
                 ELSE IF status = "open" /\ claim = None THEN "readers" ELSE "error"
    /\ UNCHANGED <<redis, runtime, marker, seen, ops, claims, wire, faults>>

\* The answer of tryClaimDistributedOrphan: an error or a reader makes the
\* owner poll again, a claim ends the stream unless the grace period of a
\* remote reader that has left must pass first.
ClaimAnswered ==
    /\ orphan.step = "claimed"
    /\ orphan' = IF answer = "claimed"
                 THEN [orphan EXCEPT !.left = 0, !.retried = FALSE,
                        !.step = IF CancelAfter /\ seen THEN "release" ELSE "lock"]
                 ELSE Idle
    /\ seen' = (answer = "readers" \/ (answer = "error" /\ seen))
    /\ answer' = "error"
    /\ UNCHANGED <<redis, leases, runtime, marker, ops, claims, wire, faults>>

\* No answer: a second try with the same ID, or an error.
ClaimUnanswered ==
    /\ orphan.step = "claim"
    /\ Fault
    /\ ClaimScript(orphan.id) \/ UNCHANGED leases
    /\ \/ ~orphan.retried /\ orphan' = [orphan EXCEPT !.retried = TRUE]
       \/ orphan' = Idle
    /\ UNCHANGED <<redis, runtime, marker, answer, seen, ops, claims, wire>>

\* releaseDistributedOrphanClaim before the grace period; errors are logged.
ReleaseOrphanClaim ==
    /\ orphan.step = "release"
    /\ \/ /\ claim' = IF claim # None /\ claim.id = orphan.id THEN None ELSE claim
          /\ UNCHANGED faults
       \/ Fault /\ UNCHANGED claim
    /\ orphan' = Idle
    /\ UNCHANGED <<redis, lease, runtime, marker, answer, seen, ops, claims, wire>>

\* finishClaimedOrphan has writeMu: nothing to do on a stream that has ended,
\* a degraded one ends without the journal.
FinishClaimedOrphan ==
    /\ orphan.step = "lock" /\ call = None
    /\ orphan' = [Idle EXCEPT !.step = "over"]
    /\ IF terminal \/ degraded \/ ops = MaxOps
       THEN /\ terminal' = (terminal \/ degraded)
            /\ UNCHANGED <<call, ops>>
       ELSE /\ ops' = ops + 1
            /\ call' = [Holding("close", 0, "orphan") EXCEPT !.nonce = ops + 1,
                          !.step = "call", !.left = Deadline, !.late = orphan.late]
            /\ UNCHANGED terminal
    /\ UNCHANGED <<redis, leases, acked, degraded, marker, answer, seen, claims>>
    /\ UNCHANGED <<wire, faults>>

-----------------------------------------------------------------------------

Minus1(n) == IF n = 0 THEN 0 ELSE n - 1

\* Time passes unless a call is due. One that waits for r.mu is not.
Tick ==
    /\ call # None => \/ call.step \in {"call", "reconcile"} /\ call.left > 0
                      \/ call.step \in {"enter", "answered"} /\ Claiming
    /\ Claiming => orphan.left > 0
    /\ orphan.step = "lock" => call # None
    /\ receipt' = [n \in 1..MaxOps |-> Minus1(receipt[n])]
    /\ claim' = IF claim = None \/ claim.left = 1 THEN None
                ELSE [claim EXCEPT !.left = @ - 1]
    /\ lease' = [q \in Readers |-> Minus1(lease[q])]
    /\ call' = IF call = None THEN None ELSE [call EXCEPT !.left = Minus1(@)]
    /\ orphan' = [orphan EXCEPT !.left = Minus1(@)]
    /\ wire' = {[c EXCEPT !.ttl = @ - 1] : c \in {d \in wire : d.ttl > 1}}
    /\ UNCHANGED <<log, status, marked, acked, degraded, terminal, marker>>
    /\ UNCHANGED <<answer, seen, ops, claims, faults>>

\* The open entry is the first of the log; it belongs to no nonce of a
\* mutation and is written 0.
Init ==
    /\ log = <<0>> /\ status = "open" /\ marked = FALSE
    /\ receipt = [n \in 1..MaxOps |-> 0]
    /\ claim = None /\ lease = [q \in Readers |-> 0]
    /\ acked = {[seq |-> 1, nonce |-> 0]}
    /\ degraded = FALSE /\ terminal = FALSE /\ call = None
    /\ marker = "off" /\ orphan = Idle /\ answer = "error" /\ seen = FALSE
    /\ ops = 0 /\ claims = 0 /\ wire = {} /\ faults = 0

Next ==
    \/ Produce \/ Enter
    \/ Answer \/ Unanswered \/ Reconcile \/ Returns \/ Late \/ Mark
    \/ \E q \in Readers : AcquireReader(q) \/ RefreshReader(q) \/ ReleaseReader(q)
    \/ CancelOrphan \/ ClaimRuns \/ ClaimAnswered \/ ClaimUnanswered \/ ReleaseOrphanClaim
    \/ FinishClaimedOrphan
    \/ Tick

\* The goroutine of the degradation lease retries on its own timer.
Spec == Init /\ [][Next]_vars /\ WF_vars(Mark)

-----------------------------------------------------------------------------

\* What the runtime has told its readers is what the journal holds: every
\* answered or reconciled mutation has the sequence it reports, no mutation is
\* committed twice whatever was retried or ran late, and only a mutation whose
\* outcome is unknown (in progress, or the one the stream degraded at) can lie
\* beyond the last entry the runtime knows.
AcksMatchLog ==
    LET known == Cardinality(acked) IN
    /\ {a.seq : a \in acked} = 1..known
    /\ \A a \in acked : log[a.seq] = a.nonce
    /\ Len(log) <= known + 1
    /\ Len(log) = known + 1 => degraded \/ (call # None /\ call.nonce = log[known + 1])

\* The orphan policy closes the journal of no stream that a remote reader holds
\* a lease on, unless the claim lapsed because another mutation began between
\* the claim and the Close: the claim outlasts a full deadline for its own
\* answer, an append that was in progress when it was taken, the lookup of that
\* append's receipt, and the Close. (A Close that runs after its deadline is
\* not covered.)
OrphanFence ==
    [][status = "open" /\ status' = "closed" /\ wire \subseteq wire'
         /\ call # None /\ call.by = "orphan"
         => NoReaders \/ (call.late /\ claim = None)]_vars

\* distributed_readers.go:104-105: "the subsequent bounded journal Close cannot
\* outlive the remaining fence". The Close first waits for writeMu, which a
\* producer that waited for r.mu during the claim holds for an append of its
\* own, with a deadline of its own.
FenceNeverOutlived ==
    [][status = "open" /\ status' = "closed" /\ wire \subseteq wire'
         /\ call # None /\ call.by = "orphan" => NoReaders]_vars

\* A journal the stream has degraded from is marked, unless the mutation it
\* degraded at turns out to have closed it, although marking may fail as well:
\* a replay never takes the committed prefix for the whole stream for good.
GapMarked == degraded ~> (marked \/ status = "closed")

=============================================================================
