---------------------------- MODULE StreamRuntime ----------------------------
(***************************************************************************)
(* One streamRuntime (internal/proxy/durable.go, producer.go and           *)
(* degradation.go): the goroutines that drive, migrate, stop, orphan and   *)
(* shut down one durable stream, and the two mutexes they meet on.         *)
(*                                                                         *)
(*   writeMu  serialises journal writes; it is held across a journal call, *)
(*            so it is a variable and the call is a step of its own;       *)
(*   mu       guards the fields; it is never held across a step here, so   *)
(*            every critical section of mu is one atomic action.           *)
(*                                                                         *)
(* The journal is modelled by what the runtime can observe of it: a write  *)
(* is accepted, fails, or fails after it was committed.                    *)
(***************************************************************************)
EXTENDS Naturals, Sequences, FiniteSets

CONSTANTS
    Stoppers,        \* concurrent POST /streams/{id}/stop requests
    Triggers,        \* drain requests and health transitions, one per element
    TriggerBackend,  \* the backend each trigger is about
    TriggerReason,   \* "drain" or "health"
    Orphans,         \* slots for cancelOrphan goroutines
    Readers,         \* readers attached to this process
    RemoteReaders,   \* readers on other replicas; {} without a shared journal
    OrphanPolicy,    \* "continue", "cancel" or "cancel_after"
    Backends, Origin,
    SafeTargets,     \* backends whose version and template allow continuation
    MaxMigrations,   \* policy.MaxMigrations
    MaxChunks,       \* bound: chunks the upstream producers emit in total
    MaxFaults,       \* bound: journal calls that fail
    ForceCancels,    \* whether Shutdown may run out of time
    EarlyTriggers,   \* whether triggers may precede streams.Store
    NoBackend, NoProc

ASSUME RuntimeConstants ==
    /\ Origin \in Backends /\ NoBackend \notin Backends
    /\ SafeTargets \subseteq Backends
    /\ TriggerBackend \in [Triggers -> Backends]
    /\ TriggerReason \in [Triggers -> {"drain", "health"}]
    /\ OrphanPolicy \in {"continue", "cancel", "cancel_after"}
    /\ MaxMigrations \in Nat /\ MaxChunks \in Nat /\ MaxFaults \in Nat
    /\ ForceCancels \in BOOLEAN /\ EarlyTriggers \in BOOLEAN

ASSUME DistinctProcesses ==
    /\ "producer" \notin Stoppers \cup Triggers \cup Orphans
    /\ NoProc \notin {"producer"} \cup Stoppers \cup Triggers \cup Orphans
    /\ Stoppers \cap Triggers = {} /\ Stoppers \cap Orphans = {}
    /\ Triggers \cap Orphans = {}

VARIABLES
    log,            \* kinds of the committed journal entries; log[i] has seq i
    sealed,         \* the journal was told of the durability gap (MarkDegraded)
    faults,         \* journal calls that failed so far
    writeMu,        \* the goroutine holding writeMu, or NoProc
    closing,        \* kind the closeTerminalUntil in progress is committing
    terminal, terminating,
    doneCloses,     \* times close(r.done) ran
    cancelled,      \* context.Cause(r.context) != nil
    degraded, lastSeq,
    feed,           \* frames relayed to an attached reader that keeps up
    feedActive, feedClosed,
    registered,     \* the runtime is in service.streams
    currentBackend, currentLease,
    held,           \* leases of this stream in the backend pool
    draining, unhealthy, quarantined,
    attemptCancel,  \* r.attemptCancel is set
    attemptCause,   \* why the attempt's context was canceled, or ""
    pendingTrigger,
    migrationsUsed, finishReason, insideToolCall,
    prod,           \* locals of the producer goroutine
    stopRequested, stopAnswer,
    readers,
    orphanTimer,    \* "none", or what it was armed with: "timeout" or "poll"
    remoteReaderWasAttached, orphanClaim,
    remote,         \* remote readers registered in the shared journal
    claimKey,       \* the shared journal's orphan claim
    pc              \* control point of every goroutine

journalVars == <<log, sealed, faults>>
terminalVars == <<terminal, terminating, doneCloses, cancelled, closing>>
feedVars == <<feed, feedActive, feedClosed>>
leaseVars == <<registered, currentBackend, currentLease, held>>
poolVars == <<draining, unhealthy, quarantined>>
attemptVars == <<attemptCancel, attemptCause, pendingTrigger>>
progressVars == <<migrationsUsed, finishReason, insideToolCall>>
stopVars == <<stopRequested, stopAnswer>>
orphanVars == <<readers, orphanTimer, remoteReaderWasAttached, orphanClaim,
                remote, claimKey>>
writeVars == <<writeMu, degraded, lastSeq>>

vars == <<journalVars, terminalVars, feedVars, leaseVars, poolVars, attemptVars,
          progressVars, prod, stopVars, orphanVars, writeVars, pc>>

Procs == {"producer"} \cup Stoppers \cup Triggers \cup Orphans

Terminals == {"done", "error", "stopped"}
\* A chunk is told apart by what it does to progress: a fragment of a tool call
\* leaves the stream inside one, a finish chunk carries the finish_reason.
Chunks == {"text", "tool", "finish"}

Goto(p, label) == pc' = [pc EXCEPT ![p] = label]

\* Mutant: terminating is not looked at.
EndedIfTerminal == terminal # ""

Ended == terminal # "" \/ terminating

Init ==
    /\ log = <<"open">> /\ sealed = FALSE /\ faults = 0
    /\ writeMu = NoProc /\ closing = "" /\ terminal = "" /\ terminating = FALSE
    /\ doneCloses = 0 /\ cancelled = FALSE /\ degraded = FALSE /\ lastSeq = 1
    /\ feed = <<>> /\ feedActive = FALSE /\ feedClosed = FALSE
    /\ registered = FALSE /\ currentBackend = Origin /\ currentLease = Origin
    /\ held = [b \in Backends |-> IF b = Origin THEN 1 ELSE 0]
    /\ draining = {} /\ unhealthy = {} /\ quarantined = {}
    /\ attemptCancel = FALSE /\ attemptCause = "" /\ pendingTrigger = ""
    /\ migrationsUsed = 0 /\ finishReason = FALSE /\ insideToolCall = FALSE
    /\ prod = [todo |-> <<>>, then |-> "", continuation |-> FALSE, frames |-> <<>>,
               reason |-> "", passive |-> FALSE, target |-> NoBackend, chunks |-> 0]
    /\ stopRequested = FALSE /\ stopAnswer = [s \in Stoppers |-> ""]
    /\ readers = {} /\ orphanTimer = "none" /\ remoteReaderWasAttached = FALSE
    /\ orphanClaim = NoProc /\ remote = {} /\ claimKey = NoProc
    /\ pc = [p \in Procs |-> IF p = "producer" THEN "opened" ELSE "idle"]

-----------------------------------------------------------------------------
(* The journal, as the runtime sees it, and the feed to attached readers.   *)

JournalClosed == log[Len(log)] \in Terminals
JournalAccepts == ~JournalClosed /\ ~sealed

\* Mutant: a retry writes the entry again.
JournalCommitsTwice(kind) ==
    JournalAccepts /\ log' = log \o <<kind, kind>> /\ UNCHANGED <<sealed, faults>>

JournalCommits(kind) ==
    /\ JournalAccepts
    /\ log' = Append(log, kind)
    /\ UNCHANGED <<sealed, faults>>

\* An error: the stream is terminal or sealed, the call failed, or it was
\* executed and only its answer was lost.
JournalFails(kind) ==
    /\ \/ ~JournalAccepts /\ UNCHANGED <<log, faults>>
       \/ /\ faults < MaxFaults
          /\ faults' = faults + 1
          /\ \/ log' = log
             \/ JournalAccepts /\ log' = Append(log, kind)
    /\ UNCHANGED sealed

\* Mutant: the entry is stored under the upstream's name for it.
EntryKindUnmapped(entry) == entry

EntryKind(entry) == IF entry \in Chunks THEN "chunk" ELSE entry
Frame(seq, entry) == [seq |-> seq, kind |-> EntryKind(entry)]
Unsequenced(entries) == [i \in 1..Len(entries) |-> Frame(0, entries[i])]

\* Mutant: the sequence before the commit is relayed.
publishBeforeCommit(seq, entry) ==
    feed' = IF feedClosed THEN feed ELSE Append(feed, Frame(seq - 1, entry))

publishCommitted(seq, entry) ==
    feed' = IF feedClosed THEN feed ELSE Append(feed, Frame(seq, entry))

feedAppend(entries) ==
    feed' = IF feedActive /\ ~feedClosed THEN feed \o Unsequenced(entries) ELSE feed

\* Mutant: the runtime does not remember that its journal is degraded.
degradedForgotten(entries) ==
    /\ feedActive' = (feedActive \/ ~feedClosed) /\ UNCHANGED <<degraded, feed>>

enterJournalDegradedLocked(entries) ==
    /\ degraded' = TRUE
    /\ feedActive' = (feedActive \/ ~feedClosed)
    /\ feed' = IF feedClosed THEN feed
               ELSE feed \o (IF degraded THEN <<>> ELSE <<Frame(0, "journal_degraded")>>)
                         \o Unsequenced(entries)

\* runJournalDegradedLease: the marker goroutine retries until the journal
\* has sealed the stream or answers that it is already terminal.
MarkJournalDegraded ==
    /\ degraded /\ JournalAccepts
    /\ sealed' = TRUE
    /\ UNCHANGED <<log, faults, terminalVars, feedVars, leaseVars, poolVars, attemptVars,
                   progressVars, prod, stopVars, orphanVars, writeVars, pc>>

-----------------------------------------------------------------------------
(* closeTerminalUntil: every goroutine but an external refusal ends the      *)
(* stream through it.                                                        *)

\* The kind a goroutine at this control point asks closeTerminalUntil to commit.
CloseKind(p) ==
    IF p \in Stoppers THEN "stopped"
    ELSE IF pc[p] \in {"finishDone", "finishCompleted"} THEN "done" ELSE "error"

AtClose(p) ==
    \/ p = "producer" /\ pc[p] \in {"finishDone", "finishCompleted", "finishInvalid", "finishError"}
    \/ p \in Stoppers /\ pc[p] = "stopClose"
    \/ p \in Orphans /\ pc[p] \in {"orphanClose", "claimedClose"}

\* Mutant: a stop that lost reports success.
StopNeverRefused(p) ==
    IF p \in Stoppers THEN "stopOk"
    ELSE IF p \in Orphans THEN (IF pc[p] = "claimedClose" THEN "orphanRelease" ELSE "idle")
    ELSE IF pc[p] \in {"finishDone", "finishInvalid"} THEN "finishError" ELSE "exit"

\* Where the caller goes when another terminal transition came first: runAttempt
\* returns the error to runProducer, which calls finishError; the others give up.
CloseRefused(p) ==
    IF p \in Stoppers THEN "stopConflict"
    ELSE IF p \in Orphans THEN (IF pc[p] = "claimedClose" THEN "orphanRelease" ELSE "idle")
    ELSE IF pc[p] \in {"finishDone", "finishInvalid"} THEN "finishError" ELSE "exit"

CloseReturned(p) ==
    IF p \in Stoppers THEN "stopOk"
    ELSE IF p \in Orphans THEN (IF orphanClaim = p THEN "orphanRelease" ELSE "idle")
    ELSE "exit"

\* The guards of finishErrorWhen; other callers pass none.
OrphanGuard(p) ==
    p \in Orphans => readers = {} /\ (pc[p] = "claimedClose" => orphanClaim = p)

CloseBegin(p) ==
    /\ AtClose(p) /\ writeMu = NoProc
    /\ IF Ended \/ ~OrphanGuard(p)
       THEN /\ Goto(p, CloseRefused(p))
            /\ UNCHANGED <<writeMu, terminating, cancelled, closing>>
       ELSE /\ Goto(p, "closing")
            /\ writeMu' = p /\ terminating' = TRUE /\ cancelled' = TRUE
            /\ closing' = CloseKind(p)
    /\ UNCHANGED <<terminal, doneCloses, degraded, lastSeq, journalVars, feedVars, leaseVars,
                   poolVars, attemptVars, progressVars, prod, stopVars, orphanVars>>

\* The fields a terminal transition settles, in both journals' outcomes.
FinishTerminal(kind) ==
    /\ terminal' = kind /\ terminating' = FALSE
    /\ doneCloses' = doneCloses + 1
    /\ orphanTimer' = "none"
    /\ feedClosed' = TRUE

\* Mutant: the lease is cleared and never given back.
ReleaseForgotten == currentLease' = NoBackend /\ UNCHANGED held

ReleaseCurrentLease ==
    /\ held' = IF currentLease = NoBackend THEN held
               ELSE [held EXCEPT ![currentLease] = @ - 1]
    /\ currentLease' = NoBackend

CloseCommit(p) ==
    /\ pc[p] = "closing" /\ writeMu = p
    /\ \/ /\ degraded                                     \* finishDegradedLocked
          /\ feedAppend(<<closing>>)
          /\ UNCHANGED <<journalVars, degraded, feedActive, lastSeq>>
       \/ /\ ~degraded /\ JournalCommits(closing)
          /\ lastSeq' = lastSeq + 1
          /\ publishCommitted(lastSeq + 1, closing)
          /\ UNCHANGED <<degraded, feedActive>>
       \/ /\ ~degraded /\ JournalFails(closing)
          /\ enterJournalDegradedLocked(<<closing>>)
          /\ UNCHANGED lastSeq
    /\ FinishTerminal(closing)
    /\ ReleaseCurrentLease
    /\ closing' = "" /\ writeMu' = NoProc
    /\ Goto(p, CloseReturned(p))
    /\ UNCHANGED <<cancelled, registered, currentBackend, poolVars, attemptVars, progressVars,
                   prod, stopVars, readers, remoteReaderWasAttached, orphanClaim, remote, claimKey>>

-----------------------------------------------------------------------------
(* appendChunk and appendNonTerminalUntil, as the producer calls them: it     *)
(* works through prod.todo and goes on at prod.then.                          *)

\* Start writing entries; a chunk passes the tool-call tracker before writeMu.
Write(locals, entries, then) ==
    /\ Goto("producer", "append")
    /\ prod' = [locals EXCEPT !.todo = entries, !.then = then]
    /\ insideToolCall' = IF Head(entries) \in Chunks THEN Head(entries) = "tool"
                         ELSE insideToolCall

\* The error paths of the callers: refuseMigrationUntil goes on to close the
\* stream, the others do so unless the stream's context is already canceled.
AppendRefused ==
    IF prod.then = "finishError" \/ ~cancelled THEN "finishError" ELSE "exit"

AppendBegin ==
    /\ pc["producer"] = "append" /\ writeMu = NoProc
    /\ IF Ended
       THEN Goto("producer", AppendRefused) /\ UNCHANGED writeMu
       ELSE Goto("producer", "appending") /\ writeMu' = "producer"
    /\ UNCHANGED <<degraded, lastSeq, journalVars, terminalVars, feedVars, leaseVars, poolVars,
                   attemptVars, progressVars, prod, stopVars, orphanVars>>

\* How many entries the call still writes under its lock: a chunk by itself,
\* the warnings and the migration up to the next chunk together.
Batches ==
    {n \in 1..Len(prod.todo) :
        IF Head(prod.todo) \in Chunks THEN n = 1
        ELSE /\ \A i \in 1..n : prod.todo[i] \notin Chunks
             /\ n < Len(prod.todo) => prod.todo[n + 1] \in Chunks}
Taken(n) == SubSeq(prod.todo, 1, n)
Rest(n) == SubSeq(prod.todo, n + 1, Len(prod.todo))

\* The next entry of the batch, or the end of it.
AppendAdvance(n) ==
    LET rest == Rest(n) IN
    /\ finishReason' = (finishReason \/ Head(prod.todo) = "finish")
    /\ IF rest = <<>>
       THEN /\ Goto("producer", prod.then) /\ writeMu' = NoProc
            /\ prod' = [prod EXCEPT !.todo = <<>>, !.then = ""]
            /\ UNCHANGED insideToolCall
       ELSE IF Head(prod.todo) \in Chunks \/ Head(rest) \in Chunks
       THEN Write(prod, rest, prod.then) /\ writeMu' = NoProc
       ELSE /\ prod' = [prod EXCEPT !.todo = rest]
            /\ UNCHANGED <<writeMu, pc, insideToolCall>>

\* Mutant: sequence allocation resumes when the journal recovers.
AppendAcrossGap ==
    LET entry == Head(prod.todo) IN
    /\ pc["producer"] = "appending"
    /\ \/ /\ JournalCommits(EntryKind(entry))
          /\ lastSeq' = Len(log') /\ publishCommitted(Len(log'), entry) /\ AppendAdvance(1)
          /\ UNCHANGED <<degraded, feedActive>>
       \/ /\ JournalFails(EntryKind(entry))
          /\ \E n \in Batches : enterJournalDegradedLocked(Taken(n)) /\ AppendAdvance(n)
          /\ UNCHANGED lastSeq
    /\ UNCHANGED <<feedClosed, terminalVars, leaseVars, poolVars, attemptVars, migrationsUsed,
                   stopVars, orphanVars>>

AppendCommit ==
    LET entry == Head(prod.todo) IN
    /\ pc["producer"] = "appending"
    /\ \/ /\ degraded
          /\ \E n \in Batches : feedAppend(Taken(n)) /\ AppendAdvance(n)
          /\ UNCHANGED <<journalVars, degraded, lastSeq, feedActive>>
       \/ /\ ~degraded /\ JournalCommits(EntryKind(entry))
          /\ lastSeq' = Len(log')
          /\ publishCommitted(Len(log'), entry)
          /\ AppendAdvance(1)
          /\ UNCHANGED <<degraded, feedActive>>
       \/ /\ ~degraded /\ JournalFails(EntryKind(entry))
          /\ \E n \in Batches : enterJournalDegradedLocked(Taken(n)) /\ AppendAdvance(n)
          /\ UNCHANGED lastSeq
    /\ UNCHANGED <<feedClosed, terminalVars, leaseVars, poolVars, attemptVars, migrationsUsed,
                   stopVars, orphanVars>>

-----------------------------------------------------------------------------
(* runProducer and runAttempt.                                                *)

\* resolve ends with streams.Store; start then runs the producer.
Register ==
    /\ pc["producer"] = "opened"
    /\ registered' = TRUE
    /\ Goto("producer", "attempt")
    /\ UNCHANGED <<journalVars, terminalVars, feedVars, currentBackend, currentLease, held,
                   poolVars, attemptVars, progressVars, prod, stopVars, orphanVars, writeVars>>

BeginAttempt ==
    /\ pc["producer"] = "attempt"
    /\ attemptCancel' = TRUE /\ attemptCause' = pendingTrigger /\ pendingTrigger' = ""
    /\ Goto("producer", IF pendingTrigger # "" \/ cancelled THEN "attemptError" ELSE "dispatch")
    /\ UNCHANGED <<journalVars, terminalVars, feedVars, leaseVars, poolVars, progressVars, prod,
                   stopVars, orphanVars, writeVars>>

\* markAttemptDispatched, then the commit of the migration entries: the
\* migration itself, after any warnings the eligibility check attached to it.
DispatchAttempt ==
    /\ pc["producer"] = "dispatch"
    /\ IF ~prod.continuation
       THEN Goto("producer", "stream") /\ UNCHANGED <<migrationsUsed, insideToolCall, prod>>
       ELSE IF Ended \/ cancelled
       THEN Goto("producer", "exit") /\ UNCHANGED <<migrationsUsed, insideToolCall, prod>>
       ELSE /\ migrationsUsed' = migrationsUsed + 1
            /\ \E entries \in {<<"migration">>, <<"warning", "migration">>} :
                   Write(prod, entries, "stream")
    /\ UNCHANGED <<journalVars, terminalVars, feedVars, leaseVars, poolVars, attemptVars,
                   finishReason, stopVars, orphanVars, writeVars>>

\* Mutant: the frames held back are dropped with the restart warning.
SeamDropped(locals, then) ==
    Write([locals EXCEPT !.continuation = FALSE, !.frames = <<>>], <<"warning">>, then)

\* A frame cannot be rewritten or read after k were written, or the overlap is
\* longer than their text.
seamFails(locals, warning, k) ==
    LET written == warning \o SubSeq(locals.frames, 1, k)
        left == [locals EXCEPT !.frames = SubSeq(@, k + 1, Len(@))] IN
    IF written = <<>>
    THEN Goto("producer", "seamFailed") /\ prod' = left /\ UNCHANGED insideToolCall
    ELSE Write(left, written, "seamFailed")

\* flushSeam writes the frames held back for the seam, after a warning when the
\* seam looks like a restart, or fails on the way.
flushSeam(locals, then) ==
    \E warning \in {<<>>, <<"warning">>} :
        \/ Write([locals EXCEPT !.continuation = FALSE, !.frames = <<>>],
                 warning \o locals.frames, then)
        \/ \E k \in 0..Len(locals.frames) : seamFails(locals, warning, k)

FlushThen(label) ==
    IF prod.continuation /\ prod.frames # <<>>
    THEN flushSeam(prod, label)
    ELSE Goto("producer", label) /\ UNCHANGED <<prod, insideToolCall>>

streamUnchanged == <<journalVars, terminalVars, feedVars, leaseVars, poolVars, attemptVars,
                     migrationsUsed, finishReason, stopVars, orphanVars, writeVars>>

\* An event of the upstream. A continuation's chunks are held back until the
\* seam window is full; a buffer over its limit refuses the continuation.
ReceiveChunk ==
    /\ pc["producer"] = "stream" /\ prod.chunks < MaxChunks
    /\ \E c \in Chunks :
          LET got == [prod EXCEPT !.chunks = @ + 1]
              buffered == [got EXCEPT !.frames = Append(@, c)] IN
          \/ ~prod.continuation /\ Write(got, <<c>>, "stream")
          \/ prod.continuation /\ prod' = buffered /\ UNCHANGED <<pc, insideToolCall>>
          \/ prod.continuation /\ flushSeam(buffered, "stream")
          \/ prod.continuation /\ Write(buffered, <<"warning">>, "finishError")
    /\ UNCHANGED streamUnchanged

ReceiveDone ==
    /\ pc["producer"] = "stream"
    /\ FlushThen("finishDone")
    /\ UNCHANGED streamUnchanged

\* A 4xx answer, a response that is no event stream, or an invalid chunk.
ReceiveInvalid ==
    /\ pc["producer"] = "stream"
    /\ FlushThen("finishInvalid")
    /\ UNCHANGED streamUnchanged

\* A 5xx answer or an error chunk: a passive failure, whatever the context says.
ReceiveFailure ==
    /\ pc["producer"] = "stream"
    /\ FlushThen("upstreamFailed")
    /\ UNCHANGED streamUnchanged

\* The request or the decoder fails: the connection broke, the stall timer or a
\* trigger canceled the attempt, or the stream's context was canceled.
ReadFails ==
    /\ pc["producer"] = "stream"
    /\ IF cancelled THEN Goto("producer", "attemptError") /\ UNCHANGED <<prod, insideToolCall>>
       ELSE FlushThen("attemptError")
    /\ UNCHANGED streamUnchanged

\* outcomeForAttemptError and finishCanceledProducer's first look at the state,
\* and flushContinuation after a seam that failed.
EndAttempt ==
    /\ \/ /\ pc["producer"] = "attemptError" /\ cancelled
          /\ Goto("producer", IF Ended THEN "exit" ELSE "finishError")
          /\ UNCHANGED prod
       \/ /\ pc["producer"] = "attemptError" /\ ~cancelled
          /\ Goto("producer", "prepare")
          /\ prod' = [prod EXCEPT !.reason = IF attemptCause # "" THEN attemptCause ELSE "crash",
                                  !.passive = (attemptCause = "")]
       \/ /\ pc["producer"] = "upstreamFailed"
          /\ Goto("producer", "prepare")
          /\ prod' = [prod EXCEPT !.reason = "crash", !.passive = TRUE]
       \/ /\ pc["producer"] = "seamFailed"
          /\ Goto("producer", IF cancelled THEN "exit" ELSE "finishError")
          /\ UNCHANGED prod
    /\ UNCHANGED <<insideToolCall, streamUnchanged>>

-----------------------------------------------------------------------------
(* prepareMigration. Progress, backend and lease change in this goroutine      *)
(* only (a terminal transition clears the lease), so the snapshot taken at the *)
(* start is the state itself.                                                  *)

Available(excluded) == Backends \ (draining \cup unhealthy \cup quarantined \cup {excluded})

Completed == finishReason /\ ~insideToolCall
WithinPolicy == migrationsUsed < MaxMigrations /\ ~insideToolCall

Refuse(locals) == Write(locals, <<"warning">>, "finishError")

PrepareMigration ==
    /\ pc["producer"] = "prepare"
    /\ LET evaluated == [prod EXCEPT !.reason = "", !.passive = FALSE] IN
       IF Ended \/ cancelled \/ Completed
       THEN /\ Goto("producer", IF Ended \/ cancelled THEN "exit" ELSE "finishCompleted")
            /\ prod' = evaluated
            /\ UNCHANGED <<insideToolCall, quarantined>>
       ELSE /\ quarantined' = IF prod.passive THEN quarantined \cup {currentBackend} ELSE quarantined
            /\ IF prod.reason = "drain" /\ ~WithinPolicy
               THEN Refuse(evaluated)
               ELSE Goto("producer", "acquire") /\ prod' = evaluated /\ UNCHANGED insideToolCall
    /\ UNCHANGED <<journalVars, terminalVars, feedVars, leaseVars, draining, unhealthy,
                   attemptVars, migrationsUsed, finishReason, stopVars, orphanVars, writeVars>>

\* acquireMigrationTarget: a drain waits for a target until its deadline, any
\* other reason settles for what there is now.
AcquireTarget ==
    /\ pc["producer"] = "acquire"
    /\ \E b \in Available(currentBackend) :
          /\ held' = [held EXCEPT ![b] = @ + 1]
          /\ prod' = [prod EXCEPT !.target = b]
    /\ Goto("producer", "evaluate")
    /\ UNCHANGED <<journalVars, terminalVars, feedVars, registered, currentBackend, currentLease,
                   poolVars, attemptVars, progressVars, stopVars, orphanVars, writeVars>>

\* Mutant: the producer leaves without a refusal.
NoTargetLeaves ==
    /\ pc["producer"] = "acquire" /\ Available(currentBackend) = {}
    /\ Goto("producer", "exit")
    /\ UNCHANGED <<prod, insideToolCall, streamUnchanged>>

NoTarget ==
    /\ pc["producer"] = "acquire" /\ Available(currentBackend) = {}
    /\ IF cancelled
       THEN /\ Goto("producer", IF Ended THEN "exit" ELSE "finishError")
            /\ UNCHANGED <<prod, insideToolCall>>
       ELSE Refuse(prod)
    /\ UNCHANGED streamUnchanged

EvaluateTarget ==
    /\ pc["producer"] = "evaluate"
    /\ IF WithinPolicy /\ prod.target \in SafeTargets
       THEN Goto("producer", "reserve") /\ UNCHANGED <<held, prod, insideToolCall>>
       ELSE /\ held' = [held EXCEPT ![prod.target] = @ - 1]
            /\ Refuse([prod EXCEPT !.target = NoBackend])
    /\ UNCHANGED <<journalVars, terminalVars, feedVars, registered, currentBackend, currentLease,
                   poolVars, attemptVars, migrationsUsed, finishReason, stopVars, orphanVars,
                   writeVars>>

\* Mutant: a trigger between two attempts is dropped.
mergeDropped(reason) == UNCHANGED pendingTrigger

mergePendingTriggerLocked(reason) ==
    pendingTrigger' = IF pendingTrigger = "" THEN reason ELSE pendingTrigger

\* reserveMigrationTarget, up to the swap: the target becomes current unless a
\* terminal transition won. The lease to release is then in prod.target.
ReserveTarget ==
    /\ pc["producer"] = "reserve"
    /\ IF Ended \/ currentLease # currentBackend
       THEN /\ held' = [held EXCEPT ![prod.target] = @ - 1]
            /\ prod' = [prod EXCEPT !.target = NoBackend]
            /\ Goto("producer", "exit")
            /\ UNCHANGED <<currentLease, currentBackend, attemptCancel>>
       ELSE /\ currentLease' = prod.target /\ currentBackend' = prod.target
            /\ attemptCancel' = FALSE
            /\ prod' = [prod EXCEPT !.target = currentLease]
            /\ Goto("producer", "handover")
            /\ UNCHANGED held
    /\ UNCHANGED <<journalVars, terminalVars, feedVars, registered, poolVars, attemptCause,
                   pendingTrigger, progressVars, stopVars, orphanVars, writeVars>>

\* Its second half: release the failed lease and look at the target again, for
\* a trigger on it before the swap found another current backend.
Handover ==
    /\ pc["producer"] = "handover"
    /\ held' = [held EXCEPT ![prod.target] = @ - 1]
    /\ prod' = [prod EXCEPT !.target = NoBackend, !.continuation = TRUE, !.frames = <<>>]
    /\ IF currentLease = NoBackend THEN UNCHANGED pendingTrigger
       ELSE IF currentBackend \in unhealthy \cup quarantined THEN mergePendingTriggerLocked("health")
       ELSE IF currentBackend \in draining THEN mergePendingTriggerLocked("drain")
       ELSE UNCHANGED pendingTrigger
    /\ Goto("producer", "attempt")
    /\ UNCHANGED <<journalVars, terminalVars, feedVars, registered, currentBackend, currentLease,
                   poolVars, attemptCancel, attemptCause, progressVars, stopVars, orphanVars,
                   writeVars>>

-----------------------------------------------------------------------------
(* stop.                                                                      *)

stopUnchanged == <<journalVars, terminalVars, feedVars, leaseVars, poolVars, attemptVars,
                   progressVars, prod, orphanVars, writeVars>>

\* One turn of stop's loop. A waiter is released by the requester's close(wait).
StopEnter(s) ==
    /\ \/ pc[s] = "idle" /\ registered
       \/ pc[s] = "stopWait" /\ ~stopRequested
    /\ IF terminal = "stopped"
       THEN /\ stopAnswer' = [stopAnswer EXCEPT ![s] = "stopped"] /\ Goto(s, "done")
            /\ UNCHANGED stopRequested
       ELSE IF stopRequested
       THEN Goto(s, "stopWait") /\ UNCHANGED stopVars
       ELSE IF Ended
       THEN /\ stopAnswer' = [stopAnswer EXCEPT ![s] = "conflict"] /\ Goto(s, "done")
            /\ UNCHANGED stopRequested
       ELSE stopRequested' = TRUE /\ Goto(s, "stopClose") /\ UNCHANGED stopAnswer
    /\ UNCHANGED stopUnchanged

\* Mutant: the requests waiting for this one are not released.
StopReturnsAlone(s) ==
    /\ pc[s] \in {"stopOk", "stopConflict"}
    /\ stopAnswer' = [stopAnswer EXCEPT ![s] = IF pc[s] = "stopOk" THEN "stopped" ELSE "conflict"]
    /\ Goto(s, "done")
    /\ UNCHANGED <<stopRequested, stopUnchanged>>

StopReturn(s) ==
    /\ pc[s] \in {"stopOk", "stopConflict"}
    /\ stopRequested' = FALSE
    /\ stopAnswer' = [stopAnswer EXCEPT ![s] = IF pc[s] = "stopOk" THEN "stopped" ELSE "conflict"]
    /\ Goto(s, "done")
    /\ UNCHANGED stopUnchanged

-----------------------------------------------------------------------------
(* Drain and health triggers: triggerMigrationUntil,                          *)
(* refuseExternalTriggerIfIneligible and closeExternalMigrationRefusal.       *)

triggerUnchanged == <<registered, currentBackend, quarantined, progressVars, prod, stopVars,
                      readers, remoteReaderWasAttached, orphanClaim, remote, claimKey>>

\* The pool marks the backend and snapshots its bindings; the runtime is looked
\* up in service.streams for each of them.
TriggerMark(t) ==
    LET b == TriggerBackend[t] IN
    /\ pc[t] = "idle" /\ (registered \/ EarlyTriggers)
    /\ IF TriggerReason[t] = "drain"
       THEN draining' = draining \cup {b} /\ UNCHANGED unhealthy
       ELSE unhealthy' = unhealthy \cup {b} /\ UNCHANGED draining
    /\ Goto(t, IF held[b] > 0 THEN "lookup" ELSE "done")
    /\ UNCHANGED <<journalVars, terminalVars, feedVars, currentLease, held, attemptVars,
                   writeVars, orphanTimer, triggerUnchanged>>

TriggerLookup(t) ==
    /\ pc[t] = "lookup"
    /\ Goto(t, IF registered THEN "probe" ELSE "done")
    /\ UNCHANGED <<journalVars, terminalVars, feedVars, currentLease, held, draining, unhealthy,
                   attemptVars, writeVars, orphanTimer, triggerUnchanged>>

\* Whether migrating away from b would be refused now. The lease that probes for
\* a target is given back at once; the drain of a stream that only lacks a
\* target is left to the producer, which can wait.
WouldRefuse(t, b) ==
    \/ \E target \in Available(b) : ~(WithinPolicy /\ target \in SafeTargets)
    \/ /\ Available(b) = {}
       /\ ~(TriggerReason[t] = "drain" /\ WithinPolicy /\ b \in SafeTargets)
WouldMigrate(t, b) ==
    \/ \E target \in Available(b) : WithinPolicy /\ target \in SafeTargets
    \/ Available(b) = {} /\ TriggerReason[t] = "drain" /\ WithinPolicy /\ b \in SafeTargets

TriggerProbe(t) ==
    LET b == TriggerBackend[t] IN
    /\ pc[t] = "probe"
    /\ \/ (Ended \/ currentBackend # b \/ Completed \/ WouldMigrate(t, b)) /\ Goto(t, "trigger")
       \/ ~Ended /\ currentBackend = b /\ ~Completed /\ WouldRefuse(t, b) /\ Goto(t, "refuse")
    /\ UNCHANGED <<journalVars, terminalVars, feedVars, currentLease, held, draining, unhealthy,
                   attemptVars, writeVars, orphanTimer, triggerUnchanged>>

\* The tail of triggerMigrationUntil; "retrigger" and "withdrawn" are "trigger"
\* and "done" after a refusal that was rolled back.
TriggerAttempt(t) ==
    /\ pc[t] \in {"trigger", "retrigger"}
    /\ IF Ended \/ currentBackend # TriggerBackend[t]
       THEN UNCHANGED <<attemptCause, pendingTrigger>>
       ELSE IF ~attemptCancel
       THEN mergePendingTriggerLocked(TriggerReason[t]) /\ UNCHANGED attemptCause
       ELSE /\ attemptCause' = IF attemptCause = "" THEN TriggerReason[t] ELSE attemptCause
            /\ UNCHANGED pendingTrigger
    /\ Goto(t, IF pc[t] = "trigger" THEN "done" ELSE "withdrawn")
    /\ UNCHANGED <<journalVars, terminalVars, feedVars, currentLease, held, draining, unhealthy,
                   attemptCancel, writeVars, orphanTimer, triggerUnchanged>>

RefusalBegin(t) ==
    /\ pc[t] = "refuse"
    /\ IF Ended \/ currentBackend # TriggerBackend[t]
       THEN Goto(t, "trigger") /\ UNCHANGED terminating
       ELSE terminating' = TRUE /\ Goto(t, "refusalLock")
    /\ UNCHANGED <<journalVars, terminal, doneCloses, cancelled, closing, feedVars, currentLease,
                   held, draining, unhealthy, attemptVars, writeVars, orphanTimer, triggerUnchanged>>

RefusalLock(t) ==
    /\ pc[t] = "refusalLock" /\ writeMu = NoProc
    /\ writeMu' = t /\ Goto(t, "refusalWarn")
    /\ UNCHANGED <<degraded, lastSeq, journalVars, terminalVars, feedVars, currentLease, held,
                   draining, unhealthy, attemptVars, orphanTimer, triggerUnchanged>>

\* One warning stands for the list. An error unlocks writeMu first and clears
\* terminating afterwards.
RefusalWarn(t) ==
    /\ pc[t] = "refusalWarn"
    /\ \/ /\ JournalCommits("warning")
          /\ lastSeq' = Len(log') /\ publishCommitted(Len(log'), "warning")
          /\ Goto(t, "refusalClose") /\ UNCHANGED writeMu
       \/ /\ JournalFails("warning")
          /\ Goto(t, "refusalRollback") /\ writeMu' = NoProc
          /\ UNCHANGED <<lastSeq, feed>>
    /\ UNCHANGED <<terminalVars, feedActive, feedClosed, currentLease, held, draining, unhealthy,
                   attemptVars, degraded, orphanTimer, triggerUnchanged>>

RefusalClose(t) ==
    /\ pc[t] = "refusalClose"
    /\ \/ /\ JournalCommits("error")
          /\ lastSeq' = lastSeq + 1 /\ publishCommitted(lastSeq + 1, "error")
          /\ FinishTerminal("error")
          /\ currentLease' = NoBackend
          /\ Goto(t, "refusalCancel")
       \/ /\ JournalFails("error")
          /\ Goto(t, "refusalRollback")
          /\ UNCHANGED <<lastSeq, feed, terminal, terminating, doneCloses, orphanTimer,
                         feedClosed, currentLease>>
    /\ writeMu' = NoProc
    /\ UNCHANGED <<cancelled, closing, feedActive, held, draining, unhealthy, attemptVars,
                   degraded, triggerUnchanged>>

\* Cancellation and the lease's release follow the commit. The released lease is
\* the one on the current backend: a terminal stream never migrates.
RefusalCancel(t) ==
    /\ pc[t] = "refusalCancel"
    /\ cancelled' = TRUE
    /\ held' = [held EXCEPT ![currentBackend] = @ - 1]
    /\ Goto(t, "done")
    /\ UNCHANGED <<journalVars, terminal, terminating, doneCloses, closing, feedVars, currentLease,
                   draining, unhealthy, attemptVars, writeVars, orphanTimer, triggerUnchanged>>

RefusalRollback(t) ==
    /\ pc[t] = "refusalRollback"
    /\ terminating' = FALSE /\ Goto(t, "retrigger")
    /\ UNCHANGED <<journalVars, terminal, doneCloses, cancelled, closing, feedVars, currentLease,
                   held, draining, unhealthy, attemptVars, writeVars, orphanTimer, triggerUnchanged>>

-----------------------------------------------------------------------------
(* Readers and the orphan policy.                                             *)

orphanUnchanged == <<journalVars, terminalVars, feedVars, leaseVars, poolVars, attemptVars,
                     progressVars, prod, stopVars, writeVars>>

AttachReader(r) ==
    /\ registered /\ r \notin readers
    /\ ~terminating /\ ~(orphanClaim # NoProc /\ terminal = "")
    /\ readers' = readers \cup {r}
    /\ remoteReaderWasAttached' = FALSE /\ orphanTimer' = "none"
    /\ UNCHANGED <<orphanClaim, remote, claimKey, pc, orphanUnchanged>>

DetachReader(r) ==
    LET last == readers = {r} /\ terminal = "" IN
    /\ r \in readers
    /\ readers' = readers \ {r}
    /\ orphanTimer' = IF last /\ OrphanPolicy = "cancel_after" THEN "timeout" ELSE orphanTimer
    /\ IF last /\ OrphanPolicy = "cancel"
       THEN \E o \in Orphans : pc[o] = "idle" /\ Goto(o, "orphanCheck")
       ELSE UNCHANGED pc
    /\ UNCHANGED <<remoteReaderWasAttached, orphanClaim, remote, claimKey, orphanUnchanged>>

OrphanTimerFires(o) ==
    /\ orphanTimer # "none" /\ pc[o] = "idle"
    /\ orphanTimer' = "none" /\ Goto(o, "orphanCheck")
    /\ UNCHANGED <<readers, remoteReaderWasAttached, orphanClaim, remote, claimKey, orphanUnchanged>>

\* TryClaimOrphan: an error when the stream is terminal or another claim stands,
\* or when the call failed, in which case the claim may have been taken.
ClaimFails(o) ==
    \/ (JournalClosed \/ claimKey # NoProc) /\ UNCHANGED <<claimKey, faults>>
    \/ /\ faults < MaxFaults /\ faults' = faults + 1
       /\ claimKey' \in {claimKey} \cup (IF remote = {} /\ claimKey = NoProc THEN {o} ELSE {})

\* cancelOrphan up to its decision; mu is held across the claim. Without a shared
\* journal there is nothing to claim and no remote reader to count.
CancelOrphan(o) ==
    /\ pc[o] = "orphanCheck"
    /\ IF readers # {} \/ Ended
       THEN Goto(o, "idle")
            /\ UNCHANGED <<orphanTimer, remoteReaderWasAttached, orphanClaim, claimKey, faults>>
       ELSE /\ orphanTimer' = "none"
            /\ \/ /\ RemoteReaders = {}
                  /\ Goto(o, "orphanClose")
                  /\ UNCHANGED <<remoteReaderWasAttached, orphanClaim, claimKey, faults>>
               \/ /\ RemoteReaders # {} /\ ClaimFails(o)
                  /\ Goto(o, "orphanPoll")
                  /\ UNCHANGED <<remoteReaderWasAttached, orphanClaim>>
               \/ /\ RemoteReaders # {} /\ ~JournalClosed /\ claimKey = NoProc /\ remote # {}
                  /\ remoteReaderWasAttached' = TRUE
                  /\ Goto(o, "orphanPoll")
                  /\ UNCHANGED <<orphanClaim, claimKey, faults>>
               \/ /\ RemoteReaders # {} /\ ~JournalClosed /\ claimKey = NoProc /\ remote = {}
                  /\ claimKey' = o /\ remoteReaderWasAttached' = FALSE
                  /\ IF OrphanPolicy = "cancel_after" /\ remoteReaderWasAttached
                     THEN Goto(o, "orphanGrace") /\ UNCHANGED orphanClaim
                     ELSE Goto(o, "claimedClose") /\ orphanClaim' = o
                  /\ UNCHANGED faults
    /\ UNCHANGED <<readers, remote, log, sealed, terminalVars, feedVars, leaseVars,
                   poolVars, attemptVars, progressVars, prod, stopVars, writeVars>>

\* scheduleOrphanCheck, after giving back a claim that only ended the poll.
ScheduleOrphanCheck(o) ==
    /\ pc[o] \in {"orphanPoll", "orphanGrace"}
    /\ orphanTimer' = IF readers # {} \/ Ended \/ orphanClaim # NoProc THEN orphanTimer
                      ELSE IF pc[o] = "orphanPoll" THEN "poll" ELSE "timeout"
    /\ claimKey' = IF pc[o] = "orphanGrace" /\ claimKey = o THEN NoProc ELSE claimKey
    /\ Goto(o, "idle")
    /\ UNCHANGED <<readers, remoteReaderWasAttached, orphanClaim, remote, orphanUnchanged>>

\* The end of finishClaimedOrphan.
ReleaseOrphanClaim(o) ==
    /\ pc[o] = "orphanRelease"
    /\ orphanClaim' = IF orphanClaim = o THEN NoProc ELSE orphanClaim
    /\ claimKey' = IF orphanClaim = o /\ terminal = "" /\ claimKey = o THEN NoProc ELSE claimKey
    /\ Goto(o, "idle")
    /\ UNCHANGED <<readers, orphanTimer, remoteReaderWasAttached, remote, orphanUnchanged>>

\* Mutant: an orphan claim does not fence new readers.
RemoteAttachUnfenced(q) ==
    /\ q \notin remote
    /\ remote' = remote \cup {q}
    /\ UNCHANGED <<readers, orphanTimer, remoteReaderWasAttached, orphanClaim, claimKey, pc,
                   orphanUnchanged>>

\* Readers on other replicas; the journal refuses one while a claim stands.
RemoteAttach(q) ==
    /\ q \notin remote /\ (claimKey = NoProc \/ JournalClosed)
    /\ remote' = remote \cup {q}
    /\ UNCHANGED <<readers, orphanTimer, remoteReaderWasAttached, orphanClaim, claimKey, pc,
                   orphanUnchanged>>

RemoteDetach(q) ==
    /\ q \in remote
    /\ remote' = remote \ {q}
    /\ UNCHANGED <<readers, orphanTimer, remoteReaderWasAttached, orphanClaim, claimKey, pc,
                   orphanUnchanged>>

\* A claim has a bounded life (tryClaimDistributedOrphan's lease of three
\* deadlines). It may run out while the goroutine that took it waits for writeMu.
ClaimExpires ==
    /\ claimKey # NoProc
    /\ claimKey' = NoProc
    /\ UNCHANGED <<readers, orphanTimer, remoteReaderWasAttached, orphanClaim, remote, pc,
                   orphanUnchanged>>

-----------------------------------------------------------------------------
(* The environment, and the specification.                                    *)

\* Shutdown ran out of time waiting for active streams: forceCancel.
ForceCancel ==
    /\ ForceCancels /\ registered /\ ~cancelled
    /\ cancelled' = TRUE
    /\ UNCHANGED <<terminal, terminating, doneCloses, closing, journalVars, feedVars, leaseVars,
                   poolVars, attemptVars, progressVars, prod, stopVars, orphanVars, writeVars, pc>>

\* A backend's quarantine ends while the producer may still ask for a target.
QuarantineExpires(b) ==
    /\ b \in quarantined /\ pc["producer"] # "exit"
    /\ quarantined' = quarantined \ {b}
    /\ UNCHANGED <<draining, unhealthy, journalVars, terminalVars, feedVars, leaseVars,
                   attemptVars, progressVars, prod, stopVars, orphanVars, writeVars, pc>>

Producer ==
    \/ Register \/ BeginAttempt \/ DispatchAttempt \/ AppendBegin \/ AppendCommit
    \/ EndAttempt \/ PrepareMigration \/ AcquireTarget \/ NoTarget \/ EvaluateTarget
    \/ ReserveTarget \/ Handover \/ CloseBegin("producer") \/ CloseCommit("producer")

Upstream == ReceiveChunk \/ ReceiveDone \/ ReceiveInvalid \/ ReceiveFailure \/ ReadFails

Stopper(s) == StopEnter(s) \/ CloseBegin(s) \/ CloseCommit(s) \/ StopReturn(s)

Trigger(t) ==
    \/ TriggerLookup(t) \/ TriggerProbe(t) \/ TriggerAttempt(t) \/ RefusalBegin(t)
    \/ RefusalLock(t) \/ RefusalWarn(t) \/ RefusalClose(t) \/ RefusalCancel(t)
    \/ RefusalRollback(t)

Orphan(o) ==
    \/ CancelOrphan(o) \/ CloseBegin(o) \/ CloseCommit(o) \/ ScheduleOrphanCheck(o)
    \/ ReleaseOrphanClaim(o)

Next ==
    \/ Producer \/ Upstream \/ MarkJournalDegraded \/ ForceCancel \/ ClaimExpires
    \/ \E s \in Stoppers : Stopper(s)
    \/ \E t \in Triggers : TriggerMark(t) \/ Trigger(t)
    \/ \E o \in Orphans : OrphanTimerFires(o) \/ Orphan(o)
    \/ \E r \in Readers : AttachReader(r) \/ DetachReader(r)
    \/ \E q \in RemoteReaders : RemoteAttach(q) \/ RemoteDetach(q)
    \/ \E b \in Backends : QuarantineExpires(b)

Spec == Init /\ [][Next]_vars

\* Every goroutine that has started keeps running, and an attempt whose context
\* is canceled reads an error from its body. Nothing is assumed of the upstream,
\* of readers, of timers or of the journal's marker.
FairSpec ==
    /\ Spec
    /\ WF_vars(Producer)
    /\ WF_vars(ReadFails /\ (attemptCause # "" \/ cancelled))
    /\ \A s \in Stoppers : WF_vars(Stopper(s) /\ pc[s] # "idle")
    /\ \A t \in Triggers : WF_vars(Trigger(t))
    /\ \A o \in Orphans : WF_vars(Orphan(o))

-----------------------------------------------------------------------------
(* Properties.                                                                *)

Labels == {"opened", "attempt", "dispatch", "append", "appending", "stream", "attemptError",
           "upstreamFailed", "seamFailed", "prepare", "acquire", "evaluate", "reserve", "handover",
           "finishDone", "finishCompleted", "finishInvalid", "finishError", "closing", "exit",
           "idle", "stopWait", "stopClose", "stopOk", "stopConflict", "done",
           "lookup", "probe", "trigger", "refuse", "refusalLock", "refusalWarn", "refusalClose",
           "refusalCancel", "refusalRollback", "retrigger", "withdrawn",
           "orphanCheck", "orphanClose", "claimedClose", "orphanPoll", "orphanGrace",
           "orphanRelease"}
Reasons == {"", "drain", "health"}
Kinds == {"open", "chunk", "warning", "migration"} \cup Terminals

JournalTypes == log \in Seq(Kinds) /\ log # <<>> /\ sealed \in BOOLEAN /\ faults \in Nat
TerminalTypes ==
    /\ terminal \in Terminals \cup {""} /\ closing \in Terminals \cup {""}
    /\ terminating \in BOOLEAN /\ doneCloses \in Nat /\ cancelled \in BOOLEAN
FeedFrames == [seq : Nat, kind : Kinds \cup {"journal_degraded"}]
FeedTypes ==
    /\ feed \in Seq(FeedFrames)
    /\ feedActive \in BOOLEAN /\ feedClosed \in BOOLEAN
LeaseTypes ==
    /\ registered \in BOOLEAN /\ currentBackend \in Backends
    /\ currentLease \in Backends \cup {NoBackend} /\ held \in [Backends -> Nat]
PoolTypes == draining \subseteq Backends /\ unhealthy \subseteq Backends /\ quarantined \subseteq Backends
AttemptTypes == attemptCancel \in BOOLEAN /\ attemptCause \in Reasons /\ pendingTrigger \in Reasons
ProgressTypes == migrationsUsed \in Nat /\ finishReason \in BOOLEAN /\ insideToolCall \in BOOLEAN
Entries == Chunks \cup {"warning", "migration"}
Locals == [todo : Seq(Entries), then : Labels \cup {""}, continuation : BOOLEAN,
           frames : Seq(Chunks), reason : Reasons \cup {"crash"}, passive : BOOLEAN,
           target : Backends \cup {NoBackend}, chunks : Nat]
ProducerTypes == prod \in Locals
StopTypes == stopRequested \in BOOLEAN /\ stopAnswer \in [Stoppers -> {"", "stopped", "conflict"}]
OrphanTypes ==
    /\ readers \subseteq Readers /\ orphanTimer \in {"none", "timeout", "poll"}
    /\ remoteReaderWasAttached \in BOOLEAN /\ orphanClaim \in Orphans \cup {NoProc}
    /\ remote \subseteq RemoteReaders /\ claimKey \in Orphans \cup {NoProc}
WriteTypes == writeMu \in Procs \cup {NoProc} /\ degraded \in BOOLEAN /\ lastSeq \in Nat

\* The type of every variable: those each critical section of mu or writeMu sets.
TypeOK ==
    /\ JournalTypes /\ TerminalTypes /\ FeedTypes /\ LeaseTypes /\ PoolTypes /\ AttemptTypes
    /\ ProgressTypes /\ ProducerTypes /\ StopTypes /\ OrphanTypes /\ WriteTypes
    /\ pc \in [Procs -> Labels]

\* close(r.done) panics when it runs twice: whoever wins the race to end the
\* stream closes it once, and only then (closeTerminalUntil, finishDegradedLocked,
\* closeExternalMigrationRefusal).
DoneClosedOnce == doneCloses = (IF terminal # "" THEN 1 ELSE 0)

\* The journal's terminal entry is the outcome the runtime reports, and a stream
\* that ended without degrading has one, even when the answer to Close was lost.
TerminalAgreement ==
    /\ JournalClosed => terminal = log[Len(log)]
    /\ terminal # "" /\ ~degraded => JournalClosed

\* Triggers whose refusal failed: its last entry may be in the journal all the
\* same, and lastSeq is not told.
Withdrawn == {t \in Triggers : pc[t] \in {"refusalRollback", "retrigger", "withdrawn"}}

\* Between writes r.lastSeq is the journal's last sequence; the terminal entry's
\* sequence and the degradation boundary are computed from it, not returned. It
\* is never ahead, and behind only by entries of refusals that failed and were
\* rolled back (closeExternalMigrationRefusal), one for each at most.
MirrorsJournal ==
    writeMu = NoProc /\ ~degraded =>
        lastSeq <= Len(log) /\ Len(log) <= lastSeq + Cardinality(Withdrawn)

\* durable.go:768-769: "an execute-then-cancel result is always observed and
\* mirrored before terminal sequence allocation". A refusal's warning that was
\* committed and reported failed is not.
LastSeqMirrored == writeMu = NoProc /\ ~degraded => lastSeq = Len(log)

\* A reader that keeps up is relayed every committed entry, once and in order;
\* when the journal is lost it is warned once, and no sequence number is used
\* after the gap.
FeedFollowsJournal ==
    /\ \A i \in 1..Len(feed) : feed[i].seq # 0 => feed[i] = Frame(i + 1, log[i + 1])
    /\ \A i \in 1..Len(feed) :
          feed[i].kind = "journal_degraded" <=>
              feed[i].seq = 0 /\ \A j \in 1..(i - 1) : feed[j].seq # 0

\* The generation ends at its terminal frame: nothing is relayed after it.
NothingAfterTerminal ==
    \A i \in 1..Len(feed) : feed[i].kind \in Terminals => i = Len(feed) /\ terminal = feed[i].kind

\* Chunks the upstreams sent are neither lost nor repeated across the seam
\* buffer, failed journal writes and migrations while the stream is live.
ChunksOf(s) == Cardinality({i \in 1..Len(s) : s[i] \in Chunks})
Relayed == Cardinality({i \in 1..Len(feed) : feed[i].kind = "chunk"})
NoChunkLost ==
    ~Ended /\ ~cancelled => Relayed + ChunksOf(prod.todo) + Len(prod.frames) = prod.chunks

\* What a reader attached from the start is relayed: the journal's entries, the
\* one warning of a gap, every chunk once and nothing after the terminal frame,
\* whichever journal call of a commit, a batch or a stop fails.
FeedExact == FeedFollowsJournal /\ NothingAfterTerminal /\ NoChunkLost

RefusalPending == \E t \in Triggers : pc[t] = "refusalCancel"
LeasesOwed(b) ==
    (IF currentLease = b THEN 1 ELSE 0) + (IF prod.target = b THEN 1 ELSE 0)
    + (IF currentBackend = b /\ RefusalPending THEN 1 ELSE 0)

\* Leases held in the pool are exactly the current one, the target the producer
\* is evaluating or handing over, and the one a refusal is about to release. (The
\* lease a trigger probes for a target with is taken and given back in one step.)
LeasesAccounted == \A b \in Backends : held[b] = LeasesOwed(b)

\* The producer leaves only a stream that is over or being ended: an open stream
\* always has someone to drive it.
ProducerDrivesStream == pc["producer"] = "exit" => Ended

\* The orphan policy never ends a stream that a local reader follows, and with a
\* shared journal only under its own claim. A remote reader follows a stream that
\* is being ended only if it came after the claim had lapsed, or after the
\* terminal entry was journaled (cancelOrphan, finishClaimedOrphan).
OrphanHasNoReaders ==
    \A o \in Orphans : pc[o] = "closing" =>
        /\ readers = {}
        /\ RemoteReaders # {} => orphanClaim = o
        /\ remote # {} => claimKey = NoProc \/ JournalClosed

\* A stop that succeeded means the stream is stopped, and one that was refused
\* lost to another outcome.
StopTruthful ==
    \A s \in Stoppers :
        /\ stopAnswer[s] = "stopped" => terminal = "stopped"
        /\ stopAnswer[s] = "conflict" => terminal # "stopped"

\* The outcome is final.
TerminalFinal == [][terminal # "" => terminal' = terminal]_terminal

\* Sequence allocation stops for good at the degradation boundary.
NoSequenceAfterGap == [][degraded => lastSeq' = lastSeq]_lastSeq

\* Every stop request is answered, whatever it races with.
StopAnswered == \A s \in Stoppers : pc[s] # "idle" ~> pc[s] = "done"

\* A drained backend gets its leases back: the trigger is never lost between the
\* attempt, the pending field and the handover to a target.
DrainCompletes == draining # {} ~> \A b \in draining : held[b] = 0

=============================================================================
