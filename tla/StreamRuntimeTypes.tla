------------------------- MODULE StreamRuntimeTypes --------------------------
(***************************************************************************)
(* The inductive invariant of StreamRuntime, and the proof that every step *)
(* of every goroutine keeps TypeOK.                                        *)
(***************************************************************************)
EXTENDS StreamRuntime, SequenceTheorems, TLAPS

-----------------------------------------------------------------------------
(* The inductive invariant.                                                   *)

\* Control points at which a goroutine holds writeMu, and those at which it has
\* set terminating and not yet settled the outcome.
Holding == {"appending", "closing", "refusalWarn", "refusalClose"}
Finishing == {"closing", "refusalLock", "refusalWarn", "refusalClose", "refusalRollback"}

\* The control points the producer goes on at after it wrote its entries.
Thens == {"stream", "finishDone", "finishInvalid", "finishError", "upstreamFailed", "attemptError",
          "seamFailed"}

ProducerLabels == {"opened", "attempt", "dispatch", "append", "appending", "prepare", "acquire",
                   "evaluate", "reserve", "handover", "finishCompleted", "closing", "exit"}
                  \cup Thens
StopperLabels == {"idle", "stopWait", "stopClose", "stopOk", "stopConflict", "closing", "done"}
TriggerLabels == {"idle", "lookup", "probe", "trigger", "refuse", "refusalLock", "refusalWarn",
                  "refusalClose", "refusalCancel", "refusalRollback", "retrigger", "withdrawn", "done"}
OrphanLabels == {"idle", "orphanCheck", "orphanClose", "claimedClose", "orphanPoll",
                 "orphanGrace", "orphanRelease", "closing"}

\* Every goroutine is at a control point of its own kind.
ControlInv ==
    /\ pc["producer"] \in ProducerLabels
    /\ \A s \in Stoppers : pc[s] \in StopperLabels
    /\ \A t \in Triggers : pc[t] \in TriggerLabels
    /\ \A o \in Orphans : pc[o] \in OrphanLabels
    /\ pc["producer"] \in {"append", "appending"} => prod.then \in Thens /\ prod.todo # <<>>

\* writeMu is held by the goroutine inside its critical section, if any.
MutexInv == \A p \in Procs : writeMu = p <=> pc[p] \in Holding

\* terminating is a lock of its own: it is set while one goroutine is ending the
\* stream, by that goroutine only, and never once the stream has ended.
FinisherInv ==
    /\ \A p, q \in Procs : pc[p] \in Finishing /\ pc[q] \in Finishing => p = q
    /\ \A p \in Procs : pc[p] \in Finishing => terminating
    /\ terminating => \E p \in Procs : pc[p] \in Finishing
    /\ terminating => terminal = ""
    /\ \A p \in Procs : pc[p] = "closing" => closing # ""

\* The lease of a stream that ended is released, or about to be by the one
\* goroutine that refused its migration.
LeaseInv ==
    /\ LeasesAccounted
    /\ terminal # "" => currentLease = NoBackend
    /\ terminal = "" => currentLease = currentBackend
    /\ prod.target # NoBackend <=> pc["producer"] \in {"evaluate", "reserve", "handover"}
    /\ \A t \in Triggers : pc[t] = "refusalCancel" => terminal # ""
    /\ \A t, u \in Triggers : pc[t] = "refusalCancel" /\ pc[u] = "refusalCancel" => t = u

\* A claim in the shared journal keeps remote readers out while it stands, and a
\* stream with a shared journal is ended as an orphan's only under a local claim.
ClaimInv ==
    /\ claimKey # NoProc => remote = {} \/ JournalClosed
    /\ RemoteReaders # {} => \A o \in Orphans : pc[o] # "orphanClose"
    /\ \A o \in Orphans :
          pc[o] = "closing" => readers = {} /\ (RemoteReaders # {} => orphanClaim = o)
    /\ \A o \in Orphans : orphanClaim = o => pc[o] \in {"claimedClose", "closing", "orphanRelease"}

IInv == TypeOK /\ ControlInv /\ MutexInv /\ FinisherInv /\ LeaseInv /\ ClaimInv /\ DoneClosedOnce
-----------------------------------------------------------------------------
(* Steps that take no part in the races for writeMu and terminating.          *)

raceVars == <<writeMu, terminal, terminating, doneCloses, closing>>

\* One goroutine moves between control points that hold nothing.
QuietStep ==
    /\ UNCHANGED raceVars
    /\ \/ UNCHANGED pc
       \/ \E p \in Procs, l \in Labels :
             /\ pc[p] \notin Holding \cup Finishing /\ l \notin Holding \cup Finishing
             /\ Goto(p, l)

\* What every action of Next is, by the goroutine that takes it.
LEMMA NextCases ==
    ASSUME [Next]_vars
    PROVE  \/ UNCHANGED vars
           \/ Register \/ BeginAttempt \/ DispatchAttempt \/ AppendBegin \/ AppendCommit
           \/ EndAttempt \/ PrepareMigration \/ AcquireTarget \/ NoTarget \/ EvaluateTarget
           \/ ReserveTarget \/ Handover
           \/ ReceiveChunk \/ ReceiveDone \/ ReceiveInvalid \/ ReceiveFailure \/ ReadFails
           \/ MarkJournalDegraded \/ ForceCancel \/ ClaimExpires
           \/ \E p \in Procs : CloseBegin(p) \/ CloseCommit(p)
           \/ \E s \in Stoppers : StopEnter(s) \/ StopReturn(s)
           \/ \E t \in Triggers :
                 \/ TriggerMark(t) \/ TriggerLookup(t) \/ TriggerProbe(t) \/ TriggerAttempt(t)
                 \/ RefusalBegin(t) \/ RefusalLock(t) \/ RefusalWarn(t) \/ RefusalClose(t)
                 \/ RefusalCancel(t) \/ RefusalRollback(t)
           \/ \E o \in Orphans :
                 \/ OrphanTimerFires(o) \/ CancelOrphan(o) \/ ScheduleOrphanCheck(o)
                 \/ ReleaseOrphanClaim(o)
           \/ \E r \in Readers : AttachReader(r) \/ DetachReader(r)
           \/ \E q \in RemoteReaders : RemoteAttach(q) \/ RemoteDetach(q)
           \/ \E b \in Backends : QuarantineExpires(b)
  BY Zenon DEF Next, Producer, Upstream, Stopper, Trigger, Orphan, Procs

-----------------------------------------------------------------------------
(* Types.                                                                     *)

\* A group of variables that a step leaves alone keeps its types.
LEMMA Frames ==
    /\ JournalTypes /\ UNCHANGED journalVars => JournalTypes'
    /\ TerminalTypes /\ UNCHANGED terminalVars => TerminalTypes'
    /\ FeedTypes /\ UNCHANGED feedVars => FeedTypes'
    /\ LeaseTypes /\ UNCHANGED leaseVars => LeaseTypes'
    /\ PoolTypes /\ UNCHANGED poolVars => PoolTypes'
    /\ AttemptTypes /\ UNCHANGED attemptVars => AttemptTypes'
    /\ ProgressTypes /\ UNCHANGED progressVars => ProgressTypes'
    /\ ProducerTypes /\ UNCHANGED prod => ProducerTypes'
    /\ StopTypes /\ UNCHANGED stopVars => StopTypes'
    /\ OrphanTypes /\ UNCHANGED orphanVars => OrphanTypes'
    /\ WriteTypes /\ UNCHANGED writeVars => WriteTypes'
<1>1. JournalTypes /\ UNCHANGED journalVars => JournalTypes'
  BY DEF JournalTypes, journalVars
<1>2. TerminalTypes /\ UNCHANGED terminalVars => TerminalTypes'
  BY Zenon DEF TerminalTypes, terminalVars
<1>3. FeedTypes /\ UNCHANGED feedVars => FeedTypes'
  BY DEF FeedTypes, feedVars
<1>4. LeaseTypes /\ UNCHANGED leaseVars => LeaseTypes'
  BY DEF LeaseTypes, leaseVars
<1>5. PoolTypes /\ UNCHANGED poolVars => PoolTypes'
  BY DEF PoolTypes, poolVars
<1>6. AttemptTypes /\ UNCHANGED attemptVars => AttemptTypes'
  BY DEF AttemptTypes, attemptVars
<1>7. ProgressTypes /\ UNCHANGED progressVars => ProgressTypes'
  BY DEF ProgressTypes, progressVars
<1>8. ProducerTypes /\ UNCHANGED prod => ProducerTypes'
  BY DEF ProducerTypes
<1>9. StopTypes /\ UNCHANGED stopVars => StopTypes'
  BY Zenon DEF StopTypes, stopVars
<1>10. OrphanTypes /\ UNCHANGED orphanVars => OrphanTypes'
  BY DEF OrphanTypes, orphanVars
<1>11. WriteTypes /\ UNCHANGED writeVars => WriteTypes'
  BY DEF WriteTypes, writeVars
<1> QED
  BY <1>1, <1>2, <1>3, <1>4, <1>5, <1>6, <1>7, <1>8, <1>9, <1>10, <1>11

\* The first element of a sequence that has one.
LEMMA FirstOf ==
    ASSUME NEW S, NEW s \in Seq(S), s # <<>>
    PROVE  Head(s) \in S /\ 1 \in 1..Len(s)
  OBVIOUS

\* Moving a goroutine keeps the type of pc.
LEMMA GotoTypes ==
    ASSUME pc \in [Procs -> Labels], NEW p \in Procs, NEW l \in Labels, Goto(p, l)
    PROVE  pc' \in [Procs -> Labels]
  BY DEF Goto

\* The producer moves to another control point, or starts writing entries.
ProducerStep ==
    \/ /\ UNCHANGED insideToolCall /\ prod' \in Locals
       /\ \E l \in ProducerLabels \ (Holding \cup {"append"}) : Goto("producer", l)
    \/ \E locals \in Locals, entries \in Seq(Entries) \ {<<>>}, then \in Thens :
          Write(locals, entries, then)

\* Such a step keeps the types of what it sets.
LEMMA ProducerStepTypes ==
    ASSUME TypeOK, ProducerStep
    PROVE  ProducerTypes' /\ insideToolCall' \in BOOLEAN /\ pc' \in [Procs -> Labels]
<1>1. CASE UNCHANGED insideToolCall /\ prod' \in Locals
           /\ \E l \in ProducerLabels \ (Holding \cup {"append"}) : Goto("producer", l)
  <2>1. ProducerLabels \subseteq Labels
    BY DEF Labels, ProducerLabels, Thens
  <2>2. pc' \in [Procs -> Labels]
    BY <1>1, <2>1, Zenon DEF TypeOK, Goto
  <2> QED
    BY <1>1, <2>2 DEF TypeOK, ProgressTypes, ProducerTypes
<1>2. ASSUME NEW locals \in Locals, NEW entries \in Seq(Entries) \ {<<>>}, NEW then \in Thens,
             Write(locals, entries, then)
      PROVE  ProducerTypes' /\ insideToolCall' \in BOOLEAN /\ pc' \in [Procs -> Labels]
  <2>1. ProducerTypes'
    BY <1>2, ZenonT(60) DEF Write, ProducerTypes, Locals, Thens, Labels
  <2>2. insideToolCall' \in BOOLEAN
    BY <1>2, Zenon DEF Write, TypeOK, ProgressTypes
  <2>3. pc' \in [Procs -> Labels]
    BY <1>2, Zenon DEF Write, TypeOK, Goto, Labels
  <2> QED
    BY <2>1, <2>2, <2>3
<1> QED
  BY <1>1, <1>2 DEF ProducerStep

\* A seam that looks like a restart is flushed behind a warning.
LEMMA WarningFirst ==
    ASSUME NEW s \in Seq(Entries), s # <<>>, NEW warning \in {<<>>, <<"warning">>}
    PROVE  warning \o s \in Seq(Entries) /\ warning \o s # <<>>
<1>1. "warning" \in Entries
  BY DEF Entries
<1>2. <<"warning">> \in Seq(Entries) /\ <<>> \in Seq(Entries)
  BY <1>1
<1>3. warning \in Seq(Entries)
  BY <1>2, Zenon
<1> QED
  BY <1>3, ConcatProperties, EmptySeq

\* flushSeam writes the held-back frames, of which there is at least one, or
\* those before the one it fails at.
LEMMA SeamStep ==
    ASSUME NEW locals \in Locals, locals.frames # <<>>, NEW then \in Thens, flushSeam(locals, then)
    PROVE  ProducerStep
<1>1. locals.frames \in Seq(Chunks)
  BY Zenon DEF Locals
<1>2. \A s \in Seq(Chunks) : s \in Seq(Entries)
  BY SeqMonotonic DEF Entries
<1>3. PICK warning \in {<<>>, <<"warning">>} :
          \/ Write([locals EXCEPT !.continuation = FALSE, !.frames = <<>>],
                   warning \o locals.frames, then)
          \/ \E k \in 0..Len(locals.frames) : seamFails(locals, warning, k)
  BY Zenon DEF flushSeam
<1>4. CASE Write([locals EXCEPT !.continuation = FALSE, !.frames = <<>>],
                 warning \o locals.frames, then)
  <2>1. [locals EXCEPT !.continuation = FALSE, !.frames = <<>>] \in Locals
    BY EmptySeq, Zenon DEF Locals
  <2>2. warning \o locals.frames \in Seq(Entries) \ {<<>>}
    BY <1>1, <1>2, WarningFirst, Zenon
  <2> QED
    BY <1>4, <2>1, <2>2, Zenon DEF ProducerStep
<1>5. ASSUME NEW k \in 0..Len(locals.frames), seamFails(locals, warning, k) PROVE ProducerStep
  <2>1. PICK before : before = SubSeq(locals.frames, 1, k)
    BY Zenon
  <2>2. PICK after : after = SubSeq(locals.frames, k + 1, Len(locals.frames))
    BY Zenon
  <2>3. before \in Seq(Chunks) /\ after \in Seq(Chunks)
    BY <1>1, <2>1, <2>2, SubSeqProperties
  <2>4. PICK left : left = [locals EXCEPT !.frames = after]
    BY Zenon
  <2>5. left \in Locals
    BY <2>3, <2>4, Zenon DEF Locals
  <2>6. PICK written : written = warning \o before
    BY Zenon
  <2>7. written \in Seq(Entries)
    <3>1. <<"warning">> \in Seq(Entries) /\ <<>> \in Seq(Entries)
      BY DEF Entries
    <3>2. warning \in Seq(Entries)
      BY <3>1, Zenon
    <3> QED
      BY <1>2, <2>3, <2>6, <3>2, ConcatProperties
  <2>8. IF written = <<>>
        THEN Goto("producer", "seamFailed") /\ prod' = left /\ UNCHANGED insideToolCall
        ELSE Write(left, written, "seamFailed")
    BY <1>5, <2>1, <2>2, <2>4, <2>6, Zenon DEF seamFails
  <2>9. "seamFailed" \in Thens /\ "seamFailed" \in ProducerLabels \ (Holding \cup {"append"})
    BY DEF Thens, ProducerLabels, Holding
  <2> QED
    BY <2>5, <2>7, <2>8, <2>9, Zenon DEF ProducerStep
<1> QED
  BY <1>3, <1>4, <1>5

\* So the producer flushes before it moves on, when there is something to flush.
LEMMA FlushStep ==
    ASSUME TypeOK, NEW label \in Thens, FlushThen(label)
    PROVE  ProducerStep
<1>1. CASE prod.continuation /\ prod.frames # <<>>
  BY <1>1, SeamStep, Zenon DEF FlushThen, TypeOK, ProducerTypes
<1>2. CASE ~(prod.continuation /\ prod.frames # <<>>)
  BY <1>2 DEF FlushThen, ProducerStep, TypeOK, ProducerTypes, ProducerLabels, Thens, Holding
<1> QED
  BY <1>1, <1>2

\* Entries become journal entries and feed frames of their type.
LEMMA FrameTypes ==
    ASSUME NEW entry \in Entries \cup Terminals, NEW seq \in Nat
    PROVE  /\ EntryKind(entry) \in Kinds
           /\ Frame(seq, entry) \in FeedFrames
<1>1. EntryKind(entry) \in Kinds
  BY DEF EntryKind, Kinds, Entries, Chunks, Terminals
<1> QED
  BY <1>1 DEF Frame, FeedFrames

\* The frames relayed without a sequence number are frames of the feed.
LEMMA UnsequencedTypes ==
    ASSUME NEW entries \in Seq(Entries \cup Terminals)
    PROVE  Unsequenced(entries) \in Seq(FeedFrames)
<1>1. \A i \in 1..Len(entries) : Frame(0, entries[i]) \in FeedFrames
  BY FrameTypes, ElementOfSeq
<1>2. Unsequenced(entries) \in [1..Len(entries) -> FeedFrames]
  BY <1>1 DEF Unsequenced
<1>3. Len(entries) \in Nat
  OBVIOUS
<1> QED
  BY <1>2, <1>3, SeqDef

\* Relaying frames keeps the feed a sequence of frames.
LEMMA FeedStep ==
    ASSUME FeedTypes, NEW entries \in Seq(Entries \cup Terminals),
           NEW entry \in Entries \cup Terminals, NEW seq \in Nat,
           \/ feed' = feed
           \/ publishCommitted(seq, entry)
           \/ feedAppend(entries)
           \/ enterJournalDegradedLocked(entries)
    PROVE  feed' \in Seq(FeedFrames)
<1>1. feed \in Seq(FeedFrames)
  BY DEF FeedTypes
<1>2. Unsequenced(entries) \in Seq(FeedFrames)
  BY UnsequencedTypes
<1>3. Frame(seq, entry) \in FeedFrames
  BY FrameTypes
<1>4. Frame(0, "journal_degraded") \in FeedFrames
  BY DEF Frame, EntryKind, Chunks, FeedFrames
<1>5. <<Frame(0, "journal_degraded")>> \in Seq(FeedFrames) /\ <<>> \in Seq(FeedFrames)
  BY <1>4
<1>6. CASE publishCommitted(seq, entry)
  BY <1>1, <1>3, <1>6 DEF publishCommitted
<1>7. CASE feedAppend(entries)
  BY <1>1, <1>2, <1>7 DEF feedAppend
<1>8. CASE enterJournalDegradedLocked(entries)
  BY <1>1, <1>2, <1>5, <1>8 DEF enterJournalDegradedLocked
<1> QED
  BY <1>1, <1>6, <1>7, <1>8

\* A journal call leaves the journal a nonempty sequence of entries.
LEMMA JournalStep ==
    ASSUME JournalTypes, NEW kind \in Kinds, JournalCommits(kind) \/ JournalFails(kind)
    PROVE  JournalTypes'
<1>1. CASE JournalCommits(kind)
  BY <1>1 DEF JournalTypes, JournalCommits
<1>2. CASE JournalFails(kind)
  <2>1. log' = log \/ log' = Append(log, kind)
    BY <1>2 DEF JournalFails
  <2>2. log' \in Seq(Kinds) /\ log' # <<>>
    BY <2>1 DEF JournalTypes
  <2>3. faults' \in Nat /\ sealed' \in BOOLEAN
    BY <1>2 DEF JournalFails, JournalTypes
  <2> QED
    BY <2>2, <2>3 DEF JournalTypes
<1> QED
  BY <1>1, <1>2

\* After an entry the producer goes on where it was told to, unlocks to write the
\* next frame, or stays in the batch.
LEMMA AdvanceStep ==
    ASSUME TypeOK, ControlInv, pc["producer"] = "appending",
           NEW n \in 1..Len(prod.todo), AppendAdvance(n)
    PROVE  /\ finishReason' \in BOOLEAN
           /\ \/ ProducerStep /\ writeMu' = NoProc
              \/ /\ prod' \in Locals /\ prod'.todo # <<>> /\ prod'.then = prod.then
                 /\ UNCHANGED <<writeMu, pc, insideToolCall>>
<1>1. prod \in Locals /\ finishReason \in BOOLEAN
  BY DEF TypeOK, ProducerTypes, ProgressTypes
<1>2. prod.todo \in Seq(Entries) /\ prod.todo # <<>> /\ prod.then \in Thens
  BY <1>1, Zenon DEF Locals, ControlInv
<1>3. Rest(n) \in Seq(Entries)
  BY <1>2 DEF Rest
<1>4. finishReason' \in BOOLEAN
  BY <1>1 DEF AppendAdvance
<1>5. CASE Rest(n) = <<>>
  <2>1. Goto("producer", prod.then) /\ writeMu' = NoProc /\ UNCHANGED insideToolCall
    BY <1>5 DEF AppendAdvance
  <2>2. prod' = [prod EXCEPT !.todo = <<>>, !.then = ""]
    BY <1>5 DEF AppendAdvance
  <2>3. prod' \in Locals
    BY <1>1, <2>2, EmptySeq, Zenon DEF Locals
  <2>4. prod.then \in ProducerLabels \ (Holding \cup {"append"})
    BY <1>2 DEF ProducerLabels, Holding, Thens
  <2> QED
    BY <1>4, <2>1, <2>3, <2>4 DEF ProducerStep
<1>6. CASE Rest(n) # <<>> /\ (Head(prod.todo) \in Chunks \/ Head(Rest(n)) \in Chunks)
  <2>1. Write(prod, Rest(n), prod.then) /\ writeMu' = NoProc
    BY <1>6 DEF AppendAdvance
  <2> QED
    BY <1>1, <1>2, <1>3, <1>4, <1>6, <2>1 DEF ProducerStep
<1>7. CASE Rest(n) # <<>> /\ ~(Head(prod.todo) \in Chunks \/ Head(Rest(n)) \in Chunks)
  <2>1. prod' = [prod EXCEPT !.todo = Rest(n)] /\ UNCHANGED <<writeMu, pc, insideToolCall>>
    BY <1>7 DEF AppendAdvance
  <2>2. prod' \in Locals /\ prod'.todo = Rest(n) /\ prod'.then = prod.then
    BY <1>1, <1>3, <2>1, Zenon DEF Locals
  <2> QED
    BY <1>4, <1>7, <2>1, <2>2
<1> QED
  BY <1>5, <1>6, <1>7

\* Committing a batch of entries, in the journal or past it, keeps every type.
LEMMA AppendCommitTypes ==
    ASSUME TypeOK, ControlInv, AppendCommit
    PROVE  TypeOK'
<1> DEFINE entry == Head(prod.todo)
<1>1. prod.todo \in Seq(Entries) /\ prod.todo # <<>>
  BY Zenon DEF TypeOK, ProducerTypes, Locals, ControlInv, AppendCommit
<1>2. entry \in Entries /\ EntryKind(entry) \in Kinds
  BY <1>1, FrameTypes
<1>3. pc["producer"] = "appending"
  BY DEF AppendCommit
<1>4. \A n \in 1..Len(prod.todo) : Taken(n) \in Seq(Entries \cup Terminals)
  BY <1>1 DEF Taken
<1>5. Batches \subseteq 1..Len(prod.todo) /\ 1 \in 1..Len(prod.todo)
  BY <1>1 DEF Batches
<1>6. JournalTypes'
  <2>1. CASE UNCHANGED journalVars
    BY <2>1, Frames DEF TypeOK
  <2>2. CASE JournalCommits(EntryKind(entry)) \/ JournalFails(EntryKind(entry))
    BY <1>2, <2>2, JournalStep DEF TypeOK
  <2> QED
    BY <2>1, <2>2 DEF AppendCommit
<1>7. Len(log') \in Nat
  BY <1>6 DEF JournalTypes
<1>8. feed' \in Seq(FeedFrames)
  <2>1. PICK n \in 1..Len(prod.todo) :
            \/ publishCommitted(Len(log'), entry)
            \/ feedAppend(Taken(n))
            \/ enterJournalDegradedLocked(Taken(n))
    BY <1>5 DEF AppendCommit
  <2> QED
    BY <1>2, <1>4, <1>7, <2>1, FeedStep, Zenon DEF TypeOK
<1>9. FeedTypes'
  <2>1. feedClosed' = feedClosed
    BY DEF AppendCommit
  <2>2. feedActive' \in BOOLEAN
    BY Zenon DEF AppendCommit, enterJournalDegradedLocked, TypeOK, FeedTypes
  <2> QED
    BY <1>8, <2>1, <2>2 DEF FeedTypes, TypeOK
<1>10. \E n \in 1..Len(prod.todo) : AppendAdvance(n)
  BY <1>5 DEF AppendCommit
<1>11. /\ finishReason' \in BOOLEAN
       /\ \/ ProducerStep /\ writeMu' = NoProc
          \/ prod' \in Locals /\ UNCHANGED <<writeMu, pc, insideToolCall>>
  BY <1>3, <1>10, AdvanceStep
<1>12. ProducerTypes' /\ insideToolCall' \in BOOLEAN /\ pc' \in [Procs -> Labels]
       /\ writeMu' \in Procs \cup {NoProc}
  <2>1. CASE ProducerStep /\ writeMu' = NoProc
    BY <2>1, ProducerStepTypes
  <2>2. CASE prod' \in Locals /\ UNCHANGED <<writeMu, pc, insideToolCall>>
    BY <2>2 DEF TypeOK, ProducerTypes, ProgressTypes, WriteTypes
  <2> QED
    BY <1>11, <2>1, <2>2
<1>13. ProgressTypes'
  BY <1>11, <1>12 DEF ProgressTypes, AppendCommit, TypeOK
<1>14. WriteTypes'
  <2>1. degraded' \in BOOLEAN
    BY Zenon DEF AppendCommit, enterJournalDegradedLocked, TypeOK, WriteTypes
  <2>2. lastSeq' \in Nat
    BY <1>7 DEF AppendCommit, TypeOK, WriteTypes
  <2> QED
    BY <1>12, <2>1, <2>2 DEF WriteTypes
<1> QED
  BY <1>6, <1>9, <1>12, <1>13, <1>14, Frames DEF AppendCommit, TypeOK

\* A lease that is current or being evaluated is held in the pool.
LEMMA HeldPositive ==
    ASSUME LeaseTypes, LeasesAccounted, NEW b \in Backends, currentLease = b \/ prod.target = b
    PROVE  held[b] \in Nat \ {0} /\ held[b] - 1 \in Nat
<1>1. held[b] \in Nat
  BY DEF LeaseTypes
<1> QED
  BY <1>1 DEF LeasesAccounted, LeasesOwed

\* Settling the outcome keeps every type; the lease it gives back is held.
LEMMA CloseCommitTypes ==
    ASSUME TypeOK, FinisherInv, LeaseInv, NEW p \in Procs, CloseCommit(p)
    PROVE  TypeOK'
<1> USE RuntimeConstants
<1>1. closing \in Terminals /\ closing \in Kinds /\ closing \in Entries \cup Terminals
  BY Zenon DEF CloseCommit, FinisherInv, TypeOK, TerminalTypes, Kinds
<1>2. JournalTypes'
  <2>1. CASE UNCHANGED journalVars
    BY <2>1, Frames DEF TypeOK
  <2>2. CASE JournalCommits(closing) \/ JournalFails(closing)
    BY <1>1, <2>2, JournalStep DEF TypeOK
  <2> QED
    BY <2>1, <2>2, Zenon DEF CloseCommit
<1>3. <<closing>> \in Seq(Entries \cup Terminals)
  BY <1>1
<1>4. lastSeq \in Nat /\ lastSeq + 1 \in Nat
  BY DEF TypeOK, WriteTypes
<1>5. feed' \in Seq(FeedFrames)
  <2>1. \/ publishCommitted(lastSeq + 1, closing)
        \/ feedAppend(<<closing>>)
        \/ enterJournalDegradedLocked(<<closing>>)
    BY Zenon DEF CloseCommit
  <2> QED
    BY <1>1, <1>3, <1>4, <2>1, FeedStep, Zenon DEF TypeOK
<1>6. FeedTypes'
  <2>1. feedActive' \in BOOLEAN
    BY Zenon DEF CloseCommit, enterJournalDegradedLocked, TypeOK, FeedTypes
  <2>2. feedClosed' = TRUE
    BY Zenon DEF CloseCommit, FinishTerminal
  <2> QED
    BY <1>5, <2>1, <2>2 DEF FeedTypes
<1>7. TerminalTypes'
  <2>1. /\ terminal' = closing /\ closing' = "" /\ terminating' = FALSE
        /\ doneCloses' = doneCloses + 1 /\ cancelled' = cancelled
    BY Zenon DEF CloseCommit, FinishTerminal
  <2>2. doneCloses \in Nat /\ cancelled \in BOOLEAN
    BY Zenon DEF TypeOK, TerminalTypes
  <2>3. doneCloses + 1 \in Nat
    BY <2>2
  <2> QED
    BY <1>1, <2>1, <2>2, <2>3, Zenon DEF TerminalTypes
<1>8. LeaseTypes'
  <2>1. currentLease # NoBackend => held[currentLease] - 1 \in Nat
    BY HeldPositive, Zenon DEF TypeOK, LeaseTypes, LeaseInv
  <2> QED
    BY <2>1, Zenon DEF CloseCommit, ReleaseCurrentLease, TypeOK, LeaseTypes
<1>9. OrphanTypes'
  BY Zenon DEF CloseCommit, FinishTerminal, TypeOK, OrphanTypes
<1>10. WriteTypes'
  <2>1. degraded' \in BOOLEAN
    BY Zenon DEF CloseCommit, enterJournalDegradedLocked, TypeOK, WriteTypes
  <2>2. writeMu' = NoProc
    BY Zenon DEF CloseCommit
  <2>3. lastSeq' \in {lastSeq, lastSeq + 1}
    BY Zenon DEF CloseCommit
  <2> QED
    BY <1>4, <2>1, <2>2, <2>3 DEF WriteTypes
<1>11. pc' \in [Procs -> Labels]
  <2>1. CloseReturned(p) \in Labels
    BY DEF CloseReturned, Labels
  <2> QED
    BY <2>1, Zenon DEF CloseCommit, Goto, TypeOK
<1> QED
  BY <1>2, <1>6, <1>7, <1>8, <1>9, <1>10, <1>11, Frames, Zenon DEF CloseCommit, TypeOK

\* The steps of the producer between journal writes move it or start a write.
LEMMA ProducerSteps ==
    ASSUME TypeOK, ControlInv,
           \/ Register \/ BeginAttempt \/ DispatchAttempt \/ EndAttempt \/ PrepareMigration
           \/ AcquireTarget \/ NoTarget \/ EvaluateTarget \/ ReserveTarget \/ Handover
           \/ ReceiveDone \/ ReceiveInvalid \/ ReceiveFailure \/ ReadFails
    PROVE  ProducerStep
<1> USE RuntimeConstants DEF Thens, ProducerLabels, Holding
<1>1. prod \in Locals
  BY DEF TypeOK, ProducerTypes
<1>2. \A x \in Backends \cup {NoBackend} : [prod EXCEPT !.target = x] \in Locals
  BY <1>1, Zenon DEF Locals
<1>3. \A r \in Reasons \cup {"crash"}, v \in BOOLEAN :
          [prod EXCEPT !.reason = r, !.passive = v] \in Locals
  BY <1>1, Zenon DEF Locals
<1>4. <<"warning">> \in Seq(Entries) \ {<<>>} /\ <<"migration">> \in Seq(Entries) \ {<<>>}
      /\ <<"warning", "migration">> \in Seq(Entries) \ {<<>>}
  BY DEF Entries
<1>5. currentLease \in Backends \cup {NoBackend}
  BY DEF TypeOK, LeaseTypes
<1>6. \A locals \in Locals : Refuse(locals) => ProducerStep
  BY <1>4, Zenon DEF Refuse, ProducerStep
<1>7. CASE Register
  BY <1>1, <1>7 DEF Register, ProducerStep, progressVars
<1>8. CASE BeginAttempt
  BY <1>1, <1>8, Zenon DEF BeginAttempt, ProducerStep, progressVars
<1>9. CASE DispatchAttempt
  <2>1. CASE Goto("producer", "stream") /\ UNCHANGED <<insideToolCall, prod>>
    BY <1>1, <2>1 DEF ProducerStep
  <2>2. CASE Goto("producer", "exit") /\ UNCHANGED <<insideToolCall, prod>>
    BY <1>1, <2>2 DEF ProducerStep
  <2>3. CASE \E entries \in {<<"migration">>, <<"warning", "migration">>} :
                 Write(prod, entries, "stream")
    BY <1>1, <1>4, <2>3, Zenon DEF ProducerStep
  <2> QED
    BY <1>9, <2>1, <2>2, <2>3 DEF DispatchAttempt
<1>10. CASE EndAttempt
  <2>1. prod' \in Locals
    <3>1. attemptCause \in Reasons
      BY DEF TypeOK, AttemptTypes
    <3>2. PICK r \in Reasons \cup {"crash"} :
              \/ prod' = prod
              \/ prod' = [prod EXCEPT !.reason = r, !.passive = TRUE]
              \/ prod' = [prod EXCEPT !.reason = r, !.passive = FALSE]
      BY <1>10, <3>1, Zenon DEF EndAttempt
    <3> QED
      BY <1>1, <3>2, ZenonT(60) DEF Locals
  <2> QED
    BY <1>10, <2>1 DEF EndAttempt, ProducerStep
<1>11. CASE PrepareMigration
  <2> DEFINE evaluated == [prod EXCEPT !.reason = "", !.passive = FALSE]
  <2>1. evaluated \in Locals
    BY <1>3, Zenon DEF Reasons
  <2> HIDE DEF evaluated
  <2>2. \/ Refuse(evaluated)
        \/ /\ prod' = evaluated /\ UNCHANGED insideToolCall
           /\ \E l \in {"exit", "finishCompleted", "acquire"} : Goto("producer", l)
    BY <1>11 DEF PrepareMigration, evaluated
  <2> QED
    BY <1>6, <2>1, <2>2 DEF ProducerStep
<1>12. CASE AcquireTarget
  <2>1. prod' \in Locals
    BY <1>2, <1>12 DEF AcquireTarget, Available
  <2> QED
    BY <1>12, <2>1 DEF AcquireTarget, ProducerStep, progressVars
<1>13. CASE NoTarget
  BY <1>1, <1>6, <1>13 DEF NoTarget, ProducerStep
<1>14. CASE EvaluateTarget
  <2>1. [prod EXCEPT !.target = NoBackend] \in Locals
    BY <1>2
  <2> QED
    BY <1>1, <1>6, <1>14, <2>1 DEF EvaluateTarget, ProducerStep
<1>15. CASE ReserveTarget
  <2>1. prod' \in Locals
    BY <1>2, <1>5, <1>15 DEF ReserveTarget
  <2> QED
    BY <1>15, <2>1 DEF ReserveTarget, ProducerStep, progressVars
<1>16. CASE Handover
  <2>1. prod' \in Locals
    BY <1>1, <1>16, EmptySeq, Zenon DEF Handover, Locals
  <2> QED
    BY <1>16, <2>1 DEF Handover, ProducerStep, progressVars
<1>17. CASE ReceiveDone
  BY <1>17, FlushStep DEF ReceiveDone
<1>18. CASE ReceiveInvalid
  BY <1>18, FlushStep DEF ReceiveInvalid
<1>19. CASE ReceiveFailure
  BY <1>19, FlushStep DEF ReceiveFailure
<1>20. CASE ReadFails
  BY <1>1, <1>20, FlushStep DEF ReadFails, ProducerStep
<1> QED
  BY <1>7, <1>8, <1>9, <1>10, <1>11, <1>12, <1>13, <1>14, <1>15, <1>16, <1>17, <1>18, <1>19,
     <1>20

\* A chunk is written, buffered at the seam, or flushed with the buffer.
LEMMA ChunkStep ==
    ASSUME TypeOK, ReceiveChunk
    PROVE  ProducerStep \/ (prod' \in Locals /\ UNCHANGED <<pc, insideToolCall>>)
<1>1. prod \in Locals
  BY DEF TypeOK, ProducerTypes
<1>2. PICK c \in Chunks :
          LET got == [prod EXCEPT !.chunks = @ + 1]
              buffered == [got EXCEPT !.frames = Append(@, c)] IN
          \/ ~prod.continuation /\ Write(got, <<c>>, "stream")
          \/ prod.continuation /\ prod' = buffered /\ UNCHANGED <<pc, insideToolCall>>
          \/ prod.continuation /\ flushSeam(buffered, "stream")
          \/ prod.continuation /\ Write(buffered, <<"warning">>, "finishError")
  BY Zenon DEF ReceiveChunk
<1> DEFINE got == [prod EXCEPT !.chunks = @ + 1]
           buffered == [got EXCEPT !.frames = Append(@, c)]
<1>3. got \in Locals /\ got.frames = prod.frames
  <2>1. prod.chunks \in Nat
    BY <1>1, Zenon DEF Locals
  <2>2. prod.chunks + 1 \in Nat
    BY <2>1
  <2> QED
    BY <1>1, <2>2, Zenon DEF Locals
<1>4. prod.frames \in Seq(Chunks)
  BY <1>1, Zenon DEF Locals
<1>5. Append(prod.frames, c) \in Seq(Chunks) /\ Append(prod.frames, c) # <<>>
  BY <1>4
<1>6. buffered \in Locals /\ buffered.frames = Append(prod.frames, c)
  BY <1>3, <1>5, Zenon DEF Locals
<1>7. <<c>> \in Seq(Entries) \ {<<>>} /\ <<"warning">> \in Seq(Entries) \ {<<>>}
  BY DEF Entries
<1>8. "stream" \in Thens /\ "finishError" \in Thens
  BY DEF Thens
<1>9. \/ Write(got, <<c>>, "stream")
      \/ prod' = buffered /\ UNCHANGED <<pc, insideToolCall>>
      \/ flushSeam(buffered, "stream")
      \/ Write(buffered, <<"warning">>, "finishError")
  BY <1>2
<1> HIDE DEF got, buffered
<1>10. CASE flushSeam(buffered, "stream")
  BY <1>5, <1>6, <1>8, <1>10, SeamStep, Zenon
<1> QED
  BY <1>3, <1>6, <1>7, <1>8, <1>9, <1>10, Zenon DEF ProducerStep

\* The steps of a refusal that write to the journal or give the lease back.
LEMMA RefusalWriteTypes ==
    ASSUME TypeOK, LeaseInv, NEW t \in Triggers,
           RefusalWarn(t) \/ RefusalClose(t) \/ RefusalCancel(t)
    PROVE  TypeOK'
<1> USE RuntimeConstants
<1>1. pc' \in [Procs -> Labels]
  <2>1. \E l \in Labels : Goto(t, l)
    BY Zenon DEF RefusalWarn, RefusalClose, RefusalCancel, Labels
  <2> QED
    BY <2>1, GotoTypes, Zenon DEF Procs, TypeOK
<1>2. log' \in Seq(Kinds) => Len(log') \in Nat
  OBVIOUS
<1>3. "warning" \in Entries \cup Terminals /\ "error" \in Entries \cup Terminals
      /\ "warning" \in Kinds /\ "error" \in Kinds /\ "error" \in Terminals
  BY DEF Entries, Terminals, Kinds
<1>4. <<>> \in Seq(Entries \cup Terminals)
  OBVIOUS
<1>5. lastSeq \in Nat /\ writeMu \in Procs \cup {NoProc} /\ degraded \in BOOLEAN
  BY Zenon DEF TypeOK, WriteTypes
<1>6. lastSeq + 1 \in Nat
  BY <1>5
<1>7. CASE RefusalWarn(t)
  <2>1. JournalTypes'
    BY <1>3, <1>7, JournalStep DEF RefusalWarn, TypeOK
  <2>2. Len(log') \in Nat
    BY <1>2, <2>1 DEF JournalTypes
  <2>3. feed' \in Seq(FeedFrames)
    BY <1>3, <1>4, <1>7, <2>2, FeedStep, Zenon DEF RefusalWarn, TypeOK
  <2>4. FeedTypes'
    BY <1>7, <2>3, Zenon DEF RefusalWarn, FeedTypes, TypeOK
  <2>5. WriteTypes'
    BY <1>5, <1>7, <2>2, Zenon DEF RefusalWarn, WriteTypes
  <2> QED
    BY <1>1, <1>7, <2>1, <2>4, <2>5, Frames, ZenonT(60) DEF RefusalWarn, TypeOK, triggerUnchanged,
       LeaseTypes, PoolTypes, OrphanTypes
<1>8. CASE RefusalClose(t)
  <2>1. JournalTypes'
    BY <1>3, <1>8, JournalStep DEF RefusalClose, TypeOK
  <2>2. feed' \in Seq(FeedFrames)
    BY <1>3, <1>4, <1>6, <1>8, FeedStep, Zenon DEF RefusalClose, TypeOK
  <2>3. FeedTypes'
    BY <1>8, <2>2, Zenon DEF RefusalClose, FinishTerminal, FeedTypes, TypeOK
  <2>4. WriteTypes'
    BY <1>5, <1>6, <1>8, Zenon DEF RefusalClose, WriteTypes
  <2>5. TerminalTypes'
    <3>1. doneCloses \in Nat
      BY Zenon DEF TypeOK, TerminalTypes
    <3>2. doneCloses + 1 \in Nat
      BY <3>1, SMTT(30)
    <3> QED
      BY <1>3, <1>8, <3>1, <3>2, Zenon DEF RefusalClose, FinishTerminal, TypeOK, TerminalTypes
  <2> QED
    BY <1>1, <1>8, <2>1, <2>3, <2>4, <2>5, Frames, ZenonT(60) DEF RefusalClose, FinishTerminal,
       TypeOK, triggerUnchanged, LeaseTypes, PoolTypes, OrphanTypes
<1>9. CASE RefusalCancel(t)
  <2>1. RefusalPending
    BY <1>9 DEF RefusalCancel, RefusalPending
  <2>2. currentBackend \in Backends /\ held[currentBackend] \in Nat
    BY DEF TypeOK, LeaseTypes
  <2>3. held[currentBackend] - 1 \in Nat
    <3> DEFINE current == IF currentLease = currentBackend THEN 1 ELSE 0
               target == IF prod.target = currentBackend THEN 1 ELSE 0
    <3>1. held[currentBackend] = current + target + 1
      BY <2>1, <2>2, Zenon DEF LeaseInv, LeasesAccounted, LeasesOwed
    <3>2. current \in Nat /\ target \in Nat
      OBVIOUS
    <3> HIDE DEF current, target
    <3> QED
      BY <3>1, <3>2
  <2>4. LeaseTypes'
    BY <1>9, <2>3 DEF RefusalCancel, TypeOK, LeaseTypes, triggerUnchanged
  <2>5. TerminalTypes'
    BY <1>9, Zenon DEF RefusalCancel, TypeOK, TerminalTypes
  <2> QED
    BY <1>1, <1>9, <2>4, <2>5, Frames, ZenonT(60) DEF RefusalCancel, TypeOK, triggerUnchanged,
       PoolTypes, OrphanTypes
<1> QED
  BY <1>7, <1>8, <1>9

\* Every step keeps every type. The leases must be accounted for: a release
\* counts one off a lease that is held.
LEMMA TypeStep ==
    ASSUME IInv, [Next]_vars
    PROVE  TypeOK'
<1> USE RuntimeConstants, DistinctProcesses
<1>0. TypeOK /\ ControlInv /\ FinisherInv /\ LeaseInv /\ LeasesAccounted
  BY Zenon DEF IInv, LeaseInv
<1> USE <1>0
<1>1. CASE UNCHANGED vars
  BY <1>1, Frames DEF vars, TypeOK
<1>2. CASE Register
  <2>1. LeaseTypes'
    BY <1>2, Zenon DEF Register, TypeOK, LeaseTypes
  <2> QED
    BY <1>2, <2>1, ProducerSteps, ProducerStepTypes, Frames, Zenon DEF Register, TypeOK
<1>3. CASE BeginAttempt
  <2>1. AttemptTypes'
    BY <1>3, ZenonT(60) DEF BeginAttempt, TypeOK, AttemptTypes, Reasons
  <2> QED
    BY <1>3, <2>1, ProducerSteps, ProducerStepTypes, Frames, Zenon DEF BeginAttempt, TypeOK
<1>4. CASE DispatchAttempt
  <2>1. migrationsUsed' \in Nat /\ finishReason' = finishReason
    BY <1>4 DEF DispatchAttempt, TypeOK, ProgressTypes
  <2>2. ProducerTypes' /\ insideToolCall' \in BOOLEAN /\ pc' \in [Procs -> Labels]
    BY <1>4, ProducerSteps, ProducerStepTypes
  <2>3. ProgressTypes'
    BY <2>1, <2>2, Zenon DEF TypeOK, ProgressTypes
  <2> QED
    BY <1>4, <2>2, <2>3, Frames, SMTT(30) DEF DispatchAttempt, TypeOK
<1>5. CASE AppendBegin
  <2>1. pc' \in [Procs -> Labels]
    BY <1>5 DEF AppendBegin, AppendRefused, Goto, TypeOK, Labels
  <2>2. WriteTypes'
    BY <1>5, Zenon DEF AppendBegin, TypeOK, WriteTypes, Procs
  <2> QED
    BY <1>5, <2>1, <2>2, Frames DEF AppendBegin, TypeOK
<1>6. CASE AppendCommit
  BY <1>6, AppendCommitTypes, SMTT(30)
<1>7. CASE \/ EndAttempt \/ NoTarget \/ ReceiveDone \/ ReceiveInvalid \/ ReceiveFailure
           \/ ReadFails \/ ReceiveChunk
  <2>1. UNCHANGED streamUnchanged
    BY <1>7, Zenon DEF EndAttempt, NoTarget, ReceiveDone, ReceiveInvalid, ReceiveFailure, ReadFails,
                ReceiveChunk
  <2>2. ProducerTypes' /\ insideToolCall' \in BOOLEAN /\ pc' \in [Procs -> Labels]
    <3>1. CASE ProducerStep
      BY <3>1, ProducerStepTypes
    <3>2. CASE prod' \in Locals /\ UNCHANGED <<pc, insideToolCall>>
      BY <3>2, Zenon DEF TypeOK, ProducerTypes, ProgressTypes
    <3> QED
      BY <1>7, <3>1, <3>2, ProducerSteps, ChunkStep
  <2>3. ProgressTypes'
    BY <2>1, <2>2, Zenon DEF TypeOK, ProgressTypes, streamUnchanged
  <2> QED
    BY <2>1, <2>2, <2>3, Frames DEF streamUnchanged, TypeOK
<1>8. CASE PrepareMigration
  <2>1. ProducerTypes' /\ insideToolCall' \in BOOLEAN /\ pc' \in [Procs -> Labels]
    BY <1>8, ProducerSteps, ProducerStepTypes
  <2>2. ProgressTypes'
    BY <1>8, <2>1, Zenon DEF PrepareMigration, TypeOK, ProgressTypes
  <2>3. PoolTypes'
    BY <1>8 DEF PrepareMigration, TypeOK, PoolTypes, LeaseTypes
  <2> QED
    BY <1>8, <2>1, <2>2, <2>3, Frames DEF PrepareMigration, TypeOK
<1>9. CASE AcquireTarget
  <2>1. LeaseTypes'
    <3>1. PICK b \in Backends : held' = [held EXCEPT ![b] = @ + 1]
      BY <1>9, Zenon DEF AcquireTarget, Available
    <3>2. held[b] \in Nat /\ held \in [Backends -> Nat]
      BY DEF TypeOK, LeaseTypes
    <3>3. held' \in [Backends -> Nat]
      BY <3>1, <3>2, SMTT(30)
    <3> QED
      BY <1>9, <3>3, Zenon DEF AcquireTarget, TypeOK, LeaseTypes
  <2> QED
    BY <1>9, <2>1, ProducerSteps, ProducerStepTypes, Frames, Zenon DEF AcquireTarget, TypeOK
<1>10. CASE EvaluateTarget \/ ReserveTarget \/ Handover
  <2>1. prod.target \in Backends /\ held[prod.target] - 1 \in Nat
    <3>1. prod.target # NoBackend
      BY <1>10, Zenon DEF EvaluateTarget, ReserveTarget, Handover, LeaseInv
    <3>2. prod.target \in Backends
      BY <3>1, Zenon DEF TypeOK, ProducerTypes, Locals
    <3> QED
      BY <3>2, HeldPositive DEF TypeOK
  <2>2. held' \in [Backends -> Nat]
    BY <1>10, <2>1 DEF EvaluateTarget, ReserveTarget, Handover, TypeOK, LeaseTypes
  <2>3. ProducerTypes' /\ insideToolCall' \in BOOLEAN /\ pc' \in [Procs -> Labels]
    BY <1>10, ProducerSteps, ProducerStepTypes
  <2>4. LeaseTypes'
    BY <1>10, <2>1, <2>2, Zenon DEF EvaluateTarget, ReserveTarget, Handover, TypeOK, LeaseTypes
  <2>5. ProgressTypes'
    BY <1>10, <2>3, Zenon DEF EvaluateTarget, ReserveTarget, Handover, TypeOK, ProgressTypes,
       progressVars
  <2>6. AttemptTypes'
    BY <1>10, ZenonT(60) DEF EvaluateTarget, ReserveTarget, Handover, TypeOK, AttemptTypes,
       attemptVars, mergePendingTriggerLocked, Reasons
  <2> QED
    BY <1>10, <2>3, <2>4, <2>5, <2>6, Frames, SMTT(30) DEF EvaluateTarget, ReserveTarget,
       Handover, TypeOK
<1>11. CASE MarkJournalDegraded
  BY <1>11, Frames DEF MarkJournalDegraded, TypeOK, JournalTypes
<1>12. CASE ForceCancel
  BY <1>12, Frames, ZenonT(60) DEF ForceCancel, TypeOK, TerminalTypes
<1>13. CASE ClaimExpires
  BY <1>13, Frames, ZenonT(60) DEF ClaimExpires, TypeOK, OrphanTypes, orphanUnchanged
<1>14. ASSUME NEW p \in Procs, CloseBegin(p) PROVE TypeOK'
  <2>1. pc' \in [Procs -> Labels]
    BY <1>14 DEF CloseBegin, CloseRefused, Goto, TypeOK, Labels
  <2>2. CloseKind(p) \in Terminals
    BY DEF CloseKind, Terminals
  <2>3. TerminalTypes'
    BY <1>14, <2>2, Zenon DEF CloseBegin, TypeOK, TerminalTypes
  <2>4. WriteTypes'
    BY <1>14, Zenon DEF CloseBegin, TypeOK, WriteTypes
  <2> QED
    BY <1>14, <2>1, <2>3, <2>4, Frames, ZenonT(60) DEF CloseBegin, TypeOK
<1>15. ASSUME NEW p \in Procs, CloseCommit(p) PROVE TypeOK'
  BY <1>15, CloseCommitTypes, SMTT(30)
<1>16. ASSUME NEW s \in Stoppers, StopEnter(s) \/ StopReturn(s) PROVE TypeOK'
  <2>1. pc' \in [Procs -> Labels]
    <3>1. \E l \in Labels : Goto(s, l)
      BY <1>16 DEF StopEnter, StopReturn, Labels
    <3> QED
      BY <3>1, GotoTypes, Zenon DEF TypeOK, Procs
  <2>2. stopAnswer' \in [Stoppers -> {"", "stopped", "conflict"}]
    BY <1>16, Zenon DEF StopEnter, StopReturn, TypeOK, StopTypes, stopVars
  <2>3. StopTypes'
    BY <1>16, <2>2, Zenon DEF StopEnter, StopReturn, TypeOK, StopTypes, stopVars
  <2> QED
    BY <1>16, <2>1, <2>3, Frames DEF StopEnter, StopReturn, TypeOK, stopUnchanged
<1>17. ASSUME NEW t \in Triggers,
              \/ TriggerMark(t) \/ TriggerLookup(t) \/ TriggerProbe(t) \/ TriggerAttempt(t)
              \/ RefusalBegin(t) \/ RefusalLock(t) \/ RefusalRollback(t)
       PROVE  TypeOK'
  <2>1. pc' \in [Procs -> Labels]
    <3>1. \E l \in Labels : Goto(t, l)
      BY <1>17, ZenonT(60) DEF TriggerMark, TriggerLookup, TriggerProbe, TriggerAttempt,
         RefusalBegin, RefusalLock, RefusalRollback, Labels
    <3> QED
      BY <3>1, GotoTypes, Zenon DEF TypeOK, Procs
  <2>2. t \in Procs /\ TriggerBackend[t] \in Backends /\ TriggerReason[t] \in Reasons
    BY Zenon DEF Procs, Reasons
  <2>3. UNCHANGED triggerUnchanged /\ UNCHANGED <<currentLease, held, orphanTimer>>
    BY <1>17, Zenon DEF TriggerMark, TriggerLookup, TriggerProbe, TriggerAttempt, RefusalBegin,
                 RefusalLock, RefusalRollback
  <2>4. LeaseTypes' /\ OrphanTypes' /\ ProgressTypes' /\ ProducerTypes' /\ StopTypes'
    BY <2>3, Frames DEF triggerUnchanged, TypeOK, leaseVars, orphanVars
  <2>5. PoolTypes'
    BY <1>17, <2>2, <2>3, Zenon DEF TriggerMark, TriggerLookup, TriggerProbe, TriggerAttempt,
       RefusalBegin, RefusalLock, RefusalRollback, triggerUnchanged, TypeOK, PoolTypes
  <2>6. TerminalTypes'
    BY <1>17, Frames, Zenon DEF TriggerMark, TriggerLookup, TriggerProbe, TriggerAttempt,
       RefusalBegin, RefusalLock, RefusalRollback, TypeOK, TerminalTypes, terminalVars
  <2>7. AttemptTypes'
    BY <1>17, <2>2, Frames, Zenon DEF TriggerMark, TriggerLookup, TriggerProbe, TriggerAttempt,
       RefusalBegin, RefusalLock, RefusalRollback, mergePendingTriggerLocked, TypeOK,
       AttemptTypes, attemptVars
  <2>8. WriteTypes'
    BY <1>17, <2>2, Frames, Zenon DEF TriggerMark, TriggerLookup, TriggerProbe, TriggerAttempt,
       RefusalBegin, RefusalLock, RefusalRollback, TypeOK, WriteTypes, writeVars
  <2>9. JournalTypes' /\ FeedTypes'
    BY <1>17, Frames, Zenon DEF TriggerMark, TriggerLookup, TriggerProbe, TriggerAttempt,
       RefusalBegin, RefusalLock, RefusalRollback, TypeOK
  <2> QED
    BY <2>1, <2>4, <2>5, <2>6, <2>7, <2>8, <2>9 DEF TypeOK
<1>18. ASSUME NEW t \in Triggers, RefusalWarn(t) \/ RefusalClose(t) \/ RefusalCancel(t)
       PROVE  TypeOK'
  BY <1>18, RefusalWriteTypes
<1>19. ASSUME NEW o \in Orphans,
              OrphanTimerFires(o) \/ ScheduleOrphanCheck(o) \/ ReleaseOrphanClaim(o)
       PROVE  TypeOK'
  <2>1. pc' \in [Procs -> Labels]
    <3>1. Goto(o, "orphanCheck") \/ Goto(o, "idle")
      BY <1>19, Zenon DEF OrphanTimerFires, ScheduleOrphanCheck, ReleaseOrphanClaim
    <3>2. o \in Procs /\ "orphanCheck" \in Labels /\ "idle" \in Labels
      BY DEF Procs, Labels
    <3> QED
      BY <3>1, <3>2, GotoTypes, Zenon DEF TypeOK
  <2>2. OrphanTypes'
    BY <1>19, Zenon DEF OrphanTimerFires, ScheduleOrphanCheck, ReleaseOrphanClaim, TypeOK,
       OrphanTypes
  <2> QED
    BY <1>19, <2>1, <2>2, Frames, Zenon DEF OrphanTimerFires, ScheduleOrphanCheck,
       ReleaseOrphanClaim,
       TypeOK, orphanUnchanged
<1>20. ASSUME NEW o \in Orphans, CancelOrphan(o) PROVE TypeOK'
  <2>1. pc' \in [Procs -> Labels]
    <3>1. \E l \in Labels : Goto(o, l)
      BY <1>20, SMTT(30) DEF CancelOrphan, Labels
    <3> QED
      BY <3>1, GotoTypes, ZenonT(60) DEF TypeOK, Procs
  <2>2. claimKey' \in Orphans \cup {NoProc}
    BY <1>20, ZenonT(60) DEF CancelOrphan, ClaimFails, TypeOK, OrphanTypes
  <2>3. OrphanTypes'
    BY <1>20, <2>2, ZenonT(60) DEF CancelOrphan, TypeOK, OrphanTypes
  <2>4. faults' \in Nat
    <3>1. faults' = faults \/ faults' = faults + 1
      BY <1>20, ZenonT(60) DEF CancelOrphan, ClaimFails
    <3>2. faults \in Nat
      BY Zenon DEF TypeOK, JournalTypes
    <3> QED
      BY <3>1, <3>2, SMTT(30)
  <2>5. JournalTypes'
    BY <1>20, <2>4, Zenon DEF CancelOrphan, TypeOK, JournalTypes
  <2> QED
    BY <1>20, <2>1, <2>3, <2>5, Frames, Zenon DEF CancelOrphan, TypeOK
<1>21. ASSUME NEW r \in Readers, AttachReader(r) \/ DetachReader(r) PROVE TypeOK'
  <2>1. pc' \in [Procs -> Labels]
    <3>1. pc' = pc \/ \E o \in Orphans, l \in Labels : Goto(o, l)
      BY <1>21, Zenon DEF AttachReader, DetachReader, Labels
    <3> QED
      BY <3>1, GotoTypes, Zenon DEF TypeOK, Procs
  <2>2. readers' \subseteq Readers
    BY <1>21, Zenon DEF AttachReader, DetachReader, TypeOK, OrphanTypes
  <2>3. OrphanTypes'
    BY <1>21, <2>2, Zenon DEF AttachReader, DetachReader, TypeOK, OrphanTypes
  <2> QED
    BY <1>21, <2>1, <2>3, Frames, Zenon DEF AttachReader, DetachReader, TypeOK, orphanUnchanged
<1>22. ASSUME NEW q \in RemoteReaders, RemoteAttach(q) \/ RemoteDetach(q) PROVE TypeOK'
  <2>1. remote' \subseteq RemoteReaders
    BY <1>22 DEF RemoteAttach, RemoteDetach, TypeOK, OrphanTypes
  <2>2. OrphanTypes'
    BY <1>22, <2>1, Zenon DEF RemoteAttach, RemoteDetach, TypeOK, OrphanTypes
  <2> QED
    BY <1>22, <2>2, Frames, ZenonT(60) DEF RemoteAttach, RemoteDetach, TypeOK, orphanUnchanged
<1>23. ASSUME NEW b \in Backends, QuarantineExpires(b) PROVE TypeOK'
  BY <1>23, Frames, Zenon DEF QuarantineExpires, TypeOK, PoolTypes
<1> QED
  BY <1>1, <1>2, <1>3, <1>4, <1>5, <1>6, <1>7, <1>8, <1>9, <1>10, <1>11, <1>12, <1>13, <1>14,
     <1>15, <1>16, <1>17, <1>18, <1>19, <1>20, <1>21, <1>22, <1>23, NextCases, Zenon

=============================================================================
