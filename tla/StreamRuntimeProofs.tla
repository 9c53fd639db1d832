------------------------- MODULE StreamRuntimeProofs -------------------------
(***************************************************************************)
(* What is proved of StreamRuntime for any number of stops, triggers,      *)
(* orphan goroutines, readers and backends, and any bound on chunks and    *)
(* faults: the leases, the orphan claim, the invariant and the theorems.   *)
(***************************************************************************)
EXTENDS StreamRuntimeRaces

-----------------------------------------------------------------------------
(* Leases.                                                                    *)

\* Control points at which the producer holds a second lease, in prod.target.
Targeting == {"evaluate", "reserve", "handover"}

\* A step that touches no lease, nor who is about to release one.
LeaseQuiet ==
    /\ UNCHANGED <<held, currentLease, currentBackend, terminal>>
    /\ prod'.target = prod.target
    /\ pc'["producer"] \in Targeting <=> pc["producer"] \in Targeting
    /\ \A t \in Triggers : pc'[t] = "refusalCancel" <=> pc[t] = "refusalCancel"

\* Such a step keeps the leases accounted for.
LEMMA LeaseQuietStep ==
    ASSUME LeaseInv, LeaseQuiet
    PROVE  LeaseInv'
<1>1. RefusalPending' <=> RefusalPending
  BY Zenon DEF LeaseQuiet, RefusalPending
<1>2. LeasesAccounted'
  BY <1>1, Zenon DEF LeaseInv, LeaseQuiet, LeasesAccounted, LeasesOwed
<1> QED
  BY <1>2, Zenon DEF LeaseInv, LeaseQuiet, Targeting

\* A move of one goroutine that neither enters nor leaves such a control point.
LEMMA LeaseGoto ==
    ASSUME TypeOK, NEW p \in Procs, NEW l \in Labels, Goto(p, l),
           l # "refusalCancel", pc[p] # "refusalCancel",
           p = "producer" => (l \in Targeting <=> pc[p] \in Targeting)
    PROVE  /\ pc'["producer"] \in Targeting <=> pc["producer"] \in Targeting
           /\ \A t \in Triggers : pc'[t] = "refusalCancel" <=> pc[t] = "refusalCancel"
<1>1. \A q \in Procs : pc'[q] = IF q = p THEN l ELSE pc[q]
  BY DEF TypeOK, Goto
<1>2. "producer" \in Procs /\ Triggers \subseteq Procs
  BY DEF Procs
<1> QED
  BY <1>1, <1>2

\* The steps of the producer that keep its leases.
LEMMA LeaseProducer ==
    ASSUME TypeOK, ControlInv,
           \/ Register \/ BeginAttempt \/ DispatchAttempt \/ EndAttempt \/ PrepareMigration
           \/ NoTarget \/ ReceiveDone \/ ReceiveInvalid \/ ReceiveFailure \/ ReadFails
           \/ AppendBegin
    PROVE  LeaseQuiet
<1>1. prod \in Locals /\ "producer" \in Procs
  BY DEF TypeOK, ProducerTypes, Procs
<1>2. UNCHANGED <<held, currentLease, currentBackend, terminal>>
  BY Zenon DEF Register, BeginAttempt, DispatchAttempt, EndAttempt, PrepareMigration, AppendBegin,
     NoTarget, ReceiveDone, ReceiveInvalid, ReceiveFailure, ReadFails, leaseVars, terminalVars,
     streamUnchanged
<1>3. prod'.target = prod.target
  <2>1. CASE Register \/ BeginAttempt \/ AppendBegin
    BY <2>1, Zenon DEF Register, BeginAttempt, AppendBegin
  <2>2. CASE DispatchAttempt
    BY <2>2, <1>1, Zenon DEF DispatchAttempt, Write, Locals
  <2>3. CASE EndAttempt
    BY <2>3, <1>1, Zenon DEF EndAttempt, Locals
  <2>4. CASE PrepareMigration
    BY <2>4, <1>1, Zenon DEF PrepareMigration, Refuse, Write, Locals
  <2>5. CASE NoTarget
    BY <2>5, <1>1, Zenon DEF NoTarget, Refuse, Write, Locals
  <2>6. CASE ReceiveDone \/ ReceiveInvalid \/ ReceiveFailure \/ ReadFails
    BY <2>6, <1>1, Zenon DEF ReceiveDone, ReceiveInvalid, ReceiveFailure, ReadFails, FlushThen,
       flushSeam, seamFails, Write, Locals
  <2> QED
    BY <2>1, <2>2, <2>3, <2>4, <2>5, <2>6
<1>4. pc["producer"] \in {"opened", "attempt", "dispatch", "attemptError", "upstreamFailed",
                          "seamFailed", "prepare", "acquire", "stream", "append"}
  BY Zenon DEF Register, BeginAttempt, DispatchAttempt, EndAttempt, PrepareMigration, AppendBegin,
     NoTarget, ReceiveDone, ReceiveInvalid, ReceiveFailure, ReadFails
<1>5. PICK l \in {"attempt", "attemptError", "dispatch", "stream", "exit", "append", "finishDone",
                  "finishInvalid", "upstreamFailed", "seamFailed", "finishError", "prepare",
                  "finishCompleted", "acquire", "appending"} : Goto("producer", l)
  BY Zenon DEF Register, BeginAttempt, DispatchAttempt, EndAttempt, PrepareMigration, AppendBegin,
     NoTarget, ReceiveDone, ReceiveInvalid, ReceiveFailure, ReadFails, FlushThen, flushSeam,
     seamFails, Write, Refuse, AppendRefused
<1>6. /\ l \in Labels /\ l # "refusalCancel" /\ pc["producer"] # "refusalCancel"
      /\ l \notin Targeting /\ pc["producer"] \notin Targeting
  BY <1>4 DEF Labels, Targeting
<1>7. /\ pc'["producer"] \in Targeting <=> pc["producer"] \in Targeting
      /\ \A t \in Triggers : pc'[t] = "refusalCancel" <=> pc[t] = "refusalCancel"
  BY <1>1, <1>5, <1>6, LeaseGoto
<1> QED
  BY <1>2, <1>3, <1>7 DEF LeaseQuiet

\* Receiving and committing chunks keep the producer's leases.
LEMMA LeaseChunks ==
    ASSUME TypeOK, ControlInv, ReceiveChunk \/ AppendCommit
    PROVE  LeaseQuiet
<1>1. prod \in Locals /\ "producer" \in Procs
  BY DEF TypeOK, ProducerTypes, Procs
<1>2. UNCHANGED <<held, currentLease, currentBackend, terminal>>
  BY Zenon DEF ReceiveChunk, AppendCommit, leaseVars, terminalVars, streamUnchanged
<1>3. CASE ReceiveChunk
  <2>1. prod'.target = prod.target
    <3>1. PICK c \in Chunks :
              LET got == [prod EXCEPT !.chunks = @ + 1]
                  buffered == [got EXCEPT !.frames = Append(@, c)] IN
              \/ Write(got, <<c>>, "stream") \/ prod' = buffered
              \/ flushSeam(buffered, "stream") \/ Write(buffered, <<"warning">>, "finishError")
      BY <1>3, Zenon DEF ReceiveChunk
    <3>2. PICK n : n = prod.chunks + 1
      BY Zenon
    <3>3. PICK fs : fs = Append(prod.frames, c)
      BY Zenon
    <3>4. PICK got : got = [prod EXCEPT !.chunks = n]
      BY Zenon
    <3>5. PICK buffered : buffered = [got EXCEPT !.frames = fs]
      BY Zenon
    <3>6. got.target = prod.target /\ buffered.target = prod.target
          /\ got.frames = prod.frames /\ "target" \in DOMAIN got /\ "target" \in DOMAIN buffered
      BY <1>1, <3>4, <3>5, Zenon DEF Locals
    <3>7. \/ Write(got, <<c>>, "stream") \/ prod' = buffered
          \/ flushSeam(buffered, "stream") \/ Write(buffered, <<"warning">>, "finishError")
      BY <3>1, <3>2, <3>3, <3>4, <3>5, <3>6, Zenon
    <3>8. CASE flushSeam(buffered, "stream")
      BY <3>6, <3>8, Zenon DEF flushSeam, seamFails, Write
    <3> QED
      BY <3>6, <3>7, <3>8, Zenon DEF Write
  <2>2. UNCHANGED pc \/ Goto("producer", "append") \/ Goto("producer", "seamFailed")
    BY <1>3, ZenonT(60) DEF ReceiveChunk, flushSeam, seamFails, Write
  <2>3. pc["producer"] = "stream"
    BY <1>3, Zenon DEF ReceiveChunk
  <2>4. /\ pc'["producer"] \in Targeting <=> pc["producer"] \in Targeting
        /\ \A t \in Triggers : pc'[t] = "refusalCancel" <=> pc[t] = "refusalCancel"
    <3>1. CASE UNCHANGED pc
      BY <3>1
    <3>2. ASSUME NEW l \in {"append", "seamFailed"}, Goto("producer", l)
          PROVE  /\ pc'["producer"] \in Targeting <=> pc["producer"] \in Targeting
                 /\ \A t \in Triggers : pc'[t] = "refusalCancel" <=> pc[t] = "refusalCancel"
      BY <1>1, <2>3, <3>2, LeaseGoto DEF Labels, Targeting
    <3> QED
      BY <2>2, <3>1, <3>2
  <2> QED
    BY <1>2, <2>1, <2>4 DEF LeaseQuiet
<1>4. CASE AppendCommit
  <2>1. pc["producer"] = "appending" /\ prod.then \in Thens /\ prod.todo # <<>>
        /\ prod.todo \in Seq(Entries)
    BY <1>1, <1>4, Zenon DEF AppendCommit, ControlInv, Locals
  <2>2. PICK n \in 1..Len(prod.todo) : AppendAdvance(n)
    BY <1>4, <2>1 DEF AppendCommit, Batches
  <2>3. prod'.target = prod.target
    BY <1>1, <2>2, Zenon DEF AppendAdvance, Write, Locals
  <2>4. UNCHANGED pc \/ \E l \in {"append"} \cup Thens : Goto("producer", l)
    BY <2>1, <2>2 DEF AppendAdvance, Write
  <2>5. /\ pc'["producer"] \in Targeting <=> pc["producer"] \in Targeting
        /\ \A t \in Triggers : pc'[t] = "refusalCancel" <=> pc[t] = "refusalCancel"
    <3>1. CASE UNCHANGED pc
      BY <3>1
    <3>2. ASSUME NEW l \in {"append"} \cup Thens, Goto("producer", l)
          PROVE  /\ pc'["producer"] \in Targeting <=> pc["producer"] \in Targeting
                 /\ \A t \in Triggers : pc'[t] = "refusalCancel" <=> pc[t] = "refusalCancel"
      BY <1>1, <2>1, <3>2, LeaseGoto DEF Labels, Targeting, Thens
    <3> QED
      BY <2>4, <3>1, <3>2
  <2> QED
    BY <1>2, <2>3, <2>5 DEF LeaseQuiet
<1> QED
  BY <1>3, <1>4

\* The steps of the other goroutines that touch no lease.
LEMMA LeaseOthers ==
    ASSUME TypeOK,
           \/ UNCHANGED vars \/ MarkJournalDegraded \/ ForceCancel \/ ClaimExpires
           \/ \E p \in Procs : CloseBegin(p)
           \/ \E s \in Stoppers : StopEnter(s) \/ StopReturn(s)
           \/ \E t \in Triggers :
                 \/ TriggerMark(t) \/ TriggerLookup(t) \/ TriggerProbe(t) \/ TriggerAttempt(t)
                 \/ RefusalBegin(t) \/ RefusalLock(t) \/ RefusalWarn(t) \/ RefusalRollback(t)
           \/ \E o \in Orphans :
                 \/ OrphanTimerFires(o) \/ CancelOrphan(o) \/ ScheduleOrphanCheck(o)
                 \/ ReleaseOrphanClaim(o)
           \/ \E r \in Readers : AttachReader(r) \/ DetachReader(r)
           \/ \E q \in RemoteReaders : RemoteAttach(q) \/ RemoteDetach(q)
           \/ \E b \in Backends : QuarantineExpires(b)
    PROVE  LeaseQuiet
<1> USE DistinctProcesses
<1>1. ASSUME UNCHANGED <<held, currentLease, currentBackend, terminal, prod, pc>> PROVE LeaseQuiet
  BY <1>1 DEF LeaseQuiet
<1>2. ASSUME NEW p \in Procs, NEW l \in Labels, Goto(p, l), l # "refusalCancel",
             pc[p] # "refusalCancel", p = "producer" => l \notin Targeting /\ pc[p] \notin Targeting,
             UNCHANGED <<held, currentLease, currentBackend, terminal, prod>>
      PROVE  LeaseQuiet
  <2>1. /\ pc'["producer"] \in Targeting <=> pc["producer"] \in Targeting
        /\ \A t \in Triggers : pc'[t] = "refusalCancel" <=> pc[t] = "refusalCancel"
    BY <1>2, LeaseGoto
  <2> QED
    BY <1>2, <2>1 DEF LeaseQuiet
<1>3. ASSUME \/ UNCHANGED vars \/ MarkJournalDegraded \/ ForceCancel \/ ClaimExpires
             \/ \E q \in RemoteReaders : RemoteAttach(q) \/ RemoteDetach(q)
             \/ \E b \in Backends : QuarantineExpires(b)
      PROVE  LeaseQuiet
  BY <1>1, <1>3, Zenon DEF vars, MarkJournalDegraded, ForceCancel, ClaimExpires, RemoteAttach,
     RemoteDetach, QuarantineExpires, leaseVars, terminalVars, orphanUnchanged
<1>4. ASSUME NEW p \in Procs, CloseBegin(p) PROVE LeaseQuiet
  <2>1. UNCHANGED <<held, currentLease, currentBackend, terminal, prod>>
    BY <1>4 DEF CloseBegin, leaseVars
  <2>2. PICK l \in {"closing", "stopConflict", "orphanRelease", "idle", "finishError", "exit"} :
            Goto(p, l)
    BY <1>4 DEF CloseBegin, CloseRefused
  <2>3. pc[p] # "refusalCancel" /\ pc[p] \notin Targeting
    BY <1>4 DEF CloseBegin, AtClose, Targeting
  <2>4. l \in Labels /\ l # "refusalCancel" /\ l \notin Targeting
    BY DEF Labels, Targeting
  <2> QED
    BY <1>2, <2>1, <2>2, <2>3, <2>4
<1>5. ASSUME NEW s \in Stoppers, StopEnter(s) \/ StopReturn(s) PROVE LeaseQuiet
  <2>1. UNCHANGED <<held, currentLease, currentBackend, terminal, prod>>
    BY <1>5 DEF StopEnter, StopReturn, leaseVars, terminalVars, stopUnchanged
  <2>2. PICK l \in {"done", "stopWait", "stopClose"} : Goto(s, l)
    BY <1>5 DEF StopEnter, StopReturn
  <2>3. pc[s] # "refusalCancel" /\ s \in Procs /\ s # "producer"
    BY <1>5 DEF StopEnter, StopReturn, Procs
  <2>4. l \in Labels /\ l # "refusalCancel"
    BY DEF Labels
  <2> QED
    BY <1>2, <2>1, <2>2, <2>3, <2>4, SMTT(30)
<1>6. ASSUME NEW t \in Triggers,
             \/ TriggerMark(t) \/ TriggerLookup(t) \/ TriggerProbe(t) \/ TriggerAttempt(t)
             \/ RefusalBegin(t) \/ RefusalLock(t) \/ RefusalWarn(t) \/ RefusalRollback(t)
      PROVE  LeaseQuiet
  <2>1. UNCHANGED <<held, currentLease, currentBackend, terminal, prod>>
    BY <1>6, Zenon DEF TriggerMark, TriggerLookup, TriggerProbe, TriggerAttempt, RefusalBegin,
       RefusalLock, RefusalWarn, RefusalRollback, terminalVars, triggerUnchanged
  <2>2. PICK l \in {"lookup", "done", "probe", "trigger", "refuse", "refusalLock", "refusalWarn",
                    "refusalClose", "refusalRollback", "retrigger", "withdrawn"} : Goto(t, l)
    BY <1>6, Zenon DEF TriggerMark, TriggerLookup, TriggerProbe, TriggerAttempt, RefusalBegin,
       RefusalLock, RefusalWarn, RefusalRollback
  <2>3. pc[t] # "refusalCancel" /\ t \in Procs /\ t # "producer"
    BY <1>6, Zenon DEF TriggerMark, TriggerLookup, TriggerProbe, TriggerAttempt, RefusalBegin,
       RefusalLock, RefusalWarn, RefusalRollback, Procs
  <2>4. l \in Labels /\ l # "refusalCancel"
    BY DEF Labels
  <2> QED
    BY <1>2, <2>1, <2>2, <2>3, <2>4
<1>7. ASSUME NEW o \in Orphans,
             \/ OrphanTimerFires(o) \/ CancelOrphan(o) \/ ScheduleOrphanCheck(o)
             \/ ReleaseOrphanClaim(o)
      PROVE  LeaseQuiet
  <2>1. UNCHANGED <<held, currentLease, currentBackend, terminal, prod>>
    BY <1>7, Zenon DEF OrphanTimerFires, CancelOrphan, ScheduleOrphanCheck, ReleaseOrphanClaim,
       leaseVars, terminalVars, orphanUnchanged
  <2>2. PICK l \in {"idle", "orphanCheck", "orphanClose", "claimedClose", "orphanPoll",
                    "orphanGrace"} : Goto(o, l)
    BY <1>7, Zenon DEF OrphanTimerFires, CancelOrphan, ScheduleOrphanCheck, ReleaseOrphanClaim
  <2>3. pc[o] # "refusalCancel" /\ o \in Procs /\ o # "producer"
    BY <1>7, Zenon DEF OrphanTimerFires, CancelOrphan, ScheduleOrphanCheck, ReleaseOrphanClaim, Procs
  <2>4. l \in Labels /\ l # "refusalCancel"
    BY DEF Labels
  <2> QED
    BY <1>2, <2>1, <2>2, <2>3, <2>4
<1>8. ASSUME NEW r \in Readers, AttachReader(r) \/ DetachReader(r) PROVE LeaseQuiet
  <2>1. UNCHANGED <<held, currentLease, currentBackend, terminal, prod>>
    BY <1>8, Zenon DEF AttachReader, DetachReader, leaseVars, terminalVars, orphanUnchanged
  <2>2. UNCHANGED pc \/ \E o \in Orphans : pc[o] = "idle" /\ Goto(o, "orphanCheck")
    BY <1>8, Zenon DEF AttachReader, DetachReader
  <2>3. /\ "orphanCheck" \in Labels /\ Orphans \subseteq Procs /\ "producer" \notin Orphans
    BY DEF Labels, Procs
  <2> QED
    BY <1>1, <1>2, <2>1, <2>2, <2>3
<1> QED
  BY <1>3, <1>4, <1>5, <1>6, <1>7, <1>8

\* While the stream is live no refusal is about to release its lease.
LEMMA NoRefusalPending ==
    ASSUME LeaseInv, terminal = ""
    PROVE  ~RefusalPending
  BY Zenon DEF LeaseInv, RefusalPending

\* The producer takes, keeps or gives back a second lease.
LEMMA LeaseTarget ==
    ASSUME TypeOK, LeaseInv, AcquireTarget \/ EvaluateTarget \/ ReserveTarget \/ Handover
    PROVE  LeaseInv'
<1> USE RuntimeConstants
<1>1. /\ prod \in Locals /\ "producer" \in Procs /\ prod.target \in Backends \cup {NoBackend}
      /\ held \in [Backends -> Nat] /\ currentBackend \in Backends
      /\ currentLease \in Backends \cup {NoBackend}
  BY Zenon DEF TypeOK, ProducerTypes, Procs, Locals, LeaseTypes
<1>2. UNCHANGED terminal
  BY DEF AcquireTarget, EvaluateTarget, ReserveTarget, Handover, terminalVars
<1>3. PICK l \in {"evaluate", "reserve", "handover", "attempt", "append", "exit"} : Goto("producer", l)
  BY DEF AcquireTarget, EvaluateTarget, ReserveTarget, Handover, Refuse, Write
<1>4. /\ pc' = [pc EXCEPT !["producer"] = l] /\ pc'["producer"] = l
      /\ \A t \in Triggers : pc'[t] = pc[t]
  <2>1. \A q \in Procs : pc'[q] = IF q = "producer" THEN l ELSE pc[q]
    BY <1>3 DEF TypeOK, Goto
  <2> QED
    BY <1>1, <1>3, <2>1, DistinctProcesses DEF Procs, Goto
<1>5. RefusalPending' <=> RefusalPending
  BY <1>4, Zenon DEF RefusalPending
<1>6. LeasesAccounted' /\ (prod'.target # NoBackend <=> l \in Targeting)
      /\ (terminal # "" => currentLease' = NoBackend)
      /\ (terminal = "" => currentLease' = currentBackend')
  <2>1. CASE AcquireTarget
    <3>1. PICK b \in Backends : /\ held' = [held EXCEPT ![b] = @ + 1]
                                /\ prod' = [prod EXCEPT !.target = b]
      BY <2>1, Zenon DEF AcquireTarget, Available
    <3>2. prod'.target = b /\ prod.target = NoBackend
      BY <1>1, <2>1, <3>1, Zenon DEF AcquireTarget, LeaseInv, Locals
    <3>3. UNCHANGED <<currentLease, currentBackend>> /\ Goto("producer", "evaluate")
      BY <2>1 DEF AcquireTarget
    <3>4. l = "evaluate"
      BY <1>1, <1>4, <3>3 DEF Goto, TypeOK
    <3>5. \A c \in Backends : held'[c] = IF c = b THEN held[c] + 1 ELSE held[c]
      BY <1>1, <3>1
    <3>6. LeasesAccounted'
      <4>1. SUFFICES ASSUME NEW c \in Backends PROVE held'[c] = LeasesOwed(c)'
        BY DEF LeasesAccounted
      <4>2. held[c] = LeasesOwed(c) /\ held[c] \in Nat /\ c # NoBackend
        BY <1>1, Zenon DEF LeasesAccounted, LeaseInv
      <4> QED
        BY <1>5, <3>2, <3>3, <3>5, <4>2 DEF LeasesOwed
    <3> QED
      BY <1>2, <3>2, <3>3, <3>4, <3>6, Zenon DEF LeaseInv, Targeting
  <2>2. CASE EvaluateTarget /\ WithinPolicy /\ prod.target \in SafeTargets
    <3>1. UNCHANGED <<currentLease, currentBackend, held, prod>> /\ Goto("producer", "reserve")
      BY <2>2 DEF EvaluateTarget
    <3>2. l = "reserve"
      BY <1>1, <1>4, <3>1 DEF Goto, TypeOK
    <3>3. LeasesAccounted'
      <4>1. SUFFICES ASSUME NEW c \in Backends PROVE held'[c] = LeasesOwed(c)'
        BY DEF LeasesAccounted
      <4>2. held[c] = LeasesOwed(c) /\ held[c] \in Nat /\ c # NoBackend
        BY <1>1, Zenon DEF LeasesAccounted, LeaseInv
      <4> QED
        BY <1>5, <3>1, <4>2 DEF LeasesOwed
    <3> QED
      BY <1>2, <2>2, <3>1, <3>2, <3>3, Zenon DEF LeaseInv, Targeting, EvaluateTarget
  <2>3. CASE EvaluateTarget /\ ~(WithinPolicy /\ prod.target \in SafeTargets)
    <3>1. UNCHANGED <<currentLease, currentBackend>> /\ Goto("producer", "append")
          /\ held' = [held EXCEPT ![prod.target] = @ - 1]
      BY <2>3, SMTT(30) DEF EvaluateTarget, Refuse, Write
    <3>2. l = "append"
      BY <1>1, <1>4, <3>1 DEF Goto, TypeOK
    <3>3. prod'.target = NoBackend
      BY <1>1, <2>3, Zenon DEF EvaluateTarget, Refuse, Write, Locals
    <3>4. prod.target \in Backends
      BY <1>1, <2>3, Zenon DEF EvaluateTarget, LeaseInv
    <3>5. \A c \in Backends : held'[c] = IF c = prod.target THEN held[c] - 1 ELSE held[c]
      BY <1>1, <3>1
    <3>6. LeasesAccounted'
      <4>1. SUFFICES ASSUME NEW c \in Backends PROVE held'[c] = LeasesOwed(c)'
        BY DEF LeasesAccounted
      <4>2. held[c] = LeasesOwed(c) /\ held[c] \in Nat /\ c # NoBackend
        BY <1>1, Zenon DEF LeasesAccounted, LeaseInv
      <4> QED
        BY <1>5, <3>1, <3>3, <3>4, <3>5, <4>2 DEF LeasesOwed
    <3> QED
      BY <1>2, <3>1, <3>2, <3>3, <3>6, Zenon DEF LeaseInv, Targeting
  <2>4. CASE ReserveTarget /\ (Ended \/ currentLease # currentBackend)
    <3>1. UNCHANGED <<currentLease, currentBackend>> /\ Goto("producer", "exit")
          /\ held' = [held EXCEPT ![prod.target] = @ - 1]
          /\ prod' = [prod EXCEPT !.target = NoBackend]
      BY <2>4 DEF ReserveTarget
    <3>2. l = "exit"
      BY <1>1, <1>4, <3>1 DEF Goto, TypeOK
    <3>3. prod'.target = NoBackend
      BY <1>1, <3>1, Zenon DEF Locals
    <3>4. prod.target \in Backends
      BY <1>1, <2>4, Zenon DEF ReserveTarget, LeaseInv
    <3>5. \A c \in Backends : held'[c] = IF c = prod.target THEN held[c] - 1 ELSE held[c]
      BY <1>1, <3>1
    <3>6. LeasesAccounted'
      <4>1. SUFFICES ASSUME NEW c \in Backends PROVE held'[c] = LeasesOwed(c)'
        BY DEF LeasesAccounted
      <4>2. held[c] = LeasesOwed(c) /\ held[c] \in Nat /\ c # NoBackend
        BY <1>1, Zenon DEF LeasesAccounted, LeaseInv
      <4> QED
        BY <1>5, <3>1, <3>3, <3>4, <3>5, <4>2 DEF LeasesOwed
    <3> QED
      BY <1>2, <3>1, <3>2, <3>3, <3>6, Zenon DEF LeaseInv, Targeting
  <2>5. CASE ReserveTarget /\ ~(Ended \/ currentLease # currentBackend)
    <3>1. /\ currentLease' = prod.target /\ currentBackend' = prod.target
          /\ prod' = [prod EXCEPT !.target = currentLease]
          /\ Goto("producer", "handover") /\ UNCHANGED held
      BY <2>5 DEF ReserveTarget
    <3>2. l = "handover"
      BY <1>1, <1>4, <3>1 DEF Goto, TypeOK
    <3>3. prod'.target = currentLease
      BY <1>1, <3>1, Zenon DEF Locals
    <3>4. prod.target \in Backends /\ currentLease \in Backends /\ terminal = ""
      BY <1>1, <2>5, Zenon DEF ReserveTarget, LeaseInv, Ended
    <3>5. ~RefusalPending /\ ~RefusalPending'
      BY <1>5, <3>4, NoRefusalPending, Zenon
    <3>6. LeasesAccounted'
      <4>1. SUFFICES ASSUME NEW c \in Backends PROVE held'[c] = LeasesOwed(c)'
        BY DEF LeasesAccounted
      <4>2. held[c] = LeasesOwed(c) /\ held[c] \in Nat /\ c # NoBackend
        BY <1>1, Zenon DEF LeasesAccounted, LeaseInv
      <4>3. held[c] = (IF currentLease = c THEN 1 ELSE 0) + (IF prod.target = c THEN 1 ELSE 0)
        BY <3>5, <4>2 DEF LeasesOwed
      <4>4. LeasesOwed(c)' = (IF prod.target = c THEN 1 ELSE 0) + (IF currentLease = c THEN 1 ELSE 0)
        <5>1. currentLease' = prod.target
          BY <3>1
        <5> QED
          BY <5>1, <3>3, <3>5 DEF LeasesOwed
      <4>5. held'[c] = held[c]
        BY <3>1
      <4> QED
        BY <4>3, <4>4, <4>5
    <3> QED
      BY <3>1, <3>2, <3>3, <3>4, <3>6, Zenon DEF LeaseInv, Targeting
  <2>6. CASE Handover
    <3>1. UNCHANGED <<currentLease, currentBackend>> /\ Goto("producer", "attempt")
          /\ held' = [held EXCEPT ![prod.target] = @ - 1]
          /\ prod' = [prod EXCEPT !.target = NoBackend, !.continuation = TRUE, !.frames = <<>>]
      BY <2>6 DEF Handover
    <3>2. l = "attempt"
      BY <1>1, <1>4, <3>1 DEF Goto, TypeOK
    <3>3. prod'.target = NoBackend
      BY <1>1, <3>1, Zenon DEF Locals
    <3>4. prod.target \in Backends
      BY <1>1, <2>6, Zenon DEF Handover, LeaseInv
    <3>5. \A c \in Backends : held'[c] = IF c = prod.target THEN held[c] - 1 ELSE held[c]
      BY <1>1, <3>1
    <3>6. LeasesAccounted'
      <4>1. SUFFICES ASSUME NEW c \in Backends PROVE held'[c] = LeasesOwed(c)'
        BY DEF LeasesAccounted
      <4>2. held[c] = LeasesOwed(c) /\ held[c] \in Nat /\ c # NoBackend
        BY <1>1, Zenon DEF LeasesAccounted, LeaseInv
      <4> QED
        BY <1>5, <3>1, <3>3, <3>4, <3>5, <4>2 DEF LeasesOwed
    <3> QED
      BY <1>2, <3>1, <3>2, <3>3, <3>6, Zenon DEF LeaseInv, Targeting
  <2> QED
    BY <2>1, <2>2, <2>3, <2>4, <2>5, <2>6, Zenon
<1> QED
  BY <1>2, <1>4, <1>6, ZenonT(60) DEF LeaseInv, Targeting

\* Ending the stream gives its lease back, at once or through RefusalCancel.
LEMMA LeaseEnd ==
    ASSUME TypeOK, ControlInv, FinisherInv, LeaseInv,
           \/ \E p \in Procs : CloseCommit(p)
           \/ \E t \in Triggers : RefusalClose(t) \/ RefusalCancel(t)
    PROVE  LeaseInv'
<1> USE RuntimeConstants, DistinctProcesses
<1>1. /\ "producer" \in Procs /\ Triggers \subseteq Procs /\ "producer" \notin Triggers
      /\ held \in [Backends -> Nat] /\ currentBackend \in Backends
      /\ currentLease \in Backends \cup {NoBackend}
  BY DEF TypeOK, Procs, LeaseTypes
<1>2. UNCHANGED <<currentBackend, prod>>
  BY Zenon DEF CloseCommit, RefusalClose, RefusalCancel, triggerUnchanged
<1>3. ASSUME NEW p \in Procs, CloseCommit(p) PROVE LeaseInv'
  <2>1. pc[p] = "closing" /\ terminal = "" /\ closing # ""
    BY <1>3, Zenon DEF CloseCommit, FinisherInv, Finishing
  <2>2. /\ terminal' = closing /\ currentLease' = NoBackend /\ Goto(p, CloseReturned(p))
        /\ held' = IF currentLease = NoBackend THEN held ELSE [held EXCEPT ![currentLease] = @ - 1]
    BY <1>3, Zenon DEF CloseCommit, FinishTerminal, ReleaseCurrentLease
  <2>3. CloseReturned(p) \in Labels /\ CloseReturned(p) # "refusalCancel"
        /\ CloseReturned(p) \notin Targeting
    BY DEF CloseReturned, Labels, Targeting
  <2>4. /\ pc'["producer"] \in Targeting <=> pc["producer"] \in Targeting
        /\ \A t \in Triggers : pc'[t] = "refusalCancel" <=> pc[t] = "refusalCancel"
    BY <2>1, <2>2, <2>3, LeaseGoto, Zenon DEF Targeting
  <2>5. ~RefusalPending /\ ~RefusalPending'
    BY <2>1, <2>4, NoRefusalPending, Zenon DEF RefusalPending
  <2>6. currentLease = currentBackend
    BY <2>1, Zenon DEF LeaseInv
  <2>7. \A c \in Backends : held'[c] = IF c = currentLease THEN held[c] - 1 ELSE held[c]
    BY <1>1, <2>2, <2>6, SMTT(30)
  <2>8. LeasesAccounted'
    <3>1. SUFFICES ASSUME NEW c \in Backends PROVE held'[c] = LeasesOwed(c)'
      BY DEF LeasesAccounted
    <3>2. held[c] = LeasesOwed(c) /\ held[c] \in Nat /\ c # NoBackend
      BY <1>1, Zenon DEF LeasesAccounted, LeaseInv
    <3> QED
      BY <1>2, <2>2, <2>5, <2>6, <2>7, <3>2 DEF LeasesOwed
  <2>9. \A t \in Triggers : pc'[t] # "refusalCancel"
    BY <2>5 DEF RefusalPending
  <2>10. terminal' # ""
    BY <2>1, <2>2, Zenon
  <2> QED
    BY <1>2, <2>2, <2>4, <2>8, <2>9, <2>10, Zenon DEF LeaseInv, Targeting
<1>4. ASSUME NEW t \in Triggers, RefusalClose(t) PROVE LeaseInv'
  <2>1. pc[t] = "refusalClose" /\ terminal = "" /\ UNCHANGED held
    BY <1>1, <1>4, Zenon DEF RefusalClose, FinisherInv, Finishing
  <2>2. ~RefusalPending
    BY <2>1, NoRefusalPending, Zenon
  <2>3. CASE /\ Goto(t, "refusalRollback")
             /\ UNCHANGED <<terminal, currentLease>>
    <3>1. LeaseQuiet
      BY <1>1, <1>2, <2>1, <2>3, LeaseGoto, Zenon DEF LeaseQuiet, Labels, Targeting
    <3> QED
      BY <3>1, LeaseQuietStep
  <2>4. CASE Goto(t, "refusalCancel") /\ terminal' = "error" /\ currentLease' = NoBackend
    <3>1. \A q \in Procs : pc'[q] = IF q = t THEN "refusalCancel" ELSE pc[q]
      BY <2>4 DEF TypeOK, Goto
    <3>2. RefusalPending'
      BY <1>1, <3>1 DEF RefusalPending
    <3>3. \A u \in Triggers : pc'[u] = "refusalCancel" => u = t
      BY <1>1, <2>2, <3>1 DEF RefusalPending
    <3>4. currentLease = currentBackend
      BY <2>1, Zenon DEF LeaseInv
    <3>5. LeasesAccounted'
      <4>1. SUFFICES ASSUME NEW c \in Backends PROVE held'[c] = LeasesOwed(c)'
        BY DEF LeasesAccounted
      <4>2. held[c] = LeasesOwed(c) /\ held[c] \in Nat /\ c # NoBackend
        BY <1>1, Zenon DEF LeasesAccounted, LeaseInv
      <4>3. held[c] = (IF currentBackend = c THEN 1 ELSE 0) + (IF prod.target = c THEN 1 ELSE 0)
        BY <2>2, <3>4, <4>2, SMTT(30) DEF LeasesOwed
      <4>4. LeasesOwed(c)' = (IF prod.target = c THEN 1 ELSE 0)
                             + (IF currentBackend = c THEN 1 ELSE 0)
        <5>1. currentLease' = NoBackend
          BY <2>4
        <5> QED
          BY <5>1, <1>2, <3>2, <4>2 DEF LeasesOwed
      <4>5. held'[c] = held[c]
        BY <2>1, Zenon
      <4> QED
        BY <4>3, <4>4, <4>5
    <3>6. pc'["producer"] = pc["producer"]
      BY <1>1, <3>1
    <3> QED
      BY <1>2, <2>4, <3>3, <3>5, <3>6, Zenon DEF LeaseInv
  <2> QED
    BY <1>4, <2>3, <2>4 DEF RefusalClose, FinishTerminal
<1>5. ASSUME NEW t \in Triggers, RefusalCancel(t) PROVE LeaseInv'
  <2>1. /\ pc[t] = "refusalCancel" /\ Goto(t, "done") /\ UNCHANGED <<terminal, currentLease>>
        /\ held' = [held EXCEPT ![currentBackend] = @ - 1]
    BY <1>5 DEF RefusalCancel
  <2>2. terminal # "" /\ currentLease = NoBackend /\ RefusalPending
    BY <2>1, Zenon DEF LeaseInv, RefusalPending
  <2>3. \A q \in Procs : pc'[q] = IF q = t THEN "done" ELSE pc[q]
    BY <2>1 DEF TypeOK, Goto
  <2>4. \A u \in Triggers : pc'[u] # "refusalCancel"
    BY <1>1, <2>1, <2>3, Zenon DEF LeaseInv
  <2>5. ~RefusalPending'
    BY <2>4 DEF RefusalPending
  <2>6. \A c \in Backends : held'[c] = IF c = currentBackend THEN held[c] - 1 ELSE held[c]
    BY <1>1, <2>1
  <2>7. LeasesAccounted'
    <3>1. SUFFICES ASSUME NEW c \in Backends PROVE held'[c] = LeasesOwed(c)'
      BY DEF LeasesAccounted
    <3>2. held[c] = LeasesOwed(c) /\ held[c] \in Nat /\ c # NoBackend
      BY <1>1, Zenon DEF LeasesAccounted, LeaseInv
    <3>3. held[c] = (IF prod.target = c THEN 1 ELSE 0) + (IF currentBackend = c THEN 1 ELSE 0)
      <4>1. currentLease = NoBackend
        BY <2>2, Zenon
      <4>2. RefusalPending
        BY <2>2, Zenon
      <4> QED
        BY <3>2, <4>1, <4>2 DEF LeasesOwed
    <3>4. LeasesOwed(c)' = IF prod.target = c THEN 1 ELSE 0
      <4>1. currentLease' = NoBackend
        BY <2>1, <2>2, Zenon
      <4> QED
        BY <4>1, <1>2, <2>5, <3>2 DEF LeasesOwed
    <3> QED
      BY <2>6, <3>3, <3>4, SMTT(30)
  <2>8. pc'["producer"] = pc["producer"]
    BY <1>1, <2>3, SMTT(30)
  <2> QED
    BY <1>2, <2>1, <2>2, <2>4, <2>7, <2>8, Zenon DEF LeaseInv
<1> QED
  BY <1>3, <1>4, <1>5

\* Every step keeps the leases accounted for.
LEMMA LeaseStep ==
    ASSUME IInv, [Next]_vars
    PROVE  LeaseInv'
<1>1. TypeOK /\ ControlInv /\ FinisherInv /\ LeaseInv
  BY DEF IInv
<1> QED
  BY <1>1, NextCases, LeaseProducer, LeaseChunks, LeaseOthers, LeaseQuietStep, LeaseTarget, LeaseEnd

-----------------------------------------------------------------------------
(* Orphan claims.                                                             *)

\* A journal write never reopens a closed stream.
LEMMA ClosedStays ==
    ASSUME JournalClosed,
           UNCHANGED log \/ \E k \in Kinds : JournalCommits(k) \/ JournalFails(k)
    PROVE  log' = log /\ JournalClosed'
<1>1. log' = log
  BY DEF JournalCommits, JournalFails, JournalAccepts
<1> QED
  BY <1>1 DEF JournalClosed

\* A step that moves no orphan goroutine, claim or reader.
ClaimQuiet ==
    /\ UNCHANGED <<readers, orphanClaim, remote, claimKey>>
    /\ JournalClosed => JournalClosed'
    /\ \A o \in Orphans : pc'[o] = pc[o]

\* Such a step keeps the claims sound.
LEMMA ClaimQuietStep ==
    ASSUME ClaimInv, ClaimQuiet
    PROVE  ClaimInv'
  BY Zenon DEF ClaimInv, ClaimQuiet

\* A move of one goroutine leaves the others where they are.
LEMMA OthersStay ==
    ASSUME TypeOK, NEW p \in Procs, NEW l, Goto(p, l)
    PROVE  (\A q \in Procs : q # p => pc'[q] = pc[q]) /\ pc'[p] = l
  BY DEF TypeOK, Goto

\* What every goroutine but the orphans' does.
LEMMA ClaimOthers ==
    ASSUME TypeOK, ControlInv, FinisherInv,
           \/ UNCHANGED vars
           \/ Register \/ BeginAttempt \/ DispatchAttempt \/ AppendBegin \/ AppendCommit
           \/ EndAttempt \/ PrepareMigration \/ AcquireTarget \/ NoTarget \/ EvaluateTarget
           \/ ReserveTarget \/ Handover
           \/ ReceiveChunk \/ ReceiveDone \/ ReceiveInvalid \/ ReceiveFailure \/ ReadFails
           \/ MarkJournalDegraded \/ ForceCancel
           \/ \E p \in Procs \ Orphans : CloseBegin(p) \/ CloseCommit(p)
           \/ \E s \in Stoppers : StopEnter(s) \/ StopReturn(s)
           \/ \E t \in Triggers :
                 \/ TriggerMark(t) \/ TriggerLookup(t) \/ TriggerProbe(t) \/ TriggerAttempt(t)
                 \/ RefusalBegin(t) \/ RefusalLock(t) \/ RefusalWarn(t) \/ RefusalClose(t)
                 \/ RefusalCancel(t) \/ RefusalRollback(t)
           \/ \E b \in Backends : QuarantineExpires(b)
    PROVE  ClaimQuiet
<1> USE DistinctProcesses
<1>1. "producer" \in Procs /\ Stoppers \subseteq Procs /\ Triggers \subseteq Procs
      /\ Orphans \subseteq Procs
  BY DEF Procs
<1>2. ASSUME UNCHANGED <<log, readers, orphanClaim, remote, claimKey, pc>> PROVE ClaimQuiet
  BY <1>2 DEF ClaimQuiet, JournalClosed
<1>3. ASSUME UNCHANGED <<readers, orphanClaim, remote, claimKey>>,
             UNCHANGED log \/ \E k \in Kinds : JournalCommits(k) \/ JournalFails(k),
             NEW p \in Procs \ Orphans, UNCHANGED pc \/ \E l : Goto(p, l)
      PROVE  ClaimQuiet
  <2>1. JournalClosed => JournalClosed'
    BY <1>3, ClosedStays, SMTT(30)
  <2>2. \A o \in Orphans : pc'[o] = pc[o]
    BY <1>1, <1>3, OthersStay
  <2> QED
    BY <1>3, <2>1, <2>2, SMTT(30) DEF ClaimQuiet
<1>4. ASSUME UNCHANGED vars \/ MarkJournalDegraded \/ ForceCancel
             \/ \E b \in Backends : QuarantineExpires(b)
      PROVE  ClaimQuiet
  BY <1>2, <1>4, Zenon DEF vars, MarkJournalDegraded, ForceCancel, QuarantineExpires, orphanVars,
     journalVars
<1>5. ASSUME \/ Register \/ BeginAttempt \/ DispatchAttempt \/ AppendBegin
             \/ EndAttempt \/ PrepareMigration \/ AcquireTarget \/ NoTarget \/ EvaluateTarget
             \/ ReserveTarget \/ Handover
             \/ ReceiveChunk \/ ReceiveDone \/ ReceiveInvalid \/ ReceiveFailure \/ ReadFails
      PROVE  ClaimQuiet
  <2>1. UNCHANGED <<log, readers, orphanClaim, remote, claimKey>>
    BY <1>5, ZenonT(60) DEF Register, BeginAttempt, DispatchAttempt, EndAttempt, PrepareMigration,
       AppendBegin, AcquireTarget, NoTarget, EvaluateTarget, ReserveTarget, Handover, ReceiveChunk, ReceiveDone,
       ReceiveInvalid, ReceiveFailure, ReadFails, journalVars, orphanVars, streamUnchanged
  <2>2. UNCHANGED pc \/ \E l : Goto("producer", l)
    BY <1>5, ZenonT(60) DEF Register, BeginAttempt, DispatchAttempt, EndAttempt, PrepareMigration,
       AppendBegin, AcquireTarget, NoTarget, EvaluateTarget, ReserveTarget, Handover, ReceiveChunk, ReceiveDone,
       ReceiveInvalid, ReceiveFailure, ReadFails, FlushThen, flushSeam, seamFails, Write,
       Refuse
  <2> QED
    BY <1>1, <1>3, <2>1, <2>2
<1>6. ASSUME AppendCommit PROVE ClaimQuiet
  <2>1. UNCHANGED <<readers, orphanClaim, remote, claimKey>>
    BY <1>6, Zenon DEF AppendCommit, orphanVars
  <2>2. pc["producer"] = "appending" /\ prod \in Locals /\ prod.todo # <<>>
        /\ prod.todo \in Seq(Entries)
    BY <1>6, Zenon DEF AppendCommit, ControlInv, TypeOK, ProducerTypes, Locals
  <2>3. EntryKind(Head(prod.todo)) \in Kinds
    <3>1. Head(prod.todo) \in Entries
      BY <2>2, FirstOf, Zenon
    <3> QED
      BY <3>1 DEF EntryKind, Kinds, Entries, Chunks
  <2>4. UNCHANGED log \/ \E k \in Kinds : JournalCommits(k) \/ JournalFails(k)
    BY <1>6, <2>3, Zenon DEF AppendCommit, journalVars
  <2>5. \E n \in 1..Len(prod.todo) : AppendAdvance(n)
    <3>1. 1 \in 1..Len(prod.todo)
      BY <2>2, FirstOf, Zenon
    <3> QED
      BY <1>6, <3>1, Zenon DEF AppendCommit, Batches
  <2>6. UNCHANGED pc \/ \E l : Goto("producer", l)
    BY <2>5 DEF AppendAdvance, Write
  <2> QED
    BY <1>1, <1>3, <2>1, <2>4, <2>6
<1>7. ASSUME NEW p \in Procs \ Orphans, CloseBegin(p) PROVE ClaimQuiet
  <2>1. UNCHANGED <<log, readers, orphanClaim, remote, claimKey>>
    BY <1>7, ZenonT(60) DEF CloseBegin, journalVars, orphanVars
  <2>2. \E l : Goto(p, l)
    BY <1>7 DEF CloseBegin
  <2> QED
    BY <1>3, <1>7, <2>1, <2>2
<1>8. ASSUME NEW p \in Procs \ Orphans, CloseCommit(p) PROVE ClaimQuiet
  <2>1. UNCHANGED <<readers, orphanClaim, remote, claimKey>>
    BY <1>8, Zenon DEF CloseCommit
  <2>2. pc[p] = "closing" /\ closing \in Kinds
    BY <1>8, Zenon DEF CloseCommit, TypeOK, TerminalTypes, FinisherInv, Kinds
  <2>3. UNCHANGED log \/ \E k \in Kinds : JournalCommits(k) \/ JournalFails(k)
    BY <1>8, <2>2, Zenon DEF CloseCommit, journalVars
  <2>4. \E l : Goto(p, l)
    BY <1>8, Zenon DEF CloseCommit
  <2> QED
    BY <1>3, <1>8, <2>1, <2>3, <2>4
<1>9. ASSUME NEW s \in Stoppers, StopEnter(s) \/ StopReturn(s) PROVE ClaimQuiet
  <2>1. UNCHANGED <<log, readers, orphanClaim, remote, claimKey>>
    BY <1>9, ZenonT(60) DEF StopEnter, StopReturn, journalVars, orphanVars, stopUnchanged
  <2>2. \E l : Goto(s, l)
    BY <1>9 DEF StopEnter, StopReturn
  <2> QED
    BY <1>1, <1>3, <2>1, <2>2
<1>10. ASSUME NEW t \in Triggers,
              \/ TriggerMark(t) \/ TriggerLookup(t) \/ TriggerProbe(t) \/ TriggerAttempt(t)
              \/ RefusalBegin(t) \/ RefusalLock(t) \/ RefusalWarn(t) \/ RefusalClose(t)
              \/ RefusalCancel(t) \/ RefusalRollback(t)
       PROVE  ClaimQuiet
  <2>1. UNCHANGED <<readers, orphanClaim, remote, claimKey>>
    BY <1>10, Zenon DEF TriggerMark, TriggerLookup, TriggerProbe, TriggerAttempt, RefusalBegin,
       RefusalLock, RefusalWarn, RefusalClose, RefusalCancel, RefusalRollback, triggerUnchanged
  <2>2. UNCHANGED log \/ JournalCommits("warning") \/ JournalFails("warning")
        \/ JournalCommits("error") \/ JournalFails("error")
    BY <1>10, Zenon DEF TriggerMark, TriggerLookup, TriggerProbe, TriggerAttempt, RefusalBegin,
       RefusalLock, RefusalWarn, RefusalClose, RefusalCancel, RefusalRollback, journalVars
  <2>3. "warning" \in Kinds /\ "error" \in Kinds
    BY DEF Kinds, Terminals
  <2>4. \E l : Goto(t, l)
    BY <1>10, Zenon DEF TriggerMark, TriggerLookup, TriggerProbe, TriggerAttempt, RefusalBegin,
       RefusalLock, RefusalWarn, RefusalClose, RefusalCancel, RefusalRollback
  <2>5. t \in Procs \ Orphans
    BY <1>1
  <2>6. UNCHANGED log \/ \E k \in Kinds : JournalCommits(k) \/ JournalFails(k)
    BY <2>2, <2>3, Zenon
  <2> QED
    BY <1>3, <2>1, <2>4, <2>5, <2>6
<1> QED
  BY <1>4, <1>5, <1>6, <1>7, <1>8, <1>9, <1>10, SMTT(30)

\* What orphan goroutines and readers do to the claims.
LEMMA ClaimOrphans ==
    ASSUME TypeOK, ControlInv, FinisherInv, ClaimInv,
           \/ ClaimExpires
           \/ \E o \in Orphans :
                 \/ CloseBegin(o) \/ CloseCommit(o) \/ OrphanTimerFires(o) \/ CancelOrphan(o)
                 \/ ScheduleOrphanCheck(o) \/ ReleaseOrphanClaim(o)
           \/ \E r \in Readers : AttachReader(r) \/ DetachReader(r)
           \/ \E q \in RemoteReaders : RemoteAttach(q) \/ RemoteDetach(q)
    PROVE  ClaimInv'
<1> USE DistinctProcesses
<1>1. Orphans \subseteq Procs /\ NoProc \notin Orphans /\ orphanClaim \in Orphans \cup {NoProc}
      /\ "producer" \notin Orphans /\ Orphans \cap Stoppers = {}
  BY DEF Procs, TypeOK, OrphanTypes
<1>2. ASSUME NEW o \in Orphans, NEW l, Goto(o, l)
      PROVE  (\A q \in Orphans : q # o => pc'[q] = pc[q]) /\ pc'[o] = l
  BY <1>1, <1>2, OthersStay, Zenon
<1>3. CASE ClaimExpires
  <2>1. claimKey' = NoProc /\ UNCHANGED <<readers, orphanClaim, remote, pc, log>>
    BY <1>3, Zenon DEF ClaimExpires, orphanUnchanged, journalVars
  <2> QED
    BY <2>1, Zenon DEF ClaimInv
<1>4. ASSUME NEW q \in RemoteReaders, RemoteAttach(q) \/ RemoteDetach(q) PROVE ClaimInv'
  <2>1. UNCHANGED <<readers, orphanClaim, claimKey, pc, log>>
    BY <1>4, Zenon DEF RemoteAttach, RemoteDetach, orphanUnchanged, journalVars
  <2>2. JournalClosed' <=> JournalClosed
    BY <2>1 DEF JournalClosed
  <2>3. claimKey # NoProc => remote' = {} \/ JournalClosed
    BY <1>4, Zenon DEF RemoteAttach, RemoteDetach, ClaimInv
  <2> QED
    BY <2>1, <2>2, <2>3, Zenon DEF ClaimInv
<1>5. ASSUME NEW r \in Readers, AttachReader(r) PROVE ClaimInv'
  <2>1. UNCHANGED <<orphanClaim, claimKey, remote, pc, log>> /\ ~terminating
    BY <1>5, Zenon DEF AttachReader, orphanUnchanged, journalVars
  <2>2. JournalClosed' <=> JournalClosed
    BY <2>1 DEF JournalClosed
  <2>3. \A o \in Orphans : pc[o] # "closing"
    BY <1>1, <2>1, Zenon DEF FinisherInv, Finishing
  <2> QED
    BY <2>1, <2>2, <2>3, Zenon DEF ClaimInv
<1>6. ASSUME NEW r \in Readers, DetachReader(r) PROVE ClaimInv'
  <2>1. UNCHANGED <<orphanClaim, claimKey, remote, log>> /\ readers # {}
    BY <1>6, Zenon DEF DetachReader, orphanUnchanged, journalVars
  <2>2. JournalClosed' <=> JournalClosed
    BY <2>1 DEF JournalClosed
  <2>3. UNCHANGED pc \/ \E o \in Orphans : pc[o] = "idle" /\ Goto(o, "orphanCheck")
    BY <1>6, Zenon DEF DetachReader
  <2>4. \A o \in Orphans : pc'[o] = pc[o] \/ (pc[o] = "idle" /\ pc'[o] = "orphanCheck")
    BY <1>2, <2>3
  <2>5. \A o \in Orphans : pc[o] # "closing"
    BY <2>1, Zenon DEF ClaimInv
  <2> QED
    BY <2>1, <2>2, <2>4, <2>5, Zenon DEF ClaimInv
<1>7. ASSUME NEW o \in Orphans, OrphanTimerFires(o) PROVE ClaimInv'
  <2>1. UNCHANGED <<readers, orphanClaim, claimKey, remote, log>>
        /\ pc[o] = "idle" /\ Goto(o, "orphanCheck")
    BY <1>7 DEF OrphanTimerFires, orphanUnchanged, journalVars
  <2>2. JournalClosed' <=> JournalClosed
    BY <2>1 DEF JournalClosed
  <2>3. \A q \in Orphans : pc'[q] = pc[q] \/ (pc[q] = "idle" /\ pc'[q] = "orphanCheck")
    BY <1>2, <2>1
  <2> QED
    BY <2>1, <2>2, <2>3, ZenonT(60) DEF ClaimInv
<1>8. ASSUME NEW o \in Orphans, ScheduleOrphanCheck(o) PROVE ClaimInv'
  <2>1. /\ UNCHANGED <<readers, orphanClaim, remote, log>> /\ Goto(o, "idle")
        /\ pc[o] \in {"orphanPoll", "orphanGrace"} /\ claimKey' \in {claimKey, NoProc}
    BY <1>8 DEF ScheduleOrphanCheck, orphanUnchanged, journalVars
  <2>2. JournalClosed' <=> JournalClosed
    BY <2>1 DEF JournalClosed
  <2>3. orphanClaim # o
    BY <2>1, Zenon DEF ClaimInv
  <2>4. claimKey' # NoProc => remote' = {} \/ JournalClosed'
    BY <2>1, <2>2, Zenon DEF ClaimInv
  <2>5. \A q \in Orphans : IF q = o THEN pc'[q] = "idle" ELSE pc'[q] = pc[q]
    BY <1>2, <2>1
  <2> QED
    BY <2>1, <2>2, <2>3, <2>4, <2>5, ZenonT(60) DEF ClaimInv
<1>9. ASSUME NEW o \in Orphans, ReleaseOrphanClaim(o) PROVE ClaimInv'
  <2>1. /\ UNCHANGED <<readers, remote, log>> /\ Goto(o, "idle") /\ pc[o] = "orphanRelease"
        /\ orphanClaim' = IF orphanClaim = o THEN NoProc ELSE orphanClaim
        /\ claimKey' \in {claimKey, NoProc}
    BY <1>9, Zenon DEF ReleaseOrphanClaim, orphanUnchanged, journalVars
  <2>2. JournalClosed' <=> JournalClosed
    BY <2>1 DEF JournalClosed
  <2>3. \A q \in Orphans : IF q = o THEN pc'[q] = "idle" ELSE pc'[q] = pc[q]
    BY <1>2, <2>1, SMTT(30)
  <2>4. claimKey' # NoProc => remote' = {} \/ JournalClosed'
    BY <2>1, <2>2 DEF ClaimInv
  <2>5. RemoteReaders # {} => \A q \in Orphans : pc'[q] # "orphanClose"
    BY <2>3, Zenon DEF ClaimInv
  <2>6. \A q \in Orphans :
            pc'[q] = "closing" => readers' = {} /\ (RemoteReaders # {} => orphanClaim' = q)
    BY <2>1, <2>3, Zenon DEF ClaimInv
  <2>7. \A q \in Orphans :
            orphanClaim' = q => pc'[q] \in {"claimedClose", "closing", "orphanRelease"}
    BY <1>1, <2>1, <2>3, SMTT(30) DEF ClaimInv
  <2> QED
    BY <2>4, <2>5, <2>6, <2>7, Zenon DEF ClaimInv
<1>10. ASSUME NEW o \in Orphans, CloseBegin(o) PROVE ClaimInv'
  <2>1. /\ UNCHANGED <<readers, orphanClaim, claimKey, remote, log>>
        /\ pc[o] \in {"orphanClose", "claimedClose"}
    BY <1>1, <1>10 DEF CloseBegin, AtClose, orphanVars, journalVars
  <2>2. JournalClosed' <=> JournalClosed
    BY <2>1, SMTT(30) DEF JournalClosed
  <2>3. \/ Goto(o, IF pc[o] = "claimedClose" THEN "orphanRelease" ELSE "idle")
        \/ Goto(o, "closing") /\ readers = {} /\ (pc[o] = "claimedClose" => orphanClaim = o)
    BY <1>1, <1>10, SMTT(30) DEF CloseBegin, CloseRefused, OrphanGuard
  <2>4. /\ \A q \in Orphans : q # o => pc'[q] = pc[q]
        /\ \/ pc'[o] = IF pc[o] = "claimedClose" THEN "orphanRelease" ELSE "idle"
           \/ pc'[o] = "closing" /\ readers = {} /\ (pc[o] = "claimedClose" => orphanClaim = o)
    BY <1>2, <2>3
  <2>5. claimKey' # NoProc => remote' = {} \/ JournalClosed'
    BY <2>1, <2>2 DEF ClaimInv
  <2>6. RemoteReaders # {} => \A q \in Orphans : pc'[q] # "orphanClose"
    BY <2>4, Zenon DEF ClaimInv
  <2>7. \A q \in Orphans :
            pc'[q] = "closing" => readers' = {} /\ (RemoteReaders # {} => orphanClaim' = q)
    BY <2>1, <2>4, Zenon DEF ClaimInv
  <2>8. \A q \in Orphans :
            orphanClaim' = q => pc'[q] \in {"claimedClose", "closing", "orphanRelease"}
    BY <1>1, <2>1, <2>4, Zenon DEF ClaimInv
  <2> QED
    BY <2>5, <2>6, <2>7, <2>8, Zenon DEF ClaimInv
<1>11. ASSUME NEW o \in Orphans, CloseCommit(o) PROVE ClaimInv'
  <2>1. UNCHANGED <<readers, orphanClaim, claimKey, remote>> /\ pc[o] = "closing"
        /\ Goto(o, CloseReturned(o))
    BY <1>11, Zenon DEF CloseCommit
  <2>2. closing \in Kinds
    BY <1>1, <1>11, Zenon DEF CloseCommit, TypeOK, TerminalTypes, FinisherInv, Kinds
  <2>3. UNCHANGED log \/ \E k \in Kinds : JournalCommits(k) \/ JournalFails(k)
    BY <1>11, <2>2, Zenon DEF CloseCommit, journalVars
  <2>4. JournalClosed => JournalClosed'
    BY <2>3, ClosedStays, SMTT(30)
  <2>5. /\ \A q \in Orphans : q # o => pc'[q] = pc[q]
        /\ pc'[o] = IF orphanClaim = o THEN "orphanRelease" ELSE "idle"
    BY <1>1, <1>2, <2>1 DEF CloseReturned
  <2>6. claimKey' # NoProc => remote' = {} \/ JournalClosed'
    BY <2>1, <2>4, Zenon DEF ClaimInv
  <2>7. RemoteReaders # {} => \A q \in Orphans : pc'[q] # "orphanClose"
    BY <2>5, Zenon DEF ClaimInv
  <2>8. \A q \in Orphans :
            pc'[q] = "closing" => readers' = {} /\ (RemoteReaders # {} => orphanClaim' = q)
    BY <2>1, <2>5, Zenon DEF ClaimInv
  <2>9. \A q \in Orphans :
            orphanClaim' = q => pc'[q] \in {"claimedClose", "closing", "orphanRelease"}
    BY <1>1, <2>1, <2>5, Zenon DEF ClaimInv
  <2> QED
    BY <2>6, <2>7, <2>8, <2>9, Zenon DEF ClaimInv
<1>12. ASSUME NEW o \in Orphans, CancelOrphan(o) PROVE ClaimInv'
  <2>1. UNCHANGED <<readers, remote, log>> /\ pc[o] = "orphanCheck"
    BY <1>12, Zenon DEF CancelOrphan
  <2>2. JournalClosed' <=> JournalClosed
    BY <2>1 DEF JournalClosed
  <2>3. orphanClaim # o
    BY <2>1, ZenonT(60) DEF ClaimInv
  <2>4. CASE /\ \E l \in {"idle", "orphanPoll", "orphanGrace", "orphanClose"} :
                   Goto(o, l) /\ (l = "orphanClose" => RemoteReaders = {})
             /\ UNCHANGED orphanClaim /\ (claimKey' = claimKey \/ remote = {})
    <3>1. /\ \A q \in Orphans : q # o => pc'[q] = pc[q]
          /\ pc'[o] \in {"idle", "orphanPoll", "orphanGrace", "orphanClose"}
          /\ pc'[o] = "orphanClose" => RemoteReaders = {}
      BY <1>2, <2>4
    <3>2. claimKey' # NoProc => remote' = {} \/ JournalClosed'
      BY <2>1, <2>2, <2>4, Zenon DEF ClaimInv
    <3>3. RemoteReaders # {} => \A q \in Orphans : pc'[q] # "orphanClose"
      BY <3>1, Zenon DEF ClaimInv
    <3>4. \A q \in Orphans :
              pc'[q] = "closing" => readers' = {} /\ (RemoteReaders # {} => orphanClaim' = q)
      BY <2>1, <2>4, <3>1, ZenonT(60) DEF ClaimInv
    <3>5. \A q \in Orphans :
              orphanClaim' = q => pc'[q] \in {"claimedClose", "closing", "orphanRelease"}
      BY <1>1, <2>3, <2>4, <3>1 DEF ClaimInv
    <3> QED
      BY <3>2, <3>3, <3>4, <3>5, Zenon DEF ClaimInv
  <2>5. CASE /\ Goto(o, "claimedClose") /\ orphanClaim' = o /\ claimKey' = o
             /\ ~Ended /\ remote = {} /\ RemoteReaders # {}
    <3>1. /\ \A q \in Orphans : q # o => pc'[q] = pc[q]
          /\ pc'[o] = "claimedClose"
      BY <1>2, <2>5
    <3>2. \A q \in Orphans : pc[q] # "closing"
      BY <1>1, <2>5, ZenonT(60) DEF FinisherInv, Finishing, Ended
    <3>3. \A q \in Orphans : pc'[q] # "closing" /\ pc'[q] # "orphanClose"
      BY <2>5, <3>1, <3>2, SMTT(30) DEF ClaimInv
    <3>4. orphanClaim' = o /\ claimKey' = o /\ remote' = {}
      BY <2>1, <2>5
    <3>5. \A q \in Orphans :
              orphanClaim' = q => pc'[q] \in {"claimedClose", "closing", "orphanRelease"}
      BY <3>1, <3>4, Zenon
    <3> QED
      BY <3>3, <3>4, <3>5, Zenon DEF ClaimInv
  <2>6. CASE readers # {} \/ Ended
    <3>1. Goto(o, "idle") /\ UNCHANGED <<orphanClaim, claimKey>>
      BY <1>12, <2>6, Zenon DEF CancelOrphan
    <3> QED
      BY <2>4, <3>1
  <2>7. CASE ~(readers # {} \/ Ended)
    <3>1. CASE RemoteReaders = {} /\ Goto(o, "orphanClose") /\ UNCHANGED <<orphanClaim, claimKey>>
      BY <2>4, <3>1, SMTT(30)
    <3>2. CASE RemoteReaders # {} /\ ClaimFails(o) /\ Goto(o, "orphanPoll") /\ UNCHANGED orphanClaim
      <4>1. claimKey' = claimKey \/ remote = {}
        BY <3>2 DEF ClaimFails
      <4> QED
        BY <2>4, <3>2, <4>1, SMTT(30)
    <3>3. CASE Goto(o, "orphanPoll") /\ UNCHANGED <<orphanClaim, claimKey>>
      BY <2>4, <3>3, SMTT(30)
    <3>4. CASE /\ RemoteReaders # {} /\ claimKey = NoProc /\ remote = {} /\ claimKey' = o
               /\ \/ Goto(o, "orphanGrace") /\ UNCHANGED orphanClaim
                  \/ Goto(o, "claimedClose") /\ orphanClaim' = o
      BY <2>4, <2>5, <2>7, <3>4, SMTT(30)
    <3> QED
      BY <1>12, <2>7, <3>1, <3>2, <3>3, <3>4, Zenon DEF CancelOrphan
  <2> QED
    BY <2>6, <2>7
<1> QED
  BY <1>3, <1>4, <1>5, <1>6, <1>7, <1>8, <1>9, <1>10, <1>11, <1>12, SMTT(30)

\* Every step keeps the claims sound.
LEMMA ClaimStep ==
    ASSUME IInv, [Next]_vars
    PROVE  ClaimInv'
<1>1. TypeOK /\ ControlInv /\ FinisherInv /\ ClaimInv
  BY DEF IInv
<1> QED
  BY <1>1, NextCases, ClaimOthers, ClaimQuietStep, ClaimOrphans

-----------------------------------------------------------------------------
(* The theorems.                                                              *)

\* The invariant holds of a stream that resolve has just opened.
LEMMA InitIInv == Init => IInv
<1> SUFFICES ASSUME Init PROVE IInv
  OBVIOUS
<1> USE RuntimeConstants, DistinctProcesses
<1>1. pc = [p \in Procs |-> IF p = "producer" THEN "opened" ELSE "idle"]
  BY Zenon DEF Init
<1>2. "producer" \in Procs /\ Stoppers \subseteq Procs /\ Triggers \subseteq Procs
      /\ Orphans \subseteq Procs /\ NoProc \notin Procs
  BY DEF Procs
<1>3. /\ pc["producer"] = "opened" /\ \A p \in Procs : p # "producer" => pc[p] = "idle"
      /\ pc \in [Procs -> Labels]
  BY <1>1, <1>2 DEF Labels
<1>4. TypeOK
  <2>1. JournalTypes
    <3>1. "open" \in Kinds
      BY DEF Kinds
    <3>2. log = <<"open">> /\ sealed = FALSE /\ faults = 0
      BY Zenon DEF Init
    <3>3. log \in Seq(Kinds) /\ log # <<>>
      BY <3>1, <3>2
    <3> QED
      BY <3>2, <3>3, Zenon DEF JournalTypes
  <2>2. TerminalTypes
    BY Zenon DEF Init, TerminalTypes
  <2>3. FeedTypes
    BY EmptySeq, Zenon DEF Init, FeedTypes
  <2>4. LeaseTypes
    BY Zenon DEF Init, LeaseTypes
  <2>5. PoolTypes
    BY Zenon DEF Init, PoolTypes
  <2>6. AttemptTypes
    BY Zenon DEF Init, AttemptTypes, Reasons
  <2>7. ProgressTypes
    BY Zenon DEF Init, ProgressTypes
  <2>8. ProducerTypes
    <3>1. <<>> \in Seq(Entries) /\ <<>> \in Seq(Chunks)
      BY EmptySeq
    <3> QED
      BY <3>1, Zenon DEF Init, ProducerTypes, Locals, Reasons
  <2>9. StopTypes
    BY Zenon DEF Init, StopTypes
  <2>10. OrphanTypes
    BY Zenon DEF Init, OrphanTypes
  <2>11. WriteTypes
    BY Zenon DEF Init, WriteTypes
  <2> QED
    BY <1>3, <2>1, <2>2, <2>3, <2>4, <2>5, <2>6, <2>7, <2>8, <2>9, <2>10, <2>11, SMTT(30) DEF TypeOK
<1>5. ControlInv
  BY <1>2, <1>3, Zenon DEF ControlInv, ProducerLabels, StopperLabels, TriggerLabels, OrphanLabels
<1>6. MutexInv
  <2>1. \A p \in Procs : pc[p] \notin Holding
    BY <1>3 DEF Holding
  <2> QED
    BY <1>2, <2>1, Zenon DEF MutexInv, Init
<1>7. FinisherInv
  <2>1. \A p \in Procs : pc[p] \notin Finishing
    BY <1>3 DEF Finishing
  <2>2. ~terminating /\ \A p \in Procs : pc[p] # "closing"
    BY <1>3, Zenon DEF Init
  <2> QED
    BY <2>1, <2>2, Zenon DEF FinisherInv
<1>8. LeaseInv
  <2>1. \A t \in Triggers : pc[t] # "refusalCancel"
    BY <1>2, <1>3
  <2>2. ~RefusalPending
    BY <2>1 DEF RefusalPending
  <2>3. prod.target = NoBackend /\ currentLease = Origin /\ currentBackend = Origin
        /\ held = [b \in Backends |-> IF b = Origin THEN 1 ELSE 0] /\ terminal = ""
    BY Zenon DEF Init
  <2>4. ASSUME NEW b \in Backends PROVE held[b] = LeasesOwed(b)
    <3>1. held[b] = IF b = Origin THEN 1 ELSE 0
      BY <2>3, <2>4, Zenon
    <3>2. LeasesOwed(b) = IF b = Origin THEN 1 ELSE 0
      <4>1. prod.target # b /\ currentLease = Origin
        BY <2>3, <2>4, Zenon
      <4> QED
        BY <2>2, <4>1 DEF LeasesOwed
    <3> QED
      BY <3>1, <3>2
  <2>5. LeasesAccounted
    BY <2>4 DEF LeasesAccounted
  <2> QED
    BY <1>3, <2>1, <2>3, <2>5, Zenon DEF LeaseInv
<1>9. ClaimInv
  BY <1>2, <1>3, Zenon DEF Init, ClaimInv
<1>10. DoneClosedOnce
  BY Zenon DEF Init, DoneClosedOnce
<1> QED
  BY <1>4, <1>5, <1>6, <1>7, <1>8, <1>9, <1>10 DEF IInv

\* Every step keeps the invariant.
LEMMA NextIInv == IInv /\ [Next]_vars => IInv'
  BY TypeStep, ControlStep, RaceStep, LeaseStep, ClaimStep DEF IInv

\* The invariant always holds, whatever the number of goroutines, readers and
\* backends and the number of journal faults.
THEOREM Invariance == Spec => []IInv
  BY InitIInv, NextIInv, PTL DEF Spec

\* Every variable keeps its type.
THEOREM TypeCorrect == Spec => []TypeOK
<1>1. IInv => TypeOK
  BY DEF IInv
<1> QED
  BY <1>1, Invariance, PTL

\* r.done is closed once, by whoever ends the stream: the close of a closed
\* channel that would take the proxy down cannot happen.
THEOREM DoneOnce == Spec => []DoneClosedOnce
<1>1. IInv => DoneClosedOnce
  BY DEF IInv
<1> QED
  BY <1>1, Invariance, PTL

\* The pool's lease counts are exactly what the runtime still has to release:
\* migration, refusal, stop and shutdown never leak or double-release one.
THEOREM LeasesExact == Spec => []LeasesAccounted
<1>1. IInv => LeasesAccounted
  BY Zenon DEF IInv, LeaseInv
<1> QED
  BY <1>1, Invariance, PTL

\* The orphan policy ends a stream nobody reads on this replica and, with a shared
\* journal, only under its own claim; while that stands nobody reads it anywhere.
THEOREM OrphansUnread == Spec => []OrphanHasNoReaders
<1>1. IInv => OrphanHasNoReaders
  BY Zenon DEF OrphanHasNoReaders, IInv, ClaimInv
<1> QED
  BY <1>1, Invariance, PTL

\* The outcome of a stream is never replaced by another.
THEOREM OutcomeFinal == Spec => TerminalFinal
<1>1. IInv /\ [Next]_vars => [terminal # "" => terminal' = terminal]_terminal
  <2>1. SUFFICES ASSUME IInv, [Next]_vars, terminal # "" PROVE terminal' = terminal
    BY Zenon
  <2>2. TypeOK /\ ControlInv /\ FinisherInv
    BY <2>1, Zenon DEF IInv
  <2>3. \A p \in Procs : ~CloseCommit(p)
    BY <2>1, <2>2, Zenon DEF CloseCommit, FinisherInv, Finishing
  <2>4. \A t \in Triggers : ~RefusalClose(t)
    BY <2>1, <2>2, Zenon DEF RefusalClose, FinisherInv, Finishing, Procs
  <2>5. ASSUME LeaseQuiet PROVE terminal' = terminal
    BY <2>5 DEF LeaseQuiet
  <2>6. ASSUME AcquireTarget \/ EvaluateTarget \/ ReserveTarget \/ Handover
               \/ \E t \in Triggers : RefusalCancel(t)
        PROVE  terminal' = terminal
    BY <2>6 DEF AcquireTarget, EvaluateTarget, ReserveTarget, Handover, RefusalCancel, terminalVars
  <2> QED
    BY <2>1, <2>2, <2>3, <2>4, <2>5, <2>6, NextCases, LeaseProducer, LeaseChunks, LeaseOthers, Zenon
<1> QED
  BY <1>1, Invariance, PTL DEF Spec, TerminalFinal

=============================================================================
