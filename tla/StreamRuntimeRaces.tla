------------------------- MODULE StreamRuntimeRaces --------------------------
(***************************************************************************)
(* Every goroutine stays at its own control points, at most one of them    *)
(* holds writeMu, and at most one is ending the stream.                    *)
(***************************************************************************)
EXTENDS StreamRuntimeTypes

-----------------------------------------------------------------------------
(* Control points.                                                            *)

\* The control points of the four kinds of goroutine, when one of them moves.
LEMMA GotoControl ==
    ASSUME TypeOK, ControlInv, UNCHANGED prod, NEW p \in Procs, NEW l \in Labels, Goto(p, l),
           /\ p = "producer" => l \in ProducerLabels
           /\ p = "producer" /\ l \in {"append", "appending"} => pc[p] \in {"append", "appending"}
           /\ p \in Stoppers => l \in StopperLabels
           /\ p \in Triggers => l \in TriggerLabels
           /\ p \in Orphans => l \in OrphanLabels
    PROVE  ControlInv'
<1>1. pc \in [Procs -> Labels] /\ pc' = [pc EXCEPT ![p] = l]
  BY DEF TypeOK, Goto
<1>2. \A q \in Procs : pc'[q] = IF q = p THEN l ELSE pc[q]
  BY <1>1
<1>3. "producer" \in Procs /\ Stoppers \subseteq Procs /\ Triggers \subseteq Procs
      /\ Orphans \subseteq Procs
  BY DEF Procs
<1>4. pc'["producer"] \in ProducerLabels
  BY <1>2, <1>3, Zenon DEF ControlInv
<1>5. \A s \in Stoppers : pc'[s] \in StopperLabels
  BY <1>2, <1>3, Zenon DEF ControlInv
<1>6. \A t \in Triggers : pc'[t] \in TriggerLabels
  BY <1>2, <1>3, Zenon DEF ControlInv
<1>7. \A o \in Orphans : pc'[o] \in OrphanLabels
  BY <1>2, <1>3, Zenon DEF ControlInv
<1>8. pc'["producer"] \in {"append", "appending"} => prod.then \in Thens /\ prod.todo # <<>>
  BY <1>2, <1>3, Zenon DEF ControlInv
<1> QED
  BY <1>4, <1>5, <1>6, <1>7, <1>8, Zenon DEF ControlInv

\* The producer's own steps.
LEMMA ProducerControl ==
    ASSUME TypeOK, ControlInv, ProducerStep
    PROVE  ControlInv'
<1> USE DistinctProcesses
<1>1. PICK l \in ProducerLabels \ Holding : Goto("producer", l)
  BY Zenon DEF ProducerStep, Write, ProducerLabels, Holding
<1>2. \A q \in Procs : pc'[q] = IF q = "producer" THEN l ELSE pc[q]
  BY <1>1 DEF TypeOK, Goto
<1>3. "producer" \in Procs /\ Stoppers \subseteq Procs /\ Triggers \subseteq Procs
      /\ Orphans \subseteq Procs
  BY DEF Procs
<1>4. pc'["producer"] = l
  BY <1>2, <1>3, Zenon
<1>5. l = "append" => prod'.then \in Thens /\ prod'.todo # <<>>
  <2>1. CASE \E k \in ProducerLabels \ (Holding \cup {"append"}) : Goto("producer", k)
    <3>1. PICK k \in ProducerLabels \ (Holding \cup {"append"}) : Goto("producer", k)
      BY <2>1
    <3>2. pc'["producer"] = k
      BY <1>3, <3>1 DEF TypeOK, Goto
    <3> QED
      BY <1>4, <3>1, <3>2, Zenon
  <2>2. ASSUME NEW locals \in Locals, NEW entries \in Seq(Entries) \ {<<>>}, NEW then \in Thens,
               Write(locals, entries, then)
        PROVE  prod'.then \in Thens /\ prod'.todo # <<>>
    BY <2>2, Zenon DEF Write, Locals
  <2> QED
    BY <2>1, <2>2 DEF ProducerStep
<1>6. \A s \in Stoppers : pc'[s] \in StopperLabels
  BY <1>2, <1>3, Zenon DEF ControlInv
<1>7. \A t \in Triggers : pc'[t] \in TriggerLabels
  BY <1>2, <1>3, Zenon DEF ControlInv
<1>8. \A o \in Orphans : pc'[o] \in OrphanLabels
  BY <1>2, <1>3, Zenon DEF ControlInv
<1>9. l # "appending"
  BY DEF Holding
<1> QED
  BY <1>4, <1>5, <1>6, <1>7, <1>8, <1>9 DEF ControlInv

\* Every step leaves every goroutine at a control point of its kind.
LEMMA ControlStep ==
    ASSUME IInv, [Next]_vars
    PROVE  ControlInv'
<1> USE DistinctProcesses
<1>0. TypeOK /\ ControlInv
  BY DEF IInv
<1> USE <1>0
<1>1. ASSUME UNCHANGED <<pc, prod>> PROVE ControlInv'
  BY <1>1, Zenon DEF ControlInv
<1>2. CASE UNCHANGED vars \/ MarkJournalDegraded \/ ForceCancel \/ ClaimExpires
  BY <1>1, <1>2 DEF vars, MarkJournalDegraded, ForceCancel, ClaimExpires, orphanUnchanged
<1>3. CASE \/ Register \/ BeginAttempt \/ DispatchAttempt \/ EndAttempt \/ PrepareMigration
           \/ AcquireTarget \/ NoTarget \/ EvaluateTarget \/ ReserveTarget \/ Handover
           \/ ReceiveDone \/ ReceiveInvalid \/ ReceiveFailure \/ ReadFails
  BY <1>3, ProducerSteps, ProducerControl
<1>4. CASE ReceiveChunk
  <2>1. CASE ProducerStep
    BY <2>1, ProducerControl
  <2>2. CASE prod' \in Locals /\ UNCHANGED <<pc, insideToolCall>>
    BY <1>4, <2>2, Zenon DEF ControlInv, ReceiveChunk
  <2> QED
    BY <1>4, <2>1, <2>2, ChunkStep
<1>5. CASE AppendBegin
  <2>1. AppendRefused \in {"finishError", "exit"}
    BY DEF AppendRefused
  <2>2. PICK l \in {"finishError", "exit", "appending"} : Goto("producer", l)
    BY <1>5, <2>1 DEF AppendBegin
  <2>3. pc["producer"] = "append" /\ UNCHANGED prod
    BY <1>5 DEF AppendBegin
  <2> QED
    BY <2>2, <2>3, GotoControl DEF Labels, ProducerLabels, Thens, Procs
<1>6. CASE AppendCommit
  <2>1. pc["producer"] = "appending" /\ prod.todo \in Seq(Entries) /\ prod.todo # <<>>
        /\ prod.then \in Thens
    BY <1>6, Zenon DEF AppendCommit, ControlInv, TypeOK, ProducerTypes, Locals
  <2>2. PICK n \in 1..Len(prod.todo) : AppendAdvance(n)
    BY <1>6, <2>1 DEF AppendCommit, Batches
  <2>3. CASE ProducerStep
    BY <2>3, ProducerControl
  <2>4. CASE prod'.todo # <<>> /\ prod'.then = prod.then /\ UNCHANGED pc
    BY <2>1, <2>4, Zenon DEF ControlInv
  <2> QED
    BY <2>1, <2>2, <2>3, <2>4, AdvanceStep
<1>7. ASSUME NEW p \in Procs, CloseBegin(p) PROVE ControlInv'
  <2>1. PICK l \in {"closing", CloseRefused(p)} : Goto(p, l)
    BY <1>7 DEF CloseBegin
  <2>2. UNCHANGED prod
    BY <1>7 DEF CloseBegin
  <2>3. p \notin Triggers
    BY <1>7 DEF CloseBegin, AtClose
  <2>4. /\ CloseRefused(p) \in Labels
        /\ p = "producer" => CloseRefused(p) \in {"finishError", "exit"}
        /\ p \in Stoppers => CloseRefused(p) = "stopConflict"
        /\ p \in Orphans => CloseRefused(p) \in {"orphanRelease", "idle"}
    BY DEF CloseRefused, Labels
  <2> QED
    BY <2>1, <2>2, <2>3, <2>4, GotoControl DEF Labels, ProducerLabels, StopperLabels,
       OrphanLabels, Thens
<1>8. ASSUME NEW p \in Procs, CloseCommit(p) PROVE ControlInv'
  <2>1. Goto(p, CloseReturned(p)) /\ UNCHANGED prod /\ pc[p] = "closing"
    BY <1>8, Zenon DEF CloseCommit
  <2>2. p \notin Triggers
    BY <2>1 DEF ControlInv, TriggerLabels
  <2>3. /\ CloseReturned(p) \in Labels
        /\ p = "producer" => CloseReturned(p) = "exit"
        /\ p \in Stoppers => CloseReturned(p) = "stopOk"
        /\ p \in Orphans => CloseReturned(p) \in {"orphanRelease", "idle"}
    BY DEF CloseReturned, Labels
  <2> QED
    BY <2>1, <2>2, <2>3, GotoControl DEF ProducerLabels, StopperLabels, OrphanLabels
<1>9. ASSUME NEW s \in Stoppers, StopEnter(s) \/ StopReturn(s) PROVE ControlInv'
  <2>1. PICK l \in {"done", "stopWait", "stopClose"} : Goto(s, l)
    BY <1>9 DEF StopEnter, StopReturn
  <2>2. UNCHANGED prod
    BY <1>9 DEF StopEnter, StopReturn, stopUnchanged
  <2> QED
    BY <2>1, <2>2, GotoControl, Zenon DEF Procs, Labels, StopperLabels
<1>10. ASSUME NEW t \in Triggers,
              \/ TriggerMark(t) \/ TriggerLookup(t) \/ TriggerProbe(t) \/ TriggerAttempt(t)
              \/ RefusalBegin(t) \/ RefusalLock(t) \/ RefusalWarn(t) \/ RefusalClose(t)
              \/ RefusalCancel(t) \/ RefusalRollback(t)
       PROVE  ControlInv'
  <2>1. PICK l \in TriggerLabels : Goto(t, l)
    BY <1>10, Zenon DEF TriggerMark, TriggerLookup, TriggerProbe, TriggerAttempt, RefusalBegin,
       RefusalLock, RefusalWarn, RefusalClose, RefusalCancel, RefusalRollback, TriggerLabels
  <2>2. UNCHANGED prod
    BY <1>10, Zenon DEF TriggerMark, TriggerLookup, TriggerProbe, TriggerAttempt, RefusalBegin,
       RefusalLock, RefusalWarn, RefusalClose, RefusalCancel, RefusalRollback, triggerUnchanged
  <2>3. TriggerLabels \subseteq Labels
    BY DEF TriggerLabels, Labels
  <2> QED
    BY <2>1, <2>2, <2>3, GotoControl, Zenon DEF Procs
<1>11. ASSUME NEW o \in Orphans,
              \/ OrphanTimerFires(o) \/ CancelOrphan(o) \/ ScheduleOrphanCheck(o)
              \/ ReleaseOrphanClaim(o)
       PROVE  ControlInv'
  <2>1. PICK l \in OrphanLabels : Goto(o, l)
    BY <1>11, Zenon DEF OrphanTimerFires, CancelOrphan, ScheduleOrphanCheck, ReleaseOrphanClaim,
       OrphanLabels
  <2>2. UNCHANGED prod
    BY <1>11, Zenon DEF OrphanTimerFires, CancelOrphan, ScheduleOrphanCheck, ReleaseOrphanClaim,
       orphanUnchanged
  <2>3. OrphanLabels \subseteq Labels
    BY DEF OrphanLabels, Labels
  <2> QED
    BY <2>1, <2>2, <2>3, GotoControl, Zenon DEF Procs
<1>12. ASSUME NEW r \in Readers, AttachReader(r) \/ DetachReader(r) PROVE ControlInv'
  <2>1. UNCHANGED prod
    BY <1>12, Zenon DEF AttachReader, DetachReader, orphanUnchanged
  <2>2. UNCHANGED pc \/ \E o \in Orphans : Goto(o, "orphanCheck")
    BY <1>12, Zenon DEF AttachReader, DetachReader
  <2> QED
    BY <1>1, <2>1, <2>2, GotoControl, Zenon DEF Procs, Labels, OrphanLabels
<1>13. ASSUME NEW q \in RemoteReaders, RemoteAttach(q) \/ RemoteDetach(q) PROVE ControlInv'
  BY <1>1, <1>13 DEF RemoteAttach, RemoteDetach, orphanUnchanged
<1>14. ASSUME NEW b \in Backends, QuarantineExpires(b) PROVE ControlInv'
  BY <1>1, <1>14 DEF QuarantineExpires
<1> QED
  BY <1>2, <1>3, <1>4, <1>5, <1>6, <1>7, <1>8, <1>9, <1>10, <1>11, <1>12, <1>13, <1>14,
     NextCases

-----------------------------------------------------------------------------
(* The races for writeMu and terminating.                                     *)

\* A quiet step changes neither who holds writeMu nor who ends the stream.
LEMMA QuietRace ==
    ASSUME TypeOK, MutexInv, FinisherInv, DoneClosedOnce, QuietStep
    PROVE  (MutexInv /\ FinisherInv /\ DoneClosedOnce)'
<1>1. UNCHANGED raceVars
  BY DEF QuietStep
<1>2. DoneClosedOnce'
  BY <1>1, Zenon DEF DoneClosedOnce, raceVars
<1>3. \A p \in Procs : /\ pc'[p] \in Holding <=> pc[p] \in Holding
                       /\ pc'[p] \in Finishing <=> pc[p] \in Finishing
  <2>1. CASE UNCHANGED pc
    BY <2>1
  <2>2. ASSUME NEW q \in Procs, NEW l \in Labels, pc[q] \notin Holding \cup Finishing,
               l \notin Holding \cup Finishing, Goto(q, l)
        PROVE  \A p \in Procs : /\ pc'[p] \in Holding <=> pc[p] \in Holding
                                /\ pc'[p] \in Finishing <=> pc[p] \in Finishing
    <3>1. \A p \in Procs : pc'[p] = IF p = q THEN l ELSE pc[p]
      BY <2>2 DEF TypeOK, Goto
    <3> QED
      BY <2>2, <3>1, Zenon
  <2> QED
    BY <2>1, <2>2 DEF QuietStep
<1>4. MutexInv'
  BY <1>1, <1>3, Zenon DEF MutexInv, raceVars
<1>5. \A p \in Procs : pc'[p] = "closing" => pc[p] = "closing"
  <2>1. "closing" \in Finishing
    BY DEF Finishing
  <2>2. CASE UNCHANGED pc
    BY <2>2
  <2>3. ASSUME NEW q \in Procs, NEW l \in Labels, l \notin Holding \cup Finishing, Goto(q, l)
        PROVE  \A p \in Procs : pc'[p] = "closing" => pc[p] = "closing"
    BY <2>1, <2>3 DEF TypeOK, Goto
  <2> QED
    BY <2>2, <2>3 DEF QuietStep
<1>6. FinisherInv'
  <2>1. terminal' = terminal /\ terminating' = terminating /\ closing' = closing
    BY <1>1 DEF raceVars
  <2> QED
    BY <1>3, <1>5, <2>1, Zenon DEF FinisherInv
<1> QED
  BY <1>2, <1>4, <1>6

\* Which steps are quiet.
LEMMA QuietProducer ==
    ASSUME TypeOK, ControlInv,
           \/ Register \/ BeginAttempt \/ DispatchAttempt \/ EndAttempt \/ PrepareMigration
           \/ AcquireTarget \/ NoTarget \/ EvaluateTarget \/ ReserveTarget \/ Handover
           \/ ReceiveDone \/ ReceiveInvalid \/ ReceiveFailure \/ ReadFails
    PROVE  QuietStep
<1>1. UNCHANGED raceVars
  BY Zenon DEF Register, BeginAttempt, DispatchAttempt, EndAttempt, PrepareMigration, AcquireTarget,
     NoTarget, EvaluateTarget, ReserveTarget, Handover, ReceiveDone, ReceiveInvalid,
     ReceiveFailure, ReadFails, raceVars, terminalVars, writeVars, streamUnchanged
<1>2. pc["producer"] \in {"opened", "attempt", "dispatch", "attemptError", "upstreamFailed",
                          "seamFailed", "prepare", "acquire", "evaluate", "reserve", "handover",
                          "stream"}
  BY Zenon DEF Register, BeginAttempt, DispatchAttempt, EndAttempt, PrepareMigration, AcquireTarget,
     NoTarget, EvaluateTarget, ReserveTarget, Handover, ReceiveDone, ReceiveInvalid,
     ReceiveFailure, ReadFails
<1>3. pc["producer"] \notin Holding \cup Finishing
  BY <1>2 DEF Holding, Finishing
<1>4. PICK l \in ProducerLabels \ Holding : Goto("producer", l)
  BY ProducerSteps, Zenon DEF ProducerStep, Write, ProducerLabels, Holding
<1>5. l \in Labels /\ l \notin Holding \cup Finishing /\ "producer" \in Procs
  BY DEF ProducerLabels, Thens, Labels, Holding, Finishing, Procs
<1> QED
  BY <1>1, <1>3, <1>4, <1>5, Zenon DEF QuietStep

\* Receiving a chunk is quiet.
LEMMA QuietChunk ==
    ASSUME TypeOK, ReceiveChunk
    PROVE  QuietStep
<1>1. UNCHANGED raceVars
  BY DEF ReceiveChunk, raceVars, terminalVars, writeVars, streamUnchanged
<1>2. pc["producer"] \notin Holding \cup Finishing
  BY DEF ReceiveChunk, Holding, Finishing
<1>3. UNCHANGED pc \/ \E l \in ProducerLabels \ Holding : Goto("producer", l)
  BY ChunkStep, Zenon DEF ProducerStep, Write, ProducerLabels, Holding
<1>4. \A l \in ProducerLabels \ Holding : l \in Labels /\ l \notin Holding \cup Finishing
  BY DEF ProducerLabels, Thens, Labels, Holding, Finishing
<1>5. "producer" \in Procs
  BY DEF Procs
<1> QED
  BY <1>1, <1>2, <1>3, <1>4, <1>5, Zenon DEF QuietStep

\* So are the steps of the other goroutines that take no lock.
LEMMA QuietOthers ==
    ASSUME TypeOK,
           \/ UNCHANGED vars \/ MarkJournalDegraded \/ ForceCancel \/ ClaimExpires
           \/ \E s \in Stoppers : StopEnter(s) \/ StopReturn(s)
           \/ \E t \in Triggers :
                 \/ TriggerMark(t) \/ TriggerLookup(t) \/ TriggerProbe(t) \/ TriggerAttempt(t)
                 \/ RefusalCancel(t)
           \/ \E o \in Orphans :
                 \/ OrphanTimerFires(o) \/ CancelOrphan(o) \/ ScheduleOrphanCheck(o)
                 \/ ReleaseOrphanClaim(o)
           \/ \E r \in Readers : AttachReader(r) \/ DetachReader(r)
           \/ \E q \in RemoteReaders : RemoteAttach(q) \/ RemoteDetach(q)
           \/ \E b \in Backends : QuarantineExpires(b)
    PROVE  QuietStep
<1>1. ASSUME \/ UNCHANGED vars \/ MarkJournalDegraded \/ ForceCancel \/ ClaimExpires
             \/ \E q \in RemoteReaders : RemoteAttach(q) \/ RemoteDetach(q)
             \/ \E b \in Backends : QuarantineExpires(b)
      PROVE  QuietStep
  BY <1>1, Zenon DEF QuietStep, vars, MarkJournalDegraded, ForceCancel, ClaimExpires, RemoteAttach,
     RemoteDetach, QuarantineExpires, raceVars, terminalVars, writeVars, orphanUnchanged
<1>2. ASSUME NEW s \in Stoppers, StopEnter(s) \/ StopReturn(s) PROVE QuietStep
  <2>1. UNCHANGED raceVars
    BY <1>2 DEF StopEnter, StopReturn, raceVars, terminalVars, writeVars, stopUnchanged
  <2>2. PICK l \in {"done", "stopWait", "stopClose"} : Goto(s, l)
    BY <1>2 DEF StopEnter, StopReturn
  <2>3. pc[s] \notin Holding \cup Finishing
    BY <1>2 DEF StopEnter, StopReturn, Holding, Finishing
  <2>4. l \in Labels /\ l \notin Holding \cup Finishing /\ s \in Procs
    BY DEF Labels, Holding, Finishing, Procs
  <2> QED
    BY <2>1, <2>2, <2>3, <2>4, Zenon DEF QuietStep
<1>3. ASSUME NEW t \in Triggers,
             \/ TriggerMark(t) \/ TriggerLookup(t) \/ TriggerProbe(t) \/ TriggerAttempt(t)
             \/ RefusalCancel(t)
      PROVE  QuietStep
  <2>1. UNCHANGED raceVars
    BY <1>3, Zenon DEF TriggerMark, TriggerLookup, TriggerProbe, TriggerAttempt, RefusalCancel,
       raceVars, terminalVars, writeVars
  <2>2. PICK l \in {"lookup", "done", "probe", "trigger", "withdrawn", "refuse"} : Goto(t, l)
    BY <1>3, Zenon DEF TriggerMark, TriggerLookup, TriggerProbe, TriggerAttempt, RefusalCancel
  <2>3. pc[t] \notin Holding \cup Finishing
    BY <1>3, Zenon DEF TriggerMark, TriggerLookup, TriggerProbe, TriggerAttempt, RefusalCancel,
       Holding, Finishing
  <2>4. l \in Labels /\ l \notin Holding \cup Finishing /\ t \in Procs
    BY DEF Labels, Holding, Finishing, Procs
  <2> QED
    BY <2>1, <2>2, <2>3, <2>4, Zenon DEF QuietStep
<1>4. ASSUME NEW o \in Orphans,
             \/ OrphanTimerFires(o) \/ CancelOrphan(o) \/ ScheduleOrphanCheck(o)
             \/ ReleaseOrphanClaim(o)
      PROVE  QuietStep
  <2>1. UNCHANGED raceVars
    BY <1>4, Zenon DEF OrphanTimerFires, CancelOrphan, ScheduleOrphanCheck, ReleaseOrphanClaim,
       raceVars, terminalVars, writeVars, orphanUnchanged
  <2>2. PICK l \in {"idle", "orphanCheck", "orphanClose", "claimedClose", "orphanPoll",
                    "orphanGrace"} : Goto(o, l)
    BY <1>4, Zenon DEF OrphanTimerFires, CancelOrphan, ScheduleOrphanCheck, ReleaseOrphanClaim
  <2>3. pc[o] \notin Holding \cup Finishing
    BY <1>4, Zenon DEF OrphanTimerFires, CancelOrphan, ScheduleOrphanCheck, ReleaseOrphanClaim,
       Holding, Finishing
  <2>4. l \in Labels /\ l \notin Holding \cup Finishing /\ o \in Procs
    BY DEF Labels, Holding, Finishing, Procs
  <2> QED
    BY <2>1, <2>2, <2>3, <2>4, Zenon DEF QuietStep
<1>5. ASSUME NEW r \in Readers, AttachReader(r) \/ DetachReader(r) PROVE QuietStep
  <2>1. UNCHANGED raceVars
    BY <1>5, Zenon DEF AttachReader, DetachReader, raceVars, terminalVars, writeVars,
       orphanUnchanged
  <2>2. UNCHANGED pc \/ \E o \in Orphans : pc[o] = "idle" /\ Goto(o, "orphanCheck")
    BY <1>5, Zenon DEF AttachReader, DetachReader
  <2>3. /\ "orphanCheck" \in Labels /\ "orphanCheck" \notin Holding \cup Finishing
        /\ "idle" \notin Holding \cup Finishing /\ Orphans \subseteq Procs
    BY DEF Labels, Holding, Finishing, Procs
  <2> QED
    BY <2>1, <2>2, <2>3, Zenon DEF QuietStep
<1> QED
  BY <1>1, <1>2, <1>3, <1>4, <1>5

\* writeMu is taken when free and given up by its holder.
LEMMA MutexMove ==
    ASSUME TypeOK, MutexInv, NEW p \in Procs, NEW l \in Labels, Goto(p, l),
           l \in Holding => pc[p] \in Holding \/ writeMu = NoProc,
           writeMu' = IF l \in Holding THEN p
                      ELSE IF pc[p] \in Holding THEN NoProc ELSE writeMu
    PROVE  MutexInv'
<1>1. \A q \in Procs : pc'[q] = IF q = p THEN l ELSE pc[q]
  BY DEF TypeOK, Goto
<1>2. NoProc \notin Procs
  BY DistinctProcesses DEF Procs
<1>3. ASSUME NEW q \in Procs PROVE writeMu' = q <=> pc'[q] \in Holding
  BY <1>1, <1>2 DEF MutexInv
<1> QED
  BY <1>3 DEF MutexInv

\* terminating is set by who ends the stream, when nobody is and nobody has, and
\* cleared by the same goroutine.
LEMMA FinisherMove ==
    ASSUME TypeOK, FinisherInv, NEW p \in Procs, NEW l \in Labels, Goto(p, l),
           l \in Finishing /\ pc[p] \notin Finishing => ~terminating /\ terminal = "",
           terminating' = IF l \in Finishing THEN TRUE
                          ELSE IF pc[p] \in Finishing THEN FALSE ELSE terminating,
           terminal' = terminal \/ (pc[p] \in Finishing /\ l \notin Finishing),
           closing' = closing \/ pc[p] \in Finishing \/ l \in Finishing,
           l = "closing" => closing' # ""
    PROVE  FinisherInv'
<1>1. \A q \in Procs : pc'[q] = IF q = p THEN l ELSE pc[q]
  BY Zenon DEF TypeOK, Goto
<1>2. ASSUME NEW q \in Procs, q # p, pc[q] \in Finishing
      PROVE  pc[p] \notin Finishing /\ l \notin Finishing
  BY <1>2, Zenon DEF FinisherInv
<1>3. \A q, r \in Procs : pc'[q] \in Finishing /\ pc'[r] \in Finishing => q = r
  <2>1. SUFFICES ASSUME NEW q \in Procs, NEW r \in Procs, pc'[q] \in Finishing,
                        pc'[r] \in Finishing
                 PROVE  q = r
    BY Zenon
  <2>2. CASE q # p /\ r # p
    BY <1>1, <2>1, <2>2, Zenon DEF FinisherInv
  <2>3. CASE q = p \/ r = p
    BY <1>1, <1>2, <2>1, <2>3, Zenon
  <2> QED
    BY <2>2, <2>3, Zenon
<1>4. \A q \in Procs : pc'[q] \in Finishing => terminating'
  BY <1>1, <1>2, Zenon DEF FinisherInv
<1>5. terminating' => \E q \in Procs : pc'[q] \in Finishing
  <2>1. CASE l \in Finishing
    BY <1>1, <2>1, Zenon
  <2>2. CASE l \notin Finishing /\ pc[p] \notin Finishing
    BY <1>1, <2>2, Zenon DEF FinisherInv
  <2>3. CASE l \notin Finishing /\ pc[p] \in Finishing
    BY <2>3, Zenon
  <2> QED
    BY <2>1, <2>2, <2>3, Zenon
<1>6. terminating' => terminal' = ""
  BY Zenon DEF FinisherInv
<1>7. \A q \in Procs : pc'[q] = "closing" => closing' # ""
  <2>1. "closing" \in Finishing
    BY Zenon DEF Finishing
  <2> QED
    BY <1>1, <1>2, <2>1, Zenon DEF FinisherInv
<1> QED
  BY <1>3, <1>4, <1>5, <1>6, <1>7, Zenon DEF FinisherInv

\* Every step keeps the locking discipline, one finisher at a time, and closes
\* r.done with the outcome.
LEMMA RaceStep ==
    ASSUME IInv, [Next]_vars
    PROVE  (MutexInv /\ FinisherInv /\ DoneClosedOnce)'
<1> USE DistinctProcesses
<1>0. TypeOK /\ ControlInv /\ MutexInv /\ FinisherInv /\ DoneClosedOnce
  BY DEF IInv
<1> USE <1>0
<1> DEFINE Goal == MutexInv' /\ FinisherInv' /\ DoneClosedOnce'
<1>1. ASSUME QuietStep PROVE Goal
  BY <1>1, QuietRace
<1>2. ASSUME UNCHANGED <<terminal, doneCloses>> PROVE DoneClosedOnce'
  BY <1>2, Zenon DEF DoneClosedOnce
<1>3. CASE AppendBegin
  <2>1. pc["producer"] = "append" /\ writeMu = NoProc
        /\ UNCHANGED <<terminal, terminating, doneCloses, closing>>
    BY <1>3 DEF AppendBegin, terminalVars
  <2>2. PICK l \in {"finishError", "exit", "appending"} :
            Goto("producer", l) /\ writeMu' = IF l = "appending" THEN "producer" ELSE writeMu
    BY <1>3 DEF AppendBegin, AppendRefused
  <2>3. MutexInv'
    BY <2>1, <2>2, MutexMove DEF Holding, Labels, Procs
  <2>4. FinisherInv'
    BY <2>1, <2>2, FinisherMove, ZenonT(60) DEF Finishing, Labels, Procs
  <2> QED
    BY <1>2, <2>1, <2>3, <2>4
<1>4. CASE AppendCommit
  <2>1. pc["producer"] = "appending" /\ UNCHANGED <<terminal, terminating, doneCloses, closing>>
        /\ prod.todo \in Seq(Entries) /\ prod.todo # <<>>
    BY <1>4, Zenon DEF AppendCommit, terminalVars, ControlInv, TypeOK, ProducerTypes, Locals
  <2>2. \E n \in 1..Len(prod.todo) : AppendAdvance(n)
    BY <1>4, <2>1 DEF AppendCommit, Batches
  <2>3. CASE ProducerStep /\ writeMu' = NoProc
    <3>1. PICK l \in ProducerLabels \ Holding : Goto("producer", l)
      BY <2>3, Zenon DEF ProducerStep, Write, ProducerLabels, Holding
    <3>2. l \in Labels /\ l \notin Holding /\ l \notin Finishing
      BY DEF ProducerLabels, Thens, Labels, Holding, Finishing
    <3>3. "producer" \in Procs /\ pc["producer"] \in Holding /\ pc["producer"] \notin Finishing
      BY <2>1 DEF Procs, Holding, Finishing
    <3>4. MutexInv'
      BY <2>3, <3>1, <3>2, <3>3, MutexMove
    <3>5. l # "closing"
      BY <3>2 DEF Finishing
    <3>6. FinisherInv'
      BY <2>1, <3>1, <3>2, <3>3, <3>5, FinisherMove, Zenon
    <3> QED
      BY <1>2, <2>1, <3>4, <3>6
  <2>4. CASE UNCHANGED <<writeMu, pc>>
    <3>1. QuietStep
      BY <2>1, <2>4 DEF QuietStep, raceVars
    <3> QED
      BY <1>1, <3>1
  <2> QED
    BY <2>1, <2>2, <2>3, <2>4, AdvanceStep
<1>5. ASSUME NEW p \in Procs, CloseBegin(p) PROVE Goal
  <2>1. pc[p] \in {"finishDone", "finishCompleted", "finishInvalid", "finishError", "stopClose",
                   "orphanClose", "claimedClose"}
    BY <1>5 DEF CloseBegin, AtClose
  <2>2. writeMu = NoProc /\ UNCHANGED <<terminal, doneCloses>>
    BY <1>5 DEF CloseBegin
  <2>3. CASE Goto(p, CloseRefused(p)) /\ UNCHANGED <<writeMu, terminating, closing>>
    <3>1. CloseRefused(p) \in Labels /\ CloseRefused(p) \notin Holding \cup Finishing
      BY DEF CloseRefused, Labels, Holding, Finishing
    <3>2. pc[p] \notin Holding \cup Finishing
      BY <2>1 DEF Holding, Finishing
    <3>3. QuietStep
      BY <2>2, <2>3, <3>1, <3>2, Zenon DEF QuietStep, raceVars
    <3> QED
      BY <1>1, <3>3
  <2>4. CASE /\ Goto(p, "closing") /\ ~Ended
             /\ writeMu' = p /\ terminating' = TRUE /\ closing' = CloseKind(p)
    <3>1. "closing" \in Labels /\ "closing" \in Holding /\ "closing" \in Finishing
      BY DEF Labels, Holding, Finishing
    <3>2. closing' # ""
      BY <2>4 DEF CloseKind
    <3>3. MutexInv'
      BY <2>2, <2>4, <3>1, MutexMove
    <3>4. ~terminating /\ terminal = ""
      BY <2>4, Zenon DEF Ended
    <3>5. FinisherInv'
      BY <2>2, <2>4, <3>1, <3>2, <3>4, FinisherMove, Zenon
    <3> QED
      BY <1>2, <2>2, <3>3, <3>5
  <2> QED
    BY <1>5, <2>3, <2>4, Zenon DEF CloseBegin
<1>6. ASSUME NEW p \in Procs, CloseCommit(p) PROVE Goal
  <2>1. /\ pc[p] = "closing" /\ terminal' = closing /\ terminating' = FALSE
        /\ doneCloses' = doneCloses + 1 /\ writeMu' = NoProc /\ Goto(p, CloseReturned(p))
    BY <1>6, Zenon DEF CloseCommit, FinishTerminal
  <2>2. CloseReturned(p) \in Labels /\ CloseReturned(p) \notin Holding
        /\ CloseReturned(p) \notin Finishing /\ CloseReturned(p) # "closing"
    BY DEF CloseReturned, Labels, Holding, Finishing
  <2>3. pc[p] \in Holding /\ pc[p] \in Finishing
    BY <2>1 DEF Holding, Finishing
  <2>4. MutexInv'
    BY <2>1, <2>2, <2>3, MutexMove
  <2>5. FinisherInv'
    BY <2>1, <2>2, <2>3, FinisherMove, Zenon
  <2>6. terminal = "" /\ closing # ""
    BY <2>1, <2>3, Zenon DEF FinisherInv
  <2>7. DoneClosedOnce'
    <3>1. doneCloses = 0
      BY <2>6, Zenon DEF DoneClosedOnce
    <3>2. doneCloses' = doneCloses + 1 /\ terminal' = closing
      BY <2>1, Zenon
    <3>3. doneCloses' = 1
      BY <3>1, <3>2
    <3>4. terminal' # ""
      BY <2>6, <3>2, Zenon
    <3> QED
      BY <3>3, <3>4, Zenon DEF DoneClosedOnce
  <2> QED
    BY <2>4, <2>5, <2>7
<1>7. ASSUME NEW t \in Triggers, RefusalBegin(t) PROVE Goal
  <2>1. pc[t] = "refuse" /\ UNCHANGED <<writeMu, terminal, doneCloses, closing>> /\ t \in Procs
    BY <1>7 DEF RefusalBegin, writeVars, Procs
  <2>2. CASE Goto(t, "trigger") /\ UNCHANGED terminating
    <3>1. QuietStep
      BY <2>1, <2>2 DEF QuietStep, raceVars, Labels, Holding, Finishing
    <3> QED
      BY <1>1, <3>1
  <2>3. CASE Goto(t, "refusalLock") /\ terminating' = TRUE /\ ~Ended
    <3>1. MutexInv'
      BY <2>1, <2>3, MutexMove DEF Labels, Holding
    <3>2. FinisherInv'
      BY <2>1, <2>3, FinisherMove, Zenon DEF Labels, Finishing, Ended
    <3> QED
      BY <1>2, <2>1, <3>1, <3>2
  <2> QED
    BY <1>7, <2>2, <2>3, Zenon DEF RefusalBegin
<1>8. ASSUME NEW t \in Triggers, RefusalLock(t) PROVE Goal
  <2>1. /\ pc[t] = "refusalLock" /\ writeMu = NoProc /\ writeMu' = t /\ Goto(t, "refusalWarn")
        /\ UNCHANGED <<terminal, terminating, doneCloses, closing>> /\ t \in Procs
    BY <1>8 DEF RefusalLock, terminalVars, Procs
  <2>2. terminating
    BY <2>1, Zenon DEF FinisherInv, Finishing
  <2>3. MutexInv'
    BY <2>1, MutexMove DEF Labels, Holding
  <2>4. FinisherInv'
    BY <2>1, <2>2, FinisherMove, Zenon DEF Labels, Finishing
  <2> QED
    BY <1>2, <2>1, <2>3, <2>4
<1>9. ASSUME NEW t \in Triggers, RefusalWarn(t) PROVE Goal
  <2>1. pc[t] = "refusalWarn" /\ UNCHANGED <<terminal, terminating, doneCloses, closing>>
        /\ t \in Procs
    BY <1>9 DEF RefusalWarn, terminalVars, Procs
  <2>2. writeMu = t /\ terminating
    BY <2>1, Zenon DEF MutexInv, Holding, FinisherInv, Finishing
  <2>3. PICK l \in {"refusalClose", "refusalRollback"} :
            Goto(t, l) /\ writeMu' = IF l = "refusalClose" THEN writeMu ELSE NoProc
    BY <1>9 DEF RefusalWarn
  <2>4. MutexInv'
    BY <2>1, <2>2, <2>3, MutexMove DEF Labels, Holding
  <2>5. pc[t] \in Finishing /\ l \in Finishing /\ l \in Labels /\ l # "closing"
    BY <2>1 DEF Labels, Finishing
  <2>6. FinisherInv'
    BY <2>1, <2>2, <2>3, <2>5, FinisherMove, Zenon
  <2> QED
    BY <1>2, <2>1, <2>4, <2>6
<1>10. ASSUME NEW t \in Triggers, RefusalClose(t) PROVE Goal
  <2>1. pc[t] = "refusalClose" /\ writeMu' = NoProc /\ UNCHANGED closing /\ t \in Procs
    BY <1>10 DEF RefusalClose, Procs
  <2>2. terminating /\ terminal = ""
    BY <2>1, Zenon DEF FinisherInv, Finishing
  <2>3. PICK l \in {"refusalCancel", "refusalRollback"} :
            /\ Goto(t, l)
            /\ IF l = "refusalCancel"
               THEN terminal' = "error" /\ terminating' = FALSE /\ doneCloses' = doneCloses + 1
               ELSE UNCHANGED <<terminal, terminating, doneCloses>>
    BY <1>10 DEF RefusalClose, FinishTerminal
  <2>4. MutexInv'
    BY <2>1, <2>3, MutexMove DEF Labels, Holding
  <2>5. FinisherInv'
    <3>1. CASE l = "refusalCancel"
      BY <2>1, <2>2, <2>3, <3>1, FinisherMove, Zenon DEF Labels, Finishing
    <3>2. CASE l = "refusalRollback"
      <4>1. terminating' = TRUE /\ UNCHANGED terminal /\ Goto(t, "refusalRollback")
        BY <2>2, <2>3, <3>2, <1>0, Zenon DEF TypeOK, TerminalTypes
      <4> QED
        BY <2>1, <2>2, <4>1, FinisherMove, Zenon DEF Labels, Finishing
    <3> QED
      BY <3>1, <3>2
  <2>6. DoneClosedOnce'
    <3>1. doneCloses = 0
      BY <2>2, Zenon DEF DoneClosedOnce
    <3>2. CASE l = "refusalCancel"
      <4>1. doneCloses' = 1 /\ terminal' # ""
        BY <2>3, <3>1, <3>2
      <4> QED
        BY <4>1, Zenon DEF DoneClosedOnce
    <3>3. CASE l = "refusalRollback"
      BY <2>3, <3>3, <1>2
    <3> QED
      BY <3>2, <3>3
  <2> QED
    BY <2>4, <2>5, <2>6
<1>11. ASSUME NEW t \in Triggers, RefusalRollback(t) PROVE Goal
  <2>1. /\ pc[t] = "refusalRollback" /\ terminating' = FALSE /\ Goto(t, "retrigger")
        /\ UNCHANGED <<writeMu, terminal, doneCloses, closing>> /\ t \in Procs
    BY <1>11 DEF RefusalRollback, writeVars, Procs
  <2>2. MutexInv'
    BY <2>1, MutexMove DEF Labels, Holding
  <2>3. FinisherInv'
    BY <2>1, FinisherMove, Zenon DEF Labels, Finishing
  <2> QED
    BY <1>2, <2>1, <2>2, <2>3
<1> QED
  BY <1>1, <1>3, <1>4, <1>5, <1>6, <1>7, <1>8, <1>9, <1>10, <1>11, NextCases, QuietProducer,
     QuietChunk, QuietOthers, Zenon

=============================================================================
