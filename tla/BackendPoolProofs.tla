------------------------- MODULE BackendPoolProofs --------------------------
(***************************************************************************)
(* The invariant of PoolRecordProofs is kept by acquisitions, probes and   *)
(* time, hence by every step; the properties of BackendPool follow.        *)
(***************************************************************************)
EXTENDS PoolDrainProofs, WellFoundedInduction

(***************************************************************************)
(* Acquisition.                                                            *)
(***************************************************************************)
LEMMA SelMove ==
  ASSUME Inv, NEW l \in Leases, NEW t \in SelType, t.pc # "idle" => lease[l] = NoCell,
         t.pc = "waiting" => t.patient, Watching(heap, records, t),
         sel' = [sel EXCEPT ![l] = t],
         UNCHANGED <<records, heap, lease, drain, probe, calls>>
  PROVE  Inv'
<1>1. sel \in [Leases -> SelType]
  BY DEF Inv, SelInv, Acquiring
<1>2. /\ sel' \in [Leases -> SelType] /\ sel'[l] = t
      /\ \A k \in Leases : k # l => sel'[k] = sel[k]
  BY <1>1
<1>3. SelInv(heap, records, lease, sel')
  BY <1>2 DEF Inv, SelInv, Acquiring
<1> QED BY <1>3 DEF Inv

LEMMA EligibleIs ==
  ASSUME NEW id, NEW X
  PROVE  Eligible(id, X) <=>
           id \notin X /\ Selectable(heap, records, id) /\ Left(heap, records, id) = 0
BY DEF Eligible, Selectable, Left, Known, CellOf

\* A set of naturals has a smallest one.
LEMMA Smallest ==
  ASSUME NEW T \in SUBSET Nat, T # {}
  PROVE  \E t \in T : \A u \in T : t <= u
<1>1. IsWellFoundedOn(OpToRel(<, Nat), Nat)
  BY NatLessThanWellFounded
<1>2. PICK t \in T : \A u \in T : ~(<<u, t>> \in OpToRel(<, Nat))
  BY <1>1, WFMin
<1>3. \A u \in T : ~(u < t)
  BY <1>2 DEF OpToRel
<1> QED BY <1>3

\* The timer is armed for the first quarantine to end.
LEMMA NextExpiry ==
  ASSUME Inv, NEW X \in SUBSET IDs
  PROVE  /\ NextQuarantineExpiry(X) \in 0..NoTimer
         /\ \A id \in IDs \ X :
              Selectable(heap, records, id) /\ Left(heap, records, id) # 0 =>
                NextQuarantineExpiry(X) <= Left(heap, records, id)
<1> DEFINE ids == {i \in IDs \ X : /\ Current(i)
                                   /\ heap[CellOf(i)].health = "healthy"
                                   /\ ~heap[CellOf(i)].draining
                                   /\ heap[CellOf(i)].quarantine > 0}
           left == {heap[CellOf(id)].quarantine : id \in ids}
           t == NextQuarantineExpiry(X)
<1>1. t = IF left = {} THEN NoTimer ELSE CHOOSE v \in left : \A u \in left : v <= u
  BY DEF NextQuarantineExpiry
<1>2. \A id \in IDs : Known(id) => heap[CellOf(id)].quarantine \in 0..Window
  BY KnownCell DEF RecordType
<1>3. Window \in Nat
  BY PoolAssumption
<1>4. left \in SUBSET (0..Window) /\ left \in SUBSET Nat
  BY <1>2, <1>3 DEF Current
<1>5. ASSUME NEW id \in IDs \ X, Selectable(heap, records, id), Left(heap, records, id) # 0
      PROVE  Left(heap, records, id) \in left
  <2>1. Known(id) /\ Current(id) /\ heap[CellOf(id)].health = "healthy" /\ ~heap[CellOf(id)].draining
    BY <1>5 DEF Selectable, Known, Current, CellOf
  <2>2. heap[CellOf(id)].quarantine > 0 /\ Left(heap, records, id) = heap[CellOf(id)].quarantine
    BY <1>2, <1>3, <1>5, <2>1 DEF Left, CellOf
  <2>3. id \in ids
    BY <2>1, <2>2
  <2> QED BY <2>2, <2>3
<1> HIDE DEF left, t
<1>6. CASE left = {}
  <2>1. t = NoTimer
    BY <1>1, <1>6
  <2>2. t \in 0..NoTimer
    BY <1>3, <2>1 DEF NoTimer
  <2> QED BY <1>5, <1>6, <2>2 DEF t
<1>7. CASE left # {}
  <2>1. \E v \in left : \A u \in left : v <= u
    BY <1>4, <1>7, Smallest
  <2>2. t \in left /\ \A u \in left : t <= u
    BY <1>1, <1>7, <2>1
  <2>3. t \in 0..NoTimer
    BY <1>3, <1>4, <2>2 DEF NoTimer
  <2> QED BY <1>5, <2>2, <2>3 DEF t
<1> QED BY <1>6, <1>7

LEMMA RequestStep ==
  ASSUME Inv, NEW l \in Leases, NEW X \in SUBSET IDs, NEW b \in BOOLEAN, Request(l, X, b)
  PROVE  Inv'
<1> DEFINE p == IF b THEN "timer" ELSE "choose"
           t == [Idle EXCEPT !.pc = p, !.patient = b, !.excluded = X]
<1>1. /\ lease[l] = NoCell /\ sel' = [sel EXCEPT ![l] = t]
      /\ UNCHANGED <<records, heap, lease, drain, probe, calls>>
  BY DEF Request
<1>2. t \in SelType /\ t.pc = p /\ t.patient = b
  <2>1. p \in {"timer", "choose"}
    OBVIOUS
  <2> HIDE DEF p
  <2> QED BY <2>1, StartTypes DEF SelType
<1> HIDE DEF t
<1>3. Watching(heap, records, t) /\ t.pc # "waiting"
  BY <1>2 DEF Watching
<1> QED BY <1>1, <1>2, <1>3, SelMove

\* What is known of an acquisition in progress.
LEMMA SelFacts ==
  ASSUME Inv, NEW l \in Leases, sel[l].pc # "idle"
  PROVE  /\ sel[l] \in SelType /\ lease[l] = NoCell
         /\ Watching(heap, records, sel[l])
BY DEF Inv, SelInv, Acquiring

LEMMA ArmTimerStep ==
  ASSUME Inv, NEW l \in Leases, ArmTimer(l)
  PROVE  Inv'
<1> DEFINE s == sel[l]
           n == NextQuarantineExpiry(s.excluded)
           t == [s EXCEPT !.pc = "choose", !.timer = n]
<1>1. /\ s.pc = "timer" /\ sel' = [sel EXCEPT ![l] = t]
      /\ UNCHANGED <<records, heap, lease, drain, probe, calls>>
  BY DEF ArmTimer
<1>2. s \in SelType /\ lease[l] = NoCell
  BY <1>1, SelFacts
<1>3. s.excluded \in SUBSET IDs
  BY <1>2 DEF SelType
<1>4. /\ n \in 0..NoTimer
      /\ \A id \in IDs \ s.excluded :
           Selectable(heap, records, id) /\ Left(heap, records, id) # 0 =>
             n <= Left(heap, records, id)
  BY <1>3, NextExpiry
<1> HIDE DEF n, s
<1>5. t \in SelType /\ t.pc = "choose" /\ t.timer = n /\ t.excluded = s.excluded
  BY <1>2, <1>4 DEF SelType
<1> HIDE DEF t
<1>6. Watching(heap, records, t)
  BY <1>4, <1>5 DEF Watching
<1> QED BY <1>1, <1>2, <1>5, <1>6, SelMove

\* No backend: a patient caller that nobody has woken really has none.
LEMMA NoEligibleMove ==
  ASSUME Inv, NEW l \in Leases, sel[l].pc # "idle", sel' = [sel EXCEPT ![l] = NoEligible(l)],
         sel[l].patient => sel[l].pc \in {"choose", "confirm"},
         sel[l].patient /\ ~sel[l].woken => Candidates(sel[l].excluded) = {},
         UNCHANGED <<records, heap, lease, drain, probe, calls>>
  PROVE  Inv'
<1> DEFINE s == sel[l]
           t == NoEligible(l)
<1>1. s \in SelType /\ lease[l] = NoCell /\ Watching(heap, records, s)
  BY SelFacts
<1>2. CASE s.patient
  <2> DEFINE u == [s EXCEPT !.pc = "waiting", !.chosen = {}, !.tries = 0]
  <2>1. t = u
    BY <1>2 DEF NoEligible
  <2>2. /\ u \in SelType /\ u.pc = "waiting" /\ u.patient = s.patient /\ u.woken = s.woken
        /\ u.timer = s.timer /\ u.excluded = s.excluded
    BY <1>1 DEF SelType
  <2>3. s.excluded \in SUBSET IDs
    BY <1>1 DEF SelType
  <2> HIDE DEF u
  <2>4. Watching(heap, records, u)
    <3> SUFFICES ASSUME u.patient, ~u.woken, u.timer # 0
                 PROVE  \A id \in IDs \ u.excluded :
                          /\ Selectable(heap, records, id) /\ Left(heap, records, id) # 0 =>
                               u.timer <= Left(heap, records, id)
                          /\ ~(Selectable(heap, records, id) /\ Left(heap, records, id) = 0)
      BY <2>2 DEF Watching
    <3>1. Candidates(s.excluded) = {}
      BY <1>2, <2>2
    <3>2. \A id \in IDs : ~Eligible(id, s.excluded)
      BY <3>1 DEF Candidates
    <3>3. \A id \in IDs \ s.excluded :
            ~(Selectable(heap, records, id) /\ Left(heap, records, id) = 0)
      BY <3>2, EligibleIs
    <3>4. \A id \in IDs \ s.excluded :
            Selectable(heap, records, id) /\ Left(heap, records, id) # 0 =>
              s.timer <= Left(heap, records, id)
      BY <1>1, <1>2, <2>2 DEF Watching
    <3> QED BY <2>2, <3>3, <3>4
  <2> QED BY <1>1, <1>2, <2>1, <2>2, <2>4, SelMove
<1>3. CASE ~s.patient
  <2>1. t = Idle
    BY <1>3 DEF NoEligible
  <2>2. Idle \in SelType /\ Idle.pc = "idle" /\ ~Idle.patient
    BY StartTypes DEF Idle
  <2>3. Watching(heap, records, Idle)
    BY <2>2 DEF Watching
  <2> QED BY <2>1, <2>2, <2>3, SelMove
<1> QED BY <1>2, <1>3

LEMMA ChooseCandidateStep ==
  ASSUME Inv, NEW l \in Leases, ChooseCandidate(l)
  PROVE  Inv'
<1> DEFINE s == sel[l]
<1>1. s.pc = "choose" /\ UNCHANGED <<records, heap, lease, drain, probe, calls>>
  BY DEF ChooseCandidate
<1>2. s \in SelType /\ lease[l] = NoCell /\ Watching(heap, records, s)
  BY <1>1, SelFacts
<1>3. CASE Candidates(s.excluded) = {}
  <2>1. sel' = [sel EXCEPT ![l] = NoEligible(l)]
    BY <1>3 DEF ChooseCandidate
  <2> QED BY <1>1, <1>3, <2>1, NoEligibleMove
<1>4. CASE Candidates(s.excluded) # {}
  <2>1. PICK id \in Candidates(s.excluded) :
          sel' = [sel EXCEPT ![l] = [s EXCEPT !.pc = "confirm", !.chosen = {id}]]
    BY <1>4 DEF ChooseCandidate
  <2>2. id \in IDs /\ Eligible(id, s.excluded)
    BY DEF Candidates
  <2> DEFINE t == [s EXCEPT !.pc = "confirm", !.chosen = {id}]
  <2>3. /\ t \in SelType /\ t.pc = "confirm" /\ t.chosen = {id} /\ t.patient = s.patient
        /\ t.woken = s.woken /\ t.timer = s.timer /\ t.excluded = s.excluded
    BY <1>2, <2>2 DEF SelType
  <2>4. sel' = [sel EXCEPT ![l] = t]
    BY <2>1
  <2> HIDE DEF t
  <2>5. id \notin s.excluded /\ Selectable(heap, records, id) /\ Left(heap, records, id) = 0
    BY <2>2, EligibleIs
  <2>6. Watching(heap, records, t)
    BY <1>1, <1>2, <2>3, <2>5 DEF Watching
  <2> QED BY <1>1, <1>2, <2>3, <2>4, <2>6, SelMove
<1> QED BY <1>3, <1>4

LEMMA ConfirmCandidateStep ==
  ASSUME Inv, NEW l \in Leases, ConfirmCandidate(l)
  PROVE  Inv'
<1> DEFINE s == sel[l]
<1>1. s.pc = "confirm"
  BY DEF ConfirmCandidate
<1>2. s \in SelType /\ lease[l] = NoCell /\ Watching(heap, records, s)
  BY <1>1, SelFacts
<1>3. PICK id \in s.chosen :
        IF Eligible(id, s.excluded)
        THEN AcquireLocked(l, id)
        ELSE /\ sel' = [sel EXCEPT ![l] =
                          IF s.tries + 1 = MaxAttempts THEN NoEligible(l)
                          ELSE [s EXCEPT !.pc = "choose", !.chosen = {}, !.tries = s.tries + 1]]
             /\ UNCHANGED <<records, heap, lease, drain, probe, calls>>
  BY DEF ConfirmCandidate
<1>4. id \in IDs
  BY <1>2 DEF SelType
<1>5. CASE Eligible(id, s.excluded)
  BY <1>2, <1>3, <1>4, <1>5, AcquireStep
<1>6. CASE ~Eligible(id, s.excluded)
  <2>1. UNCHANGED <<records, heap, lease, drain, probe, calls>>
    BY <1>3, <1>6
  <2>2. ~s.patient \/ s.woken
    <3>1. ~(id \notin s.excluded /\ Selectable(heap, records, id) /\ Left(heap, records, id) = 0)
      BY <1>6, EligibleIs
    <3> QED BY <1>1, <1>2, <3>1 DEF Watching
  <2>3. CASE s.tries + 1 = MaxAttempts
    <3>1. sel' = [sel EXCEPT ![l] = NoEligible(l)]
      BY <1>3, <1>6, <2>3
    <3> QED BY <1>1, <2>1, <2>2, <3>1, NoEligibleMove
  <2>4. CASE s.tries + 1 # MaxAttempts
    <3> DEFINE n == s.tries + 1
               t == [s EXCEPT !.pc = "choose", !.chosen = {}, !.tries = n]
    <3>1. sel' = [sel EXCEPT ![l] = t]
      BY <1>3, <1>6, <2>4
    <3>2. n \in Nat
      BY <1>2 DEF SelType
    <3> HIDE DEF n
    <3>3. t \in SelType /\ t.pc = "choose" /\ t.patient = s.patient /\ t.woken = s.woken
      BY <1>2, <3>2 DEF SelType
    <3> HIDE DEF t
    <3>4. Watching(heap, records, t)
      BY <2>2, <3>3 DEF Watching
    <3> QED BY <1>2, <2>1, <3>1, <3>3, <3>4, SelMove
  <2> QED BY <2>3, <2>4
<1> QED BY <1>5, <1>6

LEMMA EndWaitStep ==
  ASSUME Inv, NEW l \in Leases, SelectionWake(l) \/ StopWaiting(l)
  PROVE  Inv'
<1> DEFINE s == sel[l]
<1>1. s.pc = "waiting" /\ UNCHANGED <<records, heap, lease, drain, probe, calls>>
  BY DEF SelectionWake, StopWaiting
<1>2. s \in SelType /\ lease[l] = NoCell
  BY <1>1, SelFacts
<1>3. /\ NoTimer \in 0..NoTimer /\ Idle \in SelType /\ Idle.pc = "idle" /\ ~Idle.patient
      /\ s.excluded \in SUBSET IDs
  BY <1>2, StartTypes, PoolAssumption DEF Idle, NoTimer, SelType
<1>4. CASE SelectionWake(l)
  <2> DEFINE t == [s EXCEPT !.pc = "timer", !.woken = FALSE, !.timer = NoTimer]
  <2>1. sel' = [sel EXCEPT ![l] = t]
    BY <1>4 DEF SelectionWake
  <2>2. t \in SelType /\ t.pc = "timer"
    BY <1>2, <1>3 DEF SelType
  <2> HIDE DEF t
  <2>3. Watching(heap, records, t)
    BY <2>2 DEF Watching
  <2> QED BY <1>1, <1>2, <2>1, <2>2, <2>3, SelMove
<1>5. CASE sel' = [sel EXCEPT ![l] = [Idle EXCEPT !.pc = "choose", !.excluded = s.excluded]]
  <2> DEFINE t == [Idle EXCEPT !.pc = "choose", !.excluded = s.excluded]
  <2>1. t \in SelType /\ t.pc = "choose" /\ t.patient = FALSE
    BY <1>3 DEF SelType, Idle
  <2>2. sel' = [sel EXCEPT ![l] = t]
    BY <1>5
  <2> HIDE DEF t
  <2>3. Watching(heap, records, t)
    BY <2>1 DEF Watching
  <2> QED BY <1>1, <1>2, <2>1, <2>2, <2>3, SelMove
<1>6. CASE sel' = [sel EXCEPT ![l] = Idle]
  <2>1. Watching(heap, records, Idle)
    BY <1>3 DEF Watching
  <2> QED BY <1>1, <1>3, <1>6, <2>1, SelMove
<1> QED BY <1>4, <1>5, <1>6 DEF StopWaiting

-----------------------------------------------------------------------------
(***************************************************************************)
(* Probes and time.                                                        *)
(***************************************************************************)
LEMMA ForgetProbe ==
  ASSUME NEW h, NEW m, NEW ls, NEW dr, NEW pr, PoolInv(h, m, ls, dr, pr), NEW id \in IDs
  PROVE  PoolInv(h, m, ls, dr, [pr EXCEPT ![id] = NoProbe])
<1>1. NoProbe \in ProbeType /\ NoProbe.st = "none"
  BY StartTypes DEF NoProbe
<1>2. pr \in [IDs -> ProbeType]
  BY DEF PoolInv, TypeInv
<1> DEFINE pr2 == [pr EXCEPT ![id] = NoProbe]
<1>3. /\ pr2 \in [IDs -> ProbeType] /\ pr2[id] = NoProbe
      /\ \A i \in IDs : i # id => pr2[i] = pr[i]
  BY <1>1, <1>2
<1> HIDE DEF pr2
<1>4. Probes(h, m, pr2)
  BY <1>1, <1>3 DEF PoolInv, Probes
<1>5. PoolInv(h, m, ls, dr, pr2)
  BY <1>3, <1>4 DEF PoolInv, TypeInv
<1> QED BY <1>5 DEF pr2

LEMMA ProbeTargetStep ==
  ASSUME Inv, NEW id \in IDs, ProbeTarget(id)
  PROVE  Inv'
<1> DEFINE r == heap[CellOf(id)]
           p == [st |-> "flying", addr |-> r.addr, revision |-> r.revision, dropped |-> FALSE]
<1>1. /\ Known(id) /\ probe' = [probe EXCEPT ![id] = p]
      /\ UNCHANGED <<records, heap, lease, sel, drain>>
  BY DEF ProbeTarget, Current
<1>2. r \in RecordType /\ probe \in [IDs -> ProbeType]
  BY <1>1, KnownCell DEF Inv, PoolInv, TypeInv
<1>3. r.revision \in Nat /\ r.addr \in Addrs
  BY <1>2 DEF RecordType
<1>4. p \in ProbeType /\ Fresh(r, p)
  <2>1. p \in ProbeType /\ p.revision = r.revision /\ p.addr = r.addr
    BY <1>3 DEF ProbeType
  <2> HIDE DEF p, r
  <2> QED BY <1>3, <2>1 DEF Fresh
<1> HIDE DEF p
<1>5. /\ probe' \in [IDs -> ProbeType] /\ probe'[id] = p
      /\ \A i \in IDs : i # id => probe'[i] = probe[i]
  BY <1>1, <1>2, <1>4
<1>6. Probes(heap, records, probe')
  <2> SUFFICES ASSUME NEW i \in IDs, probe'[i].st = "flying", ~probe'[i].dropped
               PROVE  records[i] # 0 /\ Fresh(heap[<<i, records[i]>>], probe'[i])
    BY DEF Probes
  <2>1. CASE i = id
    BY <1>1, <1>4, <1>5, <2>1 DEF Known, CellOf
  <2>2. CASE i # id
    BY <1>5, <2>2 DEF Inv, PoolInv, Probes
  <2> QED BY <2>1, <2>2
<1> QED BY <1>1, <1>5, <1>6 DEF Inv, PoolInv, TypeInv

LEMMA ProbeEndStep ==
  ASSUME Inv, NEW id \in IDs, NEW v \in Healths, ProbeOne(id, v) \/ ProbeCanceled(id)
  PROVE  Inv'
<1>1. records' = records /\ lease' = lease /\ probe' = [probe EXCEPT ![id] = NoProbe]
  BY DEF ProbeOne, ProbeCanceled
<1>2. CASE UNCHANGED <<heap, drain, sel>>
  <2>1. PoolInv(heap, records, lease, drain, probe')
    BY <1>1, ForgetProbe DEF Inv
  <2> QED BY <1>1, <1>2, <2>1 DEF Inv
<1>3. CASE ProbeOne(id, v) /\ Applies(id)
  <2> DEFINE c == CellOf(id)
             r == [heap[c] EXCEPT !.health = v]
  <2>1. /\ Known(id) /\ heap' = [heap EXCEPT ![c] = r] /\ drain' = NotifyDrains({c})
        /\ sel' = IF heap[c].health # v THEN NotifySelection ELSE sel
    BY <1>3 DEF ProbeOne, Applies, Current
  <2>2. c \in Cells /\ heap[c] \in RecordType /\ heap \in [Cells -> RecordType]
    BY <2>1, KnownCell
  <2>3. heap[c].retirementDrain => heap[c].retired
    BY <2>2 DEF Inv, PoolInv, Retirements
  <2>4. r \in RecordType /\ Benign(heap[c], r)
    BY <2>2, <2>3, HealthBenign
  <2>5. heap[c].health = v => r = heap[c]
    BY <2>2 DEF RecordType
  <2> HIDE DEF r
  <2>6. Updates(heap', records, {c})
    BY <2>1, <2>4, OneUpdate
  <2>7. PoolInv(heap', records, lease, drain', probe)
    BY <2>1, <2>6, UpdateInv DEF Inv
  <2>8. PoolInv(heap', records', lease', drain', probe')
    BY <1>1, <2>7, ForgetProbe
  <2>9. SelStep(heap', records)
    <3>1. CASE heap[c].health # v
      BY <2>1, <3>1 DEF SelStep
    <3>2. CASE heap[c].health = v
      <4>1. heap' = heap
        BY <2>1, <2>2, <2>5, <3>2
      <4> QED BY <2>1, <3>2, <4>1 DEF SelStep
    <3> QED BY <3>1, <3>2
  <2>10. SelInv(heap', records', lease', sel')
    BY <1>1, <2>9, SelStepInv
  <2> QED BY <2>8, <2>10 DEF Inv
<1> QED BY <1>2, <1>3 DEF ProbeOne, ProbeCanceled

LEMMA TickStep ==
  ASSUME Inv, Tick
  PROVE  Inv'
<1> DEFINE less(n) == IF n = 0 THEN 0 ELSE n - 1
           run(n) == IF n \in 1..Window THEN n - 1 ELSE n
<1>1. /\ heap' = [c \in Cells |-> [heap[c] EXCEPT !.quarantine = less(heap[c].quarantine)]]
      /\ sel' = [l \in Leases |-> [sel[l] EXCEPT !.timer = run(sel[l].timer)]]
      /\ UNCHANGED <<records, lease, drain, probe, calls>>
  BY DEF Tick
<1>2. heap \in [Cells -> RecordType] /\ drain \in [Requests -> DrainType]
      /\ sel \in [Leases -> SelType] /\ records \in [IDs -> 0..2]
  BY DEF Inv, PoolInv, TypeInv, SelInv, Acquiring
<1>3. Window \in Nat
  BY PoolAssumption
<1>4. ASSUME NEW c \in Cells
      PROVE  /\ heap'[c] \in RecordType /\ heap'[c].leases = heap[c].leases
             /\ heap'[c].waiters = heap[c].waiters /\ heap'[c].draining = heap[c].draining
             /\ heap'[c].retirementDrain = heap[c].retirementDrain
             /\ heap'[c].retired = heap[c].retired /\ heap'[c].health = heap[c].health
             /\ heap'[c].revision = heap[c].revision /\ heap'[c].addr = heap[c].addr
             /\ heap'[c].quarantine = less(heap[c].quarantine)
             /\ heap[c].quarantine \in 0..Window
             /\ heap[c].quarantine = 0 => heap'[c] = heap[c]
  <2> DEFINE r == heap[c]
             n == less(r.quarantine)
  <2>1. r \in RecordType /\ heap'[c] = [r EXCEPT !.quarantine = n]
    BY <1>1, <1>2
  <2>2. r.quarantine \in 0..Window
    BY <2>1 DEF RecordType
  <2>3. n \in 0..Window /\ (r.quarantine = 0 => n = r.quarantine)
    BY <1>3, <2>2
  <2> HIDE DEF n, r
  <2>4. /\ heap'[c] \in RecordType /\ heap'[c].leases = r.leases
        /\ heap'[c].waiters = r.waiters /\ heap'[c].draining = r.draining
        /\ heap'[c].retirementDrain = r.retirementDrain
        /\ heap'[c].retired = r.retired /\ heap'[c].health = r.health
        /\ heap'[c].revision = r.revision /\ heap'[c].addr = r.addr
        /\ heap'[c].quarantine = n
    BY <2>1, <2>3 DEF RecordType
  <2>5. n = r.quarantine => heap'[c] = r
    BY <2>1 DEF RecordType
  <2> QED BY <2>2, <2>3, <2>4, <2>5 DEF n, r
<1>5. heap' \in [Cells -> RecordType]
  BY <1>1, <1>4
<1>6. Updates(heap', records, {})
  <2>1. \A c \in Cells : Benign(heap[c], heap'[c])
    <3> TAKE c \in Cells
    <3>1. heap[c].retirementDrain => heap[c].retired
      BY DEF Inv, PoolInv, Retirements
    <3>2. heap[c].revision <= heap'[c].revision
      BY <1>2, <1>4 DEF RecordType
    <3> QED BY <1>4, <3>1, <3>2 DEF Benign
  <2>2. \A c \in Cells : ~IsMapped(records, c) => heap'[c] = heap[c]
    <3> SUFFICES ASSUME NEW c \in Cells, ~IsMapped(records, c) PROVE heap[c].quarantine = 0
      BY <1>4
    <3>1. heap[c] = Blank
      BY DEF Inv, PoolInv, Accounted
    <3> QED BY <3>1 DEF Blank, NewRecord
  <2> QED BY <1>2, <1>4, <1>5, <2>1, <2>2 DEF Updates
<1>7. PoolInv(heap', records', lease', drain', probe')
  <2>1. PoolInv(heap', records, lease, NotifyDrains({}), probe)
    BY <1>6, UpdateInv DEF Inv
  <2> QED BY <1>1, <1>2, <2>1, NotifyNobody
<1>8. ASSUME NEW l \in Leases
      PROVE  /\ sel'[l] \in SelType /\ sel'[l].pc = sel[l].pc
             /\ sel'[l].patient = sel[l].patient /\ sel'[l].woken = sel[l].woken
             /\ sel'[l].excluded = sel[l].excluded /\ sel'[l].chosen = sel[l].chosen
             /\ sel'[l].timer = run(sel[l].timer) /\ sel[l].timer \in 0..NoTimer
  <2> DEFINE s == sel[l]
             n == run(s.timer)
  <2>1. s \in SelType /\ sel'[l] = [s EXCEPT !.timer = n]
    BY <1>1, <1>2
  <2>2. s.timer \in 0..NoTimer
    BY <2>1 DEF SelType
  <2>3. n \in 0..NoTimer
    BY <1>3, <2>2 DEF NoTimer
  <2> HIDE DEF n, s
  <2>4. /\ sel'[l] \in SelType /\ sel'[l].pc = s.pc
        /\ sel'[l].patient = s.patient /\ sel'[l].woken = s.woken
        /\ sel'[l].excluded = s.excluded /\ sel'[l].chosen = s.chosen
        /\ sel'[l].timer = n
    BY <2>1, <2>3 DEF SelType
  <2> QED BY <2>2, <2>4 DEF n, s
<1>9. Acquiring(lease', sel')
  <2>1. sel' \in [Leases -> SelType]
    BY <1>1, <1>8
  <2>2. \A l \in Leases : sel'[l].pc = sel[l].pc /\ sel'[l].patient = sel[l].patient
    BY <1>8
  <2>3. lease' = lease /\ Acquiring(lease, sel)
    BY <1>1 DEF Inv, SelInv
  <2> QED BY <2>1, <2>2, <2>3 DEF Acquiring
<1>10. ASSUME NEW id \in IDs
       PROVE  /\ Selectable(heap', records, id) <=> Selectable(heap, records, id)
              /\ Selectable(heap, records, id) =>
                   /\ Left(heap, records, id) \in 0..Window
                   /\ Left(heap', records, id) = less(Left(heap, records, id))
  <2>1. CASE records[id] = 0
    BY <2>1 DEF Selectable
  <2>2. CASE records[id] # 0
    <3>1. <<id, records[id]>> \in Cells
      BY <2>2, KnownCell DEF Known, CellOf
    <3> HIDE DEF less
    <3> QED BY <1>4, <3>1 DEF Selectable, Left
  <2> QED BY <2>1, <2>2
<1>11. ASSUME NEW l \in Leases
       PROVE  Watching(heap', records, sel'[l])
  <2> DEFINE s == sel[l]
             t == sel'[l]
  <2> SUFFICES ASSUME t.patient, ~t.woken PROVE Watching(heap', records, t)
    BY DEF Watching
  <2>1. Watching(heap, records, s) /\ s.patient /\ ~s.woken /\ s.chosen \subseteq IDs
    BY <1>2, <1>8 DEF Inv, SelInv, SelType
  <2>2. t.timer # 0 => s.timer # 0 /\ (s.timer = NoTimer \/ (s.timer \in 2..Window /\ t.timer = s.timer - 1))
    <3>1. s.timer \in 0..NoTimer /\ t.timer = run(s.timer)
      BY <1>8
    <3> HIDE DEF s, t
    <3>2. CASE s.timer = 0
      BY <1>3, <3>1, <3>2
    <3>3. CASE s.timer \in 1..Window
      BY <1>3, <3>1, <3>3
    <3>4. CASE s.timer = NoTimer
      BY <1>3, <3>4 DEF NoTimer
    <3> QED BY <1>3, <3>1, <3>2, <3>3, <3>4 DEF NoTimer
  <2>3. ASSUME s.pc \in {"choose", "confirm", "waiting"}, t.timer # 0,
               NEW id \in IDs \ s.excluded, Selectable(heap, records, id),
               Left(heap, records, id) # 0
        PROVE  Left(heap', records, id) # 0 /\ t.timer <= Left(heap', records, id)
    <3>1. s.timer <= Left(heap, records, id)
      BY <2>1, <2>2, <2>3 DEF Watching
    <3>2. Left(heap, records, id) \in 0..Window /\ Left(heap', records, id) = Left(heap, records, id) - 1
      BY <1>10, <2>3
    <3> QED BY <1>3, <2>2, <2>3, <3>1, <3>2 DEF NoTimer
  <2>4. /\ t.pc = s.pc /\ t.excluded = s.excluded /\ t.chosen = s.chosen
    BY <1>8
  <2>5. \A id \in IDs : Selectable(heap, records, id) /\ Left(heap, records, id) = 0 =>
                          Left(heap', records, id) = 0
    BY <1>10
  <2>6. \A id \in IDs : Selectable(heap', records, id) <=> Selectable(heap, records, id)
    BY <1>10
  <2> HIDE DEF s, t
  <2>7. t.pc \in {"choose", "confirm", "waiting"} /\ t.timer # 0 =>
         \A id \in IDs \ t.excluded :
           Selectable(heap', records, id) /\ Left(heap', records, id) # 0 =>
             t.timer <= Left(heap', records, id)
    BY <2>3, <2>4, <2>5, <2>6
  <2>8. t.pc = "confirm" =>
         \A id \in t.chosen :
           id \notin t.excluded /\ Selectable(heap', records, id) /\ Left(heap', records, id) = 0
    BY <2>1, <2>4, <2>5, <2>6 DEF Watching
  <2>9. t.pc = "waiting" /\ t.timer # 0 =>
         \A id \in IDs \ t.excluded : ~(Selectable(heap', records, id) /\ Left(heap', records, id) = 0)
    <3> SUFFICES ASSUME t.pc = "waiting", t.timer # 0, NEW id \in IDs \ t.excluded,
                        Selectable(heap', records, id), Left(heap', records, id) = 0
                 PROVE  FALSE
      OBVIOUS
    <3>1. Selectable(heap, records, id)
      BY <2>6
    <3>2. Left(heap, records, id) # 0
      BY <2>1, <2>2, <2>4, <3>1 DEF Watching
    <3> QED BY <2>3, <2>4, <3>1, <3>2
  <2> QED BY <2>7, <2>8, <2>9 DEF Watching
<1>12. SelInv(heap', records', lease', sel')
  BY <1>1, <1>9, <1>11 DEF SelInv
<1> QED BY <1>7, <1>12 DEF Inv

-----------------------------------------------------------------------------
(***************************************************************************)
(* The invariant and what follows from it.                                 *)
(***************************************************************************)
LEMMA InitInv == Init => Inv
<1> SUFFICES ASSUME Init PROVE Inv
  OBVIOUS
<1>1. /\ NoDrain.pins = {} /\ NoDrain.todo = {} /\ NoDrain.st = "none"
      /\ NoProbe.st = "none" /\ Idle.pc = "idle" /\ ~Idle.patient
  BY DEF NoDrain, NoProbe, Idle
<1> DEFINE up == [Blank EXCEPT !.health = "healthy"]
<1>2. /\ up \in RecordType /\ up.leases = {} /\ up.waiters = 0 /\ up.retirementDrain = FALSE
      /\ Blank.leases = {} /\ Blank.waiters = 0 /\ Blank.retirementDrain = FALSE
  <2>1. /\ Blank.leases = {} /\ Blank.waiters = 0 /\ Blank.retirementDrain = FALSE
    BY DEF Blank, NewRecord
  <2> QED BY <2>1, StartTypes DEF RecordType, Healths
<1> HIDE DEF up
<1>3. /\ records = [id \in IDs |-> 1]
      /\ heap = [c \in Cells |-> IF c[2] = 1 THEN up ELSE Blank]
      /\ lease = [l \in Leases |-> NoCell] /\ sel = [l \in Leases |-> Idle]
      /\ drain = [q \in Requests |-> NoDrain] /\ probe = [id \in IDs |-> NoProbe]
  BY DEF Init, up
<1>4. TypeInv(heap, records, lease, drain, probe)
  BY <1>2, <1>3, StartTypes DEF TypeInv
<1>5. Accounted(heap, records, lease, drain)
  <2> SUFFICES ASSUME NEW c \in Cells
               PROVE  /\ heap[c].leases = Holders(lease, c)
                      /\ heap[c].waiters = Cardinality(Pinners(drain, c))
                      /\ Holders(lease, c) = {} /\ Pinners(drain, c) = {}
                      /\ ~IsMapped(records, c) => heap[c] = Blank
    BY DEF Accounted
  <2>1. Holders(lease, c) = {}
    BY <1>3, CellFacts DEF Holders
  <2>2. Pinners(drain, c) = {}
    BY <1>1, <1>3 DEF Pinners
  <2>3. heap[c] = (IF c[2] = 1 THEN up ELSE Blank) /\ records[c[1]] = 1
    BY <1>3, CellFacts
  <2> QED BY <1>2, <2>1, <2>2, <2>3, FS_EmptySet DEF IsMapped
<1>6. Retirements(heap)
  BY <1>2, <1>3 DEF Retirements
<1>7. Drains(heap, drain)
  BY <1>1, <1>3 DEF Drains, Established, Asleep
<1>8. Probes(heap, records, probe)
  BY <1>1, <1>3 DEF Probes
<1>9. SelInv(heap, records, lease, sel)
  BY <1>1, <1>3, StartTypes DEF SelInv, Acquiring, Watching
<1> QED BY <1>4, <1>5, <1>6, <1>7, <1>8, <1>9 DEF Inv, PoolInv

LEMMA NextInv == Inv /\ [Next]_vars => Inv'
<1> SUFFICES ASSUME Inv, [Next]_vars PROVE Inv'
  OBVIOUS
<1>1. CASE UNCHANGED vars
  BY <1>1 DEF vars, Inv
<1>2. CASE ControlPlane
  <2>1. CASE \E id \in IDs, a \in Addrs : Upsert(id, a)
    BY <2>1, UpsertStep
  <2>2. CASE \E D \in SUBSET IDs : \E S \in [D -> Addrs], admitNew \in BOOLEAN : Replace(S, admitNew)
    BY <2>2, ReplaceStep
  <2>3. CASE \E id \in IDs : Remove(id)
    BY <2>3, RemoveStep
  <2>4. CASE \E id \in IDs, health \in {"healthy", "unhealthy"} : SetHealth(id, health)
    BY <2>4, SetHealthStep DEF Healths
  <2>5. CASE \E id \in IDs : MarkPassiveFailure(id)
    BY <2>5, MarkPassiveFailureStep
  <2>6. CASE \E id \in IDs : MarkDraining(id)
    BY <2>6, MarkDrainingStep
  <2>7. CASE \E id \in IDs : Undrain(id)
    BY <2>7, UndrainStep
  <2> QED BY <1>2, <2>1, <2>2, <2>3, <2>4, <2>5, <2>6, <2>7 DEF ControlPlane
<1>3. CASE Draining
  <2>1. CASE \E q \in Requests, id \in IDs : BeginRetainedDrain(q, id)
    <3>1. PICK q \in Requests, id \in IDs : BeginRetained(q, {id})
      BY <2>1 DEF BeginRetainedDrain
    <3> QED BY <3>1, BeginRetainedStep
  <2>2. CASE \E q \in Requests, pod \in Pods : BeginRetainedPodDrain(q, pod)
    <3>1. PICK q \in Requests, pod \in Pods :
            BeginRetained(q, {id \in IDs : Known(id) /\ PodOf[id] = pod})
      BY <2>2 DEF BeginRetainedPodDrain
    <3> QED BY <3>1, BeginRetainedStep
  <2>3. CASE \E q \in Requests, id \in IDs : WaitDrained(q, id)
    BY <2>3, WaitDrainedStep
  <2>4. CASE \E q \in Requests : DrainCheck(q) \/ DrainWake(q) \/ DrainTimeout(q) \/ DrainClose(q)
    BY <2>4, DrainCheckStep, DrainResumeStep, DrainCloseStep
  <2> QED BY <1>3, <2>1, <2>2, <2>3, <2>4 DEF Draining
<1>4. CASE Leasing
  <2>1. CASE \E l \in Leases : Request(l, {}, FALSE)
    BY <2>1, RequestStep
  <2>2. CASE \E l \in Leases, id \in IDs, patient \in BOOLEAN : Request(l, {id}, patient)
    BY <2>2, RequestStep
  <2>3. CASE \E l \in Leases : ArmTimer(l) \/ ChooseCandidate(l) \/ ConfirmCandidate(l)
    BY <2>3, ArmTimerStep, ChooseCandidateStep, ConfirmCandidateStep
  <2>4. CASE \E l \in Leases, id \in IDs : AcquireID(l, id)
    <3>1. PICK l \in Leases, id \in IDs :
            lease[l] = NoCell /\ Eligible(id, {}) /\ AcquireLocked(l, id)
      BY <2>4 DEF AcquireID
    <3> QED BY <3>1, AcquireStep
  <2>5. CASE \E l \in Leases : SelectionWake(l) \/ StopWaiting(l) \/ Release(l)
    BY <2>5, EndWaitStep, ReleaseStep
  <2> QED BY <1>4, <2>1, <2>2, <2>3, <2>4, <2>5 DEF Leasing
<1>5. CASE Probing
  <2>1. "healthy" \in Healths
    BY DEF Healths
  <2> QED BY <1>5, <2>1, ProbeTargetStep, ProbeEndStep DEF Probing, Healths
<1>6. CASE Tick
  BY <1>6, TickStep
<1> QED BY <1>1, <1>2, <1>3, <1>4, <1>5, <1>6 DEF Next

\* The invariant holds for every set of backends, leases and drains.
THEOREM PoolInvariance == Spec => []Inv
BY InitInv, NextInv, PTL DEF Spec

\* No call of replace, Remove, Release or Close takes a record from the map
\* while a lease or an open drain points to it.
THEOREM RecordsStayMapped == Spec => []PinnedRecordMapped
<1>1. Inv => PinnedRecordMapped
  <2> SUFFICES ASSUME Inv PROVE PinnedRecordMapped
    OBVIOUS
  <2>1. /\ lease \in [Leases -> Cells \cup {NoCell}] /\ drain \in [Requests -> DrainType]
        /\ \A c \in Cells : /\ heap[c].leases = Holders(lease, c)
                            /\ ~IsMapped(records, c) =>
                                 Holders(lease, c) = {} /\ Pinners(drain, c) = {}
    BY DEF Inv, PoolInv, TypeInv, Accounted
  <2>2. ASSUME NEW l \in Leases, lease[l] # NoCell
        PROVE  lease[l] \in Mapped /\ l \in heap[lease[l]].leases
    <3>1. lease[l] \in Cells /\ l \in Holders(lease, lease[l])
      BY <2>1, <2>2 DEF Holders
    <3> QED BY <2>1, <3>1 DEF Mapped, IsMapped
  <2>3. ASSUME NEW q \in Requests, NEW c \in drain[q].pins
        PROVE  c \in Mapped
    <3>1. c \in Cells /\ q \in Pinners(drain, c)
      BY <2>1 DEF DrainType, Pinners
    <3> QED BY <2>1, <3>1 DEF Mapped, IsMapped
  <2> QED BY <2>2, <2>3 DEF PinnedRecordMapped
<1> QED BY <1>1, PoolInvariance, PTL

\* A drain's answer is true when it goes out, although the controller retires
\* and revives the backend and acquisitions race with the drain.
THEOREM DrainsTruthful == Spec => []DrainTruthful
<1>1. Inv => DrainTruthful
  BY DEF Inv, PoolInv, Drains, Established, DrainTruthful
<1> QED BY <1>1, PoolInvariance, PTL

\* Neither Wait nor acquireMigrationTarget ever sleeps through what it waits for.
THEOREM NoLostWakeup == Spec => []WaitersWoken
<1>1. Inv => WaitersWoken
  <2> SUFFICES ASSUME Inv PROVE WaitersWoken
    OBVIOUS
  <2>1. \A q \in Requests :
          drain[q].st = "blocked" /\ ~drain[q].woken =>
            heap[drain[q].on].draining /\ heap[drain[q].on].leases # {}
    BY DEF Inv, PoolInv, Drains, Asleep
  <2>2. ASSUME NEW l \in Leases, sel[l].pc = "waiting", ~sel[l].woken, sel[l].timer # 0
        PROVE  Candidates(sel[l].excluded) = {}
    <3>1. \A id \in IDs \ sel[l].excluded :
            ~(Selectable(heap, records, id) /\ Left(heap, records, id) = 0)
      BY <2>2 DEF Inv, SelInv, Acquiring, Watching
    <3>2. \A id \in IDs : ~Eligible(id, sel[l].excluded)
      BY <3>1, EligibleIs
    <3> QED BY <3>2 DEF Candidates
  <2> QED BY <2>1, <2>2 DEF WaitersWoken
<1> QED BY <1>1, PoolInvariance, PTL

\* A verdict that probeOne applies to a record that was not deleted meanwhile
\* was measured at the address the record has now.
THEOREM ProbesFollowAddress == Spec => ProbeFollowsAddress
<1>1. Inv /\ [Next]_vars =>
        [\A id \in IDs :
           probe[id].st = "flying" /\ probe'[id].st = "none" /\ ~probe[id].dropped
             /\ Applies(id)
           => heap[CellOf(id)].addr = probe[id].addr]_vars
  BY DEF Inv, PoolInv, Probes, Fresh, Applies, CellOf
<1> QED BY <1>1, PoolInvariance, PTL DEF Spec, ProbeFollowsAddress
=============================================================================
