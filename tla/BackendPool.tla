---------------------------- MODULE BackendPool ----------------------------
(***************************************************************************)
(* The backend pool (internal/backend): the records the controller         *)
(* registers, their active health and passive quarantine, the leases of    *)
(* producers, retained drains and the probe loop.                          *)
(*                                                                         *)
(* A drain, a lease and the pool's map hold pointers to records, so a      *)
(* record is a heap cell <<id, n>> and records[id] is the n the map points *)
(* to, 0 when the map has no entry.  pool.mu makes each method between two *)
(* lock operations one action; what a method keeps over an unlock (the     *)
(* chosen ID, a revision, a channel to wait on) is in sel, probe, drain.   *)
(* The models a backend serves are folded into the excluded set of a       *)
(* request, and time is a countdown: the quarantine left of a record.      *)
(* Unknown health only matters as not healthy, and is modelled as such.    *)
(***************************************************************************)
EXTENDS Naturals, FiniteSets

CONSTANTS
  IDs,          \* backend IDs
  Pods,         \* pods
  PodOf,        \* the pod that each backend ID belongs to
  Addrs,        \* addresses (URL and health URL) of a backend
  Leases,       \* lease handles; each is acquired and released repeatedly
  Requests,     \* drain requests that run at the same time
  Window,       \* quarantine window, in ticks
  MaxAttempts,  \* attempts of acquire before it reports no backend (64)
  MaxRevision,  \* bound: revisions of one record
  MaxCalls      \* bound: control-plane calls and probes of one behaviour

ASSUME PoolAssumption ==
  /\ PodOf \in [IDs -> Pods]
  /\ Addrs # {}
  /\ IsFiniteSet(Requests)
  /\ Window \in Nat \ {0}
  /\ MaxAttempts \in Nat \ {0}
  /\ MaxRevision \in Nat \ {0}
  /\ MaxCalls \in Nat

VARIABLES
  records,  \* Pool.records: the cell number the map holds for an ID, or 0
  heap,     \* the records themselves
  lease,    \* the cell a lease handle holds, or NoCell
  sel,      \* acquisitions in progress
  drain,    \* drain requests in progress
  probe,    \* the probes of the current round that are in flight
  calls     \* control-plane calls and probes so far

vars == <<records, heap, lease, sel, drain, probe, calls>>

NoTimer == Window + 1
NoCell == <<>>
Cells == IDs \X (1..2)

\* newRecord
NewRecord(a) ==
  [addr |-> a, revision |-> 1, health |-> "unhealthy", draining |-> FALSE,
   retirementDrain |-> FALSE, retired |-> FALSE, quarantine |-> 0,
   leases |-> {}, waiters |-> 0]

Blank == NewRecord(CHOOSE a \in Addrs : TRUE)
Idle == [pc |-> "idle", patient |-> FALSE, excluded |-> {}, chosen |-> {},
         woken |-> FALSE, timer |-> NoTimer, tries |-> 0]
NoDrain == [st |-> "none", pins |-> {}, todo |-> {}, on |-> NoCell, woken |-> FALSE,
            expired |-> FALSE, status |-> "ok", undrained |-> FALSE]
NoProbe == [st |-> "none", addr |-> Blank.addr, revision |-> 0, dropped |-> FALSE]

Mapped == {c \in Cells : records[c[1]] = c[2]}
CellOf(id) == <<id, records[id]>>
Known(id) == records[id] # 0
\* What most methods ask of a record: it exists and is not retired.
Current(id) == Known(id) /\ ~heap[CellOf(id)].retired

\* updateRecord as if an address change left the revision alone (mutant).
UpdateRecordSameRevision(r, a) ==
  IF r.addr = a THEN r ELSE [r EXCEPT !.addr = a, !.health = "unhealthy"]

(***************************************************************************)
(* Pure updates of one record.                                             *)
(***************************************************************************)
\* updateRecord
UpdateRecord(r, a) ==
  IF r.addr = a THEN r
  ELSE [r EXCEPT !.addr = a, !.revision = @ + 1, !.health = "unhealthy"]

\* reviveLocked
Revive(r) ==
  IF r.retirementDrain
  THEN [r EXCEPT !.draining = FALSE, !.retirementDrain = FALSE]
  ELSE r

\* retireLocked
Retire(r) ==
  [r EXCEPT !.retired = TRUE, !.draining = TRUE, !.retirementDrain = @ \/ ~r.draining]

\* The branch of Upsert and replace for a record that exists.
UpsertRecord(r, a) ==
  LET u == UpdateRecord(r, a)
  IN  IF r.retired
      THEN [Revive([u EXCEPT !.revision = @ + 1]) EXCEPT !.retired = FALSE]
      ELSE u

ReplaceRecord(r, a, admitNew) ==
  IF admitNew /\ (r.retired \/ r.addr # a)
  THEN [UpsertRecord(r, a) EXCEPT !.health = "healthy"]
  ELSE UpsertRecord(r, a)

AdmitRecord(a, admitNew) ==
  IF admitNew THEN [NewRecord(a) EXCEPT !.health = "healthy"] ELSE NewRecord(a)

\* eligibleLocked
Eligible(id, excluded) ==
  /\ Known(id)
  /\ id \notin excluded
  /\ LET r == heap[CellOf(id)]
     IN  ~r.retired /\ r.health = "healthy" /\ ~r.draining /\ r.quarantine = 0

\* candidatesLocked and filterModelCandidates
Candidates(excluded) == {id \in IDs : Eligible(id, excluded)}

(***************************************************************************)
(* Notification.  notifyLocked closes the record's channel, which wakes    *)
(* the drains that block on it; notifySelectionLocked also closes the      *)
(* pool's channel, which wakes every acquisition that has subscribed.      *)
(***************************************************************************)
NotifyDrains(C) ==
  [q \in Requests |->
     IF drain[q].on \in C THEN [drain[q] EXCEPT !.woken = TRUE] ELSE drain[q]]

NotifySelection ==
  [l \in Leases |-> IF sel[l].patient THEN [sel[l] EXCEPT !.woken = TRUE] ELSE sel[l]]

\* cleanupRetiredLocked as if it did not look at the waiters (mutant).
CleanupUnpinned(h, m, C) ==
  [id \in IDs |->
     LET c == <<id, m[id]>>
     IN  IF c \in C /\ h[c].retired /\ h[c].leases = {} THEN 0 ELSE m[id]]

(***************************************************************************)
(* cleanupRetiredLocked on the cells C of a heap h and a map m: an entry   *)
(* is deleted once its record is retired, unleased and unpinned.           *)
(***************************************************************************)
Cleanup(h, m, C) ==
  [id \in IDs |->
     LET c == <<id, m[id]>>
     IN  IF c \in C /\ h[c].retired /\ h[c].leases = {} /\ h[c].waiters = 0
         THEN 0 ELSE m[id]]

\* A cell nothing points to any more is garbage.
Collect(h, m) ==
  [c \in Cells |->
     IF m[c[1]] # c[2] /\ h[c].leases = {} /\ h[c].waiters = 0 THEN Blank ELSE h[c]]

\* The end of a critical section: heap h and map m, after cleanup of C.  A
\* probe in flight remembers that the record it was taken from was deleted.
Commit(h, m, C) ==
  LET after == Cleanup(h, m, C)
  IN  /\ records' = after
      /\ heap' = Collect(h, after)
      /\ probe' = [id \in IDs |->
                     IF records[id] # 0 /\ after[id] = 0 /\ probe[id].st = "flying"
                     THEN [probe[id] EXCEPT !.dropped = TRUE] ELSE probe[id]]

FreeCell(id) == CHOOSE n \in 1..2 : heap[<<id, n>>] = Blank /\ records[id] # n

(***************************************************************************)
(* Control plane.                                                          *)
(***************************************************************************)
Call == calls < MaxCalls /\ calls' = calls + 1

Bounded(h) == \A c \in Cells : h[c].revision <= MaxRevision

Upsert(id, a) ==
  /\ Call
  /\ LET n == IF Known(id) THEN records[id] ELSE FreeCell(id)
         h == [heap EXCEPT ![<<id, n>>] =
                 IF Known(id) THEN UpsertRecord(@, a) ELSE NewRecord(a)]
     IN  /\ Bounded(h)
         /\ Commit(h, [records EXCEPT ![id] = n], {})
         /\ drain' = NotifyDrains({<<id, n>>})
  /\ sel' = NotifySelection
  /\ UNCHANGED lease

\* replace: the complete set is S, a function from its IDs to addresses.
Replace(S, admitNew) ==
  LET old == {id \in DOMAIN S : Known(id)}
      gone == {id \in IDs \ DOMAIN S : Current(id)}
      m == [id \in IDs |-> IF id \in DOMAIN S \ old THEN FreeCell(id) ELSE records[id]]
      touched == {c \in Cells : m[c[1]] = c[2] /\ c[1] \in DOMAIN S \cup gone}
      h == [c \in Cells |->
              CASE c \notin touched -> heap[c]
                [] c \in touched /\ c[1] \in gone -> Retire(heap[c])
                [] c \in touched /\ c[1] \in old -> ReplaceRecord(heap[c], S[c[1]], admitNew)
                [] OTHER -> AdmitRecord(S[c[1]], admitNew)]
  IN  /\ Call
      /\ Bounded(h)
      /\ Commit(h, m, {c \in touched : c[1] \in gone})
      /\ drain' = NotifyDrains(touched)
      /\ sel' = IF touched = {} THEN sel ELSE NotifySelection
      /\ UNCHANGED lease

Remove(id) ==
  /\ Call
  /\ Current(id)
  /\ Commit([heap EXCEPT ![CellOf(id)] = Retire(@)], records, {CellOf(id)})
  /\ drain' = NotifyDrains({CellOf(id)})
  /\ sel' = NotifySelection
  /\ UNCHANGED lease

\* SetHealth; a call that changes nothing notifies nobody.
SetHealth(id, health) ==
  /\ Call
  /\ Current(id)
  /\ heap[CellOf(id)].health # health
  /\ heap' = [heap EXCEPT ![CellOf(id)].health = health]
  /\ drain' = NotifyDrains({CellOf(id)})
  /\ sel' = NotifySelection
  /\ UNCHANGED <<records, lease, probe>>

MarkPassiveFailure(id) ==
  /\ Call
  /\ Current(id)
  /\ heap' = [heap EXCEPT ![CellOf(id)].quarantine = Window]
  /\ drain' = NotifyDrains({CellOf(id)})
  /\ sel' = NotifySelection
  /\ UNCHANGED <<records, lease, probe>>

\* The record is drained by hand: a later revival leaves it draining.
Drained(r) == [r EXCEPT !.draining = TRUE, !.retirementDrain = FALSE]

MarkDraining(id) ==
  /\ Call
  /\ Current(id)
  /\ heap' = [heap EXCEPT ![CellOf(id)] = Drained(@)]
  /\ IF heap[CellOf(id)].draining
     THEN UNCHANGED <<drain, sel>>
     ELSE drain' = NotifyDrains({CellOf(id)}) /\ sel' = NotifySelection
  /\ UNCHANGED <<records, lease, probe>>

Undrain(id) ==
  /\ Call
  /\ Current(id)
  /\ heap[CellOf(id)].draining
  /\ heap' = [heap EXCEPT ![CellOf(id)].draining = FALSE,
                          ![CellOf(id)].retirementDrain = FALSE]
  /\ drain' = [q \in Requests |->
                 [NotifyDrains({CellOf(id)})[q] EXCEPT !.undrained = @ \/ CellOf(id) \in drain[q].pins]]
  /\ sel' = NotifySelection
  /\ UNCHANGED <<records, lease, probe>>

(***************************************************************************)
(* Drain requests.  BeginRetained(q, P) pins the records of the IDs P: one *)
(* for handleBackendDrainRoute, all those of a pod for handlePodDrain.     *)
(***************************************************************************)
BeginRetained(q, P) ==
  LET pins == {CellOf(id) : id \in P}
      fresh == {c \in pins : ~heap[c].draining}
  IN  /\ Call
      /\ drain[q].st = "none"
      /\ P # {} /\ \A id \in P : Known(id)
      /\ heap' = [c \in Cells |->
                    IF c \in pins
                    THEN [Drained(heap[c]) EXCEPT !.waiters = @ + 1] ELSE heap[c]]
      /\ drain' = [NotifyDrains(fresh) EXCEPT
                     ![q] = [NoDrain EXCEPT !.st = "checking", !.pins = pins, !.todo = pins]]
      /\ sel' = IF fresh = {} THEN sel ELSE NotifySelection
      /\ UNCHANGED <<records, lease, probe>>

BeginRetainedDrain(q, id) == BeginRetained(q, {id})

\* An empty pod is answered with 404 and pins nothing.
BeginRetainedPodDrain(q, pod) ==
  BeginRetained(q, {id \in IDs : Known(id) /\ PodOf[id] = pod})

\* WaitDrained pins a record that is already draining.
WaitDrained(q, id) ==
  /\ Call
  /\ drain[q].st = "none"
  /\ Current(id)
  /\ heap[CellOf(id)].draining
  /\ heap' = [heap EXCEPT ![CellOf(id)].waiters = @ + 1]
  /\ drain' = [drain EXCEPT ![q] =
                 [NoDrain EXCEPT !.st = "checking", !.pins = {CellOf(id)}, !.todo = {CellOf(id)}]]
  /\ UNCHANGED <<records, lease, sel, probe>>

\* One turn of Wait's loop on the next pinned record c.
DrainCheck(q) ==
  /\ drain[q].st = "checking"
  /\ IF drain[q].todo = {}
     THEN drain' = [drain EXCEPT ![q].st = "answered"]
     ELSE \E c \in drain[q].todo :
            drain' = [drain EXCEPT ![q] =
              IF ~heap[c].draining
              THEN [@ EXCEPT !.st = "answered", !.status = "failed"]
              ELSE IF heap[c].leases = {}
              THEN [@ EXCEPT !.todo = drain[q].todo \ {c}]
              ELSE IF drain[q].expired
              THEN [@ EXCEPT !.todo = drain[q].todo \ {c}, !.status = "timeout"]
              ELSE [@ EXCEPT !.st = "blocked", !.on = c, !.woken = FALSE]]
  /\ UNCHANGED <<records, heap, lease, sel, probe, calls>>

\* The record's channel was closed: Wait looks at the record again.
DrainWake(q) ==
  /\ drain[q].st = "blocked" /\ drain[q].woken
  /\ drain' = [drain EXCEPT ![q].st = "checking", ![q].on = NoCell, ![q].woken = FALSE]
  /\ UNCHANGED <<records, heap, lease, sel, probe, calls>>

\* The request's deadline passes while Wait blocks on c.
DrainTimeout(q) ==
  /\ drain[q].st = "blocked"
  /\ drain' = [drain EXCEPT ![q] =
                 [@ EXCEPT !.st = "checking", !.expired = TRUE, !.status = "timeout",
                           !.todo = drain[q].todo \ {drain[q].on}, !.on = NoCell, !.woken = FALSE]]
  /\ UNCHANGED <<records, heap, lease, sel, probe, calls>>

\* Close on every pinned record once the answer is decided.
DrainClose(q) ==
  /\ drain[q].st = "answered"
  /\ Commit([c \in Cells |-> IF c \in drain[q].pins
                             THEN [heap[c] EXCEPT !.waiters = @ - 1] ELSE heap[c]],
            records, drain[q].pins)
  /\ drain' = [drain EXCEPT ![q] = NoDrain]
  /\ UNCHANGED <<lease, sel, calls>>

(***************************************************************************)
(* Acquisition.  acquire reads the candidates, unlocks, chooses, locks and *)
(* looks again.  A patient caller is acquireMigrationTarget during a       *)
(* drain: it subscribes to Changes first, then arms a timer for the next   *)
(* quarantine expiry, and waits for either when there is no backend.       *)
(***************************************************************************)
Request(l, excluded, patient) ==
  /\ sel[l].pc = "idle" /\ lease[l] = NoCell
  /\ sel' = [sel EXCEPT ![l] = [Idle EXCEPT !.pc = IF patient THEN "timer" ELSE "choose",
                                            !.patient = patient, !.excluded = excluded]]
  /\ UNCHANGED <<records, heap, lease, drain, probe, calls>>

\* As if a backend in quarantine were only noticed by Changes (mutant).
NextQuarantineNever(excluded) == NoTimer

\* NextQuarantineExpiry: the shortest quarantine of an otherwise selectable backend.
NextQuarantineExpiry(excluded) ==
  LET left == {heap[CellOf(id)].quarantine :
                 id \in {i \in IDs \ excluded :
                           /\ Current(i)
                           /\ heap[CellOf(i)].health = "healthy"
                           /\ ~heap[CellOf(i)].draining
                           /\ heap[CellOf(i)].quarantine > 0}}
  IN  IF left = {} THEN NoTimer ELSE CHOOSE t \in left : \A u \in left : t <= u

ArmTimer(l) ==
  /\ sel[l].pc = "timer"
  /\ sel' = [sel EXCEPT ![l].pc = "choose", ![l].timer = NextQuarantineExpiry(sel[l].excluded)]
  /\ UNCHANGED <<records, heap, lease, drain, probe, calls>>

\* ErrNoEligibleBackend: a patient caller waits, the others give up.
NoEligible(l) ==
  IF sel[l].patient THEN [sel[l] EXCEPT !.pc = "waiting", !.chosen = {}, !.tries = 0] ELSE Idle

ChooseCandidate(l) ==
  /\ sel[l].pc = "choose"
  /\ IF Candidates(sel[l].excluded) = {}
     THEN sel' = [sel EXCEPT ![l] = NoEligible(l)]
     ELSE \E id \in Candidates(sel[l].excluded) :
            sel' = [sel EXCEPT ![l].pc = "confirm", ![l].chosen = {id}]
  /\ UNCHANGED <<records, heap, lease, drain, probe, calls>>

\* acquireLocked
AcquireLocked(l, id) ==
  /\ heap' = [heap EXCEPT ![CellOf(id)].leases = @ \cup {l}]
  /\ lease' = [lease EXCEPT ![l] = CellOf(id)]
  /\ sel' = [sel EXCEPT ![l] = Idle]
  /\ drain' = NotifyDrains({CellOf(id)})
  /\ UNCHANGED <<records, probe, calls>>

\* As if the chosen backend were leased without a second look (mutant).
ConfirmUnchecked(l) ==
  /\ sel[l].pc = "confirm"
  /\ \E id \in sel[l].chosen : Known(id) /\ AcquireLocked(l, id)

ConfirmCandidate(l) ==
  /\ sel[l].pc = "confirm"
  /\ \E id \in sel[l].chosen :
       IF Eligible(id, sel[l].excluded)
       THEN AcquireLocked(l, id)
       ELSE /\ sel' = [sel EXCEPT ![l] =
                         IF sel[l].tries + 1 = MaxAttempts THEN NoEligible(l)
                         ELSE [@ EXCEPT !.pc = "choose", !.chosen = {}, !.tries = sel[l].tries + 1]]
            /\ UNCHANGED <<records, heap, lease, drain, probe, calls>>

AcquireID(l, id) ==
  /\ sel[l].pc = "idle" /\ lease[l] = NoCell
  /\ Eligible(id, {})
  /\ AcquireLocked(l, id)

\* Changes or the quarantine timer ends the wait; the loop subscribes anew.
SelectionWake(l) ==
  /\ sel[l].pc = "waiting"
  /\ sel[l].woken \/ sel[l].timer = 0
  /\ sel' = [sel EXCEPT ![l].pc = "timer", ![l].woken = FALSE, ![l].timer = NoTimer]
  /\ UNCHANGED <<records, heap, lease, drain, probe, calls>>

\* The deadline leads to one last acquire; a canceled context to none.
StopWaiting(l) ==
  /\ sel[l].pc = "waiting"
  /\ \/ sel' = [sel EXCEPT ![l] = [Idle EXCEPT !.pc = "choose", !.excluded = sel[l].excluded]]
     \/ sel' = [sel EXCEPT ![l] = Idle]
  /\ UNCHANGED <<records, heap, lease, drain, probe, calls>>

Release(l) ==
  /\ lease[l] # NoCell
  /\ Commit([heap EXCEPT ![lease[l]].leases = @ \ {l}], records, {lease[l]})
  /\ drain' = NotifyDrains({lease[l]})
  /\ lease' = [lease EXCEPT ![l] = NoCell]
  /\ UNCHANGED <<sel, calls>>

(***************************************************************************)
(* Health probes.  The health loop and the readiness endpoint both call    *)
(* ProbeAll, so rounds overlap; a target carries the revision of its       *)
(* record.  At most one probe per backend is in flight in the model.       *)
(***************************************************************************)
ProbeTarget(id) ==
  /\ Call
  /\ Current(id)
  /\ probe[id].st = "none"
  /\ probe' = [probe EXCEPT ![id] =
                 [st |-> "flying", addr |-> heap[CellOf(id)].addr,
                  revision |-> heap[CellOf(id)].revision, dropped |-> FALSE]]
  /\ UNCHANGED <<records, heap, lease, sel, drain>>

\* probeOne applies its verdict to the record that the map holds now, if its
\* revision is the one the probe was sent with.
Applies(id) == Current(id) /\ heap[CellOf(id)].revision = probe[id].revision

ProbeOne(id, verdict) ==
  /\ probe[id].st = "flying"
  /\ probe' = [probe EXCEPT ![id] = NoProbe]
  /\ IF Applies(id)
     THEN /\ heap' = [heap EXCEPT ![CellOf(id)].health = verdict]
          /\ drain' = NotifyDrains({CellOf(id)})
          /\ sel' = IF heap[CellOf(id)].health # verdict THEN NotifySelection ELSE sel
     ELSE UNCHANGED <<heap, drain, sel>>
  /\ UNCHANGED <<records, lease, calls>>

\* The probe loop's context was canceled: the verdict is not applied.
ProbeCanceled(id) ==
  /\ probe[id].st = "flying"
  /\ probe' = [probe EXCEPT ![id] = NoProbe]
  /\ UNCHANGED <<records, heap, lease, sel, drain, calls>>

\* A unit of time: quarantines and the timers armed for them run down together.
Tick ==
  /\ \E c \in Cells : heap[c].quarantine > 0
  /\ heap' = [c \in Cells |->
                [heap[c] EXCEPT !.quarantine = IF @ = 0 THEN 0 ELSE @ - 1]]
  /\ sel' = [l \in Leases |->
               [sel[l] EXCEPT !.timer = IF @ \in 1..Window THEN @ - 1 ELSE @]]
  /\ UNCHANGED <<records, lease, drain, probe, calls>>

-----------------------------------------------------------------------------
\* NewPool with a first set of backends, which the server then sets healthy.
Init ==
  /\ records = [id \in IDs |-> 1]
  /\ heap = [c \in Cells |-> IF c[2] = 1 THEN [Blank EXCEPT !.health = "healthy"] ELSE Blank]
  /\ lease = [l \in Leases |-> NoCell]
  /\ sel = [l \in Leases |-> Idle]
  /\ drain = [q \in Requests |-> NoDrain]
  /\ probe = [id \in IDs |-> NoProbe]
  /\ calls = 0

ControlPlane ==
  \/ \E id \in IDs, a \in Addrs : Upsert(id, a)
  \/ \E D \in SUBSET IDs : \E S \in [D -> Addrs], admitNew \in BOOLEAN : Replace(S, admitNew)
  \/ \E id \in IDs : Remove(id)
  \/ \E id \in IDs, health \in {"healthy", "unhealthy"} : SetHealth(id, health)
  \/ \E id \in IDs : MarkPassiveFailure(id)
  \/ \E id \in IDs : MarkDraining(id)
  \/ \E id \in IDs : Undrain(id)

Draining ==
  \/ \E q \in Requests, id \in IDs : BeginRetainedDrain(q, id)
  \/ \E q \in Requests, pod \in Pods : BeginRetainedPodDrain(q, pod)
  \/ \E q \in Requests, id \in IDs : WaitDrained(q, id)
  \/ \E q \in Requests : DrainCheck(q) \/ DrainWake(q) \/ DrainTimeout(q) \/ DrainClose(q)

Leasing ==
  \/ \E l \in Leases : Request(l, {}, FALSE)
  \/ \E l \in Leases, id \in IDs, patient \in BOOLEAN : Request(l, {id}, patient)
  \/ \E l \in Leases : ArmTimer(l) \/ ChooseCandidate(l) \/ ConfirmCandidate(l)
  \/ \E l \in Leases, id \in IDs : AcquireID(l, id)
  \/ \E l \in Leases : SelectionWake(l) \/ StopWaiting(l) \/ Release(l)

Probing ==
  \/ \E id \in IDs : ProbeTarget(id)
  \/ \E id \in IDs, verdict \in {"healthy", "unhealthy"} : ProbeOne(id, verdict)
  \/ \E id \in IDs : ProbeCanceled(id)

Next == ControlPlane \/ Draining \/ Leasing \/ Probing \/ Tick

Spec == Init /\ [][Next]_vars

-----------------------------------------------------------------------------
\* A lease and an open drain hold a pointer to a record.  Whatever replace,
\* Remove, Release and Close do to the map in the meantime, the map still has
\* that very record for its ID: otherwise a backend that comes back would get
\* a second record, and a drain would wait for the leases of one of the two.
PinnedRecordMapped ==
  /\ \A l \in Leases : lease[l] # NoCell => lease[l] \in Mapped /\ l \in heap[lease[l]].leases
  /\ \A q \in Requests : drain[q].pins \subseteq Mapped

\* What a drain request has established stays so until it answers, unless an
\* administrator undrains the backend: its records are draining although the
\* controller may have retired and revived them, and a record it has seen
\* without leases has none when the 200 goes out, although acquisitions chose
\* it before the drain began.
DrainTruthful ==
  \A q \in Requests :
    ~drain[q].undrained =>
      /\ \A c \in drain[q].pins : heap[c].draining
      /\ drain[q].status = "ok" =>
           \A c \in drain[q].pins \ drain[q].todo : heap[c].leases = {}

\* No wake-up is lost.  A Wait that sleeps has something to wait for, unless
\* its record's channel is already closed; an acquisition that sleeps in
\* acquireMigrationTarget has no eligible backend, unless Changes has fired or
\* its quarantine timer has run out.
WaitersWoken ==
  /\ \A q \in Requests :
       drain[q].st = "blocked" /\ ~drain[q].woken =>
         heap[drain[q].on].draining /\ heap[drain[q].on].leases # {}
  /\ \A l \in Leases :
       sel[l].pc = "waiting" /\ ~sel[l].woken /\ sel[l].timer # 0 =>
         Candidates(sel[l].excluded) = {}

\* probeOne discards the verdict on an endpoint that was updated while the
\* probe was in flight: a verdict that is applied was measured at the address
\* the record has now.  (A record that was deleted in the meantime and created
\* again is the case ProbeNeverStale adds.)
ProbeFollowsAddress ==
  [][\A id \in IDs :
       probe[id].st = "flying" /\ probe'[id].st = "none" /\ ~probe[id].dropped
         /\ Applies(id)
       => heap[CellOf(id)].addr = probe[id].addr]_vars

\* The documented form: "Results for concurrently removed or updated endpoints
\* are safely discarded" (internal/backend/types.go, ProbeResult).
ProbeNeverStale ==
  [][\A id \in IDs :
       probe[id].st = "flying" /\ probe'[id].st = "none" /\ Applies(id)
       => heap[CellOf(id)].addr = probe[id].addr]_vars
=============================================================================
