-------------------------- MODULE PoolRecordProofs --------------------------
(***************************************************************************)
(* Proofs about BackendPool for every number of backends, leases, drains   *)
(* and control-plane calls: a record that a lease or a drain points to     *)
(* stays the map's record, what a drain has established stays true, and no *)
(* probe's verdict survives a change of the address.                       *)
(*                                                                         *)
(* The invariant is stated of a heap h, a map m, the leases ls, the drains *)
(* dr and the probes pr.  A critical section first updates records (h, m)  *)
(* and then, in Commit, deletes retired ones; the two halves are proved    *)
(* apart.                                                                  *)
(***************************************************************************)
EXTENDS BackendPool, Sequences, FiniteSetTheorems, TLAPS

Healths == {"healthy", "unhealthy"}
RecordType ==
  [addr : Addrs, revision : Nat, health : Healths, draining : BOOLEAN,
   retirementDrain : BOOLEAN, retired : BOOLEAN, quarantine : 0..Window,
   leases : SUBSET Leases, waiters : Nat]
DrainType ==
  [st : {"none", "checking", "blocked", "answered"}, pins : SUBSET Cells,
   todo : SUBSET Cells, on : Cells \cup {NoCell}, woken : BOOLEAN, expired : BOOLEAN,
   status : {"ok", "failed", "timeout"}, undrained : BOOLEAN]
ProbeType ==
  [st : {"none", "flying"}, addr : Addrs, revision : Nat, dropped : BOOLEAN]
SelType ==
  [pc : {"idle", "timer", "choose", "confirm", "waiting"}, patient : BOOLEAN,
   excluded : SUBSET IDs, chosen : SUBSET IDs, woken : BOOLEAN, timer : 0..NoTimer,
   tries : Nat]

IsMapped(m, c) == m[c[1]] = c[2]
Holders(ls, c) == {l \in Leases : ls[l] = c}
Pinners(dr, c) == {q \in Requests : c \in dr[q].pins}

TypeInv(h, m, ls, dr, pr) ==
  /\ h \in [Cells -> RecordType]
  /\ m \in [IDs -> 0..2]
  /\ ls \in [Leases -> Cells \cup {NoCell}]
  /\ dr \in [Requests -> DrainType]
  /\ pr \in [IDs -> ProbeType]

\* A record knows who points to it, and is the map's while anybody does; a
\* cell that the map does not have is free.
Accounted(h, m, ls, dr) ==
  \A c \in Cells :
    /\ h[c].leases = Holders(ls, c)
    /\ h[c].waiters = Cardinality(Pinners(dr, c))
    /\ ~IsMapped(m, c) => Holders(ls, c) = {} /\ Pinners(dr, c) = {} /\ h[c] = Blank

\* A record drains for its retirement only while it is retired.
Retirements(h) == \A c \in Cells : h[c].retirementDrain => h[c].retired

\* What a request without an undrain knows of its records.  They drain by hand,
\* so that a revival leaves them draining.
Established(h, d) ==
  /\ d.todo \subseteq d.pins /\ (d.st = "none" => d.pins = {})
  /\ ~d.undrained =>
       \A c \in d.pins : /\ h[c].draining /\ ~h[c].retirementDrain
                         /\ d.status = "ok" /\ c \notin d.todo => h[c].leases = {}

\* A Wait that sleeps, and whose channel is open, sleeps on a leased record.
Asleep(h, d) ==
  d.st = "blocked" =>
    d.on \in d.pins /\ (~d.woken => h[d.on].draining /\ h[d.on].leases # {})

Drains(h, dr) == \A q \in Requests : Established(h, dr[q]) /\ Asleep(h, dr[q])

\* A probe in flight is of the map's record, at its revision or an older one.
Fresh(r, p) == p.revision <= r.revision /\ (p.revision = r.revision => p.addr = r.addr)
Probes(h, m, pr) ==
  \A id \in IDs :
    pr[id].st = "flying" /\ ~pr[id].dropped => m[id] # 0 /\ Fresh(h[<<id, m[id]>>], pr[id])

PoolInv(h, m, ls, dr, pr) ==
  /\ TypeInv(h, m, ls, dr, pr)
  /\ Accounted(h, m, ls, dr)
  /\ Retirements(h)
  /\ Drains(h, dr)
  /\ Probes(h, m, pr)

\* A backend that only its quarantine keeps from being chosen.
Selectable(h, m, id) ==
  LET r == h[<<id, m[id]>>]
  IN  m[id] # 0 /\ ~r.retired /\ r.health = "healthy" /\ ~r.draining
Left(h, m, id) == h[<<id, m[id]>>].quarantine

\* The timer of a patient acquisition that nobody has woken runs out no later
\* than the first quarantine; until one of the two happens its choice is good,
\* and it sleeps only when there is no choice.
Watching(h, m, s) ==
  s.patient /\ ~s.woken =>
    /\ s.pc \in {"choose", "confirm", "waiting"} /\ s.timer # 0 =>
         \A id \in IDs \ s.excluded :
           Selectable(h, m, id) /\ Left(h, m, id) # 0 => s.timer <= Left(h, m, id)
    /\ s.pc = "confirm" =>
         \A id \in s.chosen :
           id \notin s.excluded /\ Selectable(h, m, id) /\ Left(h, m, id) = 0
    /\ s.pc = "waiting" /\ s.timer # 0 =>
         \A id \in IDs \ s.excluded : ~(Selectable(h, m, id) /\ Left(h, m, id) = 0)

Acquiring(ls, sl) ==
  /\ sl \in [Leases -> SelType]
  /\ \A l \in Leases : /\ sl[l].pc # "idle" => ls[l] = NoCell
                       /\ sl[l].pc = "waiting" => sl[l].patient

SelInv(h, m, ls, sl) ==
  Acquiring(ls, sl) /\ \A l \in Leases : Watching(h, m, sl[l])

\* The inductive invariant.
Inv ==
  /\ PoolInv(heap, records, lease, drain, probe)
  /\ SelInv(heap, records, lease, sel)

-----------------------------------------------------------------------------
\* Cells, and the values that records, drains and probes start with.
LEMMA CellFacts ==
  /\ \A id \in IDs, n \in 1..2 :
       <<id, n>> \in Cells /\ <<id, n>>[1] = id /\ <<id, n>>[2] = n
  /\ \A c \in Cells : c[1] \in IDs /\ c[2] \in 1..2 /\ c = <<c[1], c[2]>> /\ c[2] # 0
  /\ NoCell \notin Cells
<1>1. \A c \in Cells : c[1] \in IDs /\ c[2] \in 1..2 /\ c = <<c[1], c[2]>> /\ c[2] # 0
  BY DEF Cells
<1>2. NoCell \notin Cells
  <2>1. SUFFICES ASSUME NoCell \in Cells PROVE FALSE
    OBVIOUS
  <2>2. PICK a \in IDs, b \in 1..2 : NoCell = <<a, b>>
    BY <2>1 DEF Cells
  <2>3. Len(NoCell) = 0 /\ Len(<<a, b>>) = 2
    BY DEF NoCell
  <2> QED BY <2>2, <2>3
<1> QED BY <1>1, <1>2 DEF Cells

LEMMA StartTypes ==
  /\ \A a \in Addrs : NewRecord(a) \in RecordType
  /\ Blank \in RecordType /\ NoDrain \in DrainType /\ NoProbe \in ProbeType
  /\ Idle \in SelType
<1>1. Window \in Nat /\ Window # 0 /\ Addrs # {}
  BY PoolAssumption
<1>2. \A a \in Addrs : NewRecord(a) \in RecordType
  BY <1>1 DEF NewRecord, RecordType, Healths
<1>3. Blank \in RecordType /\ Blank.addr \in Addrs
  BY <1>1, <1>2 DEF Blank, NewRecord
<1>4. NoProbe \in ProbeType
  BY <1>3 DEF NoProbe, ProbeType
<1>5. NoDrain \in DrainType
  BY DEF NoDrain, DrainType
<1>6. Idle \in SelType
  BY <1>1 DEF Idle, SelType, NoTimer
<1> QED BY <1>2, <1>3, <1>4, <1>5, <1>6

LEMMA PinnersFinite ==
  ASSUME NEW dr, NEW c
  PROVE  /\ IsFiniteSet(Pinners(dr, c)) /\ Cardinality(Pinners(dr, c)) \in Nat
         /\ Cardinality(Pinners(dr, c)) = 0 <=> Pinners(dr, c) = {}
<1>1. Pinners(dr, c) \in SUBSET Requests
  BY DEF Pinners
<1>2. IsFiniteSet(Pinners(dr, c))
  BY <1>1, FS_Subset, PoolAssumption
<1> QED BY <1>2, FS_CardinalityType, FS_EmptySet

\* What notifyLocked leaves alone.
LEMMA NotifyFacts ==
  ASSUME drain \in [Requests -> DrainType], NEW C
  PROVE  /\ NotifyDrains(C) \in [Requests -> DrainType]
         /\ \A q \in Requests :
              LET d == drain[q] e == NotifyDrains(C)[q]
              IN  /\ e.st = d.st /\ e.pins = d.pins /\ e.todo = d.todo /\ e.on = d.on
                  /\ e.status = d.status /\ e.undrained = d.undrained
                  /\ e.expired = d.expired
                  /\ d.woken => e.woken
                  /\ d.on \in C => e.woken
<1> SUFFICES ASSUME NEW q \in Requests
             PROVE  LET d == drain[q]
                        e == IF d.on \in C THEN [d EXCEPT !.woken = TRUE] ELSE d
                    IN  /\ e \in DrainType
                        /\ e.st = d.st /\ e.pins = d.pins /\ e.todo = d.todo /\ e.on = d.on
                        /\ e.status = d.status /\ e.undrained = d.undrained
                        /\ e.expired = d.expired
                        /\ d.woken => e.woken
                        /\ d.on \in C => e.woken
  BY DEF NotifyDrains
<1>1. drain[q] \in DrainType
  OBVIOUS
<1> QED BY <1>1 DEF DrainType

\* Nobody is notified: nothing changes.
LEMMA NotifyNobody ==
  ASSUME drain \in [Requests -> DrainType]
  PROVE  NotifyDrains({}) = drain
BY DEF NotifyDrains

(***************************************************************************)
(* First half of a critical section: records are updated or created.  An   *)
(* update keeps leases and waiters, keeps what is drained by hand drained, *)
(* and gives a new address a new revision.                                 *)
(***************************************************************************)
Benign(r, s) ==
  /\ s.leases = r.leases /\ s.waiters = r.waiters
  /\ r.draining /\ ~r.retirementDrain => s.draining /\ ~s.retirementDrain
  /\ s.retirementDrain => s.retired
  /\ r.revision <= s.revision /\ (s.revision = r.revision => s.addr = r.addr)

\* A record whose draining ends is among the notified ones, C.
Updates(h, m, C) ==
  /\ h \in [Cells -> RecordType] /\ m \in [IDs -> 0..2]
  /\ \A id \in IDs : records[id] # 0 => m[id] = records[id]
  /\ \A c \in Cells :
       /\ IsMapped(records, c) =>
            h[c] = heap[c] \/ /\ Benign(heap[c], h[c])
                              /\ heap[c].draining => c \in C \/ h[c].draining
       /\ ~IsMapped(records, c) /\ IsMapped(m, c) =>
            h[c].leases = {} /\ h[c].waiters = 0 /\ ~h[c].retirementDrain
       /\ ~IsMapped(m, c) => h[c] = heap[c]

LEMMA UpdateInv ==
  ASSUME PoolInv(heap, records, lease, drain, probe), NEW h, NEW m, NEW C,
         Updates(h, m, C)
  PROVE  PoolInv(h, m, lease, NotifyDrains(C), probe)
<1> DEFINE dr == NotifyDrains(C)
<1>1. /\ heap \in [Cells -> RecordType] /\ records \in [IDs -> 0..2]
      /\ lease \in [Leases -> Cells \cup {NoCell}] /\ drain \in [Requests -> DrainType]
      /\ probe \in [IDs -> ProbeType]
  BY DEF PoolInv, TypeInv
<1>2. /\ dr \in [Requests -> DrainType]
      /\ \A q \in Requests :
           /\ dr[q].st = drain[q].st /\ dr[q].pins = drain[q].pins
           /\ dr[q].todo = drain[q].todo /\ dr[q].on = drain[q].on
           /\ dr[q].status = drain[q].status /\ dr[q].undrained = drain[q].undrained
           /\ drain[q].woken => dr[q].woken
           /\ drain[q].on \in C => dr[q].woken
  BY <1>1, NotifyFacts
<1> HIDE DEF dr
<1>3. \A c \in Cells : IsMapped(records, c) => IsMapped(m, c)
  BY <1>1, CellFacts DEF IsMapped, Updates
<1>4. \A c \in Cells : Pinners(dr, c) = Pinners(drain, c)
  BY <1>2 DEF Pinners
<1>5. TypeInv(h, m, lease, dr, probe)
  BY <1>1, <1>2 DEF TypeInv, Updates
<1>6. Accounted(h, m, lease, dr)
  <2> SUFFICES ASSUME NEW c \in Cells
               PROVE  /\ h[c].leases = Holders(lease, c)
                      /\ h[c].waiters = Cardinality(Pinners(dr, c))
                      /\ ~IsMapped(m, c) => Holders(lease, c) = {} /\ Pinners(dr, c) = {} /\ h[c] = Blank
    BY DEF Accounted
  <2>1. /\ heap[c].leases = Holders(lease, c)
        /\ heap[c].waiters = Cardinality(Pinners(drain, c))
        /\ ~IsMapped(records, c) => Holders(lease, c) = {} /\ Pinners(drain, c) = {} /\ heap[c] = Blank
    BY DEF PoolInv, Accounted
  <2>2. CASE IsMapped(records, c)
    BY <2>1, <2>2, <1>3, <1>4 DEF Updates, Benign
  <2>3. CASE ~IsMapped(records, c) /\ IsMapped(m, c)
    BY <2>1, <2>3, <1>4, FS_EmptySet DEF Updates
  <2>4. CASE ~IsMapped(m, c)
    BY <2>1, <2>4, <1>3, <1>4 DEF Updates
  <2> QED BY <2>2, <2>3, <2>4
<1>7. \A c \in Cells : h[c].retirementDrain => h[c].retired
  BY <1>3 DEF PoolInv, Retirements, Updates, Benign
<1>8. \A q \in Requests : \A c \in drain[q].pins : c \in Cells /\ IsMapped(records, c)
  BY <1>1 DEF PoolInv, Accounted, Pinners, DrainType
<1>9. Drains(h, dr)
  <2> SUFFICES ASSUME NEW q \in Requests
               PROVE  Established(h, dr[q]) /\ Asleep(h, dr[q])
    BY DEF Drains
  <2>1. Established(heap, drain[q]) /\ Asleep(heap, drain[q])
    BY DEF PoolInv, Drains
  <2>2. \A c \in drain[q].pins :
          /\ h[c].leases = heap[c].leases
          /\ heap[c].draining /\ ~heap[c].retirementDrain => h[c].draining /\ ~h[c].retirementDrain
          /\ heap[c].draining => c \in C \/ h[c].draining
    BY <1>8 DEF Updates, Benign
  <2>3. Established(h, dr[q])
    BY <2>1, <2>2, <1>2 DEF Established
  <2>4. Asleep(h, dr[q])
    BY <2>1, <2>2, <1>2 DEF Asleep
  <2> QED BY <2>3, <2>4
<1>10. Probes(h, m, probe)
  <2> SUFFICES ASSUME NEW id \in IDs, probe[id].st = "flying", ~probe[id].dropped
               PROVE  m[id] # 0 /\ Fresh(h[<<id, m[id]>>], probe[id])
    BY DEF Probes
  <2> DEFINE c == <<id, records[id]>>
  <2>1. records[id] # 0 /\ Fresh(heap[c], probe[id])
    BY DEF PoolInv, Probes
  <2>2. m[id] = records[id] /\ c \in Cells /\ IsMapped(records, c)
    <3>1. m[id] = records[id] /\ records[id] \in 1..2
      BY <2>1, <1>1 DEF Updates
    <3>2. c \in Cells /\ c[1] = id /\ c[2] = records[id]
      BY <3>1, CellFacts
    <3> QED BY <3>1, <3>2 DEF IsMapped
  <2>3. h[c] = heap[c] \/ Benign(heap[c], h[c])
    BY <2>2 DEF Updates
  <2>4. heap[c].revision \in Nat /\ h[c].revision \in Nat /\ probe[id].revision \in Nat
    BY <1>1, <2>2 DEF Updates, RecordType, ProbeType
  <2> HIDE DEF c
  <2>5. Fresh(h[c], probe[id])
    BY <2>1, <2>3, <2>4 DEF Fresh, Benign
  <2> QED BY <2>1, <2>2, <2>5 DEF c
<1> QED BY <1>5, <1>6, <1>7, <1>9, <1>10 DEF PoolInv, Retirements, dr

(***************************************************************************)
(* Second half: Commit deletes what is retired, unleased and unpinned, so  *)
(* nothing that a lease, a drain or a probe still relies on.               *)
(***************************************************************************)
LEMMA CommitMap ==
  ASSUME NEW h, NEW m, NEW ls, NEW dr, NEW pr, NEW C, PoolInv(h, m, ls, dr, pr)
  PROVE  LET after == Cleanup(h, m, C)
         IN  /\ after \in [IDs -> 0..2]
             /\ \A c \in Cells :
                  /\ IsMapped(after, c) => IsMapped(m, c)
                  /\ ~IsMapped(after, c) => Holders(ls, c) = {} /\ Pinners(dr, c) = {}
             /\ \A id \in IDs :
                  after[id] = m[id] \/ (after[id] = 0 /\ h[<<id, m[id]>>].retired)
<1> DEFINE after == Cleanup(h, m, C)
<1>1. m \in [IDs -> 0..2]
  BY DEF PoolInv, TypeInv
<1>2. \A id \in IDs :
        \/ after[id] = m[id]
        \/ /\ after[id] = 0 /\ h[<<id, m[id]>>].retired
           /\ h[<<id, m[id]>>].leases = {} /\ h[<<id, m[id]>>].waiters = 0
  BY DEF Cleanup
<1>3. after \in [IDs -> 0..2]
  BY <1>1 DEF Cleanup
<1> HIDE DEF after
<1>4. ASSUME NEW c \in Cells
      PROVE  /\ IsMapped(after, c) => IsMapped(m, c)
             /\ ~IsMapped(after, c) => Holders(ls, c) = {} /\ Pinners(dr, c) = {}
  <2>1. c[1] \in IDs /\ c[2] # 0 /\ c = <<c[1], c[2]>>
    BY CellFacts
  <2>2. /\ h[c].leases = Holders(ls, c)
        /\ h[c].waiters = Cardinality(Pinners(dr, c))
        /\ ~IsMapped(m, c) => Holders(ls, c) = {} /\ Pinners(dr, c) = {}
    BY DEF PoolInv, Accounted
  <2>3. CASE after[c[1]] = m[c[1]]
    BY <2>2, <2>3 DEF IsMapped
  <2>4. CASE after[c[1]] = 0 /\ ~IsMapped(m, c)
    BY <2>1, <2>2, <2>4 DEF IsMapped
  <2>5. CASE after[c[1]] # m[c[1]] /\ IsMapped(m, c)
    <3>1. h[c].leases = {} /\ h[c].waiters = 0
      BY <1>2, <2>1, <2>5 DEF IsMapped
    <3> QED BY <2>2, <2>5, <3>1, PinnersFinite
  <2>6. after[c[1]] = m[c[1]] \/ after[c[1]] = 0
    BY <1>2, <2>1
  <2> QED BY <2>3, <2>4, <2>5, <2>6
<1>5. \A c \in Cells :
        /\ IsMapped(after, c) => IsMapped(m, c)
        /\ ~IsMapped(after, c) => Holders(ls, c) = {} /\ Pinners(dr, c) = {}
  BY <1>4
<1>6. \A id \in IDs : after[id] = m[id] \/ (after[id] = 0 /\ h[<<id, m[id]>>].retired)
  BY <1>2
<1> QED BY <1>3, <1>5, <1>6, Zenon DEF after

LEMMA CommitInv ==
  ASSUME NEW h, NEW m, NEW C, PoolInv(h, m, lease', drain', probe),
         \A id \in IDs : records[id] = 0 => ~(probe[id].st = "flying" /\ ~probe[id].dropped),
         Commit(h, m, C)
  PROVE  PoolInv(heap', records', lease', drain', probe')
<1> DEFINE after == Cleanup(h, m, C)
<1>1. /\ after \in [IDs -> 0..2]
      /\ \A c \in Cells :
           /\ IsMapped(after, c) => IsMapped(m, c)
           /\ ~IsMapped(after, c) => Holders(lease', c) = {} /\ Pinners(drain', c) = {}
      /\ \A id \in IDs : after[id] = m[id] \/ after[id] = 0
  BY CommitMap
<1>2. /\ records' = after /\ heap' = Collect(h, after)
      /\ probe' = [id \in IDs |->
                     IF records[id] # 0 /\ after[id] = 0 /\ probe[id].st = "flying"
                     THEN [probe[id] EXCEPT !.dropped = TRUE] ELSE probe[id]]
  BY DEF Commit
<1> HIDE DEF after
<1>3. /\ h \in [Cells -> RecordType] /\ m \in [IDs -> 0..2]
      /\ lease' \in [Leases -> Cells \cup {NoCell}] /\ drain' \in [Requests -> DrainType]
      /\ probe \in [IDs -> ProbeType]
  BY DEF PoolInv, TypeInv
<1>4. \A c \in Cells :
        /\ h[c].leases = Holders(lease', c)
        /\ h[c].waiters = Cardinality(Pinners(drain', c))
  BY DEF PoolInv, Accounted
<1>5. \A c \in Cells : heap'[c] = IF IsMapped(after, c) THEN h[c] ELSE Blank
  <2> TAKE c \in Cells
  <2>1. CASE IsMapped(after, c)
    BY <1>2, <2>1 DEF Collect, IsMapped
  <2>2. CASE ~IsMapped(after, c)
    <3>1. h[c].leases = {} /\ h[c].waiters = 0
      BY <1>1, <1>4, <2>2, FS_EmptySet
    <3> QED BY <1>2, <2>2, <3>1 DEF Collect, IsMapped
  <2> QED BY <2>1, <2>2
<1>6. heap' \in [Cells -> RecordType]
  <2>1. \A c \in Cells : heap'[c] \in RecordType
    BY <1>3, <1>5, StartTypes
  <2>2. heap' = [c \in Cells |-> heap'[c]]
    BY <1>2 DEF Collect
  <2> QED BY <2>1, <2>2
<1>7. probe' \in [IDs -> ProbeType]
  <2>1. \A id \in IDs :
          /\ probe[id] \in ProbeType
          /\ [probe[id] EXCEPT !.dropped = TRUE] \in ProbeType
    BY <1>3 DEF ProbeType
  <2> QED BY <1>2, <2>1
<1>8. TypeInv(heap', records', lease', drain', probe')
  BY <1>1, <1>2, <1>3, <1>6, <1>7 DEF TypeInv
<1>9. Blank.leases = {} /\ Blank.waiters = 0 /\ ~Blank.retirementDrain
  BY DEF Blank, NewRecord
<1>10. Accounted(heap', records', lease', drain')
  <2> SUFFICES ASSUME NEW c \in Cells
               PROVE  /\ heap'[c].leases = Holders(lease', c)
                      /\ heap'[c].waiters = Cardinality(Pinners(drain', c))
                      /\ ~IsMapped(records', c) =>
                           Holders(lease', c) = {} /\ Pinners(drain', c) = {} /\ heap'[c] = Blank
    BY DEF Accounted
  <2>1. CASE IsMapped(after, c)
    BY <1>2, <1>4, <1>5, <2>1
  <2>2. CASE ~IsMapped(after, c)
    BY <1>1, <1>2, <1>5, <1>9, <2>2, FS_EmptySet
  <2> QED BY <2>1, <2>2
<1>11. Retirements(heap')
  BY <1>5, <1>9 DEF PoolInv, Retirements
<1>12. Drains(heap', drain')
  <2> SUFFICES ASSUME NEW q \in Requests
               PROVE  Established(heap', drain'[q]) /\ Asleep(heap', drain'[q])
    BY DEF Drains
  <2>1. Established(h, drain'[q]) /\ Asleep(h, drain'[q])
    BY DEF PoolInv, Drains
  <2>2. \A c \in drain'[q].pins : heap'[c] = h[c]
    <3> TAKE c \in drain'[q].pins
    <3>1. c \in Cells
      BY <1>3 DEF DrainType
    <3>2. q \in Pinners(drain', c)
      BY DEF Pinners
    <3> QED BY <1>1, <1>5, <3>1, <3>2
  <2> QED BY <2>1, <2>2 DEF Established, Asleep
<1>13. Probes(heap', records', probe')
  <2> SUFFICES ASSUME NEW id \in IDs, probe'[id].st = "flying", ~probe'[id].dropped
               PROVE  records'[id] # 0 /\ Fresh(heap'[<<id, records'[id]>>], probe'[id])
    BY DEF Probes
  <2>1. probe[id] \in ProbeType
    BY <1>3
  <2>2. probe'[id] = probe[id] /\ (records[id] = 0 \/ after[id] # 0)
    BY <1>2, <2>1 DEF ProbeType
  <2>3. m[id] # 0 /\ Fresh(h[<<id, m[id]>>], probe[id])
    BY <2>2 DEF PoolInv, Probes
  <2>4. after[id] = m[id]
    BY <1>1, <2>2
  <2>5. <<id, m[id]>> \in Cells /\ IsMapped(after, <<id, m[id]>>)
    <3>1. m[id] \in 1..2
      BY <1>3, <2>3
    <3> QED BY <3>1, <2>4, CellFacts DEF IsMapped
  <2> QED BY <1>2, <1>5, <2>2, <2>3, <2>4, <2>5
<1> QED BY <1>8, <1>10, <1>11, <1>12, <1>13 DEF PoolInv

(***************************************************************************)
(* The acquisitions, when the backends they may choose stay the same, when *)
(* Changes fires, and over the deletion of retired records.                *)
(***************************************************************************)
LEMMA SelFrame ==
  ASSUME NEW h, NEW m, NEW ls, NEW sl, SelInv(h, m, ls, sl), NEW h2, NEW m2,
         \A id \in IDs : /\ Selectable(h2, m2, id) <=> Selectable(h, m, id)
                         /\ Selectable(h, m, id) => Left(h2, m2, id) = Left(h, m, id)
  PROVE  SelInv(h2, m2, ls, sl)
<1> SUFFICES ASSUME NEW l \in Leases PROVE Watching(h2, m2, sl[l])
  BY DEF SelInv
<1>1. Watching(h, m, sl[l]) /\ sl[l].chosen \subseteq IDs
  BY DEF SelInv, Acquiring, SelType
<1> QED BY <1>1 DEF Watching

LEMMA SelNotified ==
  ASSUME NEW ls, Acquiring(ls, sel), NEW h, NEW m
  PROVE  SelInv(h, m, ls, NotifySelection)
<1>1. sel \in [Leases -> SelType]
  BY DEF Acquiring
<1>2. \A l \in Leases : /\ NotifySelection[l] \in SelType
                        /\ NotifySelection[l].pc = sel[l].pc
                        /\ NotifySelection[l].patient = sel[l].patient
                        /\ sel[l].patient => NotifySelection[l].woken
  <2> SUFFICES ASSUME NEW l \in Leases
               PROVE  LET s == sel[l]
                          t == IF s.patient THEN [s EXCEPT !.woken = TRUE] ELSE s
                      IN  t \in SelType /\ t.pc = s.pc /\ t.patient = s.patient /\ (s.patient => t.woken)
    BY DEF NotifySelection
  <2>1. sel[l] \in SelType
    BY <1>1
  <2> QED BY <2>1 DEF SelType
<1>3. NotifySelection \in [Leases -> SelType]
  BY <1>2 DEF NotifySelection
<1> QED BY <1>2, <1>3 DEF SelInv, Acquiring, Watching

LEMMA CommitSel ==
  ASSUME NEW h, NEW m, NEW C, NEW sl, PoolInv(h, m, lease', drain', probe),
         Commit(h, m, C), SelInv(h, m, lease', sl)
  PROVE  SelInv(heap', records', lease', sl)
<1> DEFINE after == Cleanup(h, m, C)
<1>1. /\ after \in [IDs -> 0..2]
      /\ \A id \in IDs :
           after[id] = m[id] \/ (after[id] = 0 /\ h[<<id, m[id]>>].retired)
  BY CommitMap
<1>2. records' = after /\ heap' = Collect(h, after)
  BY DEF Commit
<1> HIDE DEF after
<1> SUFFICES ASSUME NEW id \in IDs
             PROVE  /\ Selectable(heap', records', id) <=> Selectable(h, m, id)
                    /\ Selectable(h, m, id) =>
                         Left(heap', records', id) = Left(h, m, id)
  BY SelFrame
<1>3. CASE after[id] = 0
  BY <1>1, <1>2, <1>3 DEF Selectable
<1>4. CASE after[id] = m[id] /\ m[id] # 0
  <2> DEFINE c == <<id, m[id]>>
  <2>1. m[id] \in 1..2
    BY <1>1, <1>4
  <2>2. c \in Cells /\ c[1] = id /\ c[2] = m[id]
    BY <2>1, CellFacts
  <2>3. heap'[c] = h[c]
    BY <1>2, <1>4, <2>2 DEF Collect
  <2> QED BY <1>2, <1>4, <2>3 DEF Selectable, Left
<1> QED BY <1>1, <1>3, <1>4

(***************************************************************************)
(* The updates of one record.                                              *)
(***************************************************************************)
LEMMA UpsertBenign ==
  ASSUME NEW r \in RecordType, NEW a \in Addrs, r.retirementDrain => r.retired
  PROVE  UpsertRecord(r, a) \in RecordType /\ Benign(r, UpsertRecord(r, a))
<1> DEFINE u == UpdateRecord(r, a)
<1>1. /\ u \in RecordType /\ u.leases = r.leases /\ u.waiters = r.waiters
      /\ u.draining = r.draining /\ u.retirementDrain = r.retirementDrain
      /\ u.retired = r.retired /\ r.revision <= u.revision
      /\ u.revision = r.revision => u.addr = r.addr
  <2>1. CASE r.addr = a
    BY <2>1 DEF UpdateRecord, RecordType
  <2>2. CASE r.addr # a
    <3> DEFINE n == r.revision + 1
    <3>1. u = [r EXCEPT !.addr = a, !.revision = n, !.health = "unhealthy"]
      BY <2>2 DEF UpdateRecord
    <3>2. r.revision \in Nat /\ n \in Nat /\ "unhealthy" \in Healths
      BY DEF RecordType, Healths
    <3>3. u \in RecordType
      <4> HIDE DEF n, u
      <4> QED BY <3>1, <3>2 DEF RecordType
    <3>4. /\ u.leases = r.leases /\ u.waiters = r.waiters
          /\ u.draining = r.draining /\ u.retirementDrain = r.retirementDrain
          /\ u.retired = r.retired /\ u.revision = r.revision + 1
      BY <3>1 DEF RecordType
    <3>5. r.revision <= u.revision /\ u.revision # r.revision
      BY <3>2, <3>4
    <3> QED BY <3>3, <3>4, <3>5
  <2> QED BY <2>1, <2>2
<1> HIDE DEF u
<1> DEFINE v == [u EXCEPT !.revision = @ + 1]
<1>2. /\ v \in RecordType /\ v.leases = u.leases /\ v.waiters = u.waiters
      /\ v.draining = u.draining /\ v.retirementDrain = u.retirementDrain
      /\ v.retired = u.retired /\ v.revision > r.revision
  BY <1>1 DEF RecordType
<1> HIDE DEF v
<1> DEFINE w == Revive(v)
<1>3. /\ w \in RecordType /\ w.leases = v.leases /\ w.waiters = v.waiters
      /\ v.draining /\ ~v.retirementDrain => w.draining
      /\ ~w.retirementDrain
      /\ w.revision = v.revision
  BY <1>2 DEF Revive, RecordType
<1> HIDE DEF w
<1> DEFINE x == [w EXCEPT !.retired = FALSE]
<1>4. /\ x \in RecordType /\ x.leases = w.leases /\ x.waiters = w.waiters
      /\ x.draining = w.draining /\ x.retirementDrain = w.retirementDrain
      /\ x.revision = w.revision
  BY <1>3 DEF RecordType
<1> HIDE DEF x
<1>5. UpsertRecord(r, a) = IF r.retired THEN x ELSE u
  BY DEF UpsertRecord, u, v, w, x
<1>6. x.revision \in Nat /\ r.revision \in Nat
  BY <1>4 DEF RecordType
<1>7. CASE r.retired
  <2>1. r.revision <= x.revision /\ x.revision # r.revision
    BY <1>2, <1>3, <1>4, <1>6
  <2> QED BY <1>1, <1>2, <1>3, <1>4, <1>5, <1>7, <2>1 DEF Benign
<1>8. CASE ~r.retired
  BY <1>1, <1>5, <1>8 DEF Benign
<1> QED BY <1>7, <1>8

LEMMA ReplaceBenign ==
  ASSUME NEW r \in RecordType, NEW a \in Addrs, r.retirementDrain => r.retired,
         NEW admitNew
  PROVE  ReplaceRecord(r, a, admitNew) \in RecordType /\ Benign(r, ReplaceRecord(r, a, admitNew))
<1> DEFINE u == UpsertRecord(r, a)
           v == [u EXCEPT !.health = "healthy"]
<1>1. u \in RecordType /\ Benign(r, u)
  BY UpsertBenign
<1>2. ReplaceRecord(r, a, admitNew) = IF admitNew /\ (r.retired \/ r.addr # a) THEN v ELSE u
  BY DEF ReplaceRecord
<1> HIDE DEF u
<1>3. v \in RecordType /\ Benign(r, v)
  BY <1>1 DEF RecordType, Healths, Benign
<1> QED BY <1>1, <1>2, <1>3

LEMMA RetireBenign ==
  ASSUME NEW r \in RecordType
  PROVE  Retire(r) \in RecordType /\ Benign(r, Retire(r)) /\ Retire(r).draining
<1> DEFINE x == r.retirementDrain \/ ~r.draining
<1>1. Retire(r) = [r EXCEPT !.retired = TRUE, !.draining = TRUE, !.retirementDrain = x]
  BY DEF Retire
<1>2. x \in BOOLEAN /\ r.revision \in Nat
  BY DEF RecordType
<1>3. Retire(r) \in RecordType
  BY <1>1, <1>2 DEF RecordType
<1>4. /\ Retire(r).leases = r.leases /\ Retire(r).waiters = r.waiters
      /\ Retire(r).revision = r.revision /\ Retire(r).addr = r.addr
      /\ Retire(r).retired /\ Retire(r).draining /\ Retire(r).retirementDrain = x
  BY <1>1 DEF RecordType
<1>5. r.draining /\ ~r.retirementDrain => ~Retire(r).retirementDrain
  BY <1>4
<1>6. r.revision <= Retire(r).revision
  BY <1>2, <1>4
<1> QED BY <1>3, <1>4, <1>5, <1>6, Zenon DEF Benign

LEMMA DrainedBenign ==
  ASSUME NEW r \in RecordType
  PROVE  /\ Drained(r) \in RecordType /\ Benign(r, Drained(r))
         /\ Drained(r).draining /\ ~Drained(r).retirementDrain
         /\ Drained(r).retired = r.retired /\ Drained(r).health = r.health
         /\ Drained(r).quarantine = r.quarantine
<1>1. Drained(r) \in RecordType /\ r.revision \in Nat
  BY DEF Drained, RecordType
<1>2. /\ Drained(r).leases = r.leases /\ Drained(r).waiters = r.waiters
      /\ Drained(r).revision = r.revision /\ Drained(r).addr = r.addr
      /\ Drained(r).retired = r.retired /\ Drained(r).health = r.health
      /\ Drained(r).draining = TRUE /\ Drained(r).retirementDrain = FALSE
      /\ Drained(r).quarantine = r.quarantine
  BY DEF Drained, RecordType
<1> QED BY <1>1, <1>2 DEF Benign

-----------------------------------------------------------------------------
(***************************************************************************)
(* The control plane.  A step either fires Changes or leaves every backend *)
(* as selectable as it was.                                                *)
(***************************************************************************)
SelStep(h, m) ==
  \/ sel' = NotifySelection
  \/ /\ sel' = sel
     /\ \A id \in IDs :
          /\ Selectable(h, m, id) <=> Selectable(heap, records, id)
          /\ Selectable(heap, records, id) => Left(h, m, id) = Left(heap, records, id)

LEMMA SelStepInv ==
  ASSUME Inv, NEW h, NEW m, SelStep(h, m)
  PROVE  SelInv(h, m, lease, sel')
<1>1. CASE sel' = NotifySelection
  BY <1>1, SelNotified DEF Inv, SelInv
<1>2. CASE sel' # NotifySelection
  <2>1. /\ sel' = sel
        /\ \A id \in IDs :
             /\ Selectable(h, m, id) <=> Selectable(heap, records, id)
             /\ Selectable(heap, records, id) => Left(h, m, id) = Left(heap, records, id)
    BY <1>2 DEF SelStep
  <2>2. SelInv(heap, records, lease, sel)
    BY DEF Inv
  <2>3. SelInv(h, m, lease, sel)
    BY <2>1, <2>2, SelFrame
  <2> QED BY <2>1, <2>3
<1> QED BY <1>1, <1>2

\* Updates under the lock, with a cleanup and without one.
LEMMA UpdateCommitStep ==
  ASSUME Inv, NEW h, NEW m, NEW C, NEW K, Updates(h, m, C), Commit(h, m, K),
         drain' = NotifyDrains(C), lease' = lease, SelStep(h, m)
  PROVE  Inv'
<1>1. PoolInv(h, m, lease', drain', probe)
  BY UpdateInv DEF Inv
<1>2. \A id \in IDs : records[id] = 0 => ~(probe[id].st = "flying" /\ ~probe[id].dropped)
  BY DEF Inv, PoolInv, Probes
<1>3. PoolInv(heap', records', lease', drain', probe')
  BY <1>1, <1>2, CommitInv
<1>4. SelInv(h, m, lease', sel')
  BY SelStepInv
<1>5. SelInv(heap', records', lease', sel')
  BY <1>1, <1>4, CommitSel
<1> QED BY <1>3, <1>5 DEF Inv

LEMMA UpdateStep ==
  ASSUME Inv, NEW C, Updates(heap', records, C), records' = records,
         drain' = NotifyDrains(C), lease' = lease, probe' = probe, SelStep(heap', records)
  PROVE  Inv'
<1>1. PoolInv(heap', records', lease', drain', probe')
  BY UpdateInv DEF Inv
<1>2. SelInv(heap', records', lease', sel')
  BY SelStepInv
<1> QED BY <1>1, <1>2 DEF Inv

\* An update of the map's record of one backend.
LEMMA OneUpdate ==
  ASSUME Inv, NEW id \in IDs, Known(id), NEW r \in RecordType,
         Benign(heap[CellOf(id)], r), NEW C,
         heap[CellOf(id)].draining => CellOf(id) \in C \/ r.draining
  PROVE  Updates([heap EXCEPT ![CellOf(id)] = r], records, C)
<1> DEFINE c == CellOf(id)
           h == [heap EXCEPT ![c] = r]
<1>1. heap \in [Cells -> RecordType] /\ records \in [IDs -> 0..2]
  BY DEF Inv, PoolInv, TypeInv
<1>2. c \in Cells /\ IsMapped(records, c)
  <2>1. records[id] \in 1..2
    BY <1>1 DEF Known
  <2> QED BY <2>1, CellFacts DEF CellOf, IsMapped
<1> HIDE DEF c
<1>3. h \in [Cells -> RecordType]
  BY <1>1, <1>2
<1>4. \A d \in Cells : h[d] = heap[d] \/ d = c
  BY <1>1
<1>5. h[c] = r
  BY <1>1, <1>2
<1>6. heap[c].draining => c \in C \/ h[c].draining
  BY <1>5 DEF c
<1>7. Benign(heap[c], h[c])
  BY <1>5 DEF c
<1> HIDE DEF h
<1>8. Updates(h, records, C)
  BY <1>1, <1>2, <1>3, <1>4, <1>6, <1>7 DEF Updates
<1> QED BY <1>8 DEF h, c

\* newRecord finds a cell that nobody points to.
LEMMA FreeCellFree ==
  ASSUME Inv, NEW id \in IDs, ~Known(id)
  PROVE  FreeCell(id) \in 1..2
<1>1. <<id, 1>> \in Cells /\ ~IsMapped(records, <<id, 1>>)
  <2>1. <<id, 1>> \in Cells /\ <<id, 1>>[1] = id /\ <<id, 1>>[2] = 1
    BY DEF Cells
  <2>2. records[id] # 1
    BY DEF Known
  <2> QED BY <2>1, <2>2 DEF IsMapped
<1>2. heap[<<id, 1>>] = Blank
  BY <1>1 DEF Inv, PoolInv, Accounted
<1>3. \E n \in 1..2 : heap[<<id, n>>] = Blank /\ records[id] # n
  BY <1>2 DEF Known
<1> QED BY <1>3 DEF FreeCell

LEMMA UpsertStep ==
  ASSUME Inv, NEW id \in IDs, NEW a \in Addrs, Upsert(id, a)
  PROVE  Inv'
<1> DEFINE n == IF Known(id) THEN records[id] ELSE FreeCell(id)
           c == <<id, n>>
           r == IF Known(id) THEN UpsertRecord(heap[c], a) ELSE NewRecord(a)
           h == [heap EXCEPT ![c] = r]
           m == [records EXCEPT ![id] = n]
<1>1. heap \in [Cells -> RecordType] /\ records \in [IDs -> 0..2] /\ Retirements(heap)
  BY DEF Inv, PoolInv, TypeInv
<1>2. /\ Commit(h, m, {}) /\ drain' = NotifyDrains({c})
      /\ sel' = NotifySelection /\ lease' = lease
  BY DEF Upsert
<1>3. n \in 1..2
  BY <1>1, FreeCellFree DEF Known
<1>4. c \in Cells /\ c[1] = id /\ c[2] = n
  BY <1>3, CellFacts
<1>5. Known(id) => r \in RecordType /\ Benign(heap[c], r)
  <2>1. heap[c] \in RecordType /\ (heap[c].retirementDrain => heap[c].retired)
    BY <1>1, <1>4 DEF Retirements
  <2> HIDE DEF c
  <2> QED BY <2>1, UpsertBenign
<1>6. ~Known(id) => /\ r \in RecordType /\ r.leases = {} /\ r.waiters = 0
                    /\ ~r.retirementDrain
  BY StartTypes DEF NewRecord
<1>7. (Known(id) <=> records[id] # 0) /\ (Known(id) => n = records[id])
  BY DEF Known
<1> HIDE DEF n, r
<1>8. Updates(h, m, {c})
  <2>1. h \in [Cells -> RecordType] /\ m \in [IDs -> 0..2]
    <3>1. r \in RecordType
      BY <1>5, <1>6
    <3> HIDE DEF c
    <3> QED BY <1>1, <1>3, <1>4, <3>1
  <2>2. \A i \in IDs : records[i] # 0 => m[i] = records[i]
    BY <1>1, <1>7
  <2>3. ASSUME NEW d \in Cells, d # c
        PROVE  h[d] = heap[d] /\ (IsMapped(m, d) => IsMapped(records, d))
    <3>1. d[1] \in IDs /\ d = <<d[1], d[2]>>
      BY CellFacts
    <3>2. d[1] = id => d[2] # n
      BY <2>3, <3>1
    <3> QED BY <1>1, <2>3, <3>1, <3>2 DEF IsMapped
  <2>4. h[c] = r /\ IsMapped(m, c) /\ (IsMapped(records, c) => Known(id))
    BY <1>1, <1>3, <1>4, <1>7 DEF IsMapped
  <2>5. /\ Known(id) => Benign(heap[c], h[c])
        /\ ~Known(id) => h[c].leases = {} /\ h[c].waiters = 0 /\ ~h[c].retirementDrain
        /\ Known(id) => IsMapped(records, c)
    BY <1>4, <1>5, <1>6, <1>7, <2>4 DEF IsMapped
  <2> HIDE DEF c, h, m
  <2> QED BY <2>1, <2>2, <2>3, <2>4, <2>5 DEF Updates
<1>9. SelStep(h, m)
  BY <1>2 DEF SelStep
<1> HIDE DEF c, h, m
<1> QED BY <1>2, <1>8, <1>9, UpdateCommitStep

\* The map's record of a known backend.
LEMMA KnownCell ==
  ASSUME Inv, NEW id \in IDs, Known(id)
  PROVE  /\ CellOf(id) \in Cells /\ IsMapped(records, CellOf(id))
         /\ heap \in [Cells -> RecordType] /\ heap[CellOf(id)] \in RecordType
<1>1. heap \in [Cells -> RecordType] /\ records \in [IDs -> 0..2]
  BY DEF Inv, PoolInv, TypeInv
<1>2. records[id] \in 1..2
  BY <1>1 DEF Known
<1>3. CellOf(id) \in Cells /\ IsMapped(records, CellOf(id))
  BY <1>2, CellFacts DEF CellOf, IsMapped
<1> QED BY <1>1, <1>3

\* Records that are alike to an acquisition.
Alike(r, s) ==
  LET choosable(x) == ~x.retired /\ x.health = "healthy" /\ ~x.draining
  IN  /\ choosable(s) <=> choosable(r)
      /\ choosable(r) => s.quarantine = r.quarantine

LEMMA AlikeChoice ==
  ASSUME Inv, NEW h, \A c \in Cells : Alike(heap[c], h[c])
  PROVE  \A id \in IDs :
           /\ Selectable(h, records, id) <=> Selectable(heap, records, id)
           /\ Selectable(heap, records, id) => Left(h, records, id) = Left(heap, records, id)
<1> TAKE id \in IDs
<1>1. CASE records[id] = 0
  BY <1>1 DEF Selectable
<1>2. CASE records[id] # 0
  <2>1. Alike(heap[<<id, records[id]>>], h[<<id, records[id]>>])
    BY <1>2, KnownCell DEF Known, CellOf
  <2> QED BY <1>2, <2>1 DEF Selectable, Left, Alike
<1> QED BY <1>1, <1>2

LEMMA RemoveStep ==
  ASSUME Inv, NEW id \in IDs, Remove(id)
  PROVE  Inv'
<1> DEFINE c == CellOf(id)
           r == Retire(heap[c])
           h == [heap EXCEPT ![c] = r]
<1>1. /\ Known(id) /\ Commit(h, records, {c}) /\ drain' = NotifyDrains({c})
      /\ sel' = NotifySelection /\ lease' = lease
  BY DEF Remove, Current
<1>2. heap[c] \in RecordType
  BY <1>1, KnownCell
<1>3. r \in RecordType /\ Benign(heap[c], r) /\ r.draining
  BY <1>2, RetireBenign
<1> HIDE DEF r
<1>4. Updates(h, records, {c})
  BY <1>1, <1>3, OneUpdate
<1>5. SelStep(h, records)
  BY <1>1 DEF SelStep
<1> HIDE DEF c, h
<1> QED BY <1>1, <1>4, <1>5, UpdateCommitStep

LEMMA HealthBenign ==
  ASSUME NEW r \in RecordType, NEW v \in Healths
  PROVE  /\ [r EXCEPT !.health = v] \in RecordType
         /\ [r EXCEPT !.health = v].draining = r.draining
         /\ (r.retirementDrain => r.retired) => Benign(r, [r EXCEPT !.health = v])
<1> DEFINE s == [r EXCEPT !.health = v]
<1>1. s \in RecordType /\ r.revision \in Nat
  BY DEF RecordType
<1>2. /\ s.leases = r.leases /\ s.waiters = r.waiters /\ s.draining = r.draining
      /\ s.retirementDrain = r.retirementDrain /\ s.retired = r.retired
      /\ s.revision = r.revision /\ s.addr = r.addr
  BY DEF RecordType
<1> HIDE DEF s
<1>3. (r.retirementDrain => r.retired) => Benign(r, s)
  BY <1>1, <1>2 DEF Benign
<1> QED BY <1>1, <1>2, <1>3 DEF s

LEMMA SetHealthStep ==
  ASSUME Inv, NEW id \in IDs, NEW v \in Healths, SetHealth(id, v)
  PROVE  Inv'
<1> DEFINE c == CellOf(id)
           r == [heap[c] EXCEPT !.health = v]
<1>1. /\ Known(id) /\ heap' = [heap EXCEPT ![c] = r] /\ drain' = NotifyDrains({c})
      /\ sel' = NotifySelection /\ records' = records /\ lease' = lease /\ probe' = probe
  BY DEF SetHealth, Current
<1>2. c \in Cells /\ heap[c] \in RecordType
  BY <1>1, KnownCell
<1>3. heap[c].retirementDrain => heap[c].retired
  BY <1>2 DEF Inv, PoolInv, Retirements
<1>4. r \in RecordType /\ Benign(heap[c], r)
  BY <1>2, <1>3, HealthBenign
<1> HIDE DEF r
<1>5. Updates(heap', records, {c})
  BY <1>1, <1>4, OneUpdate
<1>6. SelStep(heap', records)
  BY <1>1 DEF SelStep
<1> QED BY <1>1, <1>5, <1>6, UpdateStep

LEMMA MarkPassiveFailureStep ==
  ASSUME Inv, NEW id \in IDs, MarkPassiveFailure(id)
  PROVE  Inv'
<1> DEFINE c == CellOf(id)
           r == [heap[c] EXCEPT !.quarantine = Window]
<1>1. /\ Known(id) /\ heap' = [heap EXCEPT ![c] = r] /\ drain' = NotifyDrains({c})
      /\ sel' = NotifySelection /\ records' = records /\ lease' = lease /\ probe' = probe
  BY DEF MarkPassiveFailure, Current
<1>2. c \in Cells /\ heap[c] \in RecordType
  BY <1>1, KnownCell
<1>3. heap[c].retirementDrain => heap[c].retired
  BY <1>2 DEF Inv, PoolInv, Retirements
<1>4. r \in RecordType /\ Benign(heap[c], r)
  <2> DEFINE s == heap[c]
  <2>1. s \in RecordType
    BY <1>2
  <2> HIDE DEF s
  <2>2. Window \in 0..Window /\ s.revision \in Nat
    BY <2>1, PoolAssumption DEF RecordType
  <2>3. [s EXCEPT !.quarantine = Window] \in RecordType
    BY <2>1, <2>2 DEF RecordType
  <2> DEFINE t == [s EXCEPT !.quarantine = Window]
  <2>4. /\ t.leases = s.leases /\ t.waiters = s.waiters /\ t.draining = s.draining
        /\ t.retirementDrain = s.retirementDrain /\ t.retired = s.retired
        /\ t.revision = s.revision /\ t.addr = s.addr
    BY <2>1 DEF RecordType
  <2> HIDE DEF t
  <2>5. (s.retirementDrain => s.retired) => Benign(s, t)
    BY <2>2, <2>4 DEF Benign
  <2> QED BY <1>3, <2>3, <2>5 DEF s, t
<1> HIDE DEF r
<1>5. Updates(heap', records, {c})
  BY <1>1, <1>4, OneUpdate
<1>6. SelStep(heap', records)
  BY <1>1 DEF SelStep
<1> QED BY <1>1, <1>5, <1>6, UpdateStep

LEMMA MarkDrainingStep ==
  ASSUME Inv, NEW id \in IDs, MarkDraining(id)
  PROVE  Inv'
<1> DEFINE c == CellOf(id)
           r == Drained(heap[c])
<1>1. /\ Known(id) /\ heap' = [heap EXCEPT ![c] = r]
      /\ records' = records /\ lease' = lease /\ probe' = probe
      /\ IF heap[c].draining THEN drain' = drain /\ sel' = sel
         ELSE drain' = NotifyDrains({c}) /\ sel' = NotifySelection
  BY DEF MarkDraining, Current
<1>2. c \in Cells /\ heap \in [Cells -> RecordType] /\ heap[c] \in RecordType
  BY <1>1, KnownCell
<1>3. r \in RecordType /\ Benign(heap[c], r) /\ r.draining
  BY <1>2, DrainedBenign
<1> HIDE DEF r
<1>4. Updates(heap', records, {}) /\ Updates(heap', records, {c})
  BY <1>1, <1>3, OneUpdate
<1>5. CASE heap[c].draining
  <2>1. drain' = NotifyDrains({})
    BY <1>1, <1>5, NotifyNobody DEF Inv, PoolInv, TypeInv
  <2>2. SelStep(heap', records)
    <3>1. heap'[c].draining /\ \A d \in Cells : d # c => heap'[d] = heap[d]
      BY <1>1, <1>2, <1>3
    <3>2. \A d \in Cells : Alike(heap[d], heap'[d])
      BY <1>5, <3>1 DEF Alike
    <3> QED BY <1>1, <1>5, <3>2, AlikeChoice DEF SelStep
  <2> QED BY <1>1, <1>4, <2>1, <2>2, UpdateStep
<1>6. CASE ~heap[c].draining
  <2>1. SelStep(heap', records)
    BY <1>1, <1>6 DEF SelStep
  <2> QED BY <1>1, <1>4, <1>6, <2>1, UpdateStep
<1> QED BY <1>5, <1>6

LEMMA ReplaceStep ==
  ASSUME Inv, NEW D \in SUBSET IDs, NEW S \in [D -> Addrs], NEW admitNew \in BOOLEAN,
         Replace(S, admitNew)
  PROVE  Inv'
<1> DEFINE old == {id \in D : Known(id)}
           gone == {id \in IDs \ D : Current(id)}
           m == [id \in IDs |-> IF id \in D \ old THEN FreeCell(id) ELSE records[id]]
           touched == {c \in Cells : m[c[1]] = c[2] /\ c[1] \in D \cup gone}
           h == [c \in Cells |->
                   CASE c \notin touched -> heap[c]
                     [] c \in touched /\ c[1] \in gone -> Retire(heap[c])
                     [] c \in touched /\ c[1] \in old -> ReplaceRecord(heap[c], S[c[1]], admitNew)
                     [] OTHER -> AdmitRecord(S[c[1]], admitNew)]
<1>1. /\ Commit(h, m, {c \in touched : c[1] \in gone}) /\ drain' = NotifyDrains(touched)
      /\ sel' = IF touched = {} THEN sel ELSE NotifySelection
      /\ lease' = lease
  <2>1. DOMAIN S = D
    OBVIOUS
  <2> QED BY <2>1 DEF Replace
<1>2. /\ heap \in [Cells -> RecordType] /\ records \in [IDs -> 0..2]
      /\ \A c \in Cells : heap[c].retirementDrain => heap[c].retired
  BY DEF Inv, PoolInv, TypeInv, Retirements
<1>3. /\ m \in [IDs -> 0..2]
      /\ \A id \in IDs : /\ records[id] # 0 => m[id] = records[id]
                         /\ id \in D => m[id] \in 1..2
                         /\ id \notin D => m[id] = records[id]
  <2> SUFFICES ASSUME NEW id \in IDs
               PROVE  /\ m[id] \in 0..2
                      /\ records[id] # 0 => m[id] = records[id]
                      /\ id \in D => m[id] \in 1..2
                      /\ id \notin D => m[id] = records[id]
    OBVIOUS
  <2>1. CASE id \in D \ old
    <3>1. FreeCell(id) \in 1..2 /\ records[id] = 0
      BY <2>1, FreeCellFree DEF Known
    <3> QED BY <2>1, <3>1
  <2>2. CASE id \notin D \ old
    <3>1. m[id] = records[id] /\ records[id] \in 0..2
      BY <1>2, <2>2
    <3>2. id \in D => records[id] # 0
      BY <2>2 DEF Known
    <3> QED BY <3>1, <3>2
  <2> QED BY <2>1, <2>2
<1>4. \A c \in Cells : /\ c[1] \in IDs /\ c[2] \in 1..2 /\ c[2] # 0
                       /\ c[1] \in gone => c[1] \notin D /\ records[c[1]] # 0
                       /\ c[1] \in old <=> (c[1] \in D /\ records[c[1]] # 0)
  BY CellFacts DEF Known, Current
<1>5. \A c \in Cells : c \in touched <=> (m[c[1]] = c[2] /\ c[1] \in D \cup gone)
  OBVIOUS
<1>6. \A c \in Cells :
        /\ c \notin touched => h[c] = heap[c]
        /\ c \in touched /\ c[1] \in gone => h[c] = Retire(heap[c])
        /\ c \in touched /\ c[1] \notin gone /\ c[1] \in old =>
             h[c] = ReplaceRecord(heap[c], S[c[1]], admitNew)
        /\ c \in touched /\ c[1] \notin gone /\ c[1] \notin old =>
             h[c] = AdmitRecord(S[c[1]], admitNew)
  <2> TAKE c \in Cells
  <2> HIDE DEF touched, gone, old
  <2>1. CASE c \notin touched
    BY <2>1
  <2>2. CASE c \in touched /\ c[1] \in gone
    <3>1. c[1] \notin old
      BY <2>2 DEF gone, old
    <3> QED BY <2>2, <3>1
  <2>3. CASE c \in touched /\ c[1] \notin gone /\ c[1] \in old
    BY <2>3
  <2>4. CASE c \in touched /\ c[1] \notin gone /\ c[1] \notin old
    BY <2>4
  <2> QED BY <2>1, <2>2, <2>3, <2>4
<1>7. h = [c \in Cells |-> h[c]]
  OBVIOUS
<1> HIDE DEF h, m, touched, gone, old
<1>8. ASSUME NEW c \in Cells
      PROVE  /\ h[c] \in RecordType
             /\ IsMapped(records, c) => h[c] = heap[c] \/ (Benign(heap[c], h[c]) /\ c \in touched)
             /\ ~IsMapped(records, c) /\ IsMapped(m, c) =>
                  h[c].leases = {} /\ h[c].waiters = 0 /\ ~h[c].retirementDrain
             /\ ~IsMapped(m, c) => h[c] = heap[c]
  <2>1. heap[c] \in RecordType /\ (heap[c].retirementDrain => heap[c].retired)
    BY <1>2
  <2>2. CASE c \notin touched
    <3>1. h[c] = heap[c]
      BY <1>6, <2>2
    <3>2. IsMapped(m, c) => IsMapped(records, c)
      BY <1>3, <1>4, <1>5, <2>2 DEF IsMapped
    <3> QED BY <2>1, <3>1, <3>2
  <2>3. CASE c \in touched /\ c[1] \in gone
    <3>1. h[c] \in RecordType /\ Benign(heap[c], h[c])
      BY <1>6, <2>1, <2>3, RetireBenign
    <3>2. IsMapped(m, c) /\ IsMapped(records, c)
      BY <1>3, <1>4, <1>5, <2>3 DEF IsMapped
    <3> QED BY <2>3, <3>1, <3>2
  <2>4. CASE c \in touched /\ c[1] \notin gone /\ c[1] \in old
    <3>1. S[c[1]] \in Addrs
      BY <1>4, <2>4
    <3>2. h[c] \in RecordType /\ Benign(heap[c], h[c])
      BY <1>6, <2>1, <2>4, <3>1, ReplaceBenign
    <3>3. IsMapped(m, c) /\ IsMapped(records, c)
      BY <1>3, <1>4, <1>5, <2>4 DEF IsMapped
    <3> QED BY <2>4, <3>2, <3>3
  <2>5. CASE c \in touched /\ c[1] \notin gone /\ c[1] \notin old
    <3>1. IsMapped(m, c) /\ ~IsMapped(records, c) /\ c[1] \in D
      BY <1>3, <1>4, <1>5, <2>5 DEF IsMapped
    <3> DEFINE r == NewRecord(S[c[1]])
    <3>2. /\ r \in RecordType /\ r.leases = {} /\ r.waiters = 0
          /\ r.retirementDrain = FALSE
      BY <3>1, StartTypes DEF NewRecord
    <3>3. h[c] = IF admitNew THEN [r EXCEPT !.health = "healthy"] ELSE r
      BY <1>6, <2>5 DEF AdmitRecord
    <3> HIDE DEF r
    <3>4. h[c] \in RecordType /\ h[c].leases = {} /\ h[c].waiters = 0 /\ ~h[c].retirementDrain
      BY <3>2, <3>3 DEF RecordType, Healths
    <3> QED BY <3>1, <3>4
  <2> QED BY <2>2, <2>3, <2>4, <2>5
<1>9. h \in [Cells -> RecordType]
  BY <1>7, <1>8
<1>10. Updates(h, m, touched)
  BY <1>3, <1>8, <1>9 DEF Updates
<1>11. SelStep(h, m)
  <2>1. CASE touched # {}
    BY <1>1, <2>1 DEF SelStep
  <2>2. CASE touched = {}
    <3>1. D = {}
      <4> SUFFICES ASSUME NEW id \in D PROVE FALSE
        OBVIOUS
      <4>1. id \in IDs /\ m[id] \in 1..2
        BY <1>3
      <4>2. <<id, m[id]>> \in Cells /\ <<id, m[id]>>[1] = id /\ <<id, m[id]>>[2] = m[id]
        BY <4>1, CellFacts
      <4> QED BY <1>5, <2>2, <4>2
    <3>2. \A id \in IDs : m[id] = records[id]
      BY <1>3, <3>1
    <3>3. \A c \in Cells : h[c] = heap[c]
      BY <1>6, <2>2
    <3>4. \A c \in Cells : Alike(heap[c], h[c])
      BY <3>3 DEF Alike
    <3>5. \A id \in IDs :
           /\ Selectable(h, records, id) <=> Selectable(heap, records, id)
           /\ Selectable(heap, records, id) => Left(h, records, id) = Left(heap, records, id)
      BY <3>4, AlikeChoice
    <3> QED BY <1>1, <2>2, <3>2, <3>5 DEF SelStep, Selectable, Left
  <2> QED BY <2>1, <2>2
<1> QED BY <1>1, <1>10, <1>11, UpdateCommitStep

LEMMA UndrainStep ==
  ASSUME Inv, NEW id \in IDs, Undrain(id)
  PROVE  Inv'
<1> DEFINE c == CellOf(id)
           r == [heap[c] EXCEPT !.draining = FALSE, !.retirementDrain = FALSE]
           dr == NotifyDrains({c})
<1>1. /\ Known(id) /\ sel' = NotifySelection
      /\ heap' = [heap EXCEPT ![c] = r]
      /\ drain' = [q \in Requests |-> [dr[q] EXCEPT !.undrained = @ \/ c \in drain[q].pins]]
      /\ records' = records /\ lease' = lease /\ probe' = probe
  BY DEF Undrain, Current
<1>2. /\ c \in Cells /\ IsMapped(records, c)
      /\ heap \in [Cells -> RecordType] /\ heap[c] \in RecordType
  BY <1>1, KnownCell
<1>3. /\ drain \in [Requests -> DrainType] /\ records \in [IDs -> 0..2]
      /\ lease \in [Leases -> Cells \cup {NoCell}] /\ probe \in [IDs -> ProbeType]
  BY DEF Inv, PoolInv, TypeInv
<1>4. /\ r \in RecordType /\ r.leases = heap[c].leases /\ r.waiters = heap[c].waiters
      /\ r.retirementDrain = FALSE /\ r.revision = heap[c].revision /\ r.addr = heap[c].addr
  BY <1>2 DEF RecordType
<1> HIDE DEF r
<1>5. /\ heap' \in [Cells -> RecordType] /\ heap'[c] = r
      /\ \A d \in Cells : d # c => heap'[d] = heap[d]
  BY <1>1, <1>2, <1>4
<1>6. /\ drain' \in [Requests -> DrainType]
      /\ \A q \in Requests :
           /\ drain'[q].st = drain[q].st /\ drain'[q].pins = drain[q].pins
           /\ drain'[q].todo = drain[q].todo /\ drain'[q].on = drain[q].on
           /\ drain'[q].status = drain[q].status
           /\ drain[q].woken => drain'[q].woken
           /\ drain[q].on = c => drain'[q].woken
           /\ drain[q].undrained => drain'[q].undrained
           /\ c \in drain[q].pins => drain'[q].undrained
  <2> SUFFICES ASSUME NEW q \in Requests
               PROVE  LET d == drain[q]
                          e == [dr[q] EXCEPT !.undrained = dr[q].undrained \/ c \in d.pins]
                      IN  /\ e \in DrainType
                          /\ e.st = d.st /\ e.pins = d.pins /\ e.todo = d.todo /\ e.on = d.on
                          /\ e.status = d.status
                          /\ d.woken => e.woken
                          /\ d.on = c => e.woken
                          /\ d.undrained => e.undrained
                          /\ c \in d.pins => e.undrained
    BY <1>1
  <2> DEFINE d == drain[q]
             b == dr[q]
             x == b.undrained \/ c \in d.pins
             e == [b EXCEPT !.undrained = x]
  <2>1. /\ b \in DrainType
        /\ b.st = d.st /\ b.pins = d.pins /\ b.todo = d.todo /\ b.on = d.on
        /\ b.status = d.status /\ b.undrained = d.undrained
        /\ d.woken => b.woken
        /\ d.on \in {c} => b.woken
    BY <1>3, NotifyFacts
  <2>2. x \in BOOLEAN
    BY <2>1 DEF DrainType
  <2>3. (d.undrained => x) /\ (c \in d.pins => x)
    BY <2>1
  <2> HIDE DEF b, x
  <2>4. /\ e \in DrainType /\ e.st = b.st /\ e.pins = b.pins /\ e.todo = b.todo
        /\ e.on = b.on /\ e.status = b.status /\ e.woken = b.woken /\ e.undrained = x
    BY <2>1, <2>2 DEF DrainType
  <2> QED BY <2>1, <2>3, <2>4 DEF b, x
<1> HIDE DEF dr, c
<1>7. \A d \in Cells : /\ heap'[d].leases = heap[d].leases /\ heap'[d].waiters = heap[d].waiters
                       /\ heap'[d].revision = heap[d].revision /\ heap'[d].addr = heap[d].addr
                       /\ heap'[d].retirementDrain => heap'[d].retired
  BY <1>4, <1>5 DEF Inv, PoolInv, Retirements, c
<1>8. \A d \in Cells : Pinners(drain', d) = Pinners(drain, d)
  BY <1>6 DEF Pinners
<1>9. Accounted(heap', records', lease', drain')
  <2>1. \A d \in Cells : ~IsMapped(records, d) => heap'[d] = heap[d]
    BY <1>2, <1>5
  <2>2. Accounted(heap, records, lease, drain)
    BY DEF Inv, PoolInv
  <2>3. \A d \in Cells :
          /\ heap'[d].leases = Holders(lease, d)
          /\ heap'[d].waiters = Cardinality(Pinners(drain', d))
    BY <1>7, <1>8, <2>2 DEF Accounted
  <2>4. \A d \in Cells :
          ~IsMapped(records, d) =>
            Holders(lease, d) = {} /\ Pinners(drain', d) = {} /\ heap'[d] = Blank
    BY <1>8, <2>1, <2>2 DEF Accounted
  <2> QED BY <1>1, <2>3, <2>4 DEF Accounted
<1>10. Drains(heap', drain')
  <2> SUFFICES ASSUME NEW q \in Requests
               PROVE  Established(heap', drain'[q]) /\ Asleep(heap', drain'[q])
    BY DEF Drains
  <2>1. Established(heap, drain[q]) /\ Asleep(heap, drain[q])
    BY DEF Inv, PoolInv, Drains
  <2>2. drain[q].pins \subseteq Cells
    BY <1>3 DEF DrainType
  <2>3. Established(heap', drain'[q])
    BY <1>5, <1>6, <2>1, <2>2, SMTT(20) DEF Established
  <2>4. Asleep(heap', drain'[q])
    BY <1>5, <1>6, <2>1, <2>2, SMTT(20) DEF Asleep
  <2> QED BY <2>3, <2>4
<1>11. Probes(heap', records', probe')
  <2> SUFFICES ASSUME NEW i \in IDs, probe[i].st = "flying", ~probe[i].dropped
               PROVE  records[i] # 0 /\ Fresh(heap'[<<i, records[i]>>], probe[i])
    BY <1>1 DEF Probes
  <2>1. records[i] # 0 /\ Fresh(heap[<<i, records[i]>>], probe[i])
    BY DEF Inv, PoolInv, Probes
  <2>2. <<i, records[i]>> \in Cells
    BY <2>1, KnownCell DEF Known, CellOf
  <2> QED BY <1>7, <2>1, <2>2 DEF Fresh
<1>12. PoolInv(heap', records', lease', drain', probe')
  BY <1>1, <1>3, <1>5, <1>6, <1>7, <1>9, <1>10, <1>11 DEF PoolInv, TypeInv, Retirements
<1>13. SelInv(heap', records', lease', sel')
  BY <1>1, SelNotified DEF Inv, SelInv
<1> QED BY <1>12, <1>13 DEF Inv
=============================================================================
