-------------------------- MODULE PoolDrainProofs ---------------------------
(***************************************************************************)
(* The invariant of PoolRecordProofs is kept by the steps of drain         *)
(* requests and by the taking and the giving back of leases.               *)
(***************************************************************************)
EXTENDS PoolRecordProofs

(***************************************************************************)
(* Drain requests.                                                         *)
(***************************************************************************)
\* A request q pins the cells P, which drain by hand from now on.
Pins(q, P, C) ==
  /\ heap' \in [Cells -> RecordType]
  /\ \A c \in Cells \ P : heap'[c] = heap[c]
  /\ \A c \in P :
       /\ heap'[c].leases = heap[c].leases /\ heap'[c].waiters = heap[c].waiters + 1
       /\ heap'[c].draining /\ ~heap'[c].retirementDrain
       /\ heap'[c].revision = heap[c].revision /\ heap'[c].addr = heap[c].addr
  /\ drain' = [NotifyDrains(C) EXCEPT
                 ![q] = [NoDrain EXCEPT !.st = "checking", !.pins = P, !.todo = P]]
  /\ records' = records /\ lease' = lease /\ probe' = probe

LEMMA PinStep ==
  ASSUME Inv, NEW q \in Requests, drain[q].st = "none", NEW C, NEW P \in SUBSET Cells,
         \A c \in P : IsMapped(records, c), Pins(q, P, C), SelStep(heap', records)
  PROVE  Inv'
<1> DEFINE new == [NoDrain EXCEPT !.st = "checking", !.pins = P, !.todo = P]
           dr == NotifyDrains(C)
<1>1. /\ heap \in [Cells -> RecordType] /\ records \in [IDs -> 0..2]
      /\ lease \in [Leases -> Cells \cup {NoCell}] /\ drain \in [Requests -> DrainType]
      /\ probe \in [IDs -> ProbeType]
  BY DEF Inv, PoolInv, TypeInv
<1>2. /\ new \in DrainType /\ new.st = "checking" /\ new.pins = P /\ new.todo = P
      /\ new.undrained = FALSE
  BY StartTypes DEF NoDrain, DrainType
<1>3. /\ dr \in [Requests -> DrainType]
      /\ \A p \in Requests :
           /\ dr[p].st = drain[p].st /\ dr[p].pins = drain[p].pins
           /\ dr[p].todo = drain[p].todo /\ dr[p].on = drain[p].on
           /\ dr[p].status = drain[p].status /\ dr[p].undrained = drain[p].undrained
           /\ drain[p].woken => dr[p].woken
  BY <1>1, NotifyFacts
<1>4. drain' = [dr EXCEPT ![q] = new]
  BY DEF Pins
<1> HIDE DEF new, dr
<1>5. /\ drain' \in [Requests -> DrainType] /\ drain'[q] = new
      /\ \A p \in Requests : p # q => drain'[p] = dr[p]
  BY <1>2, <1>3, <1>4
<1>6. drain[q].pins = {}
  BY DEF Inv, PoolInv, Drains, Established
<1>7. \A c \in Cells :
        Pinners(drain', c) = IF c \in P THEN Pinners(drain, c) \cup {q} ELSE Pinners(drain, c)
  BY <1>2, <1>3, <1>5, <1>6 DEF Pinners
<1>8. \A c \in P : Cardinality(Pinners(drain', c)) = Cardinality(Pinners(drain, c)) + 1
  <2> TAKE c \in P
  <2>1. q \notin Pinners(drain, c)
    BY <1>6 DEF Pinners
  <2>2. Cardinality(Pinners(drain, c) \cup {q}) = Cardinality(Pinners(drain, c)) + 1
    BY <2>1, PinnersFinite, FS_AddElement
  <2> QED BY <1>7, <2>2
<1>9. Accounted(heap', records', lease', drain')
  <2> SUFFICES ASSUME NEW c \in Cells
               PROVE  /\ heap'[c].leases = Holders(lease, c)
                      /\ heap'[c].waiters = Cardinality(Pinners(drain', c))
                      /\ ~IsMapped(records, c) =>
                           Holders(lease, c) = {} /\ Pinners(drain', c) = {} /\ heap'[c] = Blank
    BY DEF Accounted, Pins
  <2>1. /\ heap[c].leases = Holders(lease, c)
        /\ heap[c].waiters = Cardinality(Pinners(drain, c))
        /\ ~IsMapped(records, c) =>
             Holders(lease, c) = {} /\ Pinners(drain, c) = {} /\ heap[c] = Blank
    BY DEF Inv, PoolInv, Accounted
  <2>2. CASE c \in P
    BY <1>8, <2>1, <2>2 DEF Pins
  <2>3. CASE c \notin P
    BY <1>7, <2>1, <2>3 DEF Pins
  <2> QED BY <2>2, <2>3
<1>10. Retirements(heap')
  BY DEF Inv, PoolInv, Retirements, Pins
<1>11. Drains(heap', drain')
  <2> SUFFICES ASSUME NEW p \in Requests
               PROVE  Established(heap', drain'[p]) /\ Asleep(heap', drain'[p])
    BY DEF Drains
  <2>1. CASE p = q
    BY <1>2, <1>5, <2>1 DEF Established, Asleep, Pins
  <2>2. CASE p # q
    <3>1. Established(heap, drain[p]) /\ Asleep(heap, drain[p])
      BY DEF Inv, PoolInv, Drains
    <3>2. \A c \in drain[p].pins :
            /\ heap'[c].leases = heap[c].leases
            /\ heap[c].draining => heap'[c].draining
            /\ ~heap[c].retirementDrain => ~heap'[c].retirementDrain
      <4>1. drain[p].pins \subseteq Cells
        BY <1>1 DEF DrainType
      <4> QED BY <4>1 DEF Pins
    <3>3. Established(heap', drain'[p])
      BY <1>3, <1>5, <2>2, <3>1, <3>2 DEF Established
    <3>4. Asleep(heap', drain'[p])
      <4>1. /\ drain'[p].st = drain[p].st /\ drain'[p].pins = drain[p].pins
            /\ drain'[p].on = drain[p].on /\ (drain[p].woken => drain'[p].woken)
        BY <1>3, <1>5, <2>2
      <4> QED BY <3>1, <3>2, <4>1 DEF Asleep
    <3> QED BY <3>3, <3>4
  <2> QED BY <2>1, <2>2
<1>12. Probes(heap', records', probe')
  <2> SUFFICES ASSUME NEW i \in IDs, probe[i].st = "flying", ~probe[i].dropped
               PROVE  records[i] # 0 /\ Fresh(heap'[<<i, records[i]>>], probe[i])
    BY DEF Probes, Pins
  <2>1. records[i] # 0 /\ Fresh(heap[<<i, records[i]>>], probe[i])
    BY DEF Inv, PoolInv, Probes
  <2>2. <<i, records[i]>> \in Cells
    BY <2>1, KnownCell DEF Known, CellOf
  <2> QED BY <2>1, <2>2 DEF Fresh, Pins
<1>13. TypeInv(heap', records', lease', drain', probe')
  BY <1>1, <1>5 DEF TypeInv, Pins
<1>14. SelInv(heap', records', lease', sel')
  BY SelStepInv DEF Pins
<1> QED BY <1>9, <1>10, <1>11, <1>12, <1>13, <1>14 DEF Inv, PoolInv

LEMMA BeginRetainedStep ==
  ASSUME Inv, NEW q \in Requests, NEW X \in SUBSET IDs, BeginRetained(q, X)
  PROVE  Inv'
<1> DEFINE P == {CellOf(id) : id \in X}
           fresh == {c \in P : ~heap[c].draining}
<1>1. /\ drain[q].st = "none" /\ \A id \in X : Known(id)
      /\ heap' = [c \in Cells |->
                    IF c \in P THEN [Drained(heap[c]) EXCEPT !.waiters = @ + 1] ELSE heap[c]]
      /\ drain' = [NotifyDrains(fresh) EXCEPT
                     ![q] = [NoDrain EXCEPT !.st = "checking", !.pins = P, !.todo = P]]
      /\ sel' = IF fresh = {} THEN sel ELSE NotifySelection
      /\ records' = records /\ lease' = lease /\ probe' = probe
  BY DEF BeginRetained
<1>2. heap \in [Cells -> RecordType]
  BY DEF Inv, PoolInv, TypeInv
<1>3. P \in SUBSET Cells /\ \A c \in P : IsMapped(records, c)
  BY <1>1, KnownCell
<1>4. \A c \in P : c \in fresh <=> ~heap[c].draining
  OBVIOUS
<1> HIDE DEF P, fresh
<1>5. ASSUME NEW c \in Cells
      PROVE  /\ heap'[c] \in RecordType
             /\ c \notin P => heap'[c] = heap[c]
             /\ c \in P =>
                  /\ heap'[c].leases = heap[c].leases /\ heap'[c].waiters = heap[c].waiters + 1
                  /\ heap'[c].draining /\ ~heap'[c].retirementDrain
                  /\ heap'[c].revision = heap[c].revision /\ heap'[c].addr = heap[c].addr
  <2>1. CASE c \notin P
    BY <1>1, <1>2, <2>1
  <2>2. CASE c \in P
    <3> DEFINE r == heap[c]
               s == Drained(r)
               n == s.waiters + 1
    <3>1. r \in RecordType
      BY <1>2
    <3>2. /\ s \in RecordType /\ s.leases = r.leases /\ s.waiters = r.waiters
          /\ s.draining = TRUE /\ s.retirementDrain = FALSE
          /\ s.revision = r.revision /\ s.addr = r.addr
      BY <3>1 DEF Drained, RecordType
    <3>3. n \in Nat /\ heap'[c] = [s EXCEPT !.waiters = n]
      BY <1>1, <2>2, <3>2 DEF RecordType
    <3> HIDE DEF r, s, n
    <3>4. /\ heap'[c] \in RecordType /\ heap'[c].leases = s.leases /\ heap'[c].waiters = n
          /\ heap'[c].draining = s.draining /\ heap'[c].retirementDrain = s.retirementDrain
          /\ heap'[c].revision = s.revision /\ heap'[c].addr = s.addr
      BY <3>2, <3>3 DEF RecordType
    <3> QED BY <2>2, <3>2, <3>4 DEF r, n
  <2> QED BY <2>1, <2>2
<1>6. Pins(q, P, fresh)
  BY <1>1, <1>3, <1>5 DEF Pins
<1>7. SelStep(heap', records)
  <2>1. CASE fresh # {}
    BY <1>1, <2>1 DEF SelStep
  <2>2. CASE fresh = {}
    <3>1. \A c \in P : heap[c].draining
      BY <1>4, <2>2
    <3>2. \A c \in Cells : Alike(heap[c], heap'[c])
      BY <1>5, <3>1 DEF Alike
    <3> QED BY <1>1, <2>2, <3>2, AlikeChoice DEF SelStep
  <2> QED BY <2>1, <2>2
<1> QED BY <1>1, <1>3, <1>6, <1>7, PinStep

LEMMA WaitDrainedStep ==
  ASSUME Inv, NEW q \in Requests, NEW id \in IDs, WaitDrained(q, id)
  PROVE  Inv'
<1> DEFINE c == CellOf(id)
           r == heap[c]
           n == r.waiters + 1
           s == [r EXCEPT !.waiters = n]
<1>1. /\ drain[q].st = "none" /\ Known(id) /\ ~r.retired /\ r.draining
      /\ heap' = [heap EXCEPT ![c] = s]
      /\ drain' = [drain EXCEPT ![q] = [NoDrain EXCEPT !.st = "checking", !.pins = {c}, !.todo = {c}]]
      /\ records' = records /\ lease' = lease /\ probe' = probe /\ sel' = sel
  BY DEF WaitDrained, Current
<1>2. c \in Cells /\ IsMapped(records, c) /\ heap \in [Cells -> RecordType] /\ r \in RecordType
  BY <1>1, KnownCell
<1>3. ~r.retirementDrain
  BY <1>1, <1>2 DEF Inv, PoolInv, Retirements
<1>4. drain' = [NotifyDrains({}) EXCEPT
                  ![q] = [NoDrain EXCEPT !.st = "checking", !.pins = {c}, !.todo = {c}]]
  BY <1>1, NotifyNobody DEF Inv, PoolInv, TypeInv
<1>5. n \in Nat
  BY <1>2 DEF RecordType
<1> HIDE DEF n
<1>6. /\ s \in RecordType /\ s.leases = r.leases /\ s.waiters = n
      /\ s.draining = r.draining /\ s.retirementDrain = r.retirementDrain
      /\ s.revision = r.revision /\ s.addr = r.addr
  BY <1>2, <1>5 DEF RecordType
<1> HIDE DEF s, c
<1>7. /\ heap' \in [Cells -> RecordType] /\ heap'[c] = s
      /\ \A d \in Cells : d # c => heap'[d] = heap[d]
  BY <1>1, <1>2, <1>6
<1>8. Pins(q, {c}, {})
  BY <1>1, <1>3, <1>4, <1>6, <1>7 DEF Pins, n
<1>9. \A d \in Cells : Alike(heap[d], heap'[d])
  BY <1>1, <1>6, <1>7 DEF Alike
<1>10. SelStep(heap', records)
  BY <1>1, <1>9, AlikeChoice DEF SelStep
<1>11. {c} \in SUBSET Cells /\ \A d \in {c} : IsMapped(records, d)
  BY <1>2
<1> QED BY <1>1, <1>8, <1>10, <1>11, PinStep

\* A turn of Wait: only the request changes, and it keeps its pins.
LEMMA WaitTurn ==
  ASSUME Inv, NEW q \in Requests, NEW e \in DrainType, e.pins = drain[q].pins,
         Established(heap, e), Asleep(heap, e), drain' = [drain EXCEPT ![q] = e],
         UNCHANGED <<records, heap, lease, sel, probe, calls>>
  PROVE  Inv'
<1>1. drain \in [Requests -> DrainType]
  BY DEF Inv, PoolInv, TypeInv
<1>2. /\ drain' \in [Requests -> DrainType] /\ drain'[q] = e
      /\ \A p \in Requests : p # q => drain'[p] = drain[p]
  BY <1>1
<1>3. \A c \in Cells : Pinners(drain', c) = Pinners(drain, c)
  BY <1>2 DEF Pinners
<1>4. Drains(heap, drain')
  BY <1>2 DEF Inv, PoolInv, Drains
<1>5. Accounted(heap, records, lease, drain')
  BY <1>3 DEF Inv, PoolInv, Accounted
<1> QED BY <1>2, <1>4, <1>5 DEF Inv, PoolInv, TypeInv

LEMMA DrainCheckStep ==
  ASSUME Inv, NEW q \in Requests, DrainCheck(q)
  PROVE  Inv'
<1> DEFINE d == drain[q]
<1>1. d \in DrainType /\ Established(heap, d) /\ d.st = "checking"
  BY DEF Inv, PoolInv, TypeInv, Drains, DrainCheck
<1>2. UNCHANGED <<records, heap, lease, sel, probe, calls>>
  BY DEF DrainCheck
<1>3. CASE d.todo = {}
  <2> DEFINE e == [d EXCEPT !.st = "answered"]
  <2>1. drain' = [drain EXCEPT ![q] = e]
    BY <1>3 DEF DrainCheck
  <2>2. /\ e \in DrainType /\ e.st = "answered" /\ e.pins = d.pins /\ e.todo = d.todo
        /\ e.status = d.status /\ e.undrained = d.undrained
    BY <1>1 DEF DrainType
  <2> HIDE DEF e
  <2>3. Established(heap, e) /\ Asleep(heap, e)
    BY <1>1, <2>2 DEF Established, Asleep
  <2> QED BY <1>2, <2>1, <2>2, <2>3, WaitTurn
<1>4. CASE d.todo # {}
  <2>1. PICK c \in d.todo :
          drain' = [drain EXCEPT ![q] =
              IF ~heap[c].draining
              THEN [d EXCEPT !.st = "answered", !.status = "failed"]
              ELSE IF heap[c].leases = {}
              THEN [d EXCEPT !.todo = d.todo \ {c}]
              ELSE IF drain[q].expired
              THEN [d EXCEPT !.todo = d.todo \ {c}, !.status = "timeout"]
              ELSE [d EXCEPT !.st = "blocked", !.on = c, !.woken = FALSE]]
    BY <1>4 DEF DrainCheck
  <2>2. c \in Cells /\ c \in d.pins
    BY <1>1 DEF DrainType, Established
  <2>3. CASE ~heap[c].draining
    <3> DEFINE e == [d EXCEPT !.st = "answered", !.status = "failed"]
    <3>1. drain' = [drain EXCEPT ![q] = e]
      BY <2>1, <2>3
    <3>2. /\ e \in DrainType /\ e.st = "answered" /\ e.pins = d.pins /\ e.todo = d.todo
          /\ e.status = "failed" /\ e.undrained = d.undrained
      BY <1>1 DEF DrainType
    <3> HIDE DEF e
    <3>3. Established(heap, e) /\ Asleep(heap, e)
      BY <1>1, <3>2 DEF Established, Asleep
    <3> QED BY <1>2, <3>1, <3>2, <3>3, WaitTurn
  <2>4. CASE heap[c].draining /\ heap[c].leases = {}
    <3> DEFINE e == [d EXCEPT !.todo = d.todo \ {c}]
    <3>1. drain' = [drain EXCEPT ![q] = e]
      BY <2>1, <2>4
    <3>2. /\ e \in DrainType /\ e.st = d.st /\ e.pins = d.pins /\ e.todo = d.todo \ {c}
          /\ e.status = d.status /\ e.undrained = d.undrained
      BY <1>1 DEF DrainType
    <3> HIDE DEF e
    <3>3. Established(heap, e) /\ Asleep(heap, e)
      BY <1>1, <2>4, <3>2 DEF Established, Asleep
    <3> QED BY <1>2, <3>1, <3>2, <3>3, WaitTurn
  <2>5. CASE heap[c].draining /\ heap[c].leases # {} /\ d.expired
    <3> DEFINE e == [d EXCEPT !.todo = d.todo \ {c}, !.status = "timeout"]
    <3>1. drain' = [drain EXCEPT ![q] = e]
      BY <2>1, <2>5
    <3>2. /\ e \in DrainType /\ e.st = d.st /\ e.pins = d.pins /\ e.todo = d.todo \ {c}
          /\ e.status = "timeout" /\ e.undrained = d.undrained
      BY <1>1 DEF DrainType
    <3> HIDE DEF e
    <3>3. Established(heap, e) /\ Asleep(heap, e)
      BY <1>1, <3>2 DEF Established, Asleep
    <3> QED BY <1>2, <3>1, <3>2, <3>3, WaitTurn
  <2>6. CASE heap[c].draining /\ heap[c].leases # {} /\ ~d.expired
    <3> DEFINE e == [d EXCEPT !.st = "blocked", !.on = c, !.woken = FALSE]
    <3>1. drain' = [drain EXCEPT ![q] = e]
      BY <2>1, <2>6
    <3>2. /\ e \in DrainType /\ e.st = "blocked" /\ e.pins = d.pins /\ e.todo = d.todo
          /\ e.status = d.status /\ e.undrained = d.undrained /\ e.on = c
      BY <1>1, <2>2 DEF DrainType
    <3> HIDE DEF e
    <3>3. Established(heap, e) /\ Asleep(heap, e)
      BY <1>1, <2>2, <2>6, <3>2 DEF Established, Asleep
    <3> QED BY <1>2, <3>1, <3>2, <3>3, WaitTurn
  <2> QED BY <2>3, <2>4, <2>5, <2>6
<1> QED BY <1>3, <1>4

LEMMA DrainResumeStep ==
  ASSUME Inv, NEW q \in Requests, DrainWake(q) \/ DrainTimeout(q)
  PROVE  Inv'
<1> DEFINE d == drain[q]
<1>1. d \in DrainType /\ Established(heap, d) /\ d.st = "blocked"
  BY DEF Inv, PoolInv, TypeInv, Drains, DrainWake, DrainTimeout
<1>2. UNCHANGED <<records, heap, lease, sel, probe, calls>>
  BY DEF DrainWake, DrainTimeout
<1>3. CASE DrainWake(q)
  <2> DEFINE e == [d EXCEPT !.st = "checking", !.on = NoCell, !.woken = FALSE]
  <2>1. drain' = [drain EXCEPT ![q] = e]
    BY <1>3 DEF DrainWake
  <2>2. /\ e \in DrainType /\ e.st = "checking" /\ e.pins = d.pins /\ e.todo = d.todo
        /\ e.status = d.status /\ e.undrained = d.undrained
    BY <1>1 DEF DrainType
  <2> HIDE DEF e
  <2>3. Established(heap, e) /\ Asleep(heap, e)
    BY <1>1, <2>2 DEF Established, Asleep
  <2> QED BY <1>2, <2>1, <2>2, <2>3, WaitTurn
<1>4. CASE DrainTimeout(q)
  <2> DEFINE t == d.todo \ {d.on}
             e == [d EXCEPT !.st = "checking", !.expired = TRUE, !.status = "timeout",
                            !.todo = t, !.on = NoCell, !.woken = FALSE]
  <2>1. drain' = [drain EXCEPT ![q] = e]
    BY <1>4 DEF DrainTimeout
  <2>2. /\ e \in DrainType /\ e.st = "checking" /\ e.pins = d.pins /\ e.todo = t
        /\ e.status = "timeout" /\ e.undrained = d.undrained
    BY <1>1 DEF DrainType
  <2> HIDE DEF e
  <2>3. Established(heap, e) /\ Asleep(heap, e)
    BY <1>1, <2>2 DEF Established, Asleep
  <2> QED BY <1>2, <2>1, <2>2, <2>3, WaitTurn
<1> QED BY <1>3, <1>4

LEMMA DrainCloseStep ==
  ASSUME Inv, NEW q \in Requests, DrainClose(q)
  PROVE  Inv'
<1> DEFINE P == drain[q].pins
           h == [c \in Cells |-> IF c \in P THEN [heap[c] EXCEPT !.waiters = @ - 1] ELSE heap[c]]
<1>1. /\ Commit(h, records, P) /\ drain' = [drain EXCEPT ![q] = NoDrain]
      /\ lease' = lease /\ sel' = sel
  BY DEF DrainClose
<1>2. /\ heap \in [Cells -> RecordType] /\ records \in [IDs -> 0..2]
      /\ lease \in [Leases -> Cells \cup {NoCell}] /\ drain \in [Requests -> DrainType]
      /\ probe \in [IDs -> ProbeType]
  BY DEF Inv, PoolInv, TypeInv
<1>3. /\ drain' \in [Requests -> DrainType] /\ drain'[q] = NoDrain
      /\ \A p \in Requests : p # q => drain'[p] = drain[p]
  BY <1>1, <1>2, StartTypes
<1>4. NoDrain.pins = {} /\ NoDrain.todo = {} /\ NoDrain.st = "none"
  BY DEF NoDrain
<1>5. \A c \in Cells :
        Pinners(drain', c) = IF c \in P THEN Pinners(drain, c) \ {q} ELSE Pinners(drain, c)
  BY <1>3, <1>4 DEF Pinners
<1>6. \A c \in Cells : /\ heap[c].leases = Holders(lease, c)
                       /\ heap[c].waiters = Cardinality(Pinners(drain, c))
                       /\ ~IsMapped(records, c) => /\ Holders(lease, c) = {}
                                                   /\ Pinners(drain, c) = {} /\ heap[c] = Blank
  BY DEF Inv, PoolInv, Accounted
<1>7. ASSUME NEW c \in Cells, c \in P
      PROVE  /\ heap[c].waiters - 1 \in Nat
             /\ heap[c].waiters - 1 = Cardinality(Pinners(drain', c))
             /\ IsMapped(records, c)
  <2>1. q \in Pinners(drain, c)
    BY <1>7 DEF Pinners
  <2>2. Cardinality(Pinners(drain, c) \ {q}) = Cardinality(Pinners(drain, c)) - 1
    BY <2>1, PinnersFinite, FS_RemoveElement
  <2>3. Cardinality(Pinners(drain', c)) \in Nat
    BY PinnersFinite
  <2> QED BY <1>5, <1>6, <1>7, <2>1, <2>2, <2>3
<1> HIDE DEF P
<1>8. ASSUME NEW c \in Cells
      PROVE  /\ h[c] \in RecordType /\ h[c].leases = heap[c].leases
             /\ h[c].draining = heap[c].draining /\ h[c].retired = heap[c].retired
             /\ h[c].retirementDrain = heap[c].retirementDrain
             /\ h[c].revision = heap[c].revision /\ h[c].addr = heap[c].addr
             /\ h[c].health = heap[c].health /\ h[c].quarantine = heap[c].quarantine
             /\ h[c].waiters = Cardinality(Pinners(drain', c))
             /\ ~IsMapped(records, c) => h[c] = heap[c]
  <2>1. CASE c \notin P
    BY <1>2, <1>5, <1>6, <2>1
  <2>2. CASE c \in P
    <3> DEFINE r == heap[c]
               n == r.waiters - 1
    <3>1. r \in RecordType /\ n \in Nat /\ h[c] = [r EXCEPT !.waiters = n]
      BY <1>2, <1>7, <2>2
    <3>2. n = Cardinality(Pinners(drain', c)) /\ IsMapped(records, c)
      BY <1>7, <2>2
    <3> HIDE DEF r, n, h
    <3>3. /\ h[c] \in RecordType /\ h[c].leases = r.leases
          /\ h[c].draining = r.draining /\ h[c].retired = r.retired
          /\ h[c].retirementDrain = r.retirementDrain
          /\ h[c].revision = r.revision /\ h[c].addr = r.addr
          /\ h[c].health = r.health /\ h[c].quarantine = r.quarantine
          /\ h[c].waiters = n
      BY <3>1 DEF RecordType
    <3> QED BY <3>2, <3>3 DEF r
  <2> QED BY <2>1, <2>2
<1>9. h \in [Cells -> RecordType]
  BY <1>8
<1> HIDE DEF h
<1>10. Accounted(h, records, lease', drain')
  <2>1. \A c \in Cells : Pinners(drain, c) = {} => Pinners(drain', c) = {}
    BY <1>5
  <2> QED BY <1>1, <1>6, <1>8, <2>1 DEF Accounted
<1>11. Drains(h, drain')
  <2> SUFFICES ASSUME NEW p \in Requests
               PROVE  Established(h, drain'[p]) /\ Asleep(h, drain'[p])
    BY DEF Drains
  <2>1. CASE p = q
    BY <1>3, <1>4, <2>1 DEF Established, Asleep
  <2>2. CASE p # q
    <3>1. Established(heap, drain[p]) /\ Asleep(heap, drain[p])
      BY DEF Inv, PoolInv, Drains
    <3>2. drain'[p] = drain[p] /\ drain[p].pins \subseteq Cells
      BY <1>2, <1>3, <2>2 DEF DrainType
    <3>3. \A c \in drain[p].pins : /\ h[c].leases = heap[c].leases
                                   /\ h[c].draining = heap[c].draining
                                   /\ h[c].retirementDrain = heap[c].retirementDrain
      BY <1>8, <3>2
    <3>4. Established(h, drain[p])
      BY <3>1, <3>3 DEF Established
    <3>5. Asleep(h, drain[p])
      BY <3>1, <3>3 DEF Asleep
    <3> QED BY <3>2, <3>4, <3>5
  <2> QED BY <2>1, <2>2
<1>12. Probes(h, records, probe)
  <2> SUFFICES ASSUME NEW i \in IDs, probe[i].st = "flying", ~probe[i].dropped
               PROVE  records[i] # 0 /\ Fresh(h[<<i, records[i]>>], probe[i])
    BY DEF Probes
  <2>1. records[i] # 0 /\ Fresh(heap[<<i, records[i]>>], probe[i])
    BY DEF Inv, PoolInv, Probes
  <2>2. <<i, records[i]>> \in Cells
    BY <2>1, KnownCell DEF Known, CellOf
  <2> QED BY <1>8, <2>1, <2>2 DEF Fresh
<1>13. Retirements(h)
  BY <1>8 DEF Inv, PoolInv, Retirements
<1>14. PoolInv(h, records, lease', drain', probe)
  BY <1>1, <1>2, <1>3, <1>9, <1>10, <1>11, <1>12, <1>13 DEF PoolInv, TypeInv
<1>15. \A id \in IDs : records[id] = 0 => ~(probe[id].st = "flying" /\ ~probe[id].dropped)
  BY DEF Inv, PoolInv, Probes
<1>16. PoolInv(heap', records', lease', drain', probe')
  BY <1>1, <1>14, <1>15, CommitInv
<1>17. \A c \in Cells : Alike(heap[c], h[c])
  BY <1>8 DEF Alike
<1>18. SelInv(h, records, lease', sel')
  BY <1>1, <1>17, AlikeChoice, SelStepInv DEF SelStep
<1>19. SelInv(heap', records', lease', sel')
  BY <1>1, <1>14, <1>18, CommitSel
<1> QED BY <1>16, <1>19 DEF Inv

-----------------------------------------------------------------------------
(***************************************************************************)
(* Leases.  The second look under the lock makes the record one that does  *)
(* not drain: no request has established anything of it.                   *)
(***************************************************************************)
LEMMA AcquireStep ==
  ASSUME Inv, NEW l \in Leases, NEW id \in IDs, NEW X, lease[l] = NoCell,
         Eligible(id, X), AcquireLocked(l, id)
  PROVE  Inv'
<1> DEFINE c == CellOf(id)
           r == heap[c]
           x == r.leases \cup {l}
           s == [r EXCEPT !.leases = x]
<1>1. /\ Known(id) /\ ~r.draining
      /\ heap' = [heap EXCEPT ![c] = s] /\ lease' = [lease EXCEPT ![l] = c]
      /\ sel' = [sel EXCEPT ![l] = Idle] /\ drain' = NotifyDrains({c})
      /\ records' = records /\ probe' = probe
  BY DEF Eligible, AcquireLocked
<1>2. c \in Cells /\ IsMapped(records, c) /\ r \in RecordType
  BY <1>1, KnownCell
<1>3. /\ heap \in [Cells -> RecordType] /\ records \in [IDs -> 0..2]
      /\ lease \in [Leases -> Cells \cup {NoCell}] /\ drain \in [Requests -> DrainType]
      /\ probe \in [IDs -> ProbeType]
  BY DEF Inv, PoolInv, TypeInv
<1>4. x \in SUBSET Leases
  BY <1>2 DEF RecordType
<1>5. /\ s \in RecordType /\ s.leases = x /\ s.waiters = r.waiters
      /\ s.draining = r.draining /\ s.retirementDrain = r.retirementDrain
      /\ s.retired = r.retired /\ s.revision = r.revision /\ s.addr = r.addr
      /\ s.health = r.health /\ s.quarantine = r.quarantine
  <2> HIDE DEF x
  <2> QED BY <1>2, <1>4 DEF RecordType
<1> HIDE DEF c, s
<1>6. /\ heap' \in [Cells -> RecordType] /\ heap'[c] = s
      /\ \A d \in Cells : d # c => heap'[d] = heap[d]
  BY <1>1, <1>2, <1>3, <1>5
<1>7. /\ drain' \in [Requests -> DrainType]
      /\ \A q \in Requests :
           /\ drain'[q].st = drain[q].st /\ drain'[q].pins = drain[q].pins
           /\ drain'[q].todo = drain[q].todo /\ drain'[q].on = drain[q].on
           /\ drain'[q].status = drain[q].status /\ drain'[q].undrained = drain[q].undrained
           /\ drain[q].woken => drain'[q].woken
           /\ drain[q].on \in {c} => drain'[q].woken
  BY <1>1, <1>3, NotifyFacts
<1>8. /\ lease' \in [Leases -> Cells \cup {NoCell}] /\ lease'[l] = c
      /\ \A k \in Leases : k # l => lease'[k] = lease[k]
  BY <1>1, <1>2, <1>3
<1>9. \A d \in Cells : Holders(lease', d) = IF d = c THEN Holders(lease, d) \cup {l}
                                           ELSE Holders(lease, d)
  BY <1>8, CellFacts DEF Holders
<1>10. \A d \in Cells : Pinners(drain', d) = Pinners(drain, d)
  BY <1>7 DEF Pinners
<1>11. \A d \in Cells : /\ heap[d].leases = Holders(lease, d)
                        /\ heap[d].waiters = Cardinality(Pinners(drain, d))
                        /\ ~IsMapped(records, d) => /\ Holders(lease, d) = {}
                                                    /\ Pinners(drain, d) = {} /\ heap[d] = Blank
  BY DEF Inv, PoolInv, Accounted
<1>12. Accounted(heap', records', lease', drain')
  BY <1>1, <1>2, <1>5, <1>6, <1>9, <1>10, <1>11 DEF Accounted
<1>13. Drains(heap', drain')
  <2> SUFFICES ASSUME NEW q \in Requests
               PROVE  Established(heap', drain'[q]) /\ Asleep(heap', drain'[q])
    BY DEF Drains
  <2>1. Established(heap, drain[q]) /\ Asleep(heap, drain[q]) /\ drain[q].pins \subseteq Cells
    BY <1>3 DEF Inv, PoolInv, Drains, DrainType
  <2>2. c \in drain[q].pins => drain[q].undrained
    BY <1>1, <2>1 DEF Established
  <2>3. Established(heap', drain'[q])
    BY <1>6, <1>7, <2>1, <2>2, SMTT(20) DEF Established
  <2>4. Asleep(heap', drain'[q])
    <3>1. \A d \in drain[q].pins : /\ heap'[d].draining = heap[d].draining
                                   /\ heap[d].leases # {} => heap'[d].leases # {}
      BY <1>5, <1>6, <2>1
    <3>2. /\ drain'[q].st = drain[q].st /\ drain'[q].pins = drain[q].pins
          /\ drain'[q].on = drain[q].on /\ (drain[q].woken => drain'[q].woken)
      BY <1>7
    <3> QED BY <2>1, <3>1, <3>2 DEF Asleep
  <2> QED BY <2>3, <2>4
<1>14. Probes(heap', records', probe')
  <2> SUFFICES ASSUME NEW i \in IDs, probe[i].st = "flying", ~probe[i].dropped
               PROVE  records[i] # 0 /\ Fresh(heap'[<<i, records[i]>>], probe[i])
    BY <1>1 DEF Probes
  <2>1. records[i] # 0 /\ Fresh(heap[<<i, records[i]>>], probe[i])
    BY DEF Inv, PoolInv, Probes
  <2>2. <<i, records[i]>> \in Cells
    BY <2>1, KnownCell DEF Known, CellOf
  <2> QED BY <1>5, <1>6, <2>1, <2>2 DEF Fresh
<1>15. Retirements(heap')
  BY <1>5, <1>6 DEF Inv, PoolInv, Retirements
<1>16. PoolInv(heap', records', lease', drain', probe')
  BY <1>1, <1>3, <1>6, <1>7, <1>8, <1>12, <1>13, <1>14, <1>15 DEF PoolInv, TypeInv
<1>17. \A d \in Cells : Alike(heap[d], heap'[d])
  BY <1>5, <1>6 DEF Alike
<1>18. SelInv(heap', records, lease, sel)
  BY <1>17, AlikeChoice, SelFrame DEF Inv
<1>19. Idle.pc = "idle" /\ ~Idle.patient
  BY DEF Idle
<1>20. /\ sel' \in [Leases -> SelType] /\ sel'[l] = Idle
       /\ \A k \in Leases : k # l => sel'[k] = sel[k]
  BY <1>1, <1>18, StartTypes DEF SelInv, Acquiring
<1>21. SelInv(heap', records', lease', sel')
  <2>1. \A k \in Leases : Watching(heap', records, sel'[k])
    BY <1>18, <1>19, <1>20 DEF SelInv, Watching
  <2>2. \A k \in Leases : /\ sel'[k].pc # "idle" => lease'[k] = NoCell
                          /\ sel'[k].pc = "waiting" => sel'[k].patient
    BY <1>8, <1>18, <1>19, <1>20 DEF SelInv, Acquiring
  <2> QED BY <1>1, <1>20, <2>1, <2>2 DEF SelInv, Acquiring
<1> QED BY <1>16, <1>21 DEF Inv

LEMMA ReleaseStep ==
  ASSUME Inv, NEW l \in Leases, Release(l)
  PROVE  Inv'
<1> DEFINE c == lease[l]
           r == heap[c]
           x == r.leases \ {l}
           s == [r EXCEPT !.leases = x]
           h == [heap EXCEPT ![c] = s]
<1>1. /\ c # NoCell /\ Commit(h, records, {c})
      /\ lease' = [lease EXCEPT ![l] = NoCell] /\ drain' = NotifyDrains({c})
      /\ sel' = sel
  BY DEF Release
<1>2. /\ heap \in [Cells -> RecordType] /\ records \in [IDs -> 0..2]
      /\ lease \in [Leases -> Cells \cup {NoCell}] /\ drain \in [Requests -> DrainType]
      /\ probe \in [IDs -> ProbeType]
  BY DEF Inv, PoolInv, TypeInv
<1>3. c \in Cells /\ r \in RecordType
  BY <1>1, <1>2
<1>4. \A d \in Cells : /\ heap[d].leases = Holders(lease, d)
                       /\ heap[d].waiters = Cardinality(Pinners(drain, d))
                       /\ ~IsMapped(records, d) => /\ Holders(lease, d) = {}
                                                   /\ Pinners(drain, d) = {} /\ heap[d] = Blank
  BY DEF Inv, PoolInv, Accounted
<1>5. l \in r.leases /\ IsMapped(records, c)
  <2>1. l \in Holders(lease, c)
    BY DEF Holders
  <2> QED BY <1>3, <1>4, <2>1
<1>6. x \in SUBSET Leases
  BY <1>3 DEF RecordType
<1>7. /\ s \in RecordType /\ s.leases = x /\ s.waiters = r.waiters
      /\ s.draining = r.draining /\ s.retirementDrain = r.retirementDrain
      /\ s.retired = r.retired /\ s.revision = r.revision /\ s.addr = r.addr
      /\ s.health = r.health /\ s.quarantine = r.quarantine
  <2> HIDE DEF x, r
  <2> QED BY <1>3, <1>6 DEF RecordType
<1>8. /\ lease' \in [Leases -> Cells \cup {NoCell}] /\ lease'[l] = NoCell
      /\ \A k \in Leases : k # l => lease'[k] = lease[k]
  BY <1>1, <1>2
<1> HIDE DEF c, s
<1>9. /\ h \in [Cells -> RecordType] /\ h[c] = s /\ \A d \in Cells : d # c => h[d] = heap[d]
  BY <1>2, <1>3, <1>7
<1> HIDE DEF h
<1>10. /\ drain' \in [Requests -> DrainType]
       /\ \A q \in Requests :
            /\ drain'[q].st = drain[q].st /\ drain'[q].pins = drain[q].pins
            /\ drain'[q].todo = drain[q].todo /\ drain'[q].on = drain[q].on
            /\ drain'[q].status = drain[q].status /\ drain'[q].undrained = drain[q].undrained
            /\ drain[q].woken => drain'[q].woken
            /\ drain[q].on \in {c} => drain'[q].woken
  <2>1. drain' = NotifyDrains({c})
    BY <1>1
  <2> QED BY <1>2, <2>1, NotifyFacts
<1>11. \A d \in Cells : Holders(lease', d) = IF d = c THEN Holders(lease, d) \ {l}
                                            ELSE Holders(lease, d)
  BY <1>8, CellFacts DEF Holders, c
<1>12. \A d \in Cells : Pinners(drain', d) = Pinners(drain, d)
  BY <1>10 DEF Pinners
<1>13. Accounted(h, records, lease', drain')
  BY <1>3, <1>4, <1>5, <1>7, <1>9, <1>11, <1>12 DEF Accounted
<1>14. Drains(h, drain')
  <2> SUFFICES ASSUME NEW q \in Requests
               PROVE  Established(h, drain'[q]) /\ Asleep(h, drain'[q])
    BY DEF Drains
  <2>1. Established(heap, drain[q]) /\ Asleep(heap, drain[q]) /\ drain[q].pins \subseteq Cells
    BY <1>2 DEF Inv, PoolInv, Drains, DrainType
  <2>2. \A d \in drain[q].pins : /\ h[d].draining = heap[d].draining
                                 /\ h[d].retirementDrain = heap[d].retirementDrain
                                 /\ heap[d].leases = {} => h[d].leases = {}
                                 /\ d # c => h[d].leases = heap[d].leases
    BY <1>5, <1>7, <1>9, <2>1
  <2>3. Established(h, drain'[q])
    BY <1>10, <2>1, <2>2 DEF Established
  <2>4. Asleep(h, drain'[q])
    <3>1. /\ drain'[q].st = drain[q].st /\ drain'[q].pins = drain[q].pins
          /\ drain'[q].on = drain[q].on /\ (drain[q].woken => drain'[q].woken)
          /\ drain[q].on = c => drain'[q].woken
      BY <1>10
    <3> QED BY <2>1, <2>2, <3>1 DEF Asleep
  <2> QED BY <2>3, <2>4
<1>15. Probes(h, records, probe)
  <2> SUFFICES ASSUME NEW i \in IDs, probe[i].st = "flying", ~probe[i].dropped
               PROVE  records[i] # 0 /\ Fresh(h[<<i, records[i]>>], probe[i])
    BY DEF Probes
  <2>1. records[i] # 0 /\ Fresh(heap[<<i, records[i]>>], probe[i])
    BY DEF Inv, PoolInv, Probes
  <2>2. <<i, records[i]>> \in Cells
    BY <2>1, KnownCell DEF Known, CellOf
  <2> QED BY <1>7, <1>9, <2>1, <2>2 DEF Fresh
<1>16. Retirements(h)
  BY <1>3, <1>7, <1>9 DEF Inv, PoolInv, Retirements
<1>17. PoolInv(h, records, lease', drain', probe)
  BY <1>2, <1>8, <1>9, <1>10, <1>13, <1>14, <1>15, <1>16 DEF PoolInv, TypeInv
<1>18. \A id \in IDs : records[id] = 0 => ~(probe[id].st = "flying" /\ ~probe[id].dropped)
  BY DEF Inv, PoolInv, Probes
<1>19. PoolInv(heap', records', lease', drain', probe')
  BY <1>1, <1>17, <1>18, CommitInv
<1>20. \A d \in Cells : Alike(heap[d], h[d])
  BY <1>7, <1>9 DEF Alike
<1>21. SelInv(h, records, lease, sel)
  BY <1>20, AlikeChoice, SelFrame DEF Inv
<1>22. SelInv(h, records, lease', sel)
  BY <1>8, <1>21 DEF SelInv, Acquiring
<1>23. SelInv(heap', records', lease', sel')
  BY <1>1, <1>17, <1>22, CommitSel
<1> QED BY <1>19, <1>23 DEF Inv
=============================================================================
