----------------------------- MODULE SharedKey -------------------------------
(***************************************************************************)
(* One idempotency key used by streaming POSTs on several proxy replicas   *)
(* that share a Redis journal: durableService.resolve                      *)
(* (internal/proxy/durable.go), the leases that keep the key and its       *)
(* stream alive, and the Lua scripts they run (internal/journal/redis.go). *)
(*                                                                         *)
(* Redis executes a script atomically, so a script is an operator from the *)
(* database to the database and an answer. What is not atomic is the call: *)
(* an answer may be lost after the script ran, the command may run after   *)
(* its caller gave up, a replica may crash, and keys expire between any    *)
(* two calls. Lifetimes are counted down by Tick, so a pause of a replica  *)
(* of any length is a number of ticks between two of its steps.            *)
(*                                                                         *)
(* ResolveOrCreate and Open draw one nonce per call and every loop of      *)
(* resolve draws a fresh stream ID, so the nonce is identified with the    *)
(* ID. The key's digest, the request and the payloads are left out.        *)
(***************************************************************************)
EXTENDS Naturals, FiniteSets

CONSTANTS
    Requests,    \* streaming POSTs that carry the key, each on its replica
    Ids,         \* stream IDs the generator returns, an initial part of Nat
    JournalTTL,  \* policy.JournalTTL in ticks
    PendingTTL,  \* redisPendingTTL in ticks
    WireTTL,     \* ticks a command stays on the wire after its caller gave up
    MaxFaults,   \* lost answers, delayed commands, failed reads and crashes
    None

ASSUME IdAssumption ==
    /\ Cardinality(Ids) \in Nat /\ Ids = 1..Cardinality(Ids)
    /\ None \notin Ids
    /\ None \notin [tag : {"p", "r"}, id : Ids, ttl : Nat]

ASSUME TTLAssumption ==
    /\ JournalTTL \in Nat \ {0}
    /\ PendingTTL \in 1..JournalTTL /\ WireTTL \in 1..JournalTTL
    /\ MaxFaults \in Nat

VARIABLES
    key,      \* the idempotency key: None or a reservation p|id or binding r|id
    assoc,    \* remaining life of the key that associates an ID with the key
    stream,   \* state hash and tombstone of every stream ID
    req,      \* the requests and the runtimes they become
    drawn,    \* number of stream IDs handed out
    wire,     \* commands that will run after their callers gave them up
    faults

redis == <<key, assoc, stream>>
vars == <<key, assoc, stream, req, drawn, wire, faults>>

Pending(id) == [tag |-> "p", id |-> id, ttl |-> PendingTTL]
Ready(id) == [tag |-> "r", id |-> id, ttl |-> JournalTTL]

Gone == [life |-> 0, tomb |-> 0, status |-> "gone"]

New == [pc |-> "new", id |-> None, found |-> None, retried |-> FALSE,
        renews |-> FALSE, after |-> None]

Returned == {"existing", "degraded", "failed"}
Over == Returned \cup {"ended", "crashed"}
Opening == {"acquire", "open", "reconcile"}

-----------------------------------------------------------------------------
(***************************************************************************)
(* The scripts. Each is a state change of the database alone; the answer   *)
(* an operation needs is a predicate of the database it ran in.            *)
(***************************************************************************)

Reserved(id) == key # None /\ key.tag = "p" /\ key.id = id

\* The reservation of id as the pending scripts recognise it: the association
\* is alive (it only ever names the key) and the key holds p|id.
HoldsReservation(id) == assoc[id] > 0 /\ Reserved(id)

\* Mutant: a waiter that polls would renew the reservation it waits for.
ResolveRenewsAny(id) ==
    /\ UNCHANGED stream
    /\ IF key = None
       THEN key' = Pending(id) /\ assoc' = [assoc EXCEPT ![id] = PendingTTL]
       ELSE /\ key' = [key EXCEPT !.ttl = IF key.tag = "p" THEN PendingTTL ELSE @]
            /\ UNCHANGED assoc

\* redisResolveIdempotencyScript: a reservation is created when there is no
\* key, and renewed when the same call runs again; otherwise it only reads.
ResolveScript(id) ==
    /\ IF key = None
       THEN key' = Pending(id) /\ assoc' = [assoc EXCEPT ![id] = PendingTTL]
       ELSE IF Reserved(id)
       THEN /\ key' = [key EXCEPT !.ttl = PendingTTL]
            /\ assoc' = [assoc EXCEPT ![id] = IF @ > 0 THEN PendingTTL ELSE 0]
       ELSE UNCHANGED <<key, assoc>>
    /\ UNCHANGED stream

\* The lifetimes every mutation of a live stream renews together.
Renewed(id, status) ==
    /\ stream' = [stream EXCEPT ![id] = [life |-> JournalTTL,
                  tomb |-> 2 * JournalTTL, status |-> status]]
    /\ key' = IF key = None THEN None ELSE [key EXCEPT !.ttl = JournalTTL]

\* The answers of redisOpenScript: "opened" also for a second run of the call
\* that created the stream, which only renews the lifetimes.
OpenAnswer(id) ==
    IF stream[id].life > 0 THEN "opened"
    ELSE IF stream[id].tomb > 0 THEN "exists"
    ELSE IF HoldsReservation(id) THEN "opened" ELSE "lost"

\* Mutant: the reservation is not looked at.
OpenUnreserved(id) ==
    IF stream[id].tomb = 0
    THEN /\ stream' = [stream EXCEPT ![id] = [life |-> JournalTTL,
                       tomb |-> 2 * JournalTTL, status |-> "open"]]
         /\ key' = IF Reserved(id) THEN Ready(id) ELSE key
         /\ assoc' = [assoc EXCEPT ![id] = 0]
    ELSE UNCHANGED redis

\* redisOpenScript: promotes the reservation to a binding with the stream.
OpenScript(id) ==
    IF OpenAnswer(id) # "opened" THEN UNCHANGED redis
    ELSE IF stream[id].life > 0
    THEN Renewed(id, stream[id].status) /\ UNCHANGED assoc
    ELSE /\ key' = Ready(id)
         /\ assoc' = [assoc EXCEPT ![id] = 0]
         /\ stream' = [stream EXCEPT ![id] = [life |-> JournalTTL,
                       tomb |-> 2 * JournalTTL, status |-> "open"]]

\* redisTouchScript, and the renewal in the append and degrade scripts.
TouchScript(id) ==
    IF stream[id].life > 0 /\ stream[id].status = "open"
    THEN Renewed(id, "open") /\ UNCHANGED assoc
    ELSE UNCHANGED redis

\* redisCloseReceiptScript: the terminal entry of a live open stream.
CloseScript(id) ==
    IF stream[id].life > 0 /\ stream[id].status = "open"
    THEN Renewed(id, "closed") /\ UNCHANGED assoc
    ELSE UNCHANGED redis

\* redisRefreshIdempotencyScript: whatever the key holds now.
RefreshScript ==
    /\ key' = IF key = None THEN None ELSE [key EXCEPT !.ttl = JournalTTL]
    /\ UNCHANGED <<assoc, stream>>

\* redisRefreshPendingIdempotencyScript
RefreshPendingScript(id) ==
    IF HoldsReservation(id)
    THEN /\ key' = [key EXCEPT !.ttl = PendingTTL]
         /\ assoc' = [assoc EXCEPT ![id] = PendingTTL]
         /\ UNCHANGED stream
    ELSE UNCHANGED redis

\* Mutant: the key is deleted by its digest alone.
ReleaseAny(id) ==
    key' = None /\ assoc' = [assoc EXCEPT ![id] = 0] /\ UNCHANGED stream

\* redisReleasePendingIdempotencyScript
ReleasePendingScript(id) ==
    IF HoldsReservation(id)
    THEN key' = None /\ assoc' = [assoc EXCEPT ![id] = 0] /\ UNCHANGED stream
    ELSE UNCHANGED redis

\* redisRemoveIfBoundScript
RemoveIfBoundScript(id) ==
    /\ key' = IF key # None /\ key.tag = "r" /\ key.id = id THEN None ELSE key
    /\ UNCHANGED <<assoc, stream>>

\* A command and what it does when Redis runs it.
Run(op, id) ==
    CASE op = "resolve" -> ResolveScript(id)
      [] op = "open" -> OpenScript(id)
      [] op = "touch" -> TouchScript(id)
      [] op = "close" -> CloseScript(id)
      [] op = "refresh" -> RefreshScript
      [] op = "renew" -> RefreshPendingScript(id)
      [] op = "release" -> ReleasePendingScript(id)
      [] op = "remove" -> RemoveIfBoundScript(id)

-----------------------------------------------------------------------------
(***************************************************************************)
(* A call of request r. It is answered; or it ran and its answer is lost;  *)
(* or it did not run and still may. An error is retried once with the same *)
(* nonce unless the deadline of the call has passed (retryRedisOperation). *)
(***************************************************************************)

\* The request at pc; one that is over, or loops, keeps nothing.
At(r, pc) ==
    IF pc \in Over \cup {"new"} THEN [New EXCEPT !.pc = pc]
    ELSE [req[r] EXCEPT !.pc = pc, !.retried = FALSE,
                        !.renews = @ /\ pc \in Opening]

Set(r, pc) == req' = [req EXCEPT ![r] = At(r, pc)]

Fault == faults < MaxFaults /\ faults' = faults + 1

\* The call fails after op ran or with op still on its way.
Unanswered(op, id) ==
    /\ Fault
    /\ \/ Run(op, id) /\ UNCHANGED wire
       \/ wire' = wire \cup {[op |-> op, id |-> id, ttl |-> WireTTL]} /\ UNCHANGED redis

\* The error of a call: one retry, then the caller goes on at pc.
Fails(r, op, id, pc) ==
    /\ Unanswered(op, id)
    /\ \/ ~req[r].retried /\ req' = [req EXCEPT ![r].retried = TRUE]
       \/ Set(r, pc)
    /\ UNCHANGED drawn

Answered(op, id) == Run(op, id) /\ UNCHANGED <<drawn, wire, faults>>

\* s.ids.New(). An ID that Redis has not seen and no command carries is as
\* good as a fresh one, so a loop that created nothing keeps its ID. The bound
\* on Ids ends a request that loops on, as its deadline would.
LoopHead(r) ==
    /\ req[r].pc = "new"
    /\ IF req[r].id # None
       THEN Set(r, "resolve") /\ UNCHANGED drawn
       ELSE IF drawn < Cardinality(Ids)
       THEN /\ drawn' = drawn + 1
            /\ req' = [req EXCEPT ![r].pc = "resolve", ![r].id = drawn + 1]
       ELSE Set(r, "failed") /\ UNCHANGED drawn
    /\ UNCHANGED <<redis, wire, faults>>

\* waitContext ends at the head of the loop or while it waits.
Timeout(r) ==
    /\ req[r].pc = "new"
    /\ Set(r, "failed")
    /\ UNCHANGED <<redis, drawn, wire, faults>>

\* s.idempotency.ResolveOrCreate: the creator starts to maintain its pending
\* lease, everyone else looks the bound stream up.
ResolveOrCreate(r) ==
    LET id == req[r].id IN
    /\ req[r].pc = "resolve"
    /\ \/ /\ key = None \/ Reserved(id)
          /\ Answered("resolve", id)
          /\ req' = [req EXCEPT ![r].pc = "acquire", ![r].retried = FALSE,
                                 ![r].renews = TRUE]
       \/ /\ key # None /\ ~Reserved(id)
          /\ Answered("resolve", id)
          /\ req' = [req EXCEPT ![r].pc = "state", ![r].found = key.id,
                                 ![r].retried = FALSE]
       \/ Fails(r, "resolve", id, "degraded")

\* The next loop draws a new ID if this one may have reached Redis.
Again(r) ==
    req' = [req EXCEPT ![r] = [New EXCEPT !.id =
              IF \E c \in wire : c.id = req[r].id THEN None ELSE req[r].id]]

\* s.journal.State of the bound stream: attach to it, wait for its creator, or
\* clean its mapping up. A failed read degrades the request.
State(r) ==
    LET found == req[r].found IN
    /\ req[r].pc = "state"
    /\ \/ stream[found].life > 0 /\ Set(r, "existing") /\ UNCHANGED faults
       \/ stream[found].tomb = 0 /\ Again(r) /\ UNCHANGED faults
       \/ /\ stream[found].life = 0 /\ stream[found].tomb > 0
          /\ Set(r, "remove") /\ UNCHANGED faults
       \/ Fault /\ Set(r, "degraded")
    /\ UNCHANGED <<redis, drawn, wire>>

\* s.removeIdempotencyIfBound of a stream that has expired
Remove(r) ==
    /\ req[r].pc = "remove"
    /\ \/ Answered("remove", req[r].found) /\ Again(r)
       \/ Fails(r, "remove", req[r].found, "degraded")

\* stopPendingLease, then the reservation is released and r goes on at pc.
Withdraws(r, pc) ==
    req' = [req EXCEPT ![r] = [At(r, "release") EXCEPT !.after = pc]]

\* s.acquireBackend
Acquire(r) ==
    /\ req[r].pc = "acquire"
    /\ Set(r, "open") \/ Withdraws(r, "failed")
    /\ UNCHANGED <<redis, drawn, wire, faults>>

\* s.journal.Open
Open(r) ==
    LET id == req[r].id IN
    /\ req[r].pc = "open"
    /\ \/ OpenAnswer(id) = "opened" /\ Answered("open", id) /\ Set(r, "running")
       \/ /\ OpenAnswer(id) # "opened" /\ Answered("open", id)
          /\ Withdraws(r, "new")
       \/ Fails(r, "open", id, "reconcile")

\* reconcileOpenReceipt: the nonce in the state hash shows that Open ran.
Reconcile(r) ==
    /\ req[r].pc = "reconcile"
    /\ \/ stream[req[r].id].life > 0 /\ Set(r, "running") /\ UNCHANGED faults
       \/ /\ stream[req[r].id].life = 0 /\ UNCHANGED faults
          /\ Withdraws(r, "degraded")
       \/ Fault /\ Withdraws(r, "degraded")
    /\ UNCHANGED <<redis, drawn, wire>>

\* s.releasePendingIdempotency ignores the error of ReleasePending.
Release(r) ==
    /\ req[r].pc = "release"
    /\ \/ Answered("release", req[r].id) /\ Set(r, req[r].after)
       \/ Fails(r, "release", req[r].id, req[r].after)

\* The goroutine of maintainPendingIdempotencyLease, until a renewal finds the
\* reservation gone.
RefreshPending(r) ==
    /\ req[r].pc \in Opening /\ req[r].renews
    /\ \/ /\ Answered("renew", req[r].id)
          /\ req' = [req EXCEPT ![r].renews = HoldsReservation(req[r].id)]
       \/ Unanswered("renew", req[r].id) /\ UNCHANGED <<req, drawn>>

-----------------------------------------------------------------------------
(***************************************************************************)
(* The runtime a creator becomes, time, crashes and late commands.         *)
(***************************************************************************)

\* maintainJournalLease, and every Append of the producer
Touch(r) ==
    /\ req[r].pc = "running"
    /\ Answered("touch", req[r].id) \/
       (Unanswered("touch", req[r].id) /\ UNCHANGED drawn)
    /\ UNCHANGED req

\* maintainIdempotencyLease: refreshIdempotency, whose errors are only logged
Refresh(r) ==
    /\ req[r].pc = "running"
    /\ Answered("refresh", req[r].id) \/
       (Unanswered("refresh", req[r].id) /\ UNCHANGED drawn)
    /\ UNCHANGED req

\* terminate: whether Close commits or the stream ends degraded, r.done is
\* closed and the mapping is refreshed last.
Close(r) ==
    /\ req[r].pc = "running"
    /\ Answered("close", req[r].id) \/
       (Unanswered("close", req[r].id) /\ UNCHANGED drawn)
    /\ Set(r, "refresh")

LastRefresh(r) ==
    /\ req[r].pc = "refresh"
    /\ Answered("refresh", req[r].id) \/
       (Unanswered("refresh", req[r].id) /\ UNCHANGED drawn)
    /\ Set(r, "ended")

Crash(r) ==
    /\ Fault
    /\ req[r].pc \notin Over
    /\ Set(r, "crashed")
    /\ UNCHANGED <<redis, drawn, wire>>

Late ==
    \E c \in wire :
       /\ Run(c.op, c.id)
       /\ wire' = wire \ {c}
       /\ UNCHANGED <<req, drawn, faults>>

Minus1(n) == IF n = 0 THEN 0 ELSE n - 1

\* Redis expires keys by its own clock.
Tick ==
    /\ key' = IF key = None \/ key.ttl = 1 THEN None
              ELSE [key EXCEPT !.ttl = @ - 1]
    /\ assoc' = [id \in Ids |-> Minus1(assoc[id])]
    /\ stream' = [id \in Ids |-> IF stream[id].tomb <= 1 THEN Gone
                    ELSE [stream[id] EXCEPT !.life = Minus1(@), !.tomb = @ - 1]]
    /\ wire' = {[c EXCEPT !.ttl = @ - 1] : c \in {d \in wire : d.ttl > 1}}
    /\ UNCHANGED <<req, drawn, faults>>

Init ==
    /\ key = None
    /\ assoc = [id \in Ids |-> 0]
    /\ stream = [id \in Ids |-> Gone]
    /\ req = [r \in Requests |-> New]
    /\ drawn = 0 /\ wire = {} /\ faults = 0

Handler(r) ==
    \/ LoopHead(r) \/ ResolveOrCreate(r) \/ State(r) \/ Remove(r)
    \/ Acquire(r) \/ Open(r) \/ Reconcile(r) \/ Release(r)

Runtime(r) == Close(r) \/ LastRefresh(r)

Next ==
    \/ \E r \in Requests :
          \/ Handler(r) \/ Runtime(r)
          \/ RefreshPending(r) \/ Touch(r) \/ Refresh(r)
          \/ Timeout(r) \/ Crash(r)
    \/ Late \/ Tick

\* Handlers and runtimes run on, time passes. The deadline of a request is
\* not relied upon.
Fairness ==
    /\ \A r \in Requests : WF_vars(Handler(r)) /\ WF_vars(Runtime(r))
    /\ WF_vars(Tick)

Spec == Init /\ [][Next]_vars /\ Fairness

-----------------------------------------------------------------------------

\* A retained stream is the one its key names: no retry, late command, lost
\* lease or cleanup leaves two streams behind one key, or a stream whose key
\* would start a second generation ("The idempotency mapping has the same
\* lifetime as the stream", docs/protocol.md section 5.4).
KeyNamesStream ==
    \A id \in Ids : stream[id].life > 0 =>
       key # None /\ key.tag = "r" /\ key.id = id

\* What the key promises somebody: a retained stream, or a reservation whose
\* creator is still opening.
InUse(k) ==
    \/ stream[k.id].life > 0
    \/ k.tag = "p" /\ \E r \in Requests : req[r].pc \in Opening /\ req[r].id = k.id

\* A key in use is lost to the clock alone. No other request's cleanup, release
\* or late command deletes or replaces the winner (releasePendingIdempotency,
\* removeIdempotencyIfBound).
WinnerKept ==
    [][key # None /\ InUse(key) =>
         (key' # None /\ key'.id = key.id) \/ Tick]_vars

\* Every request gets its answer and every stream it opened ends, although a
\* creator may crash with its reservation held and without relying on the
\* deadline of those who wait for it: the reservation is short and polling does
\* not renew it.
KeyNeverPoisoned == <>(\A r \in Requests : req[r].pc \in Over)

\* A reservation is short even when an older stream's runtime still refreshes
\* the key it once owned ("Redis uses a much shorter renewable pending lease, so
\* a creator crash does not poison this key for the journal retention period",
\* internal/proxy/durable.go).
PendingShort == key # None /\ key.tag = "p" => key.ttl <= PendingTTL

=============================================================================
