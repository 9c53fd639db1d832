---------------------------- MODULE ClientResume ----------------------------
(***************************************************************************)
(* The TypeScript client (packages/client/src/client.ts) against the HTTP   *)
(* side of module RedisTail: #pump, #connect, #readResponse, #handleFrame,  *)
(* #complete, #fail and #retry, the checkpoint it persists, and the         *)
(* ReplayMulticast hub (multicast.ts) behind its two iterables.             *)
(*                                                                         *)
(* JavaScript runs one callback at a time: an action is what happens        *)
(* between two awaits.  A backoff is the time a client stays idle.  An      *)
(* event counts one against the replay bound.                               *)
(***************************************************************************)
EXTENDS RedisTail

CONSTANTS Views,        \* the iterables: events and text
          MaxAttempts,  \* resume.maxAttempts
          MaxReplay,    \* limits.maxReplayEvents
          MaxReloads    \* bound: page reloads

ASSUME ClientAssumption ==
    /\ MaxAttempts \in Nat /\ MaxReplay \in Nat \ {0} /\ MaxReloads \in Nat

VARIABLES
    cl,       \* the DurableStream
    hub,      \* its ReplayMulticast: events published, base index, settled
    at,       \* the subscribers' records
    saved,    \* the persisted checkpoint
    reloads   \* used reloads

clientVars == <<cl, hub, at, saved, reloads>>
vars == <<tailVars, clientVars>>

NoCheckpoint == [set |-> FALSE, seq |-> 0]

Fresh(id, seq) ==
    [pc |-> "idle", id |-> id, from |-> seq, seq |-> seq, before |-> seq, failures |-> 0,
     durability |-> "none", count |-> 0, outcome |-> "none"]

EmptyHub == [events |-> <<>>, base |-> 0, settled |-> FALSE, failed |-> FALSE]
Subscribed == [index |-> 0, taken |-> <<>>, st |-> "live"]

Settled == cl.pc = "settled"

-----------------------------------------------------------------------------
(* ReplayMulticast.                                                        *)

Live(subs) == {v \in Views : subs[v].st = "live"}

(* Mutant: the records the furthest subscriber has read are dropped.       *)
CompactFurthest(h, subs) ==
    [h EXCEPT !.base =
        IF Live(subs) = {} THEN Len(h.events)
        ELSE CHOOSE i \in 0..Len(h.events) :
                /\ \E v \in Live(subs) : subs[v].index = i
                /\ \A v \in Live(subs) : subs[v].index <= i]

(* #compact: records every subscriber has read are dropped.                *)
Compact(h, subs) ==
    [h EXCEPT !.base =
        IF Live(subs) = {} THEN Len(h.events)
        ELSE CHOOSE i \in 0..Len(h.events) :
                /\ \E v \in Live(subs) : subs[v].index = i
                /\ \A v \in Live(subs) : subs[v].index >= i]

(* publish: a subscriber over the bound is evicted and fails.              *)
Published(h, e) == [h EXCEPT !.events = Append(@, e)]
Bounded(h, subs) ==
    [v \in Views |-> IF subs[v].st = "live" /\ Len(h.events) - subs[v].index > MaxReplay
                     THEN [subs[v] EXCEPT !.st = "evicted"] ELSE subs[v]]

Publish(e) ==
    LET h == Published(hub, e)
        subs == Bounded(h, at)
    IN  /\ at' = subs
        /\ hub' = Compact(h, subs)

(* publish of the terminal event, then close.                              *)
PublishLast(events) ==
    LET h == [Published(hub, 0) EXCEPT !.events = hub.events \o events, !.settled = TRUE]
        subs == IF events = <<>> THEN at ELSE Bounded(h, at)
    IN  /\ at' = subs
        /\ hub' = IF events = <<>> THEN h ELSE Compact(h, subs)

(* An iterator's next(): a record, the end, or the stream's failure.        *)
NextEvent(v) ==
    LET s == [at[v] EXCEPT !.index = IF @ < hub.base THEN hub.base ELSE @] IN
    /\ at[v].st = "live"
    /\ \/ /\ s.index < Len(hub.events)
          /\ at' = [at EXCEPT ![v] = [s EXCEPT !.index = @ + 1,
                                       !.taken = Append(@, hub.events[s.index + 1])]]
       \/ /\ s.index = Len(hub.events)
          /\ hub.settled
          /\ at' = [at EXCEPT ![v].st = IF hub.failed THEN "failed" ELSE "ended"]
    /\ hub' = Compact(hub, at')
    /\ UNCHANGED <<tailVars, cl, saved, reloads>>

-----------------------------------------------------------------------------
(* The pump.                                                               *)

HangUp == rd' = Off /\ wire' = <<>>

(* #fail: the iterables throw what ended the stream.                       *)
Fail(c, why) ==
    /\ cl' = [c EXCEPT !.pc = "settled", !.outcome = why]
    /\ hub' = [hub EXCEPT !.settled = TRUE, !.failed = TRUE]
    /\ UNCHANGED at

(* Mutant: a failed attempt is never counted.                              *)
RetryUncounted(c) ==
    /\ cl' = [c EXCEPT !.pc = "idle"]
    /\ UNCHANGED <<hub, at>>

(* #retry: the budget counts consecutive failures.                         *)
Retry(c) ==
    IF c.failures + 1 > MaxAttempts THEN Fail(c, "transport")
    ELSE /\ cl' = [c EXCEPT !.pc = "idle", !.failures = @ + 1]
         /\ UNCHANGED <<hub, at>>

(* The end of a response without a terminal event: only an advance of the   *)
(* cursor resets the budget.                                               *)
ResponseOver ==
    LET c == [cl EXCEPT !.failures = IF cl.seq > cl.before THEN 0 ELSE @] IN
    IF c.durability = "degraded" /\ ~c.id THEN Fail(c, "transport") ELSE Retry(c)

(* #connect: a resume once the identity is known, the same POST before.    *)
Connect ==
    /\ cl.pc = "idle"
    /\ rd' = [Off EXCEPT !.pc = "attach", !.post = ~cl.id, !.cursor = cl.seq]
    /\ cl' = [cl EXCEPT !.pc = "wait", !.before = cl.seq]
    /\ UNCHANGED <<streamVars, wire, faults, hub, at, saved, reloads>>

(* The response's status and headers.                                      *)
HandleStatus ==
    /\ cl.pc = "wait"
    /\ wire # <<>>
    /\ LET status == Head(wire).t IN
       CASE status = "ok" ->
               /\ cl' = [cl EXCEPT !.pc = "reading", !.id = TRUE, !.durability = "durable",
                                   !.count = 0]
               /\ saved' = IF cl.id THEN saved ELSE [set |-> TRUE, seq |-> cl.seq]
               /\ wire' = Tail(wire)
               /\ UNCHANGED <<rd, hub, at>>
         [] status = "degraded" ->
               /\ cl' = [cl EXCEPT !.pc = "reading", !.durability = "degraded", !.count = 0]
               /\ wire' = Tail(wire)
               /\ UNCHANGED <<rd, hub, at, saved>>
         [] status \in {"409", "410"} ->
               /\ Fail(cl, IF status = "410" THEN "expired" ELSE "http")
               /\ HangUp
               /\ UNCHANGED saved
         [] OTHER -> Retry(cl) /\ HangUp /\ UNCHANGED saved
    /\ UNCHANGED <<streamVars, faults, reloads>>

(* #complete: the result resolves and the iterables end.                   *)
Complete(c, kind, events) ==
    /\ cl' = [c EXCEPT !.pc = "settled", !.outcome = kind]
    /\ PublishLast(events)
    /\ HangUp

(* A frame that violates what the client expects of the protocol.          *)
Unexpected(f, kind) ==
    \/ cl.durability = "durable" /\ cl.seq = 0 /\ kind # "open"
    \/ kind = "open" /\ (f.ev # 1 \/ cl.seq # 0)
    \/ ~f.sequenced /\ cl.durability = "durable" /\ kind # "warning"
    \/ f.sequenced /\ cl.durability = "degraded"

(* Mutant: a replayed event is applied again.                              *)
StaleNever(f) == FALSE

(* A frame at or below the cursor is ignored.                              *)
Stale(f) == f.sequenced /\ f.ev <= cl.seq

(* #handleFrame of an event: checkpoint, cursor, then the iterables.       *)
HandleEvent ==
    /\ cl.pc = "reading"
    /\ wire # <<>>
    /\ Head(wire).t = "event"
    /\ LET f == Head(wire)
           kind == Generation[f.ev]
           c == [cl EXCEPT !.count = @ + 1,
                           !.seq = IF f.sequenced THEN f.ev ELSE @,
                           !.durability = IF kind = "warning" THEN "degraded" ELSE @]
       IN  IF Stale(f)
           THEN wire' = Tail(wire) /\ UNCHANGED <<rd, cl, hub, at, saved>>
           ELSE IF Unexpected(f, kind)
           THEN Fail(cl, "protocol") /\ HangUp /\ UNCHANGED saved
           ELSE /\ saved' = IF f.sequenced THEN [set |-> TRUE, seq |-> f.ev] ELSE saved
                /\ IF kind \in Terminals
                   THEN Complete(c, kind, <<f.ev>>)
                   ELSE /\ Publish(f.ev)
                        /\ cl' = c
                        /\ wire' = Tail(wire)
                        /\ UNCHANGED rd
    /\ UNCHANGED <<streamVars, faults, reloads>>

LastEvent == IF Ended(log) THEN Len(log) ELSE Len(Generation)

(* [DONE] alone is the end of a degraded stream, or of a resume at the      *)
(* terminal sequence; elsewhere it follows a done event that was handled.   *)
HandleSentinel ==
    /\ cl.pc = "reading"
    /\ wire # <<>>
    /\ Head(wire).t = "sentinel"
    /\ IF cl.durability = "durable" /\ (cl.seq = 0 \/ cl.count > 0)
       THEN Fail(cl, "protocol") /\ HangUp
       ELSE Complete(cl, "done", <<LastEvent>>)
    /\ UNCHANGED <<streamVars, faults, saved, reloads>>

(* The reader was detached, the journal has a gap, or the response is over. *)
HandleEnd ==
    /\ cl.pc = "reading"
    /\ wire # <<>>
    /\ Head(wire).t \in {"lag", "expired", "eof"}
    /\ IF Head(wire).t = "expired" THEN Fail(cl, "expired") ELSE ResponseOver
    /\ HangUp
    /\ UNCHANGED <<streamVars, faults, saved, reloads>>

(* The application's AbortSignal.                                          *)
Abort ==
    /\ ~Settled
    /\ Fail(cl, "abort")
    /\ HangUp
    /\ UNCHANGED <<streamVars, faults, saved, reloads>>

(* A page reload: a new DurableStream from the persisted checkpoint.       *)
Reload ==
    /\ saved.set
    /\ reloads < MaxReloads
    /\ reloads' = reloads + 1
    /\ cl' = Fresh(TRUE, saved.seq)
    /\ hub' = EmptyHub
    /\ at' = [v \in Views |-> Subscribed]
    /\ HangUp
    /\ UNCHANGED <<streamVars, faults, saved>>

-----------------------------------------------------------------------------
Init ==
    /\ TailInit
    /\ cl = Fresh(FALSE, 0)
    /\ hub = EmptyHub
    /\ at = [v \in Views |-> Subscribed]
    /\ saved = NoCheckpoint
    /\ reloads = 0

Client == Connect \/ HandleStatus \/ HandleEvent \/ HandleSentinel \/ HandleEnd

(* A generation nobody will read any more is not followed further.         *)
Followed == (~Settled \/ reloads < MaxReloads) /\ UNCHANGED clientVars

(* A lost POST is retried well within the journal's TTL: keys expire only   *)
(* once the client knows the stream.                                       *)
Server ==
    /\ Followed
    /\ \/ Owner \/ Attaching \/ Tailing \/ Serving
       \/ cl.id /\ Expire
       \/ ~Settled /\ Disconnect

Next == Server \/ Client \/ (\E v \in Views : NextEvent(v)) \/ Abort \/ Reload

(* Goroutines run, a backend's stream ends, a marker is retried, a dead     *)
(* owner's journal expires, and the application reads its iterables.        *)
Fairness ==
    /\ WF_vars(Client)
    /\ WF_vars(Followed /\ (Attaching \/ Tailing \/ Serving))
    /\ WF_vars(Followed /\ \E kind \in Terminals : StartClose(kind) \/ RelayEvent(kind))
    /\ WF_vars(Followed /\ CloseCommits)
    /\ WF_vars(Followed /\ MarkDegraded)
    /\ WF_vars(Followed /\ ~alive /\ cl.id /\ Expire)
    /\ \A v \in Views : WF_vars(NextEvent(v))

Spec == Init /\ [][Next]_vars /\ Fairness

-----------------------------------------------------------------------------
(* #handleFrame and the resume cursor: across reconnects, proxies, lag      *)
(* evictions and the switch to an unjournaled suffix, the events an         *)
(* instance published are the generation's, from its checkpoint on, in      *)
(* order and without a gap; an outcome is the generation's own terminal     *)
(* event.  Each comes once, save an event whose append or Close failed      *)
(* after Redis had committed it: it is journaled and also relayed without a *)
(* sequence behind the warning, and a client can get it either way, or both *)
(* when it had it from the journal before the warning, or resumes after it. *)
DeliveredExact ==
    /\ \A i \in 1..Len(hub.events) :
          LET e == hub.events[i]
              previous == IF i = 1 THEN cl.from ELSE hub.events[i - 1]
          IN  \/ e = previous + 1
              \/ doubled /\ previous = Boundary /\ e = Len(log) + 1
              \/ doubled /\ previous > Len(log) /\ e = Len(log)
              \/ i = 1 /\ e = cl.from /\ e = LastEvent
    /\ cl.outcome \in Terminals =>
          /\ hub.events # <<>>
          /\ Generation[hub.events[Len(hub.events)]] = cl.outcome

(* ReplayMulticast: whatever the other iterable has read, and wherever it   *)
(* was evicted, an iterable yields a prefix of what was published, with no  *)
(* record compacted before it was read, and ends normally only after the    *)
(* last of it.                                                             *)
ViewExact ==
    \A v \in Views :
        /\ at[v].taken = SubSeq(hub.events, 1, Len(at[v].taken))
        /\ at[v].st = "ended" => cl.outcome \in Terminals /\ at[v].taken = hub.events

(* #handleFrame's protocol errors are never raised against this server.     *)
ProtocolAgrees == cl.outcome # "protocol"

(* #pump: whatever fails, the stream settles and every iterable ends or     *)
(* throws.                                                                 *)
Settles == <>[](Settled /\ \A v \in Views : at[v].st # "live")

(* docs/client.md: transport failures do not end the iterables; the client  *)
(* reconnects and continues.  It gives up only after its attempts, or when  *)
(* the rest of the stream is really not resumable.                         *)
InterruptionSurvived ==
    cl.id /\ cl.outcome \in {"http", "expired"} =>
        gone \/ suffix # <<>> \/ (log # <<>> /\ log[Len(log)] = "stopped")
=============================================================================
