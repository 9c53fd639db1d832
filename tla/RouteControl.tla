---------------------------- MODULE RouteControl ----------------------------
(***************************************************************************)
(* How one InferenceRoute reaches the proxies: the operator's reconcile     *)
(* loop (controllers/inference_route_controller.go), its fan-out of route   *)
(* snapshots to every proxy replica (fanout_admin.go, admin_client.go) and  *)
(* the registry each proxy keeps in memory (internal/proxy/routes.go).      *)
(*                                                                         *)
(* The operator works from an informer cache that lags behind the API       *)
(* server.  A PUT may be lost, its answer may be lost, and it may be        *)
(* delivered after the operator gave up on it; it never outlives the proxy  *)
(* process it was sent to.  A proxy restart empties its registry.           *)
(*                                                                         *)
(* Backend verdicts are abstracted to what they are verdicts OF: the model  *)
(* and the image the conformance checker was run against.  One route name   *)
(* is modelled; the refusals of routeBackendRegistry.combined concern two   *)
(* names that share a model or a backend and do not arise.                  *)
(***************************************************************************)
EXTENDS Naturals, FiniteSets

CONSTANTS Proxies,     \* proxy replicas (EndpointSlice addresses)
          Pods,        \* backend pods the route's selector can match
          Models,      \* values of spec.model
          Images,      \* image digests a pod can run
          PodStates,   \* endpoint conditions that occur
          None,        \* no object, no record, no verdict
          MaxObjects,  \* bound: objects created under the route's name
          MaxDeletes,  \* bound: deletions requested
          MaxEdits,    \* bound: spec edits and pod changes
          MaxProxyMoves, \* bound: proxy restarts and readiness changes
          MaxFaults    \* bound: lost or late calls, failed probes, crashes

ASSUME RouteAssumption ==
    /\ \A bound \in {MaxObjects, MaxDeletes, MaxEdits, MaxProxyMoves, MaxFaults} : bound \in Nat
    /\ PodStates \subseteq {"absent", "unready", "ready", "draining"}
    /\ Models # {} /\ Images # {} /\ Proxies # {}

VARIABLES
    api,    \* the InferenceRoute at the API server, or None
    pods,   \* what the backend EndpointSlices say of each pod
    proxy,  \* each replica: its endpoint conditions and its registry entry
    cache,  \* the operator's informer cache: route, pods and proxy endpoints
    op,     \* the reconcile in progress
    puts,   \* PUTs on the wire
    spent   \* how much of each bound is used

vars == <<api, pods, cache, proxy, op, puts, spent>>

\* What the EndpointSlices of the proxy Service say of each replica.
Conditions == [p \in Proxies |-> [ready |-> proxy[p].ready, terminating |-> proxy[p].terminating]]
Present == [obj |-> api, pods |-> pods, proxies |-> Conditions]

-----------------------------------------------------------------------------
(* The API server.                                                         *)

NoEntries == [b \in Pods |-> None]

NewRoute(uid, model) ==
    [uid |-> uid, gen |-> 1, model |-> model, deleting |-> FALSE, fin |-> FALSE,
     status |-> [gen |-> 0, backends |-> NoEntries]]

Spend(kind) == spent' = [spent EXCEPT ![kind] = @ + 1]

CreateRoute(model) ==
    /\ api = None
    /\ spent.objects < MaxObjects
    /\ api' = NewRoute(spent.objects + 1, model)
    /\ Spend("objects")
    /\ UNCHANGED <<pods, cache, proxy, op, puts>>

EditSpec(model) ==
    /\ api # None
    /\ ~api.deleting
    /\ spent.edits < MaxEdits
    /\ api' = [api EXCEPT !.gen = @ + 1, !.model = model]
    /\ Spend("edits")
    /\ UNCHANGED <<pods, cache, proxy, op, puts>>

(* An object with a finalizer is only marked.  The generation is not raised *)
(* by the deletion: that is the harder case for the registry's fences.      *)
DeleteRoute ==
    /\ api # None
    /\ ~api.deleting
    /\ spent.deletes < MaxDeletes
    /\ api' = IF api.fin THEN [api EXCEPT !.deleting = TRUE] ELSE None
    /\ Spend("deletes")
    /\ UNCHANGED <<pods, cache, proxy, op, puts>>

(* A container that restarts with another image leaves readiness first.    *)
PodChange(b, state, image) ==
    /\ spent.edits < MaxEdits
    /\ pods[b] # [state |-> state, image |-> image]
    /\ image # pods[b].image => state \in {"absent", "unready"}
    /\ pods' = [pods EXCEPT ![b] = [state |-> state, image |-> image]]
    /\ Spend("edits")
    /\ UNCHANGED <<api, cache, proxy, op, puts>>

CacheSync ==
    /\ cache # Present
    /\ cache' = Present
    /\ UNCHANGED <<api, pods, proxy, op, puts, spent>>

-----------------------------------------------------------------------------
(* InferenceRouteReconciler: conformance admission.                        *)

(* FindCachedBackendProbe: what the status remembers for an exact image in  *)
(* the current generation.  spec.model is compared with itself.             *)
FindCachedBackendProbe(route, image) ==
    IF route.status.gen # route.gen
    THEN {}
    ELSE {route.status.backends[b].probed :
              b \in {c \in Pods : /\ route.status.backends[c] # None
                                  /\ route.status.backends[c].image = image
                                  /\ route.status.backends[c].probed # None}}

Outcome(entry, admitted, failed) == [entry |-> entry, admitted |-> admitted, failed |-> failed]

(* evaluateBackend: the status entry of a pod, whether it is registered and *)
(* whether its probe failed.  A pod that is not serving keeps the verdict   *)
(* of its previous entry under the image it runs now.                       *)
EvaluateBackend(route, b, pod) ==
    LET prior == route.status.backends[b]
        kept  == IF prior = None THEN None ELSE prior.probed
        found == FindCachedBackendProbe(route, pod.image)
        entry(probed) == [image |-> pod.image, probed |-> probed]
    IN  CASE pod.state = "absent" -> {Outcome(None, FALSE, FALSE)}
          [] pod.state \in {"unready", "draining"} -> {Outcome(entry(kept), FALSE, FALSE)}
          [] pod.state = "ready" /\ found # {} ->
                 {Outcome(entry(probed), TRUE, FALSE) : probed \in found}
          [] OTHER ->
                 {Outcome(entry([model |-> route.model, image |-> pod.image]), TRUE, FALSE),
                  Outcome(entry(None), FALSE, TRUE)}

(* evaluate: one outcome per resolved backend.                             *)
Evaluate(route, seen) ==
    LET choices == [b \in Pods |-> EvaluateBackend(route, b, seen[b])]
    IN  {f \in [Pods -> UNION {choices[b] : b \in Pods}] : \A b \in Pods : f[b] \in choices[b]}

Registrations(outcomes) ==
    {[id |-> b, image |-> outcomes[b].entry.image, probed |-> outcomes[b].entry.probed] :
         b \in {c \in Pods : outcomes[c].admitted}}

Snapshot(route, deleted, backends) ==
    [uid |-> route.uid, gen |-> route.gen, model |-> route.model,
     deleted |-> deleted, backends |-> backends]

-----------------------------------------------------------------------------
(* fanoutAdmin.Apply: one PUT per endpoint, every answer awaited.          *)

(* endpoints: terminating replicas are skipped; a deletion also reaches     *)
(* replicas that are not Ready.  The slices are listed from the cache.      *)
Endpoints(deleted) ==
    {p \in Proxies : ~cache.proxies[p].terminating /\ (deleted \/ cache.proxies[p].ready)}

Put(p, snap) == [to |-> p, snap |-> snap, waited |-> TRUE]

(* The reconcile waits for all targets.  Without a target a live snapshot   *)
(* fails and a tombstone succeeds.                                          *)
FanOut(snap, base, status) ==
    LET targets == Endpoints(snap.deleted)
    IN  /\ op' = [pc |-> "wait", snap |-> snap, waiting |-> targets,
                  failed |-> targets = {} /\ ~snap.deleted, base |-> base, status |-> status]
        /\ puts' = puts \cup {Put(p, snap) : p \in targets}

Idle == [pc |-> "idle"]

(* Reconcile of a live object: Get, add the finalizer, evaluate, fan out.   *)
(* The Patch returns the server's object, which is used from then on.       *)
Reconcile ==
    /\ op = Idle
    /\ cache.obj # None
    /\ ~cache.obj.deleting
    /\ LET patched == ~cache.obj.fin
           route   == IF patched THEN api ELSE cache.obj
       IN  /\ route # None
           /\ api' = IF patched THEN [api EXCEPT !.fin = TRUE] ELSE api
           /\ \/ \E out \in Evaluate(route, cache.pods) :
                    LET failures == Cardinality({b \in Pods : out[b].failed})
                    IN  /\ spent.faults + failures <= MaxFaults
                        /\ spent' = [spent EXCEPT !.faults = @ + failures]
                        /\ FanOut(Snapshot(route, FALSE, Registrations(out)), route.status,
                                  [gen |-> route.gen, backends |-> [b \in Pods |-> out[b].entry]])
              \/ (* policyForRoute or resolveBackends failed: serve nothing *)
                 /\ spent.faults < MaxFaults
                 /\ Spend("faults")
                 /\ FanOut(Snapshot(route, FALSE, {}), route.status,
                           [gen |-> route.gen, backends |-> route.status.backends])
    /\ UNCHANGED <<pods, cache, proxy>>

(* finalize, up to the answers of the fan-out.                             *)
Finalize ==
    /\ op = Idle
    /\ cache.obj # None
    /\ cache.obj.deleting
    /\ FanOut(Snapshot(cache.obj, TRUE, {}), cache.obj.status, cache.obj.status)
    /\ UNCHANGED <<api, pods, cache, proxy, spent>>

(* updateStatus: a merge patch of the fields that changed.                 *)
PatchStatus(current, base, new) ==
    [gen      |-> IF new.gen = base.gen THEN current.gen ELSE new.gen,
     backends |-> IF new.backends = base.backends THEN current.backends ELSE new.backends]

(* The end of Reconcile: the status is written whatever the fan-out said;   *)
(* the next reconcile is the retry, the resync or a watch event.            *)
ReconcileEnd ==
    /\ op.pc = "wait"
    /\ op.waiting = {}
    /\ ~op.snap.deleted
    /\ api' = IF api = None THEN None
              ELSE [api EXCEPT !.status = PatchStatus(@, op.base, op.status)]
    /\ op' = Idle
    /\ UNCHANGED <<pods, cache, proxy, puts, spent>>

(* The end of finalize: only a complete fan-out removes the finalizer.  The *)
(* patch names the route, not its UID.                                      *)
FinalizeEnd ==
    /\ op.pc = "wait"
    /\ op.waiting = {}
    /\ op.snap.deleted
    /\ api' = IF op.failed \/ api = None THEN api
              ELSE IF api.deleting THEN None
              ELSE [api EXCEPT !.fin = FALSE]
    /\ op' = Idle
    /\ UNCHANGED <<pods, cache, proxy, puts, spent>>

(* The operator dies or loses its lease; its PUTs stay on the wire.  The    *)
(* next leader lists the API server.                                        *)
OperatorCrash ==
    /\ op # Idle
    /\ spent.faults < MaxFaults
    /\ Spend("faults")
    /\ op' = Idle
    /\ cache' = Present
    /\ puts' = {[m EXCEPT !.waited = FALSE] : m \in puts}
    /\ UNCHANGED <<api, pods, proxy>>

-----------------------------------------------------------------------------
(* routeBackendRegistry.apply on one proxy, under registry.mu.             *)

Refused == None

(* Mutant: a tombstone does not fence a live snapshot of its own UID.      *)
ApplyUnfenced(existing, snap) ==
    IF /\ existing # None
       /\ IF snap.uid # existing.uid THEN ~existing.deleted ELSE snap.gen < existing.gen
    THEN Refused
    ELSE snap

(* Mutant: a snapshot must raise the generation to be applied.             *)
ApplyHigherOnly(existing, snap) ==
    IF /\ existing # None
       /\ existing # snap
       /\ IF snap.uid # existing.uid THEN ~existing.deleted ELSE snap.gen <= existing.gen
    THEN Refused
    ELSE snap

(* apply: the entry after the snapshot, or Refused (409).  An equal entry   *)
(* of the same generation is left as it is.                                 *)
Apply(existing, snap) ==
    IF /\ existing # None
       /\ IF snap.uid # existing.uid
          THEN ~existing.deleted
          ELSE snap.gen < existing.gen \/ (existing.deleted /\ ~snap.deleted)
    THEN Refused
    ELSE snap

(* combined and acquireModel: the backends a request for a model may get.   *)
(* Without a live route the static set serves, but not a tombstoned model.  *)
Admissible(entry, model) ==
    IF entry = None THEN {"static"}
    ELSE IF ~entry.deleted
         THEN IF entry.model = model THEN {r.id : r \in entry.backends} ELSE {}
         ELSE IF entry.model = model THEN {} ELSE {"static"}

(* The operator's side of one answer.                                      *)
Answered(m, ok) ==
    IF m.waited
    THEN [op EXCEPT !.waiting = @ \ {m.to}, !.failed = @ \/ ~ok]
    ELSE op

(* handleRouteBackends: the PUT is applied and answered.                   *)
Deliver(m) ==
    LET entry == Apply(proxy[m.to].entry, m.snap)
    IN  /\ m \in puts
        /\ proxy' = IF entry = Refused THEN proxy ELSE [proxy EXCEPT ![m.to].entry = entry]
        /\ puts' = puts \ {m}
        /\ op' = Answered(m, entry # Refused)
        /\ UNCHANGED <<api, pods, cache, spent>>

(* The connection is refused or breaks before the proxy read the request.  *)
Lose(m) ==
    /\ m \in puts
    /\ spent.faults < MaxFaults
    /\ Spend("faults")
    /\ puts' = puts \ {m}
    /\ op' = Answered(m, FALSE)
    /\ UNCHANGED <<api, pods, cache, proxy>>

(* The client's timeout ends the call; the proxy may still apply the PUT.   *)
(* A lost answer is this step followed by Deliver.                          *)
PutTimeout(m) ==
    /\ m \in puts
    /\ m.waited
    /\ spent.faults < MaxFaults
    /\ Spend("faults")
    /\ puts' = (puts \ {m}) \cup {[m EXCEPT !.waited = FALSE]}
    /\ op' = Answered(m, FALSE)
    /\ UNCHANGED <<api, pods, cache, proxy>>

-----------------------------------------------------------------------------
(* The proxy replicas.                                                     *)

Moving == spent.moves < MaxProxyMoves /\ Spend("moves")

(* A process ends: its registry and the PUTs addressed to it are gone.      *)
Restart(p) ==
    /\ Moving
    /\ proxy' = [proxy EXCEPT ![p] = [ready |-> FALSE, terminating |-> FALSE, entry |-> None]]
    /\ puts' = {m \in puts : m.to # p}
    /\ op' = IF op.pc = "wait" /\ p \in op.waiting
             THEN [op EXCEPT !.waiting = @ \ {p}, !.failed = TRUE]
             ELSE op
    /\ UNCHANGED <<api, pods, cache>>

Unready(p) ==
    /\ proxy[p].ready
    /\ Moving
    /\ proxy' = [proxy EXCEPT ![p].ready = FALSE]
    /\ UNCHANGED <<api, pods, cache, op, puts>>

(* The pod is being deleted; Restart is its replacement.                   *)
Terminate(p) ==
    /\ ~proxy[p].terminating
    /\ Moving
    /\ proxy' = [proxy EXCEPT ![p].terminating = TRUE, ![p].ready = FALSE]
    /\ UNCHANGED <<api, pods, cache, op, puts>>

Ready(p) ==
    /\ ~proxy[p].ready
    /\ ~proxy[p].terminating
    /\ proxy' = [proxy EXCEPT ![p].ready = TRUE]
    /\ UNCHANGED <<api, pods, cache, op, puts, spent>>

-----------------------------------------------------------------------------
Init ==
    /\ api = None
    /\ pods \in [Pods -> [state : {"ready"}, image : {CHOOSE i \in Images : TRUE}]]
    /\ cache = [obj |-> None, pods |-> pods,
                proxies |-> [p \in Proxies |-> [ready |-> TRUE, terminating |-> FALSE]]]
    /\ proxy = [p \in Proxies |-> [ready |-> TRUE, terminating |-> FALSE, entry |-> None]]
    /\ op = Idle
    /\ puts = {}
    /\ spent = [objects |-> 0, deletes |-> 0, edits |-> 0, moves |-> 0, faults |-> 0]

Operator == Reconcile \/ Finalize \/ ReconcileEnd \/ FinalizeEnd

Next ==
    \/ \E model \in Models : CreateRoute(model) \/ EditSpec(model)
    \/ DeleteRoute
    \/ \E b \in Pods, state \in PodStates, image \in Images : PodChange(b, state, image)
    \/ CacheSync
    \/ Operator
    \/ OperatorCrash
    \/ \E m \in puts : Deliver(m) \/ Lose(m) \/ PutTimeout(m)
    \/ \E p \in Proxies : Restart(p) \/ Unready(p) \/ Terminate(p) \/ Ready(p)

(* The informer is kept up to date, a due reconcile runs (every path of     *)
(* Reconcile requeues: 15 s after a failure, 5 min after a success), a PUT  *)
(* on the wire arrives or fails, and a running proxy passes its readiness   *)
(* probe.                                                                   *)
Fairness ==
    /\ WF_vars(CacheSync)
    /\ WF_vars(Operator)
    /\ WF_vars(\E m \in puts : Deliver(m))
    /\ \A p \in Proxies : WF_vars(Ready(p))

Spec == Init /\ [][Next]_vars /\ Fairness

-----------------------------------------------------------------------------
(* Properties.                                                             *)

Live(entry) == entry # None /\ ~entry.deleted

(* A replica that is not terminating serves a route only while its object   *)
(* exists: the tombstone reached every such process before the finalizer    *)
(* was removed, and no PUT of that object still on the wire undoes it, even *)
(* when the endpoints are listed from a stale cache.  Until then a request  *)
(* for the model gets neither a retired backend nor the standalone set.     *)
(* (One deletion: a late PUT of an object deleted earlier passes the fence  *)
(* once a second object is deleted too.)                                    *)
FinalizerBarrier ==
    \A p \in Proxies :
        ~proxy[p].terminating /\ proxy[p].entry # None
        => \/ api # None /\ api.uid = proxy[p].entry.uid
           \/ /\ ~Live(proxy[p].entry)
              /\ Admissible(proxy[p].entry, proxy[p].entry.model) = {}

Serving(p) ==
    /\ Live(proxy[p].entry)
    /\ proxy[p].entry.uid = api.uid
    /\ proxy[p].entry.gen = api.gen
    /\ Admissible(proxy[p].entry, api.model) = {b \in Pods : pods[b].state = "ready"}

(* Once the cluster is quiet, a deletion completes and every replica that   *)
(* takes traffic serves exactly the current generation and backends,        *)
(* whatever was lost, late, refused or restarted before.                    *)
Converges ==
    <>[](/\ api # None => ~api.deleting /\ \A p \in Proxies : proxy[p].ready => Serving(p)
         /\ api = None => \A p \in Proxies : ~proxy[p].terminating => ~Live(proxy[p].entry))

(* A registered backend's verdict was probed with the route's model on the  *)
(* image the operator saw the backend run.                                  *)
VerdictExact ==
    \A m \in puts : \A r \in m.snap.backends :
        r.probed = [model |-> m.snap.model, image |-> r.image]

=============================================================================
