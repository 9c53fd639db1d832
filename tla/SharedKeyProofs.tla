-------------------------- MODULE SharedKeyProofs ---------------------------
(***************************************************************************)
(* Proofs about SharedKey for every number of requests and stream IDs and  *)
(* every choice of lifetimes: a retained stream is the one its key names,  *)
(* and a key in use is lost to the clock alone.                            *)
(*                                                                         *)
(* The invariant is stated of a database (k, a, s), the requests q, the    *)
(* wire w and the number d of IDs drawn.  An action runs a script and then *)
(* moves a request or the wire, so a step is proved in two halves: Run     *)
(* takes the invariant to the new database with the old requests and wire, *)
(* and Follows takes it from there to the new requests and wire.           *)
(***************************************************************************)
EXTENDS SharedKey, TLAPS

\* The steps of resolve at which the ID has not created anything yet.
Early == {"new", "resolve", "state", "remove"}
Pcs == Early \cup Opening \cup {"release", "running", "refresh"} \cup Over
Ops == {"resolve", "open", "touch", "close", "refresh", "renew", "release", "remove"}
Afters == {"failed", "new", "degraded"}
Statuses == {"gone", "open", "closed"}

Keys == [tag : {"p", "r"}, id : Ids, ttl : Nat \ {0}]
Streams == [life : 0..JournalTTL, tomb : Nat, status : Statuses]
Records == [pc : Pcs, id : Ids \cup {None}, found : Ids \cup {None}, retried : BOOLEAN,
            renews : BOOLEAN, after : Afters \cup {None}]
Commands == [op : Ops, id : Ids, ttl : 1..WireTTL]

DBType(k, a, s, d) ==
    /\ k \in Keys \cup {None}
    /\ a \in [Ids -> Nat]
    /\ s \in [Ids -> Streams]
    /\ k # None => k.id <= d
    /\ \A id \in Ids : s[id].life <= s[id].tomb
    /\ \A id \in Ids : s[id].tomb > 0 => id <= d
    /\ \A id \in Ids : s[id].life > 0 => s[id].status # "gone"

RequestType(q, d) ==
    /\ q \in [Requests -> Records]
    /\ \A r \in Requests :
          /\ q[r].id # None => q[r].id <= d
          /\ q[r].found # None => q[r].found <= d
          /\ q[r].pc \notin Over \cup {"new"} => q[r].id # None
          /\ q[r].pc \in {"state", "remove"} => q[r].found # None
          /\ q[r].pc = "release" => q[r].after \in Afters

WireType(w, d) ==
    /\ w \subseteq Commands
    /\ \A c \in w : c.id <= d

\* The key outlives the stream it is bound to.
Bound(k, s) ==
    \A id \in Ids : s[id].life > 0 =>
       k # None /\ k.tag = "r" /\ k.id = id /\ k.ttl >= s[id].life

IsReserved(k, id) == k # None /\ k.tag = "p" /\ k.id = id
Resolving(w, id) == {c \in w : c.op = "resolve" /\ c.id = id}
IsEarly(q, id) == \E r \in Requests : q[r].pc \in Early /\ q[r].id = id

\* The ID of a stream that was opened is used up: nobody reserves it again, and
\* a late ResolveOrCreate for it runs while the stream still lives.
Spent(k, s, q, w) ==
    \A id \in Ids : s[id].tomb > 0 =>
       /\ ~IsReserved(k, id)
       /\ \A c \in Resolving(w, id) : c.ttl <= s[id].life
       /\ ~IsEarly(q, id)

\* The stream whose binding somebody is about to remove cannot come back.
Removing(q, w, id) ==
    \/ \E r \in Requests : q[r].pc = "remove" /\ q[r].found = id
    \/ \E c \in w : c.op = "remove" /\ c.id = id

Removals(k, s, q, w) ==
    \A id \in Ids : Removing(q, w, id) =>
       /\ s[id].life = 0
       /\ ~IsReserved(k, id)
       /\ Resolving(w, id) = {}
       /\ ~IsEarly(q, id)

\* An ID belongs to one request, which is past the calls it gave up.
Owned(q, w) ==
    /\ \A r, t \in Requests : r # t /\ q[r].id # None => q[r].id # q[t].id
    /\ \A c \in w, r \in Requests :
          q[r].id = c.id =>
             /\ c.op = "open" => q[r].pc \notin Early
             /\ c.op = "release" => q[r].pc \notin Early \cup Opening

DBInv(k, a, s, q, w, d) ==
    DBType(k, a, s, d) /\ Bound(k, s) /\ Spent(k, s, q, w) /\ Removals(k, s, q, w)

CallInv(q, w, d) ==
    d \in 0..Cardinality(Ids) /\ RequestType(q, d) /\ WireType(w, d) /\ Owned(q, w)

\* The inductive invariant.
KeyInv == DBInv(key, assoc, stream, req, wire, drawn) /\ CallInv(req, wire, drawn)

-----------------------------------------------------------------------------
(***************************************************************************)
(* The scripts.                                                            *)
(***************************************************************************)

\* When a command may run: what its sender, or the wire, guarantees.
Permitted(op, id) ==
    /\ op = "resolve" => /\ key = None => stream[id].tomb = 0
                         /\ ~Removing(req, wire, id)
    /\ op = "open" => ~IsEarly(req, id)
    /\ op = "remove" => stream[id].life = 0

\* What a script may do to the database, one alternative per kind of effect:
\* nothing, a new expiry of the key, its deletion while it names no retained
\* stream, a new reservation, and a stream renewed or created with its binding.
KeepsAll == key' = key /\ stream' = stream
Rearms(ttl) ==
    /\ key' = (IF key = None THEN None ELSE [key EXCEPT !.ttl = ttl])
    /\ stream' = stream
Deletes ==
    /\ key' = None /\ stream' = stream
    /\ \A i \in Ids : stream[i].life = 0
Reserves(id) ==
    /\ key = None /\ key' = Pending(id) /\ stream' = stream
    /\ stream[id].tomb = 0 /\ ~Removing(req, wire, id)
Retains(id, status) ==
    /\ stream' = [stream EXCEPT ![id] = [life |-> JournalTTL,
                  tomb |-> 2 * JournalTTL, status |-> status]]
    /\ key' \in Keys /\ key'.tag = "r" /\ key'.id = id /\ key'.ttl = JournalTTL
    /\ \A i \in Ids \ {id} : stream[i].life = 0
    /\ ~IsEarly(req, id) /\ ~Removing(req, wire, id)

Effect(id) ==
    \/ KeepsAll
    \/ Rearms(JournalTTL)
    \/ Rearms(PendingTTL) /\ \A i \in Ids : stream[i].life = 0
    \/ Deletes
    \/ Reserves(id)
    \/ \E status \in {"open", "closed"} : Retains(id, status)

\* Every script of a permitted command has one of the effects.
LEMMA ScriptEffect ==
  ASSUME NEW op \in Ops, NEW id \in Ids, KeyInv, Permitted(op, id), Run(op, id)
  PROVE  assoc' \in [Ids -> Nat] /\ Effect(id)
<1>0. /\ key \in Keys \cup {None} /\ assoc \in [Ids -> Nat] /\ stream \in [Ids -> Streams]
      /\ Bound(key, stream) /\ None \notin Keys
      /\ JournalTTL \in Nat \ {0} /\ PendingTTL \in Nat \ {0}
  BY IdAssumption, TTLAssumption DEF KeyInv, DBInv, DBType, Keys
<1>1. ASSUME key = None \/ key.tag = "p"
      PROVE  \A i \in Ids : stream[i].life = 0
  BY <1>0, <1>1 DEF Bound, Streams, Keys
<1>2. ASSUME NEW status \in {"open", "closed"}, stream[id].life > 0, Renewed(id, status)
      PROVE  Retains(id, status)
  <2>1. key \in Keys /\ key.tag = "r" /\ key.id = id
    BY <1>0, <1>2 DEF Bound
  <2>2. key' \in Keys /\ key'.tag = "r" /\ key'.id = id /\ key'.ttl = JournalTTL
    BY <1>0, <1>2, <2>1 DEF Renewed, Keys
  <2>3. \A i \in Ids \ {id} : stream[i].life = 0
    BY <1>0, <2>1 DEF Bound, Streams
  <2>4. ~IsEarly(req, id) /\ ~Removing(req, wire, id)
    BY <1>0, <1>2 DEF KeyInv, DBInv, DBType, Spent, Removals, Streams
  <2> QED
    BY <1>2, <2>2, <2>3, <2>4 DEF Renewed, Retains
<1>3. CASE op = "resolve"
  <2>1. ResolveScript(id)
    BY <1>3 DEF Run, Ops
  <2>2. CASE key = None
    BY <1>0, <1>3, <2>1, <2>2 DEF ResolveScript, Effect, Reserves, Permitted
  <2>3. CASE key # None /\ Reserved(id)
    BY <1>0, <1>1, <2>1, <2>3 DEF ResolveScript, Effect, Rearms, Reserved
  <2>4. CASE key # None /\ ~Reserved(id)
    BY <1>0, <2>1, <2>4 DEF ResolveScript, Effect, KeepsAll
  <2> QED BY <2>2, <2>3, <2>4
<1>4. CASE op = "open"
  <2>1. OpenScript(id)
    BY <1>4 DEF Run, Ops
  <2>2. CASE OpenAnswer(id) # "opened"
    BY <1>0, <2>1, <2>2 DEF OpenScript, Effect, KeepsAll, redis
  <2>3. CASE stream[id].life > 0
    <3>1. Renewed(id, stream[id].status) /\ UNCHANGED assoc
      BY <2>1, <2>3 DEF OpenScript, OpenAnswer
    <3>2. stream[id].status \in {"open", "closed"}
      BY <1>0, <2>3 DEF KeyInv, DBInv, DBType, Streams, Statuses
    <3> QED BY <1>0, <1>2, <2>3, <3>1, <3>2 DEF Effect
  <2>4. CASE OpenAnswer(id) = "opened" /\ ~(stream[id].life > 0)
    <3>1. Reserved(id)
      BY <2>4 DEF OpenAnswer, HoldsReservation
    <3>2. ~Removing(req, wire, id)
      BY <3>1 DEF KeyInv, DBInv, Removals, IsReserved, Reserved
    <3>3. /\ key' = Ready(id) /\ assoc' = [assoc EXCEPT ![id] = 0]
          /\ stream' = [stream EXCEPT ![id] = [life |-> JournalTTL,
                       tomb |-> 2 * JournalTTL, status |-> "open"]]
      BY <2>1, <2>4 DEF OpenScript
    <3>4. Retains(id, "open")
      BY <1>0, <1>1, <1>4, <3>1, <3>2, <3>3 DEF Retains, Ready, Keys, Reserved, Permitted
    <3> QED BY <1>0, <3>3, <3>4 DEF Effect
  <2> QED BY <2>2, <2>3, <2>4
<1>5. CASE op = "touch"
  <2>1. TouchScript(id)
    BY <1>5 DEF Run, Ops
  <2> QED BY <1>0, <1>2, <2>1 DEF TouchScript, Effect, KeepsAll, redis
<1>6. CASE op = "close"
  <2>1. CloseScript(id)
    BY <1>6 DEF Run, Ops
  <2>2. CASE stream[id].life > 0 /\ stream[id].status = "open"
    BY <1>0, <1>2, <2>1, <2>2 DEF CloseScript, Effect
  <2> QED BY <1>0, <2>1, <2>2 DEF CloseScript, Effect, KeepsAll, redis
<1>7. CASE op = "refresh"
  <2>1. RefreshScript
    BY <1>7 DEF Run, Ops
  <2> QED BY <1>0, <2>1 DEF RefreshScript, Effect, Rearms
<1>8. CASE op = "renew"
  <2>1. RefreshPendingScript(id)
    BY <1>8 DEF Run, Ops
  <2>2. CASE HoldsReservation(id)
    BY <1>0, <1>1, <2>1, <2>2
    DEF RefreshPendingScript, Effect, Rearms, HoldsReservation, Reserved
  <2> QED BY <1>0, <2>1, <2>2 DEF RefreshPendingScript, Effect, KeepsAll, redis
<1>9. CASE op = "release"
  <2>1. ReleasePendingScript(id)
    BY <1>9 DEF Run, Ops
  <2>2. CASE HoldsReservation(id)
    BY <1>0, <1>1, <2>1, <2>2
    DEF ReleasePendingScript, Effect, Deletes, HoldsReservation, Reserved
  <2> QED BY <1>0, <2>1, <2>2 DEF ReleasePendingScript, Effect, KeepsAll, redis
<1>10. CASE op = "remove"
  <2>1. RemoveIfBoundScript(id)
    BY <1>10 DEF Run, Ops
  <2>2. CASE key # None /\ key.tag = "r" /\ key.id = id
    <3>1. \A i \in Ids : stream[i].life = 0
      BY <1>0, <1>10, <2>2 DEF Permitted, Bound, Streams
    <3> QED BY <1>0, <2>1, <2>2, <3>1 DEF RemoveIfBoundScript, Effect, Deletes
  <2> QED BY <1>0, <2>1, <2>2 DEF RemoveIfBoundScript, Effect, KeepsAll
<1> QED BY <1>3, <1>4, <1>5, <1>6, <1>7, <1>8, <1>9, <1>10 DEF Ops

\* The effects keep the database's part of the invariant, with the requests
\* and the wire as they were.
LEMMA EffectInv ==
  ASSUME NEW id \in Ids, id <= drawn, KeyInv, assoc' \in [Ids -> Nat], Effect(id)
  PROVE  DBInv(key', assoc', stream', req, wire, drawn)
<1>0. /\ key \in Keys \cup {None} /\ stream \in [Ids -> Streams] /\ None \notin Keys
      /\ JournalTTL \in Nat \ {0} /\ PendingTTL \in Nat \ {0} /\ WireTTL \in 1..JournalTTL
      /\ DBType(key, assoc, stream, drawn) /\ Bound(key, stream)
      /\ Spent(key, stream, req, wire) /\ Removals(key, stream, req, wire)
      /\ wire \subseteq Commands /\ Ids \subseteq Nat
  BY IdAssumption, TTLAssumption
  DEF KeyInv, DBInv, DBType, Keys, CallInv, WireType
<1>1. CASE KeepsAll
  BY <1>0, <1>1 DEF KeepsAll, DBInv, DBType
<1>2. ASSUME NEW ttl \in Nat \ {0}, Rearms(ttl),
             ttl = JournalTTL \/ \A i \in Ids : stream[i].life = 0
      PROVE  DBInv(key', assoc', stream', req, wire, drawn)
  <2>1. CASE key = None
    BY <1>0, <1>2, <2>1 DEF Rearms, DBInv, DBType
  <2>2. CASE key # None
    <3>1. /\ key' \in Keys /\ key'.tag = key.tag /\ key'.id = key.id /\ key'.ttl = ttl
          /\ stream' = stream /\ key' # None
      BY <1>0, <1>2, <2>2 DEF Rearms, Keys
    <3>2. DBType(key', assoc', stream', drawn)
      BY <1>0, <2>2, <3>1 DEF DBType
    <3>3. Bound(key', stream')
      BY <1>0, <1>2, <2>2, <3>1 DEF Bound, Streams
    <3>4. \A i \in Ids : IsReserved(key', i) <=> IsReserved(key, i)
      BY <2>2, <3>1 DEF IsReserved
    <3> QED BY <1>0, <3>1, <3>2, <3>3, <3>4 DEF DBInv, Spent, Removals
  <2> QED BY <2>1, <2>2
<1>3. CASE Deletes
  <2>1. \A i \in Ids : ~IsReserved(key', i)
    BY <1>3 DEF Deletes, IsReserved
  <2> QED BY <1>0, <1>3, <2>1 DEF Deletes, DBInv, DBType, Bound, Spent, Removals
<1>4. CASE Reserves(id)
  <2>1. key' \in Keys /\ key'.tag = "p" /\ key'.id = id /\ stream' = stream /\ key' # None
    BY <1>0, <1>4 DEF Reserves, Pending, Keys
  <2>2. \A i \in Ids : IsReserved(key', i) => i = id
    BY <2>1 DEF IsReserved
  <2>3. \A i \in Ids : stream[i].life = 0
    BY <1>0, <1>4 DEF Reserves, Bound, Streams
  <2>4. DBType(key', assoc', stream', drawn) /\ Bound(key', stream')
    BY <1>0, <2>1, <2>3 DEF DBType, Bound
  <2>5. Spent(key', stream', req, wire)
    BY <1>0, <1>4, <2>1, <2>2 DEF Reserves, Spent
  <2>6. Removals(key', stream', req, wire)
    BY <1>0, <1>4, <2>1, <2>2 DEF Reserves, Removals
  <2> QED BY <2>4, <2>5, <2>6 DEF DBInv
<1>5. ASSUME NEW status \in {"open", "closed"}, Retains(id, status)
      PROVE  DBInv(key', assoc', stream', req, wire, drawn)
  <2>1. /\ key' \in Keys /\ key'.tag = "r" /\ key'.id = id /\ key'.ttl = JournalTTL
        /\ key' # None
    BY <1>0, <1>5 DEF Retains
  <2>2. /\ stream' \in [Ids -> Streams]
        /\ stream'[id].life = JournalTTL /\ stream'[id].tomb = 2 * JournalTTL
        /\ stream'[id].status = status
        /\ \A i \in Ids \ {id} : stream'[i] = stream[i] /\ stream[i].life = 0
    BY <1>0, <1>5 DEF Retains, Streams, Statuses
  <2>3. DBType(key', assoc', stream', drawn)
    BY <1>0, <2>1, <2>2 DEF DBType, Streams
  <2>4. Bound(key', stream')
    BY <1>0, <2>1, <2>2 DEF Bound
  <2>5. \A i \in Ids : ~IsReserved(key', i)
    BY <2>1 DEF IsReserved
  <2>6. \A c \in Resolving(wire, id) : c.ttl <= stream'[id].life
    BY <1>0, <2>2 DEF Resolving, Commands
  <2>7. Spent(key', stream', req, wire)
    BY <1>0, <1>5, <2>2, <2>5, <2>6 DEF Spent, Retains
  <2>8. Removals(key', stream', req, wire)
    BY <1>0, <1>5, <2>2, <2>5 DEF Removals, Retains
  <2> QED BY <2>3, <2>4, <2>7, <2>8 DEF DBInv
<1> QED BY <1>0, <1>1, <1>2, <1>3, <1>4, <1>5 DEF Effect

\* A permitted command keeps the database's part of the invariant.
LEMMA RunInv ==
  ASSUME NEW op \in Ops, NEW id \in Ids, id <= drawn, KeyInv, Permitted(op, id), Run(op, id)
  PROVE  DBInv(key', assoc', stream', req, wire, drawn)
BY ScriptEffect, EffectInv

-----------------------------------------------------------------------------
(***************************************************************************)
(* The requests and the wire.                                              *)
(***************************************************************************)

\* The commands request r can have sent where it is.
Calls(r, op, id) ==
    /\ op \in Ops /\ id \in Ids
    /\ op = "remove" => req[r].pc = "remove" /\ id = req[r].found
    /\ op # "remove" => id = req[r].id
    /\ op \in {"resolve", "open", "release"} => req[r].pc = op

Sends(r, w) ==
    \A c \in w : c \in wire \/ (c \in Commands /\ Calls(r, c.op, c.id))

\* How r may move to record x over the streams s: it keeps its ID or gives it
\* up, never goes back before the calls it made, and is about to remove a
\* binding only when the stream is dead.
Moves(s, r, x) ==
    /\ x \in Records
    /\ x.id # None => x.id = req[r].id
    /\ x.found # None => x.found <= drawn
    /\ x.pc \notin Over \cup {"new"} => x.id # None
    /\ x.pc \in {"state", "remove"} => x.found # None
    /\ x.pc = "release" => x.after \in Afters
    /\ x.pc \in Early /\ x.id # None => req[r].pc \in Early
    /\ x.pc \in Opening => req[r].pc \in Early \cup Opening
    /\ x.pc = "remove" => \/ req[r].pc = "remove" /\ x.found = req[r].found
                          \/ s[x.found].life = 0 /\ s[x.found].tomb > 0

\* What a request calls is permitted.
LEMMA CallPermitted ==
  ASSUME NEW r \in Requests, NEW op, NEW id, KeyInv, Calls(r, op, id)
  PROVE  op \in Ops /\ id \in Ids /\ id <= drawn /\ Permitted(op, id)
<1>0. /\ RequestType(req, drawn) /\ Owned(req, wire) /\ None \notin Ids
      /\ Spent(key, stream, req, wire) /\ Removals(key, stream, req, wire)
      /\ stream \in [Ids -> Streams]
  BY IdAssumption DEF KeyInv, DBInv, DBType, CallInv
<1>1. op \in Ops /\ id \in Ids /\ id <= drawn
  BY <1>0 DEF Calls, RequestType
<1>2. CASE op = "resolve"
  <2>1. IsEarly(req, id)
    BY <1>2 DEF Calls, IsEarly, Early
  <2> QED BY <1>0, <1>1, <1>2, <2>1 DEF Permitted, Spent, Removals, Streams
<1>3. CASE op = "open"
  <2>1. req[r].pc = "open" /\ req[r].id = id
    BY <1>3 DEF Calls
  <2>2. ~IsEarly(req, id)
    BY <1>0, <1>1, <2>1 DEF IsEarly, Early, Owned
  <2> QED BY <1>1, <1>3, <2>2 DEF Permitted
<1>4. CASE op = "remove"
  <2>1. Removing(req, wire, id)
    BY <1>4 DEF Calls, Removing
  <2> QED BY <1>0, <1>1, <1>4, <2>1 DEF Permitted, Removals
<1> QED BY <1>1, <1>2, <1>3, <1>4 DEF Permitted

\* Moving a request and sending its command keep the invariant over any
\* database.
LEMMA MoveInv ==
  ASSUME NEW k, NEW a, NEW s, NEW r \in Requests, NEW x, NEW w,
         DBInv(k, a, s, req, wire, drawn), CallInv(req, wire, drawn),
         Moves(s, r, x), Sends(r, w)
  PROVE  LET q == [req EXCEPT ![r] = x]
         IN  DBInv(k, a, s, q, w, drawn) /\ CallInv(q, w, drawn)
<1> DEFINE q == [req EXCEPT ![r] = x]
<1>0. /\ DBType(k, a, s, drawn) /\ Bound(k, s) /\ s \in [Ids -> Streams]
      /\ Spent(k, s, req, wire) /\ Removals(k, s, req, wire)
      /\ RequestType(req, drawn) /\ WireType(wire, drawn) /\ Owned(req, wire)
      /\ drawn \in 0..Cardinality(Ids) /\ None \notin Ids /\ Ids \subseteq Nat
      /\ drawn \in Nat /\ WireTTL \in Nat
  BY IdAssumption, TTLAssumption DEF DBInv, DBType, CallInv
<1>1. /\ q \in [Requests -> Records] /\ q[r] = x
      /\ \A t \in Requests \ {r} : q[t] = req[t]
  BY <1>0 DEF Moves, RequestType
<1>2. RequestType(q, drawn)
  <2>1. x.id # None => x.id <= drawn
    BY <1>0 DEF Moves, RequestType
  <2> QED BY <1>0, <1>1, <2>1 DEF Moves, RequestType
<1>3. WireType(w, drawn)
  <2>1. ASSUME NEW c \in w, c \in Commands, Calls(r, c.op, c.id)
        PROVE  c.id <= drawn
    BY <1>0, <2>1 DEF Calls, RequestType
  <2> QED BY <1>0, <2>1 DEF Sends, WireType
<1>4. \A i \in Ids : IsEarly(q, i) => IsEarly(req, i)
  BY <1>0, <1>1 DEF IsEarly, Moves
<1>5. \A i \in Ids : \A c \in Resolving(w, i) : c \in Resolving(wire, i) \/ IsEarly(req, i)
  BY <1>0, <1>3 DEF Resolving, Sends, Calls, IsEarly, Early
<1>6. Spent(k, s, q, w)
  BY <1>0, <1>4, <1>5 DEF Spent
<1>7. ASSUME NEW i \in Ids, Removing(q, w, i)
      PROVE  Removing(req, wire, i) \/ (s[i].life = 0 /\ s[i].tomb > 0)
  <2>1. CASE \E t \in Requests : q[t].pc = "remove" /\ q[t].found = i
    BY <1>1, <2>1 DEF Moves, Removing
  <2>2. CASE \E c \in w : c.op = "remove" /\ c.id = i
    BY <2>2 DEF Sends, Calls, Removing
  <2> QED BY <1>7, <2>1, <2>2 DEF Removing
<1>8. ASSUME NEW i \in Ids, s[i].life = 0, s[i].tomb > 0
      PROVE  ~IsReserved(k, i) /\ Resolving(wire, i) = {} /\ ~IsEarly(req, i)
  <2>1. \A c \in Resolving(wire, i) : c.ttl <= 0 /\ c.ttl \in 1..WireTTL
    BY <1>0, <1>8 DEF Spent, Resolving, WireType, Commands
  <2> QED BY <1>0, <1>8, <2>1 DEF Spent
<1>9. Removals(k, s, q, w)
  BY <1>0, <1>4, <1>5, <1>7, <1>8 DEF Removals
<1>10. Owned(q, w)
  <2>1. \A t, u \in Requests : t # u /\ q[t].id # None => q[t].id # q[u].id
    BY <1>0, <1>1 DEF Owned, Moves
  <2>2. ASSUME NEW c \in w, NEW t \in Requests, q[t].id = c.id
        PROVE  /\ c.op = "open" => q[t].pc \notin Early
               /\ c.op = "release" => q[t].pc \notin Early \cup Opening
    <3>0. c.id \in Ids /\ c.id # None
      BY <1>0, <1>3 DEF WireType, Commands
    <3>1. CASE c \in wire
      BY <1>0, <1>1, <2>2, <3>0, <3>1 DEF Owned, Moves
    <3>2. CASE Calls(r, c.op, c.id)
      <4>1. CASE t = r
        BY <1>1, <2>2, <3>0, <3>2, <4>1 DEF Calls, Moves, Early, Opening
      <4>2. CASE t # r
        BY <1>0, <1>1, <2>2, <3>0, <3>2, <4>2 DEF Calls, Owned
      <4> QED BY <4>1, <4>2
    <3> QED BY <3>1, <3>2 DEF Sends
  <2> QED BY <2>1, <2>2 DEF Owned
<1> QED BY <1>0, <1>2, <1>3, <1>6, <1>9, <1>10 DEF DBInv, CallInv

\* A call of Redis, answered or not.
Called(op, id) == (Run(op, id) /\ wire' = wire) \/ Unanswered(op, id)

\* An action of r that calls Redis once and moves r keeps the invariant.
LEMMA CallStep ==
  ASSUME NEW r \in Requests, NEW op, NEW id, NEW x, KeyInv, Calls(r, op, id),
         Called(op, id), drawn' = drawn, req' = [req EXCEPT ![r] = x],
         Moves(stream', r, x)
  PROVE  KeyInv'
<1>1. op \in Ops /\ id \in Ids /\ id <= drawn /\ Permitted(op, id)
  BY CallPermitted
<1>2. DBInv(key', assoc', stream', req, wire, drawn) /\ Sends(r, wire')
  <2>1. CASE Run(op, id) /\ wire' = wire
    BY <1>1, <2>1, RunInv DEF Sends
  <2>2. CASE UNCHANGED redis /\ wire' = wire \cup {[op |-> op, id |-> id, ttl |-> WireTTL]}
    <3>1. [op |-> op, id |-> id, ttl |-> WireTTL] \in Commands
      BY <1>1, TTLAssumption DEF Commands
    <3> QED BY <2>2, <3>1 DEF KeyInv, Sends, redis
  <2> QED BY <2>1, <2>2 DEF Called, Unanswered
<1>3. CallInv(req, wire, drawn)
  BY DEF KeyInv
<1>4. DBInv(key', assoc', stream', req', wire', drawn) /\ CallInv(req', wire', drawn)
  BY <1>2, <1>3, MoveInv
<1> QED BY <1>4 DEF KeyInv

\* So does one that only moves r.
LEMMA MoveStep ==
  ASSUME NEW r \in Requests, NEW x, KeyInv, UNCHANGED <<redis, wire, drawn>>,
         req' = [req EXCEPT ![r] = x], Moves(stream, r, x)
  PROVE  KeyInv'
<1>1. Sends(r, wire)
  BY DEF Sends
<1>2. DBInv(key, assoc, stream, req', wire, drawn) /\ CallInv(req', wire, drawn)
  BY <1>1, MoveInv DEF KeyInv
<1> QED BY <1>2 DEF KeyInv, redis

\* Setting a request's step moves it, unless it goes back.
LEMMA SetMoves ==
  ASSUME NEW s, NEW r \in Requests, RequestType(req, drawn), NEW pc \in Pcs,
         pc \notin Early \/ pc = "new",
         pc \in Opening => req[r].pc \in Early \cup Opening,
         pc \notin Over \cup {"new"} => req[r].id # None,
         pc = "release" => req[r].after \in Afters
  PROVE  Moves(s, r, At(r, pc))
<1>0. req[r] \in Records
  BY DEF RequestType
<1>1. CASE pc \in Over \cup {"new"}
  <2>1. /\ At(r, pc) \in Records /\ At(r, pc).pc = pc /\ At(r, pc).id = None
        /\ At(r, pc).found = None
    BY <1>1 DEF At, New, Records
  <2> QED BY <1>1, <2>1 DEF Moves, Over, Returned, Opening, Early
<1>2. CASE pc \notin Over \cup {"new"}
  <2>1. /\ At(r, pc) \in Records /\ At(r, pc).pc = pc /\ At(r, pc).id = req[r].id
        /\ At(r, pc).found = req[r].found /\ At(r, pc).after = req[r].after
    BY <1>0, <1>2 DEF At, Records
  <2> QED BY <1>2, <2>1 DEF Moves, RequestType, Early
<1> QED BY <1>1, <1>2

-----------------------------------------------------------------------------
(***************************************************************************)
(* The actions.                                                            *)
(***************************************************************************)

\* The retry of a failed call, or its caller going on at pc.
LEMMA FailStep ==
  ASSUME NEW r \in Requests, NEW op, NEW id, NEW pc \in Pcs, KeyInv, Calls(r, op, id),
         Fails(r, op, id, pc), pc \notin Early \/ pc = "new",
         pc \in Opening => req[r].pc \in Early \cup Opening,
         pc \notin Over \cup {"new"} => req[r].id # None, pc # "release"
  PROVE  KeyInv'
<1>0. RequestType(req, drawn) /\ req[r] \in Records
  BY DEF KeyInv, CallInv, RequestType
<1>1. CASE req' = [req EXCEPT ![r].retried = TRUE]
  <2> DEFINE x == [req[r] EXCEPT !.retried = TRUE]
  <2>1. /\ x \in Records /\ x.pc = req[r].pc /\ x.id = req[r].id
        /\ x.found = req[r].found /\ x.after = req[r].after
    BY <1>0 DEF Records
  <2>2. Moves(stream', r, x)
    BY <1>0, <2>1 DEF Moves, RequestType
  <2>3. req' = [req EXCEPT ![r] = x]
    BY <1>0, <1>1
  <2> HIDE DEF x
  <2> QED BY <2>2, <2>3, CallStep DEF Fails, Called
<1>2. CASE Set(r, pc)
  BY <1>0, <1>2, SetMoves, CallStep DEF Fails, Called, Set
<1> QED BY <1>1, <1>2 DEF Fails

\* Drawing a stream ID at the head of resolve keeps the invariant: it is new.
LEMMA LoopHeadStep ==
  ASSUME NEW r \in Requests, KeyInv, LoopHead(r)
  PROVE  KeyInv'
<1>0. /\ RequestType(req, drawn) /\ req[r] \in Records /\ req[r].pc = "new"
      /\ UNCHANGED redis /\ wire' = wire
  BY DEF KeyInv, CallInv, RequestType, LoopHead
<1>1. CASE req[r].id # None
  <2>1. Set(r, "resolve") /\ drawn' = drawn
    BY <1>1 DEF LoopHead
  <2> DEFINE x == At(r, "resolve")
  <2>2. /\ x \in Records /\ x.pc = "resolve" /\ x.id = req[r].id /\ x.found = req[r].found
    BY <1>0 DEF At, Records, Pcs, Early, Over, Returned
  <2>3. Moves(stream, r, x)
    BY <1>0, <1>1, <2>2 DEF Moves, RequestType, Early, Opening
  <2> QED BY <1>0, <2>1, <2>3, MoveStep DEF Set
<1>2. CASE req[r].id = None /\ ~(drawn < Cardinality(Ids))
  <2>1. Set(r, "failed") /\ drawn' = drawn
    BY <1>2 DEF LoopHead
  <2>2. Moves(stream, r, At(r, "failed"))
    BY <1>0, SetMoves DEF Pcs, Over, Returned, Early, Opening
  <2> QED BY <1>0, <2>1, <2>2, MoveStep DEF Set
<1>3. CASE req[r].id = None /\ drawn < Cardinality(Ids)
  <2> DEFINE x == [req[r] EXCEPT !.pc = "resolve", !.id = drawn + 1]
  <2>0. /\ DBInv(key, assoc, stream, req, wire, drawn)
        /\ DBType(key, assoc, stream, drawn) /\ Spent(key, stream, req, wire)
        /\ Removals(key, stream, req, wire) /\ Owned(req, wire) /\ WireType(wire, drawn)
        /\ drawn \in Nat /\ drawn + 1 \in Ids /\ Ids \subseteq Nat /\ None \notin Ids
        /\ Bound(key, stream)
    BY <1>3, IdAssumption, SMTT(20) DEF KeyInv, DBInv, CallInv
  <2>1. drawn' = drawn + 1 /\ req' = [req EXCEPT ![r] = x]
    BY <1>0, <1>3 DEF LoopHead
  <2>2. /\ x \in Records /\ x.pc = "resolve" /\ x.id = drawn + 1 /\ x.found = req[r].found
    BY <1>0, <2>0 DEF Records, Pcs, Early
  <2>3. /\ req' \in [Requests -> Records] /\ req'[r] = x
        /\ \A t \in Requests \ {r} : req'[t] = req[t]
    BY <1>0, <2>1, <2>2 DEF RequestType
  <2> HIDE DEF x
  <2>4. RequestType(req', drawn')
    <3>0. drawn + 1 <= drawn + 1 /\ \A n \in Ids : n <= drawn => n <= drawn + 1
      BY <2>0
    <3>1. \A t \in Requests : req[t].id \in Ids \cup {None} /\ req[t].found \in Ids \cup {None}
      BY <1>0 DEF RequestType, Records
    <3>2. \A t \in Requests : /\ req'[t].id # None => req'[t].id <= drawn + 1
                              /\ req'[t].found # None => req'[t].found <= drawn + 1
      <4> SUFFICES ASSUME NEW t \in Requests
                   PROVE  /\ req'[t].id # None => req'[t].id <= drawn + 1
                          /\ req'[t].found # None => req'[t].found <= drawn + 1
        OBVIOUS
      <4>1. CASE t = r
        <5>1. req'[t].id = drawn + 1 /\ req'[t].found = req[r].found
          BY <2>2, <2>3, <4>1
        <5> QED BY <1>0, <3>0, <3>1, <5>1, Zenon DEF RequestType
      <4>2. CASE t # r
        BY <1>0, <2>0, <2>3, <3>0, <3>1, <4>2 DEF RequestType
      <4> QED BY <4>1, <4>2
    <3> QED BY <1>0, <2>0, <2>1, <2>2, <2>3, <3>1, <3>2 DEF RequestType
  <2>5. WireType(wire', drawn')
    BY <1>0, <2>0, <2>1 DEF WireType, Commands
  <2>6. Owned(req', wire')
    <3>1. \A t \in Requests : req[t].id # drawn + 1
      BY <1>0, <2>0 DEF RequestType, Records
    <3>2. \A c \in wire : c.id # drawn + 1
      BY <2>0 DEF WireType, Commands
    <3> QED BY <1>0, <2>0, <2>2, <2>3, <3>1, <3>2, SMTT(20) DEF Owned
  <2>7. DBType(key', assoc', stream', drawn')
    BY <1>0, <2>0, <2>1 DEF DBType, redis, Keys
  <2>8. \A i \in Ids : IsEarly(req', i) => IsEarly(req, i) \/ i = drawn + 1
    BY <2>2, <2>3 DEF IsEarly
  <2>9. Spent(key', stream', req', wire')
    BY <1>0, <2>0, <2>8, SMTT(20) DEF Spent, DBType, redis
  <2>10. \A i \in Ids : Removing(req', wire', i) => Removing(req, wire, i) /\ i # drawn + 1
    BY <1>0, <2>0, <2>2, <2>3 DEF Removing, WireType, RequestType, Records, Commands
  <2>11. Removals(key', stream', req', wire')
    BY <1>0, <2>0, <2>8, <2>10 DEF Removals, redis
  <2>12. drawn' \in 0..Cardinality(Ids)
    BY <1>3, <2>0, <2>1, IdAssumption
  <2> QED BY <1>0, <2>0, <2>4, <2>5, <2>6, <2>7, <2>9, <2>11, <2>12
          DEF KeyInv, DBInv, CallInv, redis
<1> QED BY <1>1, <1>2, <1>3

\* ResolveOrCreate keeps the invariant.
LEMMA ResolveStep ==
  ASSUME NEW r \in Requests, KeyInv, ResolveOrCreate(r)
  PROVE  KeyInv'
<1> DEFINE id == req[r].id
<1>0. /\ RequestType(req, drawn) /\ req[r] \in Records /\ req[r].pc = "resolve"
      /\ id \in Ids /\ None \notin Ids /\ DBType(key, assoc, stream, drawn)
  BY IdAssumption
  DEF KeyInv, DBInv, CallInv, RequestType, ResolveOrCreate, Records, Over, Returned
<1>1. Calls(r, "resolve", id)
  BY <1>0 DEF Calls, Ops
<1>2. CASE Answered("resolve", id)
           /\ req' = [req EXCEPT ![r].pc = "acquire", ![r].retried = FALSE, ![r].renews = TRUE]
  <2> DEFINE x == [req[r] EXCEPT !.pc = "acquire", !.retried = FALSE, !.renews = TRUE]
  <2>1. x \in Records /\ x.pc = "acquire" /\ x.id = id /\ x.found = req[r].found
    BY <1>0 DEF Records, Pcs, Opening
  <2>2. Moves(stream', r, x)
    BY <1>0, <2>1 DEF Moves, RequestType, Early, Opening
  <2>3. req' = [req EXCEPT ![r] = x]
    BY <1>0, <1>2
  <2> HIDE DEF x
  <2> QED BY <1>1, <1>2, <2>2, <2>3, CallStep DEF Answered, Called
<1>3. CASE /\ key # None /\ Answered("resolve", id)
           /\ req' = [req EXCEPT ![r].pc = "state", ![r].found = key.id, ![r].retried = FALSE]
  <2> DEFINE x == [req[r] EXCEPT !.pc = "state", !.found = key.id, !.retried = FALSE]
  <2>0. key.id \in Ids /\ key.id <= drawn
    BY <1>0, <1>3 DEF DBType, Keys
  <2>1. x \in Records /\ x.pc = "state" /\ x.id = id /\ x.found = key.id
    BY <1>0, <2>0 DEF Records, Pcs, Early
  <2>2. Moves(stream', r, x)
    BY <1>0, <2>0, <2>1 DEF Moves, RequestType, Early, Opening
  <2>3. req' = [req EXCEPT ![r] = x]
    BY <1>0, <1>3
  <2> HIDE DEF x
  <2> QED BY <1>1, <1>3, <2>2, <2>3, CallStep DEF Answered, Called
<1>4. CASE Fails(r, "resolve", id, "degraded")
  BY <1>0, <1>1, <1>4, FailStep DEF Pcs, Over, Returned, Early, Opening
<1> QED BY <1>2, <1>3, <1>4 DEF ResolveOrCreate

\* The next loop of a request that found the key taken.
LEMMA AgainMoves ==
  ASSUME NEW s, NEW r \in Requests, RequestType(req, drawn), req[r].pc \in {"state", "remove"},
         Again(r)
  PROVE  \E x : req' = [req EXCEPT ![r] = x] /\ Moves(s, r, x)
<1> DEFINE id == IF \E c \in wire : c.id = req[r].id THEN None ELSE req[r].id
           x == [New EXCEPT !.id = id]
<1>0. req[r] \in Records
  BY DEF RequestType
<1>1. id \in {None, req[r].id} /\ id \in Ids \cup {None}
  BY <1>0 DEF Records
<1>2. req' = [req EXCEPT ![r] = x]
  BY DEF Again
<1> HIDE DEF id
<1>3. x \in Records /\ x.pc = "new" /\ x.id = id /\ x.found = None
  BY <1>1 DEF New, Records, Pcs, Early
<1>4. Moves(s, r, x)
  BY <1>1, <1>3 DEF Moves, Early, Opening
<1> QED BY <1>2, <1>4

\* Looking the bound stream up keeps the invariant: only a dead one is removed.
LEMMA StateStep ==
  ASSUME NEW r \in Requests, KeyInv, State(r)
  PROVE  KeyInv'
<1>0. /\ RequestType(req, drawn) /\ req[r] \in Records /\ req[r].pc = "state"
      /\ UNCHANGED <<redis, wire, drawn>>
  BY DEF KeyInv, CallInv, RequestType, State
<1>1. CASE Set(r, "existing") \/ Set(r, "degraded")
  <2>1. Moves(stream, r, At(r, "existing")) /\ Moves(stream, r, At(r, "degraded"))
    BY <1>0, SetMoves DEF Pcs, Over, Returned, Early, Opening
  <2> QED BY <1>0, <1>1, <2>1, MoveStep DEF Set
<1>2. CASE Again(r)
  BY <1>0, <1>2, AgainMoves, MoveStep
<1>3. CASE /\ stream[req[r].found].life = 0 /\ stream[req[r].found].tomb > 0
           /\ Set(r, "remove")
  <2> DEFINE x == At(r, "remove")
  <2>1. x \in Records /\ x.pc = "remove" /\ x.id = req[r].id /\ x.found = req[r].found
    BY <1>0 DEF At, Records, Pcs, Early, Over, Returned
  <2>2. Moves(stream, r, x)
    BY <1>0, <1>3, <2>1 DEF Moves, RequestType, Early, Opening, Over, Returned
  <2> QED BY <1>0, <1>3, <2>2, MoveStep DEF Set
<1> QED BY <1>1, <1>2, <1>3 DEF State

\* Removing the binding of a dead stream keeps the invariant.
LEMMA RemoveStep ==
  ASSUME NEW r \in Requests, KeyInv, Remove(r)
  PROVE  KeyInv'
<1>0. /\ RequestType(req, drawn) /\ req[r] \in Records /\ req[r].pc = "remove"
      /\ req[r].found \in Ids
  BY DEF KeyInv, CallInv, RequestType, Remove, Records
<1>1. Calls(r, "remove", req[r].found)
  BY <1>0 DEF Calls, Ops
<1>2. CASE Answered("remove", req[r].found) /\ Again(r)
  <2>1. PICK x : req' = [req EXCEPT ![r] = x] /\ Moves(stream', r, x)
    BY <1>0, <1>2, AgainMoves
  <2> QED BY <1>1, <1>2, <2>1, CallStep DEF Answered, Called
<1>3. CASE Fails(r, "remove", req[r].found, "degraded")
  BY <1>0, <1>1, <1>3, FailStep DEF Pcs, Over, Returned, Early, Opening
<1> QED BY <1>2, <1>3 DEF Remove

\* Giving the reservation back before going on at pc.
LEMMA WithdrawMoves ==
  ASSUME NEW s, NEW r \in Requests, RequestType(req, drawn), NEW pc \in Afters,
         req[r].id # None
  PROVE  Moves(s, r, [At(r, "release") EXCEPT !.after = pc])
<1> DEFINE x == [At(r, "release") EXCEPT !.after = pc]
<1>0. req[r] \in Records
  BY DEF RequestType
<1>1. /\ x \in Records /\ x.pc = "release" /\ x.id = req[r].id /\ x.found = req[r].found
      /\ x.after = pc
  BY <1>0 DEF At, Records, Pcs, Over, Returned
<1> QED BY <1>1 DEF Moves, RequestType, Early, Opening

\* Acquiring a backend keeps the invariant.
LEMMA AcquireStep ==
  ASSUME NEW r \in Requests, KeyInv, Acquire(r)
  PROVE  KeyInv'
<1>0. /\ RequestType(req, drawn) /\ req[r].pc = "acquire" /\ req[r].id # None
      /\ UNCHANGED <<redis, wire, drawn>>
  BY DEF KeyInv, CallInv, RequestType, Acquire, Over, Returned
<1>1. CASE Set(r, "open")
  <2>1. Moves(stream, r, At(r, "open"))
    BY <1>0, SetMoves DEF Pcs, Early, Opening
  <2> QED BY <1>0, <1>1, <2>1, MoveStep DEF Set
<1>2. CASE Withdraws(r, "failed")
  <2>1. Moves(stream, r, [At(r, "release") EXCEPT !.after = "failed"])
    BY <1>0, WithdrawMoves DEF Afters
  <2> QED BY <1>0, <1>2, <2>1, MoveStep DEF Withdraws
<1> QED BY <1>1, <1>2 DEF Acquire

\* Open keeps the invariant.
LEMMA OpenStep ==
  ASSUME NEW r \in Requests, KeyInv, Open(r)
  PROVE  KeyInv'
<1>0. /\ RequestType(req, drawn) /\ req[r] \in Records /\ req[r].pc = "open"
      /\ req[r].id \in Ids /\ req[r].id # None
  BY DEF KeyInv, CallInv, RequestType, Open, Records, Over, Returned
<1>1. Calls(r, "open", req[r].id)
  BY <1>0 DEF Calls, Ops
<1>2. CASE Answered("open", req[r].id) /\ Set(r, "running")
  <2>1. Moves(stream', r, At(r, "running"))
    BY <1>0, SetMoves DEF Pcs, Early, Opening
  <2> QED BY <1>1, <1>2, <2>1, CallStep DEF Answered, Called, Set
<1>3. CASE Answered("open", req[r].id) /\ Withdraws(r, "new")
  <2>1. Moves(stream', r, [At(r, "release") EXCEPT !.after = "new"])
    BY <1>0, WithdrawMoves DEF Afters
  <2> QED BY <1>1, <1>3, <2>1, CallStep DEF Answered, Called, Withdraws
<1>4. CASE Fails(r, "open", req[r].id, "reconcile")
  BY <1>0, <1>1, <1>4, FailStep DEF Pcs, Early, Opening
<1> QED BY <1>2, <1>3, <1>4 DEF Open

\* Reconciling an unanswered Open keeps the invariant.
LEMMA ReconcileStep ==
  ASSUME NEW r \in Requests, KeyInv, Reconcile(r)
  PROVE  KeyInv'
<1>0. /\ RequestType(req, drawn) /\ req[r].pc = "reconcile" /\ req[r].id # None
      /\ UNCHANGED <<redis, wire, drawn>>
  BY DEF KeyInv, CallInv, RequestType, Reconcile, Over, Returned
<1>1. CASE Set(r, "running")
  <2>1. Moves(stream, r, At(r, "running"))
    BY <1>0, SetMoves DEF Pcs, Early, Opening
  <2> QED BY <1>0, <1>1, <2>1, MoveStep DEF Set
<1>2. CASE Withdraws(r, "degraded")
  <2>1. Moves(stream, r, [At(r, "release") EXCEPT !.after = "degraded"])
    BY <1>0, WithdrawMoves DEF Afters
  <2> QED BY <1>0, <1>2, <2>1, MoveStep DEF Withdraws
<1> QED BY <1>1, <1>2 DEF Reconcile

\* Releasing the reservation keeps the invariant.
LEMMA ReleaseStep ==
  ASSUME NEW r \in Requests, KeyInv, Release(r)
  PROVE  KeyInv'
<1>0. /\ RequestType(req, drawn) /\ req[r] \in Records /\ req[r].pc = "release"
      /\ req[r].id \in Ids /\ req[r].after \in Afters
  BY DEF KeyInv, CallInv, RequestType, Release, Records, Over, Returned
<1>1. Calls(r, "release", req[r].id)
  BY <1>0 DEF Calls, Ops
<1>2. CASE Answered("release", req[r].id) /\ Set(r, req[r].after)
  <2>1. Moves(stream', r, At(r, req[r].after))
    BY <1>0, SetMoves DEF Pcs, Over, Returned, Early, Opening, Afters
  <2> QED BY <1>1, <1>2, <2>1, CallStep DEF Answered, Called, Set
<1>3. CASE Fails(r, "release", req[r].id, req[r].after)
  BY <1>0, <1>1, <1>3, FailStep DEF Pcs, Over, Returned, Early, Opening, Afters
<1> QED BY <1>2, <1>3 DEF Release

\* The renewals of a lease call Redis and leave the request where it is.
LEMMA LeaseStep ==
  ASSUME NEW r \in Requests, NEW x, NEW op \in {"renew", "touch", "refresh", "close"}, KeyInv,
         Called(op, req[r].id), drawn' = drawn, req' = [req EXCEPT ![r] = x],
         req[r].pc \in Opening \cup {"running", "refresh"},
         x \in Records, x.pc = req[r].pc, x.id = req[r].id, x.found = req[r].found
  PROVE  KeyInv'
<1>0. RequestType(req, drawn) /\ req[r] \in Records /\ req[r].id \in Ids
  BY DEF KeyInv, CallInv, RequestType, Records, Over, Returned, Opening
<1>1. Calls(r, op, req[r].id)
  BY <1>0 DEF Calls, Ops
<1>2. Moves(stream', r, x)
  BY <1>0 DEF Moves, RequestType, Opening
<1> QED BY <1>1, <1>2, CallStep

\* Renewing the reservation keeps the invariant.
LEMMA RefreshPendingStep ==
  ASSUME NEW r \in Requests, KeyInv, RefreshPending(r)
  PROVE  KeyInv'
<1>0. RequestType(req, drawn) /\ req[r] \in Records /\ req[r].pc \in Opening
  BY DEF KeyInv, CallInv, RequestType, RefreshPending
<1>1. CASE /\ Answered("renew", req[r].id)
           /\ req' = [req EXCEPT ![r].renews = HoldsReservation(req[r].id)]
  <2> DEFINE b == HoldsReservation(req[r].id)
             x == [req[r] EXCEPT !.renews = b]
  <2>0. b \in BOOLEAN
    BY DEF HoldsReservation, Reserved
  <2>1. req' = [req EXCEPT ![r] = x]
    BY <1>0, <1>1
  <2> HIDE DEF b
  <2>2. x \in Records /\ x.pc = req[r].pc /\ x.id = req[r].id /\ x.found = req[r].found
    BY <1>0, <2>0 DEF Records
  <2> HIDE DEF x
  <2> QED BY <1>0, <1>1, <2>1, <2>2, LeaseStep DEF Answered, Called
<1>2. CASE Unanswered("renew", req[r].id) /\ UNCHANGED <<req, drawn>>
  <2>1. req' = [req EXCEPT ![r] = req[r]]
    BY <1>0, <1>2 DEF RequestType
  <2> QED BY <1>0, <1>2, <2>1, LeaseStep DEF Called
<1> QED BY <1>1, <1>2 DEF RefreshPending

\* The runtime's Touch, Refresh and Close keep the invariant.
LEMMA RuntimeStep ==
  ASSUME NEW r \in Requests, KeyInv,
         Touch(r) \/ Refresh(r) \/ Close(r) \/ LastRefresh(r)
  PROVE  KeyInv'
<1>0. /\ RequestType(req, drawn) /\ req[r] \in Records
      /\ req[r].pc \in {"running", "refresh"} /\ req[r].id \in Ids /\ req[r].id # None
  BY DEF KeyInv, CallInv, RequestType, Touch, Refresh, Close, LastRefresh, Records, Over, Returned
<1>1. /\ Calls(r, "close", req[r].id) /\ Calls(r, "refresh", req[r].id)
  BY <1>0 DEF Calls, Ops
<1>2. CASE Touch(r) \/ Refresh(r)
  <2>1. req' = [req EXCEPT ![r] = req[r]]
    BY <1>0, <1>2 DEF RequestType, Touch, Refresh
  <2>2. drawn' = drawn /\ (Called("touch", req[r].id) \/ Called("refresh", req[r].id))
    BY <1>2 DEF Touch, Refresh, Answered, Called
  <2> QED BY <1>0, <2>1, <2>2, LeaseStep
<1>3. CASE Close(r)
  <2>1. Moves(stream', r, At(r, "refresh"))
    BY <1>0, SetMoves DEF Pcs, Early, Opening
  <2> QED BY <1>1, <1>3, <2>1, CallStep DEF Close, Answered, Called, Set
<1>4. CASE LastRefresh(r)
  <2>1. Moves(stream', r, At(r, "ended"))
    BY <1>0, SetMoves DEF Pcs, Over, Early, Opening
  <2> QED BY <1>1, <1>4, <2>1, CallStep DEF LastRefresh, Answered, Called, Set
<1> QED BY <1>2, <1>3, <1>4

\* A request that times out or whose replica crashes gives its ID up.
LEMMA LeaveStep ==
  ASSUME NEW r \in Requests, KeyInv, Timeout(r) \/ Crash(r)
  PROVE  KeyInv'
<1>0. RequestType(req, drawn) /\ UNCHANGED <<redis, wire, drawn>>
  BY DEF KeyInv, CallInv, Timeout, Crash
<1>1. Moves(stream, r, At(r, "failed")) /\ Moves(stream, r, At(r, "crashed"))
  BY <1>0, SetMoves DEF Pcs, Over, Returned, Early, Opening
<1> QED BY <1>0, <1>1, MoveStep DEF Timeout, Crash, Set

\* A command that runs after its caller gave it up is still permitted.
LEMMA LatePermitted ==
  ASSUME NEW c \in wire, KeyInv
  PROVE  /\ c.op \in Ops /\ c.id \in Ids /\ c.id <= drawn /\ Permitted(c.op, c.id)
         /\ c.op = "release" =>
               \A t \in Requests : ~(req[t].pc \in Opening /\ req[t].id = c.id)
<1>0. /\ WireType(wire, drawn) /\ Owned(req, wire) /\ WireTTL \in Nat
      /\ Bound(key, stream) /\ stream \in [Ids -> Streams]
      /\ Spent(key, stream, req, wire) /\ Removals(key, stream, req, wire)
  BY TTLAssumption DEF KeyInv, DBInv, DBType, CallInv
<1>1. c.op \in Ops /\ c.id \in Ids /\ c.id <= drawn /\ c.ttl \in 1..WireTTL
  BY <1>0 DEF WireType, Commands
<1>2. CASE c.op = "resolve"
  <2>1. c \in Resolving(wire, c.id)
    BY <1>2 DEF Resolving
  <2>2. stream[c.id].tomb > 0 => stream[c.id].life > 0
    BY <1>0, <1>1, <2>1 DEF Spent, Streams
  <2>3. key = None => stream[c.id].tomb = 0
    BY <1>0, <1>1, <2>2 DEF Bound, Streams
  <2>4. ~Removing(req, wire, c.id)
    BY <1>0, <1>1, <2>1 DEF Removals
  <2> QED BY <1>1, <1>2, <2>3, <2>4 DEF Permitted
<1>3. CASE c.op = "open"
  BY <1>0, <1>1, <1>3 DEF Permitted, Owned, IsEarly
<1>4. CASE c.op = "remove"
  BY <1>0, <1>1, <1>4 DEF Permitted, Removals, Removing
<1>5. CASE c.op = "release"
  BY <1>0, <1>1, <1>5 DEF Permitted, Owned
<1> QED BY <1>1, <1>2, <1>3, <1>4, <1>5 DEF Permitted

\* A late command keeps the invariant.
LEMMA LateStep ==
  ASSUME KeyInv, Late
  PROVE  KeyInv'
<1>1. PICK c \in wire : Run(c.op, c.id) /\ wire' = wire \ {c} /\ UNCHANGED <<req, drawn, faults>>
  BY DEF Late
<1>2. DBInv(key', assoc', stream', req, wire, drawn)
  BY <1>1, LatePermitted, RunInv
<1>3. \A i \in Ids : Resolving(wire', i) \subseteq Resolving(wire, i)
  BY <1>1 DEF Resolving
<1>4. \A i \in Ids : Removing(req, wire', i) => Removing(req, wire, i)
  BY <1>1 DEF Removing
<1>5. DBInv(key', assoc', stream', req, wire', drawn)
  BY <1>2, <1>3, <1>4 DEF DBInv, Spent, Removals
<1>6. CallInv(req, wire', drawn)
  BY <1>1 DEF KeyInv, CallInv, WireType, Owned
<1> QED BY <1>1, <1>5, <1>6 DEF KeyInv

\* The passing of time keeps the invariant: the key outlives its stream, and a
\* late ResolveOrCreate is gone before the stream it created.
LEMMA TickStep ==
  ASSUME KeyInv, Tick
  PROVE  KeyInv'
<1>0. /\ DBType(key, assoc, stream, drawn) /\ Bound(key, stream)
      /\ key \in Keys \cup {None} /\ stream \in [Ids -> Streams] /\ assoc \in [Ids -> Nat]
      /\ Spent(key, stream, req, wire) /\ Removals(key, stream, req, wire)
      /\ WireType(wire, drawn) /\ Owned(req, wire) /\ None \notin Keys
      /\ JournalTTL \in Nat \ {0} /\ WireTTL \in Nat /\ Ids \subseteq Nat
      /\ req' = req /\ drawn' = drawn
  <2>1. None \notin Keys
    BY IdAssumption DEF Keys
  <2>2. Ids \subseteq Nat
    BY IdAssumption
  <2>3. JournalTTL \in Nat \ {0} /\ WireTTL \in Nat
    BY TTLAssumption
  <2>4. req' = req /\ drawn' = drawn
    BY DEF Tick
  <2> QED BY <2>1, <2>2, <2>3, <2>4 DEF KeyInv, DBInv, DBType, CallInv
<1>1. /\ stream' \in [Ids -> Streams]
      /\ \A i \in Ids : /\ stream'[i].life = Minus1(stream[i].life)
                        /\ stream'[i].tomb <= stream[i].tomb
                        /\ stream'[i].life <= stream'[i].tomb
                        /\ stream'[i].life > 0 => stream'[i].status = stream[i].status
  <2> SUFFICES ASSUME NEW i \in Ids
               PROVE  LET t == IF stream[i].tomb <= 1 THEN Gone
                               ELSE [stream[i] EXCEPT !.life = Minus1(@), !.tomb = @ - 1]
                      IN  /\ t \in Streams /\ t.life = Minus1(stream[i].life)
                          /\ t.tomb <= stream[i].tomb /\ t.life <= t.tomb
                          /\ t.life > 0 => t.status = stream[i].status
    BY DEF Tick
  <2>1. stream[i] \in Streams /\ stream[i].life <= stream[i].tomb
    BY <1>0 DEF DBType
  <2>2. /\ stream[i].life \in 0..JournalTTL /\ stream[i].tomb \in Nat
        /\ Minus1(stream[i].life) \in 0..JournalTTL
    BY <1>0, <2>1 DEF Streams, Minus1
  <2>3. CASE stream[i].tomb <= 1
    BY <1>0, <2>1, <2>2, <2>3 DEF Gone, Streams, Statuses, Minus1
  <2>4. CASE ~(stream[i].tomb <= 1)
    <3> DEFINE t == [stream[i] EXCEPT !.life = Minus1(@), !.tomb = @ - 1]
    <3>1. stream[i].tomb - 1 \in Nat /\ stream[i].tomb - 1 <= stream[i].tomb
          /\ Minus1(stream[i].life) <= stream[i].tomb - 1
      BY <1>0, <2>1, <2>2, <2>4 DEF Minus1
    <3>2. /\ t \in Streams /\ t.life = Minus1(stream[i].life)
          /\ t.tomb = stream[i].tomb - 1 /\ t.status = stream[i].status
      BY <2>1, <2>2, <3>1 DEF Streams
    <3> QED BY <2>4, <3>1, <3>2
  <2> QED BY <2>3, <2>4
<1>2. /\ key' \in Keys \cup {None}
      /\ key' # None => /\ key # None /\ key'.tag = key.tag /\ key'.id = key.id
                        /\ key'.ttl = key.ttl - 1
      /\ key # None /\ key' = None => key.ttl = 1
  <2>1. CASE key = None
    BY <2>1 DEF Tick
  <2>2. CASE key # None /\ key.ttl = 1
    BY <2>2 DEF Tick
  <2>3. CASE key # None /\ key.ttl # 1
    <3>1. key \in Keys /\ key.ttl \in Nat \ {0}
      BY <1>0, <2>3 DEF Keys
    <3>2. key' = [key EXCEPT !.ttl = key.ttl - 1]
      BY <2>3 DEF Tick
    <3>3. key.ttl - 1 \in Nat \ {0}
      BY <2>3, <3>1
    <3> QED BY <1>0, <2>3, <3>1, <3>2, <3>3 DEF Keys
  <2> QED BY <2>1, <2>2, <2>3
<1>3. assoc' \in [Ids -> Nat]
  <2>1. \A i \in Ids : Minus1(assoc[i]) \in Nat
    BY <1>0 DEF Minus1
  <2> QED BY <2>1 DEF Tick
<1>4. \A c \in wire' : \E e \in wire : c.op = e.op /\ c.id = e.id /\ c.ttl = e.ttl - 1
                                       /\ e.ttl > 1 /\ c \in Commands
  <2> SUFFICES ASSUME NEW e \in wire, e.ttl > 1
               PROVE  LET c == [e EXCEPT !.ttl = @ - 1]
                      IN  c.op = e.op /\ c.id = e.id /\ c.ttl = e.ttl - 1 /\ c \in Commands
    BY DEF Tick
  <2>1. e \in Commands /\ e.ttl \in 1..WireTTL
    BY <1>0 DEF WireType, Commands
  <2>2. e.ttl - 1 \in 1..WireTTL
    BY <1>0, <2>1
  <2> QED BY <2>1, <2>2 DEF Commands
<1>5. DBType(key', assoc', stream', drawn')
  BY <1>0, <1>1, <1>2, <1>3 DEF DBType, Streams, Minus1
<1>6. Bound(key', stream')
  <2> SUFFICES ASSUME NEW i \in Ids, stream'[i].life > 0
               PROVE  key' # None /\ key'.tag = "r" /\ key'.id = i /\ key'.ttl >= stream'[i].life
    BY DEF Bound
  <2>1. stream[i].life \in Nat /\ stream[i].life > 1 /\ stream'[i].life = stream[i].life - 1
    BY <1>0, <1>1 DEF Streams, Minus1
  <2>2. key # None /\ key.tag = "r" /\ key.id = i /\ key.ttl >= stream[i].life /\ key.ttl \in Nat
    BY <1>0, <2>1 DEF Bound, Keys
  <2> QED BY <1>2, <2>1, <2>2
<1>7. \A i \in Ids : IsReserved(key', i) => IsReserved(key, i)
  BY <1>2 DEF IsReserved
<1>8. Spent(key', stream', req', wire')
  <2> SUFFICES ASSUME NEW i \in Ids, stream'[i].tomb > 0
               PROVE  /\ ~IsReserved(key', i) /\ ~IsEarly(req', i)
                      /\ \A c \in Resolving(wire', i) : c.ttl <= stream'[i].life
    BY DEF Spent
  <2>1. stream[i].tomb > 0
    BY <1>0, <1>1 DEF Streams
  <2>2. ASSUME NEW c \in Resolving(wire', i)
        PROVE  c.ttl <= stream'[i].life
    <3>1. PICK e \in wire : /\ c.op = e.op /\ c.id = e.id /\ c.ttl = e.ttl - 1
                            /\ e.ttl > 1
      BY <1>4 DEF Resolving
    <3>2. e \in Resolving(wire, i) /\ e.ttl \in Nat
      BY <1>0, <3>1, SMTT(20) DEF Resolving, WireType, Commands
    <3>3. e.ttl <= stream[i].life /\ stream[i].life \in Nat
      BY <1>0, <2>1, <3>2, SMTT(20) DEF Spent, Streams
    <3> QED BY <1>1, <3>1, <3>2, <3>3 DEF Minus1
  <2> QED BY <1>0, <1>7, <2>1, <2>2 DEF Spent
<1>9. Removals(key', stream', req', wire')
  <2> SUFFICES ASSUME NEW i \in Ids, Removing(req', wire', i)
               PROVE  /\ stream'[i].life = 0 /\ ~IsReserved(key', i)
                      /\ Resolving(wire', i) = {} /\ ~IsEarly(req', i)
    BY DEF Removals
  <2>1. Removing(req, wire, i)
    BY <1>0, <1>4 DEF Removing
  <2>2. stream[i].life = 0 /\ ~IsReserved(key, i) /\ Resolving(wire, i) = {} /\ ~IsEarly(req, i)
    BY <1>0, <2>1 DEF Removals
  <2>3. Resolving(wire', i) = {}
    BY <1>4, <2>2 DEF Resolving
  <2> QED BY <1>0, <1>1, <1>7, <2>2, <2>3 DEF Minus1
<1>10. WireType(wire', drawn') /\ Owned(req', wire')
  BY <1>0, <1>4, SMTT(20) DEF WireType, Owned
<1> QED BY <1>0, <1>5, <1>6, <1>8, <1>9, <1>10 DEF KeyInv, DBInv, CallInv

\* A permitted command leaves a key in use to its winner.
LEMMA WinnerScript ==
  ASSUME NEW op \in Ops, NEW id \in Ids, KeyInv, Permitted(op, id), Run(op, id),
         op = "release" => \A t \in Requests : ~(req[t].pc \in Opening /\ req[t].id = id),
         key # None, InUse(key)
  PROVE  key' # None /\ key'.id = key.id
<1>0. /\ key \in Keys /\ stream \in [Ids -> Streams] /\ Bound(key, stream) /\ None \notin Keys
      /\ JournalTTL \in Nat \ {0} /\ PendingTTL \in Nat \ {0}
  BY IdAssumption, TTLAssumption, SMTT(20) DEF KeyInv, DBInv, DBType, Keys
<1>1. ASSUME NEW ttl \in Nat \ {0}
      PROVE  [key EXCEPT !.ttl = ttl] \in Keys /\ [key EXCEPT !.ttl = ttl].id = key.id
  BY <1>0 DEF Keys
<1>2. Ready(id) \in Keys /\ Ready(id).id = id
  BY <1>0 DEF Ready, Keys
<1>3. CASE op = "resolve"
  BY <1>0, <1>1, <1>3 DEF Run, ResolveScript
<1>4. CASE op = "open"
  <2>1. OpenScript(id)
    BY <1>4 DEF Run, Ops
  <2>2. CASE stream[id].life > 0 \/ OpenAnswer(id) # "opened"
    BY <1>0, <1>1, <2>1, <2>2, ZenonT(30) DEF OpenScript, Renewed, redis
  <2>3. CASE OpenAnswer(id) = "opened" /\ ~(stream[id].life > 0)
    BY <1>0, <1>2, <2>1, <2>3 DEF OpenScript, OpenAnswer, HoldsReservation, Reserved
  <2> QED BY <2>2, <2>3
<1>5. CASE op = "touch" \/ op = "close" \/ op = "refresh" \/ op = "renew"
  <2>1. key' = key \/ \E ttl \in Nat \ {0} : key' = [key EXCEPT !.ttl = ttl]
    BY <1>0, <1>5
    DEF Run, TouchScript, CloseScript, RefreshScript, RefreshPendingScript, Renewed, redis
  <2> QED BY <1>0, <1>1, <2>1
<1>6. CASE op = "release"
  <2>1. ~HoldsReservation(id)
    <3> SUFFICES ASSUME Reserved(id) PROVE FALSE
      BY DEF HoldsReservation
    <3>1. key.tag = "p" /\ key.id = id
      BY DEF Reserved
    <3>2. ~(stream[id].life > 0)
      BY <1>0, <3>1 DEF Bound
    <3> QED BY <1>6, <3>1, <3>2 DEF InUse
  <2>2. key' = key
    BY <1>6, <2>1 DEF Run, ReleasePendingScript, redis
  <2> QED BY <2>2
<1>7. CASE op = "remove"
  <2>1. ~(key.tag = "r" /\ key.id = id)
    BY <1>0, <1>7 DEF InUse, Permitted
  <2> QED BY <1>7, <2>1 DEF Run, RemoveIfBoundScript
<1> QED BY <1>3, <1>4, <1>5, <1>6, <1>7 DEF Ops

\* So does what any request calls.
LEMMA WinnerCall ==
  ASSUME NEW r \in Requests, NEW op, NEW id, KeyInv, Calls(r, op, id), Called(op, id),
         key # None, InUse(key)
  PROVE  key' # None /\ key'.id = key.id
<1>1. op \in Ops /\ id \in Ids /\ Permitted(op, id)
  BY CallPermitted
<1>2. op = "release" => \A t \in Requests : ~(req[t].pc \in Opening /\ req[t].id = id)
  BY <1>1, IdAssumption DEF KeyInv, CallInv, Owned, Calls, Opening
<1>3. CASE UNCHANGED redis
  BY <1>3 DEF redis
<1>4. CASE Run(op, id)
  BY <1>1, <1>2, <1>4, WinnerScript
<1> QED BY <1>3, <1>4 DEF Called, Unanswered

-----------------------------------------------------------------------------
(***************************************************************************)
(* The theorems.                                                           *)
(***************************************************************************)

\* The invariant holds initially.
LEMMA InitInv == Init => KeyInv
<1> SUFFICES ASSUME Init PROVE KeyInv
  OBVIOUS
<1>1. Gone \in Streams /\ Gone.life = 0 /\ Gone.tomb = 0
  BY TTLAssumption DEF Gone, Streams, Statuses
<1>2. New \in Records /\ New.id = None /\ New.found = None /\ New.pc = "new"
  BY DEF New, Records, Pcs, Early
<1>3. /\ key = None /\ wire = {} /\ drawn = 0
      /\ stream \in [Ids -> Streams] /\ \A i \in Ids : stream[i] = Gone
      /\ req \in [Requests -> Records] /\ \A r \in Requests : req[r] = New
      /\ assoc \in [Ids -> Nat]
  BY <1>1, <1>2 DEF Init
<1>4. DBType(key, assoc, stream, drawn) /\ Bound(key, stream)
  BY <1>1, <1>3 DEF DBType, Bound
<1>5. Spent(key, stream, req, wire) /\ Removals(key, stream, req, wire)
  BY <1>1, <1>2, <1>3 DEF Spent, Removals, Removing
<1>6. CallInv(req, wire, drawn)
  BY <1>2, <1>3, IdAssumption DEF CallInv, RequestType, WireType, Owned
<1> QED BY <1>4, <1>5, <1>6 DEF KeyInv, DBInv

\* Every step keeps the invariant.
LEMMA NextInv == KeyInv /\ [Next]_vars => KeyInv'
<1> SUFFICES ASSUME KeyInv, [Next]_vars PROVE KeyInv'
  OBVIOUS
<1>1. ASSUME NEW r \in Requests, Handler(r) PROVE KeyInv'
  BY <1>1, LoopHeadStep, ResolveStep, StateStep, RemoveStep, AcquireStep, OpenStep,
     ReconcileStep, ReleaseStep DEF Handler
<1>2. ASSUME NEW r \in Requests,
             Runtime(r) \/ RefreshPending(r) \/ Touch(r) \/ Refresh(r) \/ Timeout(r) \/ Crash(r)
      PROVE  KeyInv'
  BY <1>2, RuntimeStep, RefreshPendingStep, LeaveStep DEF Runtime
<1>3. CASE Late
  BY <1>3, LateStep
<1>4. CASE Tick
  BY <1>4, TickStep
<1>5. CASE UNCHANGED vars
  BY <1>5 DEF vars, KeyInv, DBInv, CallInv
<1> QED BY <1>1, <1>2, <1>3, <1>4, <1>5 DEF Next

\* The invariant that ties the key, the streams, the requests and the commands
\* on the wire together holds for every number of requests and all lifetimes.
THEOREM KeyInvariance == Spec => []KeyInv
BY InitInv, NextInv, PTL DEF Spec

\* A retained stream is always the one its idempotency key names: resolve, the
\* leases and the Lua scripts never leave two streams behind one key.
THEOREM KeyExact == Spec => []KeyNamesStream
<1>1. KeyInv => KeyNamesStream
  BY DEF KeyInv, DBInv, Bound, KeyNamesStream
<1> QED BY <1>1, KeyInvariance, PTL

\* A key in use is lost to the clock alone: no release, removal or late command
\* of another request takes it from its winner.
THEOREM WinnerStays == Spec => WinnerKept
<1> DEFINE Kept == key # None /\ InUse(key) => (key' # None /\ key'.id = key.id) \/ Tick
<1>1. KeyInv /\ [Next]_vars => [Kept]_vars
  <2> SUFFICES ASSUME KeyInv, Next, key # None, InUse(key), ~Tick
               PROVE  key' # None /\ key'.id = key.id
    OBVIOUS
  <2>1. ASSUME NEW r \in Requests, NEW op, NEW id, Calls(r, op, id), Called(op, id)
        PROVE  key' # None /\ key'.id = key.id
    BY <2>1, WinnerCall
  <2>2. CASE UNCHANGED redis
    BY <2>2 DEF redis
  <2>3. ASSUME NEW r \in Requests, ResolveOrCreate(r) \/ Remove(r) \/ Open(r) \/ Release(r)
                 \/ RefreshPending(r) \/ Touch(r) \/ Refresh(r) \/ Close(r) \/ LastRefresh(r)
        PROVE  key' # None /\ key'.id = key.id
    <3>0. /\ RequestType(req, drawn) /\ req[r] \in Records
      BY DEF KeyInv, CallInv, RequestType
    <3>1. CASE ResolveOrCreate(r) \/ Open(r) \/ Release(r)
      <4>1. PICK op \in {"resolve", "open", "release"} : req[r].pc = op /\ Called(op, req[r].id)
        BY <3>1 DEF ResolveOrCreate, Open, Release, Answered, Fails, Called
      <4>2. Calls(r, op, req[r].id)
        BY <3>0, <4>1 DEF Calls, Ops, RequestType, Records, Over, Returned
      <4> QED BY <2>1, <4>1, <4>2
    <3>2. CASE Remove(r)
      <4>1. req[r].pc = "remove" /\ Called("remove", req[r].found)
        BY <3>2 DEF Remove, Answered, Fails, Called
      <4>2. Calls(r, "remove", req[r].found)
        BY <3>0, <4>1 DEF Calls, Ops, RequestType, Records
      <4> QED BY <2>1, <4>1, <4>2
    <3>3. CASE RefreshPending(r) \/ Touch(r) \/ Refresh(r) \/ Close(r) \/ LastRefresh(r)
      <4>1. PICK op \in {"renew", "touch", "refresh", "close"} : Called(op, req[r].id)
        BY <3>3 DEF RefreshPending, Touch, Refresh, Close, LastRefresh, Answered, Called
      <4>2. req[r].pc \in Opening \cup {"running", "refresh"}
        BY <3>3 DEF RefreshPending, Touch, Refresh, Close, LastRefresh
      <4>3. Calls(r, op, req[r].id)
        BY <3>0, <4>1, <4>2 DEF Calls, Ops, RequestType, Records, Over, Returned, Opening
      <4> QED BY <2>1, <4>1, <4>3
    <3> QED BY <2>3, <3>1, <3>2, <3>3
  <2>4. CASE Late
    <3>1. PICK c \in wire : Run(c.op, c.id)
      BY <2>4 DEF Late
    <3> QED BY <3>1, LatePermitted, WinnerScript
  <2>5. ASSUME NEW r \in Requests, LoopHead(r) \/ State(r) \/ Acquire(r) \/ Reconcile(r)
                                     \/ Timeout(r) \/ Crash(r)
        PROVE  UNCHANGED redis
    BY <2>5 DEF LoopHead, State, Acquire, Reconcile, Timeout, Crash
  <2> QED BY <2>2, <2>3, <2>4, <2>5 DEF Next, Handler, Runtime
<1> QED BY <1>1, KeyInvariance, PTL DEF Spec, WinnerKept
=============================================================================
