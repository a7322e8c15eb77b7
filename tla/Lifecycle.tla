------------------------------ MODULE Lifecycle ------------------------------
(***************************************************************************)
(* Worker enrollment (lifecycle.py, LifecycleStore): authorizations that    *)
(* are valid once and for Ttl, enrollment requests, the operator's          *)
(* decisions, and fleet membership, all derived from one ledger that        *)
(* several controller processes and commands have open.                     *)
(*                                                                          *)
(* An operation is two steps.  Its beginning takes the time and, for most   *)
(* operations, reads the ledger and checks what it read; the lock is then   *)
(* free until the append, which evaluates the precondition on the records   *)
(* of that moment with the time of the beginning.  Between the two any      *)
(* other process may act and the clock may advance.                         *)
(*                                                                          *)
(* An authorization id stands for its token (submit_request is given the    *)
(* token and goes by the id).  A request is its authorization, worker and   *)
(* key: the descriptive fields and its time are left out.  The event        *)
(* "expired" that _record_status also reads is written by no operation.     *)
(* Sessions and presence, which share the ledger, are left out.             *)
(***************************************************************************)
EXTENDS Ledger

CONSTANTS
    Procs, Auths, Keys,
    Workers,        \* worker identities that ask to be enrolled
    Names,          \* worker identities the operator approves, Workers among them
    AnyWorker,      \* expected_worker_identity is None
    Expected,       \* values of expected_worker_identity the operator uses
    None,
    Ttl, MaxTime,
    MaxLines,       \* bound on the file
    MaxStop         \* bound on the file when a write stops

ASSUME LifecycleAssumption == Ttl \in Nat /\ MaxTime \in Nat

VARIABLES
    now,            \* the clock
    op              \* the operation each process is in, between its two steps

vars == <<lines, now, op>>

Requests == Auths \X Workers \X Keys
AuthOf(q) == q[1]
WorkerOf(q) == q[2]

KeyOf(q) == q[3]
Verdicts == {"APPROVED", "DENIED", "EXPIRED"}

\* The records of the ledger
Authorization(a, w, t) == [type |-> "authorization", auth |-> a, expected |-> w, at |-> t]
Revoked(a) == [type |-> "revoked", auth |-> a]
Consumed(a, w, q, t) == [type |-> "consumed", auth |-> a, worker |-> w, req |-> q, at |-> t]
Request(q) == [type |-> "request", req |-> q]
Decision(q, w, v, t) == [type |-> "decision", req |-> q, worker |-> w, verdict |-> v, at |-> t]
Member(w, k, s, q) ==
    [type |-> "member", worker |-> w, key |-> k, status |-> s, req |-> q]

OfType(t) == {i \in Entries : lines[i].rec.type = t}
Latest(S) == lines[CHOOSE i \in S : \A j \in S : j <= i].rec

(***************************************************************************)
(* State derived from the ledger                                            *)
(***************************************************************************)
Created(a) == {i \in OfType("authorization") : lines[i].rec.auth = a}
Events(t, a) == {i \in OfType(t) : lines[i].rec.auth = a}
Expires(a) == Latest(Created(a)).at + Ttl

RecordStatus(a, t) ==
    IF Events("revoked", a) # {} THEN "REVOKED"
    ELSE IF t >= Expires(a) THEN "EXPIRED"
    ELSE IF Events("consumed", a) # {} THEN "CONSUMED" ELSE "ACTIVE"

Submitted == {lines[i].rec.req : i \in OfType("request")}
Decisions(q) == {i \in OfType("decision") : lines[i].rec.req = q}

RequestStatus(q, t) ==
    IF Decisions(q) # {} THEN Latest(Decisions(q)).verdict
    ELSE IF RecordStatus(AuthOf(q), t) \in {"EXPIRED", "REVOKED"} THEN "EXPIRED" ELSE "PENDING"

Memberships(w) == {i \in OfType("member") : lines[i].rec.worker = w}
Enrolled(w) == Memberships(w) # {} /\ Latest(Memberships(w)).status = "ENROLLED"
EnrolledKey(w) == Latest(Memberships(w)).key

(***************************************************************************)
(* Preconditions, evaluated under the lock of the append                    *)
(***************************************************************************)

\* Mutant: consumption is not looked for.
ConsumeLockedTwice(a, w, t) ==
    /\ Created(a) # {}
    /\ RecordStatus(a, t) \in {"ACTIVE", "CONSUMED"}
    /\ Latest(Created(a)).expected \in {AnyWorker, w}

\* _consume_locked
ConsumeLocked(a, w, t) ==
    /\ Created(a) # {}
    /\ RecordStatus(a, t) = "ACTIVE"
    /\ Latest(Created(a)).expected \in {AnyWorker, w}

\* Requests of the worker that are pending, or approved while it is enrolled.
Current(w, t) ==
    {q \in Submitted :
        /\ WorkerOf(q) = w
        /\ \/ RequestStatus(q, t) = "PENDING"
           \/ RequestStatus(q, t) = "APPROVED" /\ Enrolled(w)}

MaySubmit(q, t) ==
    /\ q \notin Submitted
    /\ \A r \in Current(WorkerOf(q), t) : KeyOf(r) = KeyOf(q)
    /\ ConsumeLocked(AuthOf(q), WorkerOf(q), t)

\* Mutant: the locked precondition does not look at the request again.
MayDecideUnchecked(q, w, v, t) ==
    v = "APPROVED" => ~(Enrolled(w) /\ EnrolledKey(w) # KeyOf(q))

\* precondition of _decision
MayDecide(q, w, v, t) ==
    /\ RequestStatus(q, t) = IF v = "EXPIRED" THEN "EXPIRED" ELSE "PENDING"
    /\ v = "APPROVED" =>
          /\ ~(Enrolled(w) /\ EnrolledKey(w) # KeyOf(q))
          /\ RecordStatus(AuthOf(q), t) \in {"ACTIVE", "CONSUMED"}

(***************************************************************************)
(* The beginning of an operation                                            *)
(***************************************************************************)
Idle == [kind |-> "idle"]

Begin(p, o) ==
    /\ op' = [op EXCEPT ![p] = o]
    /\ UNCHANGED <<lines, now>>

\* submit_request reads nothing before its append.  A submission for an
\* authorization that is no longer active can only raise, and is left out; so is
\* one for an id that no authorization has yet.
BeginSubmit(p, q) ==
    /\ op[p] = Idle
    /\ ConsumeLocked(AuthOf(q), WorkerOf(q), now)
    /\ Begin(p, [kind |-> "submit", req |-> q, at |-> now])

\* consume_authorization, likewise
BeginConsume(p, a, w) ==
    /\ op[p] = Idle /\ Verified
    /\ ConsumeLocked(a, w, now)
    /\ Begin(p, [kind |-> "consume", auth |-> a, worker |-> w, at |-> now])

\* _decision of a known request, up to its append.  Only an approval may name another worker.
BeginDecide(p, q, w, v) ==
    /\ op[p] = Idle /\ Verified
    /\ RequestStatus(q, now) = IF v = "EXPIRED" THEN "EXPIRED" ELSE "PENDING"
    /\ IF v = "APPROVED" THEN ~Enrolled(w) ELSE w = WorkerOf(q)
    /\ v = "EXPIRED" => RecordStatus(AuthOf(q), now) \in {"EXPIRED", "REVOKED"}
    /\ Begin(p, [kind |-> "decide", req |-> q, worker |-> w, verdict |-> v, at |-> now])

\* revoke_authorization
BeginRevokeAuthorization(p, a) ==
    /\ op[p] = Idle /\ Verified
    /\ Created(a) # {} /\ RecordStatus(a, now) = "ACTIVE"
    /\ Begin(p, [kind |-> "revoke_authorization", auth |-> a])

\* revoke_worker; the revocation will carry the key of the membership read now.
BeginRevokeWorker(p, w) ==
    /\ op[p] = Idle /\ Verified
    /\ Enrolled(w)
    /\ Begin(p, [kind |-> "revoke_worker", worker |-> w, key |-> EnrolledKey(w)])

(***************************************************************************)
(* The append                                                               *)
(***************************************************************************)
Precondition(o) ==
    \/ o.kind = "submit" /\ MaySubmit(o.req, o.at)
    \/ o.kind = "consume" /\ ConsumeLocked(o.auth, o.worker, o.at)
    \/ o.kind = "decide" /\ MayDecide(o.req, o.worker, o.verdict, o.at)
    \/ o.kind = "revoke_authorization"
    \/ o.kind = "revoke_worker" /\ Enrolled(o.worker)

Submission(q, t) ==
    <<Consumed(AuthOf(q), WorkerOf(q), q, t), Request(q)>>

Approval(q, w, t) ==
    <<Decision(q, w, "APPROVED", t), Member(w, KeyOf(q), "ENROLLED", q)>>

\* The records an operation appends together
Batch(o) ==
    CASE o.kind = "submit" -> Submission(o.req, o.at)
      [] o.kind = "consume" -> <<Consumed(o.auth, o.worker, None, o.at)>>
      [] o.kind = "decide" ->
           IF o.verdict = "APPROVED" THEN Approval(o.req, o.worker, o.at)
           ELSE <<Decision(o.req, o.worker, o.verdict, o.at)>>
      [] o.kind = "revoke_authorization" -> <<Revoked(o.auth)>>
      [] o.kind = "revoke_worker" -> <<Member(o.worker, o.key, "REVOKED", None)>>

Room(batch) == Len(lines) + Len(batch) <= MaxLines

Ended(p) == op' = [op EXCEPT ![p] = Idle] /\ UNCHANGED now

Commit(p) ==
    /\ op[p] # Idle /\ Precondition(op[p]) /\ Room(Batch(op[p]))
    /\ Write(Batch(op[p]))
    /\ Ended(p)

\* The process dies, or the write raises, with part of the batch in the file.
CommitStops(p) ==
    /\ op[p] # Idle /\ Len(lines) <= MaxStop
    /\ Precondition(op[p]) /\ Room(Batch(op[p]))
    /\ WriteStops(Batch(op[p]))
    /\ Ended(p)

\* The operation raises (its precondition does not hold, or the tail is torn),
\* or the process dies, before it writes anything.
Raises(p) ==
    /\ op[p] # Idle
    /\ Ended(p)
    /\ UNCHANGED lines

\* create_authorization: the token makes the record new; nothing is read.
CreateAuthorization(p, a, w) ==
    /\ op[p] = Idle
    /\ Created(a) = {} /\ Room(<<a>>)
    /\ \/ Write(<<Authorization(a, w, now)>>)
       \/ Len(lines) <= MaxStop /\ WriteStops(<<Authorization(a, w, now)>>)
    /\ UNCHANGED <<now, op>>

\* The operator repairs the tail.
Repair ==
    /\ Recover
    /\ UNCHANGED <<now, op>>

Tick ==
    /\ now < MaxTime
    /\ now' = now + 1
    /\ UNCHANGED <<lines, op>>

Init ==
    /\ LedgerInit
    /\ now = 0
    /\ op = [p \in Procs |-> Idle]

Next ==
    \/ Tick
    \/ Repair
    \/ \E p \in Procs :
          \/ \E a \in Auths, w \in Expected : CreateAuthorization(p, a, w)
          \/ \E q \in Requests : BeginSubmit(p, q)
          \/ \E a \in Auths, w \in Workers : BeginConsume(p, a, w)
          \/ \E q \in Submitted, w \in Names, v \in Verdicts : BeginDecide(p, q, w, v)
          \/ \E a \in Auths : BeginRevokeAuthorization(p, a)
          \/ \E w \in Names : BeginRevokeWorker(p, w)
          \/ Commit(p)
          \/ CommitStops(p)
          \/ Raises(p)

Spec == Init /\ [][Next]_vars

(***************************************************************************)
(* Properties                                                               *)
(***************************************************************************)
Times == 0..MaxTime

RecordSet ==
    {Authorization(a, w, t) : a \in Auths, w \in Expected, t \in Times}
      \cup {Revoked(a) : a \in Auths}
      \cup {Consumed(a, w, q, t) :
              a \in Auths, w \in Workers, q \in Requests \cup {None}, t \in Times}
      \cup {Request(q) : q \in Requests}
      \cup {Decision(q, w, v, t) : q \in Requests, w \in Names, v \in Verdicts, t \in Times}
      \cup {Member(w, k, s, q) :
              w \in Names, k \in Keys, s \in {"ENROLLED", "REVOKED"},
              q \in Requests \cup {None}}

\* The file holds numbered lifecycle records and the processes' operations are
\* among those of LifecycleStore (lifecycle.py:231-517).
TypeOK ==
    /\ \A i \in DOMAIN lines :
          lines[i] \in [seq : 1..MaxLines, rec : RecordSet \cup {Undecodable}, end : Ends]
    /\ now \in Times
    /\ \A p \in Procs : op[p].kind \in
          {"idle", "submit", "consume", "decide", "revoke_authorization", "revoke_worker"}

\* "prevents two controller processes from consuming the same one-time
\* authorization" (store.py:327-329): one consumption per authorization, by a
\* worker it was issued for, before it expired and before it was revoked.
SingleUse ==
    \A i \in OfType("consumed") :
       LET r == lines[i].rec IN
       /\ Events("consumed", r.auth) = {i}
       /\ \A j \in Events("revoked", r.auth) : i < j
       /\ \E j \in Created(r.auth) :
             /\ j < i /\ r.at < lines[j].rec.at + Ttl
             /\ lines[j].rec.expected \in {AnyWorker, r.worker}

\* Concurrent decisions (lifecycle.py:420-480) agree: a request is approved or
\* denied at most once and then never expires, however stale what the decision
\* read before the lock; no approval is recorded on a revoked authorization or
\* with a time at which it had expired.
DecisionsAgree ==
    \A i \in OfType("decision") :
       LET r == lines[i].rec
           a == AuthOf(r.req)
       IN  /\ \A j \in Decisions(r.req) :
                 lines[j].rec.verdict = r.verdict /\ (r.verdict = "EXPIRED" \/ i = j)
           /\ r.verdict = "APPROVED" =>
                 /\ r.at < Expires(a)
                 /\ \A j \in Events("revoked", a) : i < j

\* The entry of the worker's membership before i
Previous(i) == {j \in Memberships(lines[i].rec.worker) : j < i}

\* "active worker identity cannot be rebound to new key material"
\* (lifecycle.py:438, 476): an enrolled worker gets another key only through a
\* revocation, and every revocation ends an enrollment.
OneKey ==
    \A i \in OfType("member") :
       LET r == lines[i].rec IN
       IF r.status = "REVOKED"
       THEN Previous(i) # {} /\ Latest(Previous(i)).status = "ENROLLED"
       ELSE Previous(i) # {} /\ Latest(Previous(i)).status = "ENROLLED"
               => Latest(Previous(i)).key = r.key

\* Records of one batch stay together: every membership directly follows the
\* approval of a request for its key, and every request directly follows the
\* consumption of its authorization (lifecycle.py:398-401, 447-467, 480).
EnrollmentTrail ==
    /\ \A i \in OfType("member") :
          LET r == lines[i].rec IN
          r.status = "ENROLLED" =>
             /\ i - 1 \in Decisions(r.req)
             /\ \E t \in Times : lines[i - 1].rec = Decision(r.req, r.worker, "APPROVED", t)
             /\ r.key = KeyOf(r.req)
             /\ \E j \in 1..(i - 2) : lines[j].rec = Request(r.req)
    /\ \A i \in OfType("request") :
          LET q == lines[i].rec.req IN
          /\ i - 1 \in Events("consumed", AuthOf(q))
          /\ lines[i - 1].rec.req = q /\ lines[i - 1].rec.worker = WorkerOf(q)

\* What the ledger says of an enrollment is one consistent story, although every
\* operation decides on what it read before it held the lock: decisions agree, an
\* identity keeps its key, and a membership has its approval and its request
\* (lifecycle.py:384-520).
EnrollmentSound == DecisionsAgree /\ OneKey /\ EnrollmentTrail

\* "an authorization consumption and its enrollment request must become one
\* durable controller decision" (store.py:374-376): in a file with no damaged
\* tail, whatever consumed an authorization for a request recorded the request,
\* and an approved request has its membership.
BatchIsOneDecision ==
    Clean =>
       /\ \A i \in OfType("consumed") :
             lines[i].rec.req # None => lines[i].rec.req \in Submitted
       /\ \A i \in OfType("decision") :
             lines[i].rec.verdict = "APPROVED" =>
                \E j \in OfType("member") : lines[j].rec.req = lines[i].rec.req
=============================================================================
