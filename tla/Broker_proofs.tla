---------------------------- MODULE Broker_proofs ----------------------------
(***************************************************************************)
(* Theorems of Broker, for any requests, plans, profiles, leases, hosts and *)
(* bounds, and for a broker that serves one connection at a time.           *)
(***************************************************************************)
EXTENDS Broker, LedgerFacts, FiniteSetTheorems, SequenceTheorems

IsHandler(x) ==
    \E pc, req, body, seen, since, job :
        x = [pc |-> pc, req |-> req, body |-> body, seen |-> seen, since |-> since, job |-> job]

\* The ledgers are sequences, the handlers are handlers, the history is finite.
Shape ==
    /\ \E S : auditLog \in Seq(S)
    /\ \E S : resultLog \in Seq(S)
    /\ \E S : lost \in Seq(S)
    /\ handler = [h \in Handlers |-> handler[h]] /\ \A h \in Handlers : IsHandler(handler[h])
    /\ IsFiniteSet(ran)
    /\ clock \in Nat

\* The audit ledger says that this request had this result.
Audited(r, b) == \E i \in DOMAIN auditLog : auditLog[i].req = r /\ auditLog[i].body = b

AuditedOnce == \A i, j \in DOMAIN auditLog : auditLog[i].req = auditLog[j].req => i = j

\* Results and answers come from the audit ledger.
Vouched ==
    /\ \A i \in DOMAIN resultLog : Audited(resultLog[i].req, resultLog[i].body)
    /\ \A a \in answers : Audited(a.req, a.body)

\* A lease begins with its grant; what follows ends it.
LeasesOK ==
    /\ \E S : leaseLog \in Seq(S)
    /\ \A i \in DOMAIN leaseLog :
          /\ leaseLog[i].kind \in {"grant", "state"}
          /\ leaseLog[i].kind = "grant" => leaseLog[i].expires \in Int
          /\ leaseLog[i].kind = "state" => \E j \in DOMAIN leaseLog : j < i /\ leaseLog[j].id = leaseLog[i].id
    /\ \A i, j \in DOMAIN leaseLog :
          i < j /\ leaseLog[i].id = leaseLog[j].id =>
             leaseLog[j].kind = "state" /\ leaseLog[j].state # "ACTIVE"

\* What the request needed a lease for, a lease granted, and nothing had ended
\* that lease in the part of the ledger seen when the request arrived.
UnderLease(r, seen, since) ==
    RequiresLease(profile, r.cap, r.op) =>
        \E i \in DOMAIN leaseLog :
            /\ leaseLog[i].id = r.lease /\ leaseLog[i].kind = "grant"
            /\ since < leaseLog[i].expires
            /\ r.cap \in leaseLog[i].caps /\ r.op \in leaseLog[i].ops[r.cap]
            /\ leaseLog[i].worker = profile.worker /\ leaseLog[i].exp \in {None, r.exp}
            /\ \A j \in DOMAIN leaseLog : leaseLog[j].id = r.lease /\ j <= seen => j = i

Open == {"authorise", "execute", "audit", "executed"}

\* A handler that is working on a request has found no audit record of it, and
\* it lets the adapter run only under a lease.
HandlerOK(x) ==
    /\ x.pc \in Open => Audits(x.req) = {}
    /\ x.pc = "result" => Audited(x.req, x.body)
    /\ x.pc = "execute" => UnderLease(x.req, x.seen, x.since)
    /\ x.seen \in Nat /\ x.seen <= Len(leaseLog) /\ x.since \in Nat /\ x.since <= clock

HandlersOK == \A h \in Handlers : HandlerOK(handler[h])

RanOK == \A x \in ran : UnderLease(x.req, x.seen, x.since) /\ x.seen \in Nat /\ x.seen <= Len(leaseLog)

\* The adapter has run, and the audit ledger has it or the handler still does.
Accounted(r) == Audits(r) # {} \/ \E h \in Handlers : handler[h].pc = "executed" /\ handler[h].req = r

RunsOK == \A r : Runs(r) <= LostRuns(r) + (IF Accounted(r) THEN 1 ELSE 0)

\* The inductive invariant.
Inv == Shape /\ AuditedOnce /\ Vouched /\ LeasesOK /\ HandlersOK /\ RanOK /\ RunsOK

-----------------------------------------------------------------------------
(* What stays.                                                               *)

\* The lease ledger is only ever appended to.
LeaseKept ==
    /\ Len(leaseLog) \in Nat /\ DOMAIN leaseLog = 1..Len(leaseLog)
    /\ Len(leaseLog') \in Nat /\ DOMAIN leaseLog' = 1..Len(leaseLog')
    /\ Len(leaseLog) <= Len(leaseLog')
    /\ \A i \in DOMAIN leaseLog : i \in DOMAIN leaseLog' /\ leaseLog'[i] = leaseLog[i]

\* A step that leaves the lease ledger alone keeps what it says.
LEMMA LeaseSame == ASSUME LeasesOK, leaseLog' = leaseLog PROVE LeaseKept /\ LeasesOK'
<1>1. PICK S : leaseLog \in Seq(S)
    BY DEF LeasesOK
<1>2. LeaseKept
    BY <1>1 DEF LeaseKept
<1> QED BY <1>2 DEF LeasesOK

\* A lease a request was under stays the one it was under.
LEMMA UnderLeaseKept ==
    ASSUME LeaseKept, profile' = profile, NEW r, NEW seen \in Nat, seen <= Len(leaseLog), NEW since,
           UnderLease(r, seen, since)
    PROVE  UnderLease(r, seen, since)'
<1> SUFFICES ASSUME RequiresLease(profile', r.cap, r.op)
             PROVE  \E i \in DOMAIN leaseLog' :
                        /\ leaseLog'[i].id = r.lease /\ leaseLog'[i].kind = "grant"
                        /\ since < leaseLog'[i].expires
                        /\ r.cap \in leaseLog'[i].caps /\ r.op \in leaseLog'[i].ops[r.cap]
                        /\ leaseLog'[i].worker = profile'.worker /\ leaseLog'[i].exp \in {None, r.exp}
                        /\ \A j \in DOMAIN leaseLog' : leaseLog'[j].id = r.lease /\ j <= seen => j = i
    BY DEF UnderLease
<1>1. PICK i \in DOMAIN leaseLog :
            /\ leaseLog[i].id = r.lease /\ leaseLog[i].kind = "grant"
            /\ since < leaseLog[i].expires
            /\ r.cap \in leaseLog[i].caps /\ r.op \in leaseLog[i].ops[r.cap]
            /\ leaseLog[i].worker = profile.worker /\ leaseLog[i].exp \in {None, r.exp}
            /\ \A j \in DOMAIN leaseLog : leaseLog[j].id = r.lease /\ j <= seen => j = i
    BY DEF UnderLease
<1>2. ASSUME NEW j \in DOMAIN leaseLog', leaseLog'[j].id = r.lease, j <= seen PROVE j = i
  <2>1. j \in DOMAIN leaseLog
      BY <1>2 DEF LeaseKept
  <2> QED BY <1>1, <1>2, <2>1 DEF LeaseKept
<1>3. i \in DOMAIN leaseLog' /\ leaseLog'[i] = leaseLog[i]
    BY <1>1 DEF LeaseKept
<1> QED BY <1>1, <1>2, <1>3

\* What a handler knows of the ledgers stays true while they grow.
LEMMA HandlerKept ==
    ASSUME LeaseKept, profile' = profile, auditLog' = auditLog, clock \in Nat, clock' \in Nat, clock <= clock',
           NEW x, HandlerOK(x)
    PROVE  HandlerOK(x)'
<1>1. x.seen \in Nat /\ x.seen <= Len(leaseLog') /\ x.since \in Nat /\ x.since <= clock'
    BY DEF HandlerOK, LeaseKept
<1>2. x.pc = "execute" => UnderLease(x.req, x.seen, x.since)'
  <2> SUFFICES ASSUME x.pc = "execute" PROVE UnderLease(x.req, x.seen, x.since)'
      OBVIOUS
  <2>1. UnderLease(x.req, x.seen, x.since) /\ x.seen \in Nat /\ x.seen <= Len(leaseLog)
      BY DEF HandlerOK
  <2> QED BY <2>1, UnderLeaseKept
<1>3. /\ x.pc \in Open => Audits(x.req)' = {}
      /\ x.pc = "result" => Audited(x.req, x.body)'
    BY DEF HandlerOK, Audits, Audited
<1> QED BY <1>1, <1>2, <1>3 DEF HandlerOK

\* What the history says of the ledgers stays true while they grow.
LEMMA RanKept ==
    ASSUME LeaseKept, profile' = profile, RanOK, ran' = ran
    PROVE  RanOK'
<1>1. ASSUME NEW x \in ran PROVE UnderLease(x.req, x.seen, x.since)' /\ x.seen \in Nat /\ x.seen <= Len(leaseLog')
  <2>1. UnderLease(x.req, x.seen, x.since) /\ x.seen \in Nat /\ x.seen <= Len(leaseLog)
      BY DEF RanOK
  <2>2. UnderLease(x.req, x.seen, x.since)'
      BY <2>1, UnderLeaseKept
  <2> QED BY <2>1, <2>2 DEF LeaseKept
<1> QED BY <1>1 DEF RanOK

\* There is one handler.
LEMMA Alone ==
    ASSUME Shape, NEW h \in Handlers, NEW x, IsHandler(x), handler' = [handler EXCEPT ![h] = x]
    PROVE  /\ handler' = [g \in Handlers |-> handler'[g]]
           /\ \A g \in Handlers : g = h /\ handler'[g] = x /\ IsHandler(handler'[g])
<1>1. DOMAIN handler = Handlers
    BY DEF Shape
<1>2. handler'[h] = x /\ DOMAIN handler' = Handlers
    BY <1>1
<1>3. \A g \in Handlers : g = h
    BY HandlersAssumption
<1>4. handler' = [g \in Handlers |-> handler'[g]]
    BY <1>1, <1>2, <1>3
<1> QED BY <1>2, <1>3, <1>4

\* Runs and unrecorded runs are counted by naturals.
LEMMA Counts == ASSUME Shape, NEW r PROVE Runs(r) \in Nat /\ LostRuns(r) \in Nat
<1>1. Runs(r) \in Nat
  <2>1. IsFiniteSet({x \in ran : x.req = r})
      BY FS_Subset DEF Shape
  <2> QED BY <2>1, FS_CardinalityType DEF Runs
<1>2. LostRuns(r) \in Nat
  <2>1. PICK S : lost \in Seq(S)
      BY DEF Shape
  <2>2. Len(lost) \in Nat /\ DOMAIN lost = 1..Len(lost)
      BY <2>1
  <2>3. IsFiniteSet(1..Len(lost))
      BY <2>2, FS_Interval
  <2>4. IsFiniteSet({i \in DOMAIN lost : r \in lost[i]})
      BY <2>2, <2>3, FS_Subset
  <2> QED BY <2>4, FS_CardinalityType DEF LostRuns
<1> QED BY <1>1, <1>2

\* The handler moves on; no adapter runs and nothing is audited.
LEMMA HandlerMoves ==
    ASSUME Inv, NEW h \in Handlers, NEW x, IsHandler(x), HandlerOK(x), handler' = [handler EXCEPT ![h] = x],
           handler[h].pc # "executed", x.pc # "executed",
           UNCHANGED <<auditLog, ran, lost, profile, clock>>, LeaseKept, LeasesOK',
           resultLog' = resultLog \/ \E e : resultLog' = Append(resultLog, e) /\ Audited(e.req, e.body),
           answers' = answers \/ \E a : answers' = answers \cup {a} /\ Audited(a.req, a.body)
    PROVE  Inv'
<1>1. /\ handler' = [g \in Handlers |-> handler'[g]]
      /\ \A g \in Handlers : g = h /\ handler'[g] = x /\ IsHandler(handler'[g])
    BY Alone DEF Inv
<1>r. /\ \E S : resultLog' \in Seq(S)
      /\ \A i \in DOMAIN resultLog' : Audited(resultLog'[i].req, resultLog'[i].body)
  <2>1. PICK S : resultLog \in Seq(S)
      BY DEF Inv, Shape
  <2>2. CASE resultLog' = resultLog
      BY <2>1, <2>2 DEF Inv, Vouched
  <2>3. ASSUME NEW e, resultLog' = Append(resultLog, e), Audited(e.req, e.body)
        PROVE  /\ \E T : resultLog' \in Seq(T)
               /\ \A i \in DOMAIN resultLog' : Audited(resultLog'[i].req, resultLog'[i].body)
    <3> DEFINE T == S \cup {e}
    <3>1. resultLog \in Seq(T) /\ e \in T
        BY <2>1
    <3> HIDE DEF T
    <3>2. /\ resultLog' \in Seq(T)
          /\ Len(resultLog) \in Nat /\ DOMAIN resultLog = 1..Len(resultLog)
          /\ DOMAIN resultLog' = 1..(Len(resultLog) + 1)
          /\ \A i \in 1..Len(resultLog) : resultLog'[i] = resultLog[i]
          /\ resultLog'[Len(resultLog) + 1] = e
        BY <2>3, <3>1, AppendFacts
    <3>3. \A i \in DOMAIN resultLog' : (i \in DOMAIN resultLog /\ resultLog'[i] = resultLog[i]) \/ resultLog'[i] = e
        BY <3>2
    <3> QED BY <2>3, <3>2, <3>3 DEF Inv, Vouched
  <2> QED BY <2>2, <2>3
<1>2. Shape'
    BY <1>1, <1>r DEF Inv, Shape
<1>a. \A r, b : Audited(r, b)' <=> Audited(r, b)
    BY DEF Audited
<1>3. AuditedOnce'
    BY DEF Inv, AuditedOnce
<1>4. Vouched'
  <2>1. \A a \in answers' : Audited(a.req, a.body)
      BY DEF Inv, Vouched
  <2> QED BY <1>a, <1>r, <2>1 DEF Vouched, Audited
<1>5. HandlersOK'
  <2>1. HandlerOK(x)'
      BY HandlerKept DEF Inv, Shape
  <2>2. ASSUME NEW g \in Handlers PROVE HandlerOK(handler[g])'
      BY <1>1, <2>1, SMTT(30) DEF HandlerOK, Audits, Audited, UnderLease
  <2> QED BY <2>2 DEF HandlersOK
<1>6. RanOK'
    BY RanKept DEF Inv
<1>7. RunsOK'
  <2>1. \A r : Accounted(r)' <=> Accounted(r)
    <3>1. \A g \in Handlers : handler[g].pc # "executed" /\ handler'[g].pc # "executed"
        BY <1>1
    <3> QED BY <3>1 DEF Accounted, Audits
  <2>2. \A r : Runs(r)' = Runs(r) /\ LostRuns(r)' = LostRuns(r)
      BY DEF Runs, LostRuns
  <2> QED BY <2>1, <2>2 DEF Inv, RunsOK
<1> QED BY <1>2, <1>3, <1>4, <1>5, <1>6, <1>7 DEF Inv

\* Only the clock, the lease ledger or the host moves.
LEMMA Outside ==
    ASSUME Inv, UNCHANGED <<auditLog, resultLog, ran, lost, answers, profile, handler>>,
           LeaseKept, LeasesOK', clock' \in Nat, clock <= clock'
    PROVE  Inv'
<1>1. Shape'
    BY DEF Inv, Shape
<1>2. AuditedOnce' /\ Vouched'
    BY DEF Inv, AuditedOnce, Vouched, Audited
<1>3. HandlersOK'
  <2>1. ASSUME NEW g \in Handlers PROVE HandlerOK(handler[g])'
    <3>1. PICK x : x = handler[g]
        OBVIOUS
    <3>2. HandlerOK(x)'
        BY <3>1, HandlerKept DEF Inv, Shape, HandlersOK
    <3> QED BY <3>1, <3>2 DEF HandlerOK, Audits, Audited, UnderLease
  <2> QED BY <2>1 DEF HandlersOK
<1>4. RanOK'
    BY RanKept DEF Inv
<1>5. RunsOK'
  <2>1. \A r : Accounted(r)' <=> Accounted(r)
      BY DEF Accounted, Audits
  <2>2. \A r : Runs(r)' = Runs(r) /\ LostRuns(r)' = LostRuns(r)
      BY DEF Runs, LostRuns
  <2> QED BY <2>1, <2>2 DEF Inv, RunsOK
<1> QED BY <1>1, <1>2, <1>3, <1>4, <1>5 DEF Inv

-----------------------------------------------------------------------------
(* The lease ledger.                                                         *)

\* A lease is granted under a new identity.
LEMMA LeaseGranted ==
    ASSUME LeasesOK, NEW l, l \notin KnownLeases, NEW e, e.id = l, e.kind = "grant", e.expires \in Int,
           leaseLog' = Append(leaseLog, e)
    PROVE  LeaseKept /\ LeasesOK'
<1>1. PICK S : leaseLog \in Seq(S)
    BY DEF LeasesOK
<1> DEFINE T == S \cup {e}
           n == Len(leaseLog) + 1
<1>2. leaseLog \in Seq(T) /\ e \in T
    BY <1>1
<1> HIDE DEF T
<1>3. /\ leaseLog' \in Seq(T) /\ Len(leaseLog') = n
      /\ Len(leaseLog) \in Nat /\ DOMAIN leaseLog = 1..Len(leaseLog)
      /\ DOMAIN leaseLog' = 1..n
      /\ \A i \in 1..Len(leaseLog) : leaseLog'[i] = leaseLog[i]
      /\ leaseLog'[n] = e
    BY <1>2, AppendFacts
<1>4. LeaseKept
    BY <1>3 DEF LeaseKept
<1>5. \A i \in DOMAIN leaseLog' : (i \in DOMAIN leaseLog /\ leaseLog'[i] = leaseLog[i] /\ i < n) \/ (i = n /\ leaseLog'[i] = e)
    BY <1>3
<1>6. \A i \in DOMAIN leaseLog : leaseLog[i].id # l
    BY DEF KnownLeases
<1> HIDE DEF n
<1>7. ASSUME NEW i \in DOMAIN leaseLog'
      PROVE  /\ leaseLog'[i].kind \in {"grant", "state"}
             /\ leaseLog'[i].kind = "grant" => leaseLog'[i].expires \in Int
             /\ leaseLog'[i].kind = "state" => \E j \in DOMAIN leaseLog' : j < i /\ leaseLog'[j].id = leaseLog'[i].id
    BY <1>4, <1>5 DEF LeasesOK, LeaseKept
<1>8. ASSUME NEW i \in DOMAIN leaseLog', NEW j \in DOMAIN leaseLog', i < j, leaseLog'[i].id = leaseLog'[j].id
      PROVE  leaseLog'[j].kind = "state" /\ leaseLog'[j].state # "ACTIVE"
  <2>0. i \in Int /\ j \in Int
      BY <1>4 DEF LeaseKept
  <2>1. CASE j \in DOMAIN leaseLog /\ leaseLog'[j] = leaseLog[j] /\ j < n
    <3>1. i # n
        BY <1>8, <2>0, <2>1, <1>3 DEF n
    <3> QED BY <1>5, <1>8, <2>1, <3>1 DEF LeasesOK
  <2>2. CASE j = n /\ leaseLog'[j] = e
    <3>1. i # n
        BY <1>8, <2>0, <2>2
    <3> QED BY <1>5, <1>6, <1>8, <2>2, <3>1
  <2> QED BY <1>5, <2>1, <2>2
<1> QED BY <1>3, <1>4, <1>7, <1>8 DEF LeasesOK

\* Known leases are moved to a state.
LEMMA LeasesMoved ==
    ASSUME LeasesOK, NEW S, NEW s \in Seq(S), leaseLog' = leaseLog \o s,
           \A i \in DOMAIN s : s[i].id \in KnownLeases /\ s[i].kind = "state" /\ s[i].state # "ACTIVE"
    PROVE  LeaseKept /\ LeasesOK'
<1>1. PICK R : leaseLog \in Seq(R)
    BY DEF LeasesOK
<1> DEFINE T == S \cup R
           n == Len(leaseLog)
<1>2. leaseLog \in Seq(T) /\ s \in Seq(T)
    BY <1>1
<1>3. n \in Nat /\ DOMAIN leaseLog = 1..n /\ Len(s) \in Nat /\ DOMAIN s = 1..Len(s)
    BY <1>2
<1> HIDE DEF T
<1>4. /\ leaseLog' \in Seq(T) /\ Len(leaseLog') = n + Len(s)
      /\ \A i \in 1..(n + Len(s)) : leaseLog'[i] = IF i <= n THEN leaseLog[i] ELSE s[i - n]
    BY <1>2, ConcatProperties
<1>5. DOMAIN leaseLog' = 1..(n + Len(s))
    BY <1>4
<1>6. LeaseKept
    BY <1>3, <1>4, <1>5 DEF LeaseKept
<1>7. ASSUME NEW i \in DOMAIN leaseLog'
      PROVE  \/ i \in DOMAIN leaseLog /\ leaseLog'[i] = leaseLog[i]
             \/ /\ i > n /\ leaseLog'[i].id \in KnownLeases
                /\ leaseLog'[i].kind = "state" /\ leaseLog'[i].state # "ACTIVE"
  <2>1. CASE i <= n
      BY <1>3, <1>4, <1>5, <2>1
  <2>2. CASE ~(i <= n)
    <3>1. i - n \in DOMAIN s /\ leaseLog'[i] = s[i - n] /\ i > n
        BY <1>3, <1>4, <1>5, <2>2
    <3> QED BY <3>1
  <2> QED BY <2>1, <2>2
<1>8. \A i \in DOMAIN leaseLog' : i \in Int /\ (i \in DOMAIN leaseLog => i <= n)
    BY <1>3, <1>5
<1> HIDE DEF n
<1>9. ASSUME NEW i \in DOMAIN leaseLog'
      PROVE  /\ leaseLog'[i].kind \in {"grant", "state"}
             /\ leaseLog'[i].kind = "grant" => leaseLog'[i].expires \in Int
             /\ leaseLog'[i].kind = "state" => \E j \in DOMAIN leaseLog' : j < i /\ leaseLog'[j].id = leaseLog'[i].id
  <2>1. CASE i \in DOMAIN leaseLog /\ leaseLog'[i] = leaseLog[i]
      BY <1>6, <2>1 DEF LeasesOK, LeaseKept
  <2>2. CASE /\ i > n /\ leaseLog'[i].id \in KnownLeases
             /\ leaseLog'[i].kind = "state" /\ leaseLog'[i].state # "ACTIVE"
    <3>1. PICK j \in DOMAIN leaseLog : leaseLog[j].id = leaseLog'[i].id
        BY <2>2 DEF KnownLeases
    <3>2. j \in DOMAIN leaseLog' /\ leaseLog'[j] = leaseLog[j]
        BY <3>1, <1>6 DEF LeaseKept
    <3>3. j < i
        BY <1>3, <1>8, <2>2, <3>1, <3>2 DEF n
    <3> QED BY <2>2, <3>1, <3>2, <3>3
  <2> QED BY <1>7, <2>1, <2>2
<1>10. ASSUME NEW i \in DOMAIN leaseLog', NEW j \in DOMAIN leaseLog', i < j, leaseLog'[i].id = leaseLog'[j].id
      PROVE  leaseLog'[j].kind = "state" /\ leaseLog'[j].state # "ACTIVE"
  <2>1. CASE j \in DOMAIN leaseLog /\ leaseLog'[j] = leaseLog[j]
    <3>1. ~(i > n)
        BY <1>3, <1>8, <1>10, <2>1 DEF n
    <3>2. i \in DOMAIN leaseLog /\ leaseLog'[i] = leaseLog[i]
        BY <1>7, <3>1
    <3> QED BY <1>10, <2>1, <3>2 DEF LeasesOK
  <2>2. CASE ~(j \in DOMAIN leaseLog /\ leaseLog'[j] = leaseLog[j])
      BY <1>7, <2>2
  <2> QED BY <2>1, <2>2
<1> QED BY <1>4, <1>6, <1>9, <1>10 DEF LeasesOK

\* What _set_state appends: events of the leases it is to move.
LEMMA SetStateFacts ==
    ASSUME LeasesOK, NEW L \in SUBSET KnownLeases, NEW state, state # "ACTIVE"
    PROVE  \E S : /\ SetState(L, state) \in Seq(S)
                  /\ \A i \in DOMAIN SetState(L, state) :
                        /\ SetState(L, state)[i].id \in KnownLeases
                        /\ SetState(L, state)[i].kind = "state" /\ SetState(L, state)[i].state # "ACTIVE"
<1>1. IsFiniteSet(KnownLeases)
  <2>1. PICK S : leaseLog \in Seq(S)
      BY DEF LeasesOK
  <2>2. Len(leaseLog) \in Nat /\ DOMAIN leaseLog = 1..Len(leaseLog)
      BY <2>1
  <2>3. IsFiniteSet(DOMAIN leaseLog)
      BY <2>2, FS_Interval
  <2>4. \A i \in DOMAIN leaseLog : leaseLog[i].id \in KnownLeases
      BY DEF KnownLeases
  <2> DEFINE f == [i \in DOMAIN leaseLog |-> leaseLog[i].id]
  <2>5. f \in Surjection(DOMAIN leaseLog, KnownLeases)
      BY <2>4 DEF Surjection, KnownLeases
  <2> QED BY <2>3, <2>5, FS_Surjection DEF ExistsSurjection
<1> DEFINE moved == {l \in L : InspectAt(l, clock) # state}
           n == Cardinality(moved)
<1>2. IsFiniteSet(moved)
    BY <1>1, FS_Subset
<1> HIDE DEF moved
<1>3. n \in Nat /\ ExistsBijection(1..n, moved)
    BY <1>2, FS_CardinalityType
<1>4. \E s \in [1..n -> moved] : \A i, j \in DOMAIN s : i # j => s[i] # s[j]
  <2>1. PICK s \in Bijection(1..n, moved) : TRUE
      BY <1>3 DEF ExistsBijection
  <2>2. s \in [1..n -> moved] /\ \A i, j \in 1..n : s[i] = s[j] => i = j
      BY DEF Bijection, Injection, IsInjective
  <2> QED BY <2>2
<1> DEFINE order == CHOOSE s \in [1..n -> moved] : \A i, j \in DOMAIN s : i # j => s[i] # s[j]
           q == [i \in DOMAIN order |-> LeaseEvent(order[i], state)]
<1>5. order \in [1..n -> moved]
    BY <1>4
<1>6. SetState(L, state) = q
    BY DEF SetState, moved
<1> HIDE DEF order, n
<1>7. /\ DOMAIN q = 1..n
      /\ \A i \in 1..n : q[i] = LeaseEvent(order[i], state) /\ order[i] \in L
    BY <1>5 DEF moved
<1>8. q \in Seq({q[i] : i \in 1..n})
    BY <1>3, <1>7
<1>9. \A i \in DOMAIN q : q[i].id \in KnownLeases /\ q[i].kind = "state" /\ q[i].state # "ACTIVE"
    BY <1>7 DEF LeaseEvent
<1> HIDE DEF q
<1> QED BY <1>6, <1>8, <1>9

-----------------------------------------------------------------------------
(* The operator's steps and the clock.                                       *)

\* Time passes.
LEMMA TickStep == ASSUME Inv, Tick PROVE Inv'
<1>1. clock' \in Nat /\ clock <= clock'
    BY DEF Inv, Shape, Tick
<1>2. LeaseKept /\ LeasesOK'
    BY LeaseSame DEF Inv, Tick, stores
<1> QED BY <1>1, <1>2, Outside DEF Tick, stores, history

\* The broker is started again.
LEMMA RestartStep == ASSUME Inv, Restart PROVE Inv'
<1>1. clock' \in Nat /\ clock <= clock'
    BY DEF Inv, Shape, Restart
<1>2. LeaseKept /\ LeasesOK'
    BY LeaseSame DEF Inv, Restart, stores
<1> QED BY <1>1, <1>2, Outside DEF Restart, stores, history

\* Nothing happens.
LEMMA Stutter == ASSUME Inv, UNCHANGED vars PROVE Inv'
<1>1. clock' \in Nat /\ clock <= clock'
    BY DEF Inv, Shape, vars
<1>2. LeaseKept /\ LeasesOK'
    BY LeaseSame DEF Inv, vars, stores
<1> QED BY <1>1, <1>2, Outside DEF vars, stores, history

\* The operator grants a lease.
LEMMA GrantStep ==
    ASSUME Inv, NEW l, NEW exp, NEW caps, Grant(l, exp, caps, 1) PROVE Inv'
<1>1. clock \in Nat /\ clock' = clock
    BY DEF Inv, Shape, Grant
<1>2. PICK e : e = LeaseRecord(l, profile.worker, exp, caps, clock, 1)
    OBVIOUS
<1>3. e.id = l /\ e.kind = "grant" /\ e.expires \in Int
    BY <1>1, <1>2 DEF LeaseRecord
<1>4. leaseLog' = Append(leaseLog, e) /\ l \notin KnownLeases
    BY <1>2 DEF Grant
<1>5. LeaseKept /\ LeasesOK'
    BY <1>3, <1>4, LeaseGranted DEF Inv
<1> QED BY <1>1, <1>5, Outside DEF Grant, history

\* Events that move known leases to states other than active are appended.
LEMMA LeasesEnd ==
    ASSUME Inv, NEW L \in SUBSET KnownLeases, NEW state, state # "ACTIVE",
           leaseLog' = leaseLog \o SetState(L, state),
           UNCHANGED <<auditLog, resultLog, ran, lost, answers, profile, handler, clock>>
    PROVE  Inv'
<1>1. PICK S : /\ SetState(L, state) \in Seq(S)
               /\ \A i \in DOMAIN SetState(L, state) :
                     /\ SetState(L, state)[i].id \in KnownLeases
                     /\ SetState(L, state)[i].kind = "state" /\ SetState(L, state)[i].state # "ACTIVE"
    BY SetStateFacts DEF Inv
<1>2. PICK s : s = SetState(L, state)
    OBVIOUS
<1>3. LeaseKept /\ LeasesOK'
    BY <1>1, <1>2, LeasesMoved DEF Inv
<1>4. clock' \in Nat /\ clock <= clock'
    BY DEF Inv, Shape
<1> QED BY <1>3, <1>4, Outside

\* The operator revokes a lease.
LEMMA RevokeStep == ASSUME Inv, NEW l, Revoke(l) PROVE Inv'
<1>1. {l} \in SUBSET KnownLeases /\ leaseLog' = leaseLog \o SetState({l}, "REVOKED")
    BY DEF Revoke
<1>2. UNCHANGED <<auditLog, resultLog, ran, lost, answers, profile, handler, clock>>
    BY DEF Revoke, history
<1> QED BY <1>1, <1>2, LeasesEnd

\* Leases past their deadline are expired.
LEMMA ExpireStep == ASSUME Inv, NEW now, ExpireLeases(now) PROVE Inv'
<1>1. Unmarked(now) \in SUBSET KnownLeases /\ leaseLog' = leaseLog \o SetState(Unmarked(now), "EXPIRED")
    BY DEF ExpireLeases, Unmarked
<1>2. UNCHANGED <<auditLog, resultLog, ran, lost, answers, profile, handler, clock>>
    BY DEF ExpireLeases, history
<1>3. PICK L : L = Unmarked(now)
    OBVIOUS
<1> QED BY <1>1, <1>2, <1>3, LeasesEnd

\* Leases past their deadline are cleaned up.
LEMMA CleanupStep == ASSUME Inv, NEW now, CleanupLeases(now) PROVE Inv'
<1>1. PICK K, L : K = Unmarked(now) /\ L = {l \in KnownLeases : InspectAt(l, now) \in {"EXPIRED", "REVOKED"}}
    OBVIOUS
<1>2. /\ K \in SUBSET KnownLeases /\ L \in SUBSET KnownLeases
      /\ leaseLog' = (leaseLog \o SetState(K, "EXPIRED")) \o SetState(L, "CLEANED")
    BY <1>1 DEF CleanupLeases, Unmarked
<1>3. PICK s, t : s = SetState(K, "EXPIRED") /\ t = SetState(L, "CLEANED")
    OBVIOUS
<1>4. PICK S : /\ s \in Seq(S)
               /\ \A i \in DOMAIN s : s[i].id \in KnownLeases /\ s[i].kind = "state" /\ s[i].state # "ACTIVE"
    BY <1>2, <1>3, SetStateFacts DEF Inv
<1>5. PICK T : /\ t \in Seq(T)
               /\ \A i \in DOMAIN t : t[i].id \in KnownLeases /\ t[i].kind = "state" /\ t[i].state # "ACTIVE"
    BY <1>2, <1>3, SetStateFacts DEF Inv
<1>6. PICK R : leaseLog \in Seq(R)
    BY DEF Inv, LeasesOK
<1>7. PICK Q : Q = R \cup S \cup T
    OBVIOUS
<1>8. leaseLog \in Seq(Q) /\ s \in Seq(Q) /\ t \in Seq(Q)
    BY <1>4, <1>5, <1>6, <1>7
<1>9. PICK u : u = s \o t
    OBVIOUS
<1>10. leaseLog' = leaseLog \o u
  <2>1. \A v \in Seq(Q) : (v \o s) \o t = v \o (s \o t)
      BY <1>8, ConcatAssociative, SMT
  <2> QED BY <1>2, <1>3, <1>8, <1>9, <2>1, Zenon
<1>11. /\ u \in Seq(Q) /\ Len(u) = Len(s) + Len(t)
       /\ \A i \in 1..(Len(s) + Len(t)) : u[i] = IF i <= Len(s) THEN s[i] ELSE t[i - Len(s)]
    BY <1>8, <1>9, ConcatProperties
<1>12. ASSUME NEW i \in DOMAIN u
       PROVE  u[i].id \in KnownLeases /\ u[i].kind = "state" /\ u[i].state # "ACTIVE"
  <2>1. /\ Len(s) \in Nat /\ DOMAIN s = 1..Len(s) /\ Len(t) \in Nat /\ DOMAIN t = 1..Len(t)
        /\ DOMAIN u = 1..(Len(s) + Len(t))
      BY <1>8, <1>11
  <2>2. CASE i <= Len(s)
    <3>1. i \in DOMAIN s /\ u[i] = s[i]
        BY <1>11, <2>1, <2>2
    <3> QED BY <1>4, <3>1
  <2>3. CASE ~(i <= Len(s))
    <3>1. i - Len(s) \in DOMAIN t /\ u[i] = t[i - Len(s)]
        BY <1>11, <2>1, <2>3
    <3> QED BY <1>5, <3>1
  <2> QED BY <2>2, <2>3
<1>13. LeaseKept /\ LeasesOK'
    BY <1>10, <1>11, <1>12, LeasesMoved DEF Inv
<1>14. clock' \in Nat /\ clock <= clock'
    BY DEF Inv, Shape, CleanupLeases
<1> QED BY <1>13, <1>14, Outside DEF CleanupLeases, history

-----------------------------------------------------------------------------
(* The steps of a handler.                                                   *)

\* A handler that serves nothing is in order.
LEMMA IdleOK == ASSUME Inv PROVE IsHandler(Idle) /\ HandlerOK(Idle) /\ Idle.pc = "idle"
<1>1. IsHandler(Idle)
    BY DEF IsHandler, Idle
<1>2. Idle.pc = "idle" /\ Idle.seen = 0 /\ Idle.since = 0
    BY DEF Idle
<1>3. PICK S : leaseLog \in Seq(S)
    BY DEF Inv, LeasesOK
<1>4. Len(leaseLog) \in Nat /\ clock \in Nat
    BY <1>3 DEF Inv, Shape
<1> QED BY <1>1, <1>2, <1>4 DEF HandlerOK, Open

\* A handler goes on with an audited result.
LEMMA FinishStep ==
    ASSUME Inv, NEW h \in Handlers, NEW r, NEW b, Audited(r, b), Finish(h, r, b), handler[h].pc # "executed",
           UNCHANGED <<auditLog, ran, lost, profile, clock, leaseLog>>,
           resultLog' = resultLog \/ \E e : resultLog' = Append(resultLog, e) /\ Audited(e.req, e.body)
    PROVE  Inv'
<1>1. LeaseKept /\ LeasesOK'
    BY LeaseSame DEF Inv
<1>2. CASE handler[h].job.phase = None
  <2>1. PICK x : x = Idle
      OBVIOUS
  <2>2. IsHandler(x) /\ HandlerOK(x) /\ x.pc = "idle"
      BY <2>1, IdleOK
  <2>3. PICK a : a = [req |-> r, body |-> b]
      OBVIOUS
  <2>4. handler' = [handler EXCEPT ![h] = x] /\ answers' = answers \cup {a}
      BY <1>2, <2>1, <2>3 DEF Finish
  <2>5. Audited(a.req, a.body)
      BY <2>3
  <2> QED BY <1>1, <2>2, <2>4, <2>5, HandlerMoves
<1>3. CASE handler[h].job.phase # None
  <2>1. PICK pc, req, body, seen, since, job :
          handler[h] = [pc |-> pc, req |-> req, body |-> body, seen |-> seen, since |-> since, job |-> job]
      BY DEF Inv, Shape, IsHandler
  <2>2. PICK x : x = [pc |-> "item", req |-> req, body |-> b, seen |-> seen, since |-> since, job |-> job]
      OBVIOUS
  <2>3. handler' = [handler EXCEPT ![h] = x] /\ answers' = answers
      BY <1>3, <2>1, <2>2 DEF Finish
  <2>4. IsHandler(x) /\ x.pc = "item"
      BY <2>2 DEF IsHandler
  <2>5. HandlerOK(x)
    <3>1. HandlerOK(handler[h])
        BY DEF Inv, HandlersOK
    <3>2. x.seen = handler[h].seen /\ x.since = handler[h].since
        BY <2>1, <2>2
    <3> QED BY <2>4, <3>1, <3>2 DEF HandlerOK, Open
  <2> QED BY <1>1, <2>3, <2>4, <2>5, HandlerMoves
<1> QED BY <1>2, <1>3

\* A request enters.
LEMMA EnterStep ==
    ASSUME Inv, NEW h \in Handlers, NEW r, Enter(h, r), handler[h].pc # "executed",
           UNCHANGED <<auditLog, resultLog, ran, lost, profile, clock, leaseLog>>
    PROVE  Inv'
<1>1. CASE Results(r) # {}
  <2>1. PICK b : b = FindResult(r)
      OBVIOUS
  <2>2. b \in Results(r)
      BY <1>1, <2>1 DEF FindResult
  <2>3. Audited(r, b)
      BY <2>2 DEF Results, Inv, Vouched
  <2>4. Finish(h, r, b)
      BY <1>1, <2>1 DEF Enter
  <2> QED BY <2>3, <2>4, FinishStep
<1>2. CASE Results(r) = {}
  <2>1. PICK pc, req, body, seen, since, job :
          handler[h] = [pc |-> pc, req |-> req, body |-> body, seen |-> seen, since |-> since, job |-> job]
      BY DEF Inv, Shape, IsHandler
  <2>2. PICK x : x = [pc |-> "recover", req |-> r, body |-> body, seen |-> Len(leaseLog), since |-> clock, job |-> job]
      OBVIOUS
  <2>3. handler' = [handler EXCEPT ![h] = x] /\ answers' = answers
      BY <1>2, <2>1, <2>2 DEF Enter
  <2>4. IsHandler(x) /\ x.pc = "recover"
      BY <2>2 DEF IsHandler
  <2>5. HandlerOK(x)
    <3>1. PICK S : leaseLog \in Seq(S)
        BY DEF Inv, LeasesOK
    <3>2. Len(leaseLog) \in Nat /\ clock \in Nat
        BY <3>1 DEF Inv, Shape
    <3>3. x.seen = Len(leaseLog) /\ x.since = clock
        BY <2>2
    <3> QED BY <2>4, <3>2, <3>3 DEF HandlerOK, Open
  <2>6. LeaseKept /\ LeasesOK'
      BY LeaseSame DEF Inv
  <2> QED BY <2>3, <2>4, <2>5, <2>6, HandlerMoves
<1> QED BY <1>1, <1>2

\* A request arrives.
LEMMA ReceiveStep == ASSUME Inv, NEW h \in Handlers, NEW r, Receive(h, r) PROVE Inv'
<1>1. /\ Enter(h, r) /\ handler[h].pc # "executed"
      /\ UNCHANGED <<auditLog, resultLog, ran, lost, profile, clock, leaseLog>>
    BY DEF Receive, stores
<1> QED BY <1>1, EnterStep

\* What is recovered is in the audit ledger.
LEMMA RecoveredAudited == ASSUME Inv, NEW r, Audits(r) # {} PROVE Audited(r, Recovered(r))
<1>1. PICK S : auditLog \in Seq(S)
    BY DEF Inv, Shape
<1>2. Audits(r) \subseteq Nat
    BY <1>1 DEF Audits
<1>3. \E i \in Audits(r) : \A j \in Audits(r) : i <= j
    BY <1>2, LeastExists
<1>4. PICK k : k = CHOOSE i \in Audits(r) : \A j \in Audits(r) : i <= j
    OBVIOUS
<1>5. k \in Audits(r)
    BY <1>3, <1>4
<1>6. Recovered(r) = auditLog[k].body
    BY <1>4 DEF Recovered
<1> QED BY <1>5, <1>6 DEF Audits, Audited

\* The audit ledger holds the result of an earlier run, or has none.
LEMMA RecoverStep == ASSUME Inv, NEW h \in Handlers, Recover(h) PROVE Inv'
<1>1. PICK pc, req, body, seen, since, job :
        handler[h] = [pc |-> pc, req |-> req, body |-> body, seen |-> seen, since |-> since, job |-> job]
    BY DEF Inv, Shape, IsHandler
<1>2. pc = "recover" /\ handler[h].pc # "executed" /\ handler[h].req = req
    BY <1>1 DEF Recover
<1>3. UNCHANGED <<auditLog, ran, lost, profile, clock, leaseLog>>
    BY DEF Recover
<1>4. CASE Audits(req) = {}
  <2>1. PICK x : x = [pc |-> "authorise", req |-> req, body |-> body, seen |-> seen, since |-> since, job |-> job]
      OBVIOUS
  <2>2. handler' = [handler EXCEPT ![h] = x] /\ answers' = answers /\ resultLog' = resultLog
      BY <1>1, <1>2, <1>4, <2>1 DEF Recover
  <2>3. IsHandler(x) /\ x.pc = "authorise"
      BY <2>1 DEF IsHandler
  <2>4. HandlerOK(x)
    <3>1. HandlerOK(handler[h])
        BY DEF Inv, HandlersOK
    <3>2. x.seen = handler[h].seen /\ x.since = handler[h].since /\ x.req = req
        BY <1>1, <2>1
    <3> QED BY <1>4, <2>3, <3>1, <3>2 DEF HandlerOK
  <2>5. LeaseKept /\ LeasesOK'
      BY <1>3, LeaseSame DEF Inv
  <2> QED BY <1>2, <1>3, <2>2, <2>3, <2>4, <2>5, HandlerMoves
<1>5. CASE Audits(req) # {}
  <2>1. PICK b : b = Recovered(req)
      OBVIOUS
  <2>2. Audited(req, b)
      BY <1>5, <2>1, RecoveredAudited
  <2>3. resultLog' = Append(resultLog, [req |-> req, body |-> b]) /\ Finish(h, req, b)
      BY <1>2, <1>5, <2>1 DEF Recover
  <2>4. PICK e : e = [req |-> req, body |-> b]
      OBVIOUS
  <2>5. resultLog' = Append(resultLog, e) /\ Audited(e.req, e.body)
      BY <2>2, <2>3, <2>4
  <2> QED BY <1>2, <1>3, <2>2, <2>3, <2>5, FinishStep
<1> QED BY <1>4, <1>5

\* The events of a lease have a first and a last.
LEMMA FirstAndLast ==
    ASSUME LeasesOK, NEW l, LeaseEvents(l) # {}
    PROVE  /\ LeaseEvents(l) \subseteq Nat
           /\ FirstEvent(l) \in LeaseEvents(l) /\ \A j \in LeaseEvents(l) : FirstEvent(l) <= j
           /\ LastEvent(l) \in LeaseEvents(l) /\ \A j \in LeaseEvents(l) : j <= LastEvent(l)
<1>1. PICK S : leaseLog \in Seq(S)
    BY DEF LeasesOK
<1>2. PICK n, E : n = Len(leaseLog) /\ E = LeaseEvents(l)
    OBVIOUS
<1>3. n \in Nat /\ E \subseteq 0..n /\ E \subseteq Nat /\ E # {}
    BY <1>1, <1>2 DEF LeaseEvents
<1>4. \E i \in E : \A j \in E : i <= j
    BY <1>3, LeastExists
<1>5. \E i \in E : \A j \in E : j <= i
    BY <1>3, GreatestExists
<1>6. FirstEvent(l) \in E /\ \A j \in E : FirstEvent(l) <= j
    BY <1>2, <1>4 DEF FirstEvent
<1>7. LastEvent(l) \in E /\ \A j \in E : j <= LastEvent(l)
    BY <1>2, <1>5 DEF LastEvent
<1> QED BY <1>2, <1>3, <1>6, <1>7

\* A lease that is active has a grant, and no event has followed it.
LEMMA ActiveLease ==
    ASSUME Inv, NEW r, NEW seen, NEW since \in Nat, since <= clock,
           LeaseActive(r.lease, profile.worker, r.cap, r.op, r.exp)
    PROVE  UnderLease(r, seen, since)
<1>1. PICK l, i, k : l = r.lease /\ i = FirstEvent(l) /\ k = LastEvent(l)
    OBVIOUS
<1>2. /\ LeaseEvents(l) \subseteq Nat
      /\ i \in LeaseEvents(l) /\ \A j \in LeaseEvents(l) : i <= j
      /\ k \in LeaseEvents(l) /\ \A j \in LeaseEvents(l) : j <= k
    BY <1>1, FirstAndLast DEF LeaseActive, Inv
<1>3. i \in DOMAIN leaseLog /\ leaseLog[i].id = l /\ k \in DOMAIN leaseLog /\ leaseLog[k].id = l
    BY <1>2 DEF LeaseEvents
<1>4. LastState(l) = "ACTIVE" /\ ~(clock >= leaseLog[i].expires)
    BY <1>1 DEF LeaseActive, InspectAt, Lease
<1>5. k = i
  <2> SUFFICES ASSUME k # i PROVE FALSE
      OBVIOUS
  <2>1. leaseLog[k].state = "ACTIVE"
      BY <1>1, <1>4 DEF LastState
  <2>2. i < k
      BY <1>2
  <2> QED BY <1>3, <2>1, <2>2 DEF Inv, LeasesOK
<1>6. leaseLog[i].kind = "grant" /\ leaseLog[i].expires \in Int
  <2>1. leaseLog[i].kind # "state"
    <3> SUFFICES ASSUME leaseLog[i].kind = "state" PROVE FALSE
        OBVIOUS
    <3>1. PICK j \in DOMAIN leaseLog : j < i /\ leaseLog[j].id = l
        BY <1>3 DEF Inv, LeasesOK
    <3>2. j \in LeaseEvents(l)
        BY <3>1 DEF LeaseEvents
    <3> QED BY <1>2, <3>1, <3>2
  <2> QED BY <1>3, <2>1 DEF Inv, LeasesOK
<1>7. since < leaseLog[i].expires
    BY <1>4, <1>6 DEF Inv, Shape
<1>8. /\ r.cap \in leaseLog[i].caps /\ r.op \in leaseLog[i].ops[r.cap]
      /\ leaseLog[i].worker = profile.worker /\ leaseLog[i].exp \in {None, r.exp}
    BY <1>1 DEF LeaseActive, Lease
<1>9. \A j \in DOMAIN leaseLog : leaseLog[j].id = l => j = i
  <2> SUFFICES ASSUME NEW j \in DOMAIN leaseLog, leaseLog[j].id = l PROVE j = i
      OBVIOUS
  <2>1. j \in LeaseEvents(l)
      BY DEF LeaseEvents
  <2> QED BY <1>2, <1>5, <2>1
<1> QED BY <1>1, <1>3, <1>6, <1>7, <1>8, <1>9 DEF UnderLease

\* A handler leaves the policy for the audit, or for the adapter under a lease.
LEMMA PolicyLeft ==
    ASSUME Inv, NEW h \in Handlers, handler[h].pc = "authorise",
           NEW x, IsHandler(x), handler' = [handler EXCEPT ![h] = x], x.pc \in {"audit", "execute"},
           x.req = handler[h].req, x.seen = handler[h].seen, x.since = handler[h].since,
           x.pc = "execute" => UnderLease(x.req, x.seen, x.since),
           UNCHANGED <<auditLog, resultLog, ran, lost, profile, clock, leaseLog, answers>>
    PROVE  Inv'
<1>1. HandlerOK(handler[h])
    BY DEF Inv, HandlersOK
<1>2. HandlerOK(x)
    BY <1>1 DEF HandlerOK, Open
<1>3. LeaseKept /\ LeasesOK'
    BY LeaseSame DEF Inv
<1>4. x.pc # "executed" /\ handler[h].pc # "executed"
    OBVIOUS
<1> QED BY <1>2, <1>3, <1>4, HandlerMoves

\* The policy lets the adapter run only where no lease is needed or one is active.
LEMMA AuthoriseStep == ASSUME Inv, NEW h \in Handlers, Authorise(h) PROVE Inv'
<1>1. PICK pc, req, body, seen, since, job :
        handler[h] = [pc |-> pc, req |-> req, body |-> body, seen |-> seen, since |-> since, job |-> job]
    BY DEF Inv, Shape, IsHandler
<1>2. handler[h].pc = "authorise" /\ handler[h].req = req
    BY <1>1 DEF Authorise
<1>3. UNCHANGED <<auditLog, resultLog, ran, lost, profile, clock, leaseLog, answers>>
    BY DEF Authorise, stores, history
<1>4. Audits(req) = {} /\ seen \in Nat /\ seen <= Len(leaseLog) /\ since \in Nat /\ since <= clock
  <2>1. HandlerOK(handler[h])
      BY DEF Inv, HandlersOK
  <2>2. handler[h].seen = seen /\ handler[h].since = since
      BY <1>1, <1>2
  <2> QED BY <1>2, <2>1, <2>2 DEF HandlerOK, Open
<1>6. CASE ~Allows(profile, req.cap, req.op)
  <2>0. PICK b : b = Body("FAIL", FALSE, None)
      OBVIOUS
  <2>1. PICK x : x = [pc |-> "audit", req |-> req, body |-> b, seen |-> seen, since |-> since, job |-> job]
      OBVIOUS
  <2>2. handler' = [handler EXCEPT ![h].pc = "audit", ![h].body = b]
      BY <1>2, <1>6, <2>0 DEF Authorise
  <2>3. handler' = [handler EXCEPT ![h] = x]
    <3>1. PICK y : y = [pc |-> "audit", req |-> req, body |-> body, seen |-> seen, since |-> since, job |-> job]
        OBVIOUS
    <3>2. y = [handler[h] EXCEPT !.pc = "audit"]
        BY <1>1, <3>1
    <3>3. x = [y EXCEPT !.body = b]
        BY <2>1, <3>1
    <3> QED BY <2>2, <3>2, <3>3
  <2>5. /\ x.pc = "audit"
        /\ x.req = handler[h].req /\ x.seen = handler[h].seen /\ x.since = handler[h].since
      BY <1>1, <2>1
  <2>7. IsHandler(x)
      BY <2>1 DEF IsHandler
  <2> QED BY <1>2, <1>3, <2>3, <2>5, <2>7, PolicyLeft
<1>7. CASE /\ Allows(profile, req.cap, req.op)
           /\ RequiresLease(profile, req.cap, req.op)
              /\ ~LeaseActive(req.lease, profile.worker, req.cap, req.op, req.exp)
  <2>0. PICK b : b = Body("SKIPPED", FALSE, None)
      OBVIOUS
  <2>1. PICK x : x = [pc |-> "audit", req |-> req, body |-> b, seen |-> seen, since |-> since, job |-> job]
      OBVIOUS
  <2>2. handler' = [handler EXCEPT ![h].pc = "audit", ![h].body = b]
      BY <1>2, <1>7, <2>0 DEF Authorise
  <2>3. handler' = [handler EXCEPT ![h] = x]
    <3>1. PICK y : y = [pc |-> "audit", req |-> req, body |-> body, seen |-> seen, since |-> since, job |-> job]
        OBVIOUS
    <3>2. y = [handler[h] EXCEPT !.pc = "audit"]
        BY <1>1, <3>1
    <3>3. x = [y EXCEPT !.body = b]
        BY <2>1, <3>1
    <3> QED BY <2>2, <3>2, <3>3
  <2>5. /\ x.pc = "audit"
        /\ x.req = handler[h].req /\ x.seen = handler[h].seen /\ x.since = handler[h].since
      BY <1>1, <2>1
  <2>7. IsHandler(x)
      BY <2>1 DEF IsHandler
  <2> QED BY <1>2, <1>3, <2>3, <2>5, <2>7, PolicyLeft
<1>8. CASE /\ Allows(profile, req.cap, req.op)
           /\ ~(RequiresLease(profile, req.cap, req.op)
                /\ ~LeaseActive(req.lease, profile.worker, req.cap, req.op, req.exp))
  <2>1. PICK x : x = [pc |-> "execute", req |-> req, body |-> body, seen |-> seen, since |-> since, job |-> job]
      OBVIOUS
  <2>2. handler' = [handler EXCEPT ![h].pc = "execute"]
      BY <1>2, <1>8 DEF Authorise
  <2>3. handler' = [handler EXCEPT ![h] = x]
    <3>1. x = [handler[h] EXCEPT !.pc = "execute"]
        BY <1>1, <2>1
    <3> QED BY <2>2, <3>1
  <2>4. UnderLease(req, seen, since)
    <3>1. CASE ~RequiresLease(profile, req.cap, req.op)
        BY <3>1 DEF UnderLease
    <3>2. CASE LeaseActive(req.lease, profile.worker, req.cap, req.op, req.exp)
        BY <1>4, <3>2, ActiveLease
    <3> QED BY <1>8, <3>1, <3>2
  <2>5. /\ x.pc = "execute"
        /\ x.req = handler[h].req /\ x.seen = handler[h].seen /\ x.since = handler[h].since
      BY <1>1, <2>1
  <2>7. IsHandler(x)
      BY <2>1 DEF IsHandler
  <2>6. UnderLease(x.req, x.seen, x.since)
      BY <2>1, <2>4
  <2> QED BY <1>2, <1>3, <2>3, <2>5, <2>6, <2>7, PolicyLeft
<1> QED BY <1>6, <1>7, <1>8

\* A result that was audited becomes durable.
LEMMA AppendResultStep == ASSUME Inv, NEW h \in Handlers, AppendResult(h) PROVE Inv'
<1>1. PICK r, b : r = handler[h].req /\ b = handler[h].body
    OBVIOUS
<1>2. handler[h].pc = "result" /\ Finish(h, r, b) /\ handler[h].pc # "executed"
    BY <1>1 DEF AppendResult
<1>3. Audited(r, b)
    BY <1>1, <1>2 DEF Inv, HandlersOK, HandlerOK
<1>4. PICK e : e = [req |-> r, body |-> b]
    OBVIOUS
<1>5. resultLog' = Append(resultLog, e) /\ Audited(e.req, e.body)
    BY <1>1, <1>3, <1>4 DEF AppendResult
<1>6. UNCHANGED <<auditLog, ran, lost, profile, clock, leaseLog>>
    BY DEF AppendResult
<1> QED BY <1>2, <1>3, <1>5, <1>6, FinishStep

\* The append of a result raises: the handler answers nobody.
LEMMA ResultFailsStep == ASSUME Inv, NEW h \in Handlers, NEW written, ResultFails(h, written) PROVE Inv'
<1>1. PICK r : r = handler[h].req
    OBVIOUS
<1>2. PICK b : b = IF handler[h].pc = "recover" THEN Recovered(r) ELSE handler[h].body
    OBVIOUS
<1>3. /\ handler[h].pc = "result" \/ (handler[h].pc = "recover" /\ Audits(r) # {})
      /\ handler' = [handler EXCEPT ![h] = Idle]
      /\ UNCHANGED <<auditLog, ran, lost, profile, clock, leaseLog, answers>>
    BY <1>1 DEF ResultFails, history
<1>4. Audited(r, b)
  <2>1. CASE handler[h].pc = "result"
      BY <1>1, <1>2, <2>1 DEF Inv, HandlersOK, HandlerOK
  <2>2. CASE handler[h].pc = "recover"
      BY <1>2, <1>3, <2>2, RecoveredAudited
  <2> QED BY <1>3, <2>1, <2>2
<1>5. PICK e : e = [req |-> r, body |-> b]
    OBVIOUS
<1>6. resultLog' = resultLog \/ (resultLog' = Append(resultLog, e) /\ Audited(e.req, e.body))
    BY <1>1, <1>2, <1>4, <1>5 DEF ResultFails
<1>7. PICK x : x = Idle
    OBVIOUS
<1>8. IsHandler(x) /\ HandlerOK(x) /\ x.pc # "executed" /\ handler' = [handler EXCEPT ![h] = x]
    BY <1>3, <1>7, IdleOK
<1>9. handler[h].pc # "executed"
    BY <1>3
<1>10. LeaseKept /\ LeasesOK'
    BY <1>3, LeaseSame DEF Inv
<1> QED BY <1>3, <1>6, <1>8, <1>9, <1>10, HandlerMoves

-----------------------------------------------------------------------------
(* Reconciliation.                                                           *)

\* A reconciliation notes the result of an item.
LEMMA ItemDoneStep == ASSUME Inv, NEW h \in Handlers, ItemDone(h) PROVE Inv'
<1>1. PICK pc, req, body, seen, since, job :
        handler[h] = [pc |-> pc, req |-> req, body |-> body, seen |-> seen, since |-> since, job |-> job]
    BY DEF Inv, Shape, IsHandler
<1>2. PICK j : handler' = [handler EXCEPT ![h].pc = "next", ![h].job = j]
    BY DEF ItemDone
<1>3. PICK x : x = [pc |-> "next", req |-> req, body |-> body, seen |-> seen, since |-> since, job |-> j]
    OBVIOUS
<1>4. handler' = [handler EXCEPT ![h] = x]
  <2>1. PICK y : y = [pc |-> "next", req |-> req, body |-> body, seen |-> seen, since |-> since, job |-> job]
      OBVIOUS
  <2>2. y = [handler[h] EXCEPT !.pc = "next"]
      BY <1>1, <2>1
  <2>3. x = [y EXCEPT !.job = j]
      BY <1>3, <2>1
  <2> QED BY <1>2, <2>2, <2>3
<1>5. IsHandler(x)
    BY <1>3 DEF IsHandler
<1>6. x.pc = "next" /\ x.seen = handler[h].seen /\ x.since = handler[h].since
    BY <1>1, <1>3
<1>7. HandlerOK(x)
  <2>1. HandlerOK(handler[h])
      BY DEF Inv, HandlersOK
  <2> QED BY <1>6, <2>1 DEF HandlerOK, Open
<1>8. UNCHANGED <<auditLog, resultLog, ran, lost, profile, clock, leaseLog, answers>> /\ handler[h].pc # "executed"
    BY DEF ItemDone, stores, history
<1>9. LeaseKept /\ LeasesOK'
    BY <1>8, LeaseSame DEF Inv
<1>10. x.pc # "executed"
    BY <1>6
<1> QED BY <1>4, <1>5, <1>7, <1>8, <1>9, <1>10, HandlerMoves

\* A reconciliation turns to its next item.
LEMMA NextItemStep == ASSUME Inv, NEW h \in Handlers, NextItem(h) PROVE Inv'
<1>1. PICK pc, req, body, seen, since, job :
        handler[h] = [pc |-> pc, req |-> req, body |-> body, seen |-> seen, since |-> since, job |-> job]
    BY DEF Inv, Shape, IsHandler
<1>2. /\ UNCHANGED <<auditLog, resultLog, ran, lost, profile, clock, leaseLog>>
      /\ handler[h].pc = "next" /\ handler[h].pc # "executed" /\ handler[h].job = job
    BY <1>1 DEF NextItem, stores
<1>3. LeaseKept /\ LeasesOK'
    BY <1>2, LeaseSame DEF Inv
<1>4. HandlerOK(handler[h])
    BY DEF Inv, HandlersOK
<1>5. CASE job.phase = "probe" /\ job.items # <<>> /\ job.items[1].query = None
  <2>1. PICK j : handler' = [handler EXCEPT ![h].job = j] /\ answers' = answers
      BY <1>2, <1>5 DEF NextItem
  <2>2. PICK x : x = [pc |-> pc, req |-> req, body |-> body, seen |-> seen, since |-> since, job |-> j]
      OBVIOUS
  <2>3. x = [handler[h] EXCEPT !.job = j]
      BY <1>1, <2>2
  <2>4. handler' = [handler EXCEPT ![h] = x]
      BY <2>1, <2>3
  <2>5. IsHandler(x)
      BY <2>2 DEF IsHandler
  <2>6. x.pc = handler[h].pc /\ x.seen = handler[h].seen /\ x.since = handler[h].since
      BY <1>1, <2>2
  <2>7. HandlerOK(x)
      BY <1>2, <1>4, <2>6 DEF HandlerOK, Open
  <2> QED BY <1>2, <1>3, <2>1, <2>4, <2>5, <2>6, <2>7, HandlerMoves
<1>6. CASE job.phase = "probe" /\ job.items # <<>> /\ job.items[1].query # None
  <2>1. PICK r : Enter(h, r)
      BY <1>2, <1>6 DEF NextItem
  <2> QED BY <1>2, <2>1, EnterStep
<1>7. CASE ~(job.phase = "probe" /\ job.items # <<>>) /\ job.todo # <<>>
  <2>0. PICK r, j : r = job.todo[1] /\ j = [job EXCEPT !.phase = "apply"]
      OBVIOUS
  <2>1. /\ handler' = [handler EXCEPT ![h].pc = "recover", ![h].req = r, ![h].seen = Len(leaseLog),
                                      ![h].since = clock, ![h].job = j]
        /\ answers' = answers
      BY <1>2, <1>7, <2>0 DEF NextItem
  <2>2. PICK x : x = [pc |-> "recover", req |-> r, body |-> body, seen |-> Len(leaseLog), since |-> clock, job |-> j]
      OBVIOUS
  <2>3. handler' = [handler EXCEPT ![h] = x]
    <3>1. PICK u : u = [pc |-> "recover", req |-> req, body |-> body, seen |-> seen, since |-> since, job |-> job]
        OBVIOUS
    <3>2. PICK v : v = [pc |-> "recover", req |-> r, body |-> body, seen |-> seen, since |-> since, job |-> job]
        OBVIOUS
    <3>3. PICK w : w = [pc |-> "recover", req |-> r, body |-> body, seen |-> Len(leaseLog), since |-> since, job |-> job]
        OBVIOUS
    <3>4. PICK y : y = [pc |-> "recover", req |-> r, body |-> body, seen |-> Len(leaseLog), since |-> clock, job |-> job]
        OBVIOUS
    <3>5. u = [handler[h] EXCEPT !.pc = "recover"]
        BY <1>1, <3>1
    <3>6. v = [u EXCEPT !.req = r]
        BY <3>1, <3>2
    <3>7. w = [v EXCEPT !.seen = Len(leaseLog)]
        BY <3>2, <3>3
    <3>8. y = [w EXCEPT !.since = clock]
        BY <3>3, <3>4
    <3>9. x = [y EXCEPT !.job = j]
        BY <2>2, <3>4
    <3> QED BY <2>1, <3>5, <3>6, <3>7, <3>8, <3>9
  <2>4. IsHandler(x) /\ x.pc = "recover"
      BY <2>2 DEF IsHandler
  <2>5. HandlerOK(x)
    <3>1. PICK S : leaseLog \in Seq(S)
        BY DEF Inv, LeasesOK
    <3>2. Len(leaseLog) \in Nat /\ clock \in Nat
        BY <3>1 DEF Inv, Shape
    <3>3. x.seen = Len(leaseLog) /\ x.since = clock
        BY <2>2
    <3> QED BY <2>4, <3>2, <3>3 DEF HandlerOK, Open
  <2> QED BY <1>2, <1>3, <2>1, <2>3, <2>4, <2>5, HandlerMoves
<1>8. CASE ~(job.phase = "probe" /\ job.items # <<>>) /\ ~(job.todo # <<>>)
  <2>1. PICK x : x = Idle
      OBVIOUS
  <2>2. IsHandler(x) /\ HandlerOK(x) /\ x.pc = "idle"
      BY <2>1, IdleOK
  <2>3. handler' = [handler EXCEPT ![h] = x] /\ answers' = answers
      BY <1>2, <1>8, <2>1 DEF NextItem
  <2> QED BY <1>2, <1>3, <2>2, <2>3, HandlerMoves
<1> QED BY <1>5, <1>6, <1>7, <1>8

\* A reconciliation may take a lease before it begins.
LEMMA StartReconcileStep ==
    ASSUME Inv, NEW h \in Handlers, NEW q, NEW lease, NEW ttl \in {0, 1}, StartReconcile(h, q, lease, ttl)
    PROVE  Inv'
<1>1. /\ UNCHANGED <<auditLog, resultLog, ran, lost, profile, clock, answers>>
      /\ handler[h].pc = "idle" /\ handler[h].pc # "executed"
    BY DEF StartReconcile, history
<1>2. LeaseKept /\ LeasesOK'
  <2>1. \/ leaseLog' = leaseLog
        \/ \E l \in LeaseIds \ KnownLeases : \E caps :
               leaseLog' = Append(leaseLog, LeaseRecord(l, profile.worker, q.exp, caps, clock, ttl))
      BY DEF StartReconcile
  <2>2. CASE leaseLog' = leaseLog
      BY <2>2, LeaseSame DEF Inv
  <2>3. ASSUME NEW l \in LeaseIds \ KnownLeases, NEW caps,
               leaseLog' = Append(leaseLog, LeaseRecord(l, profile.worker, q.exp, caps, clock, ttl))
        PROVE  LeaseKept /\ LeasesOK'
    <3>1. PICK e : e = LeaseRecord(l, profile.worker, q.exp, caps, clock, ttl)
        OBVIOUS
    <3>2. e.id = l /\ e.kind = "grant" /\ e.expires \in Int
        BY <3>1 DEF LeaseRecord, Inv, Shape
    <3>3. leaseLog' = Append(leaseLog, e) /\ l \notin KnownLeases
        BY <2>3, <3>1
    <3> QED BY <3>2, <3>3, LeaseGranted DEF Inv
  <2> QED BY <2>1, <2>2, <2>3
<1>3. CASE handler' = handler
  <2>1. clock' \in Nat /\ clock <= clock'
      BY <1>1 DEF Inv, Shape
  <2> QED BY <1>1, <1>2, <1>3, <2>1, Outside
<1>4. ASSUME NEW j, handler' = [handler EXCEPT ![h] = [Idle EXCEPT !.pc = "next", !.job = j]] PROVE Inv'
  <2>1. PICK x : x = [Idle EXCEPT !.pc = "next", !.job = j]
      OBVIOUS
  <2>2. x = [pc |-> "next", req |-> None, body |-> None, seen |-> 0, since |-> 0, job |-> j]
      BY <2>1 DEF Idle
  <2>3. IsHandler(x)
      BY <2>2 DEF IsHandler
  <2>4. x.pc = "next" /\ x.seen = 0 /\ x.since = 0
      BY <2>2
  <2>5. HandlerOK(x)
    <3>1. PICK S : leaseLog \in Seq(S)
        BY DEF Inv, LeasesOK
    <3>2. Len(leaseLog) \in Nat /\ clock \in Nat
        BY <3>1 DEF Inv, Shape
    <3> QED BY <2>4, <3>2 DEF HandlerOK, Open
  <2>6. handler' = [handler EXCEPT ![h] = x] /\ x.pc # "executed"
      BY <1>4, <2>1, <2>4
  <2> QED BY <1>1, <1>2, <2>3, <2>5, <2>6, HandlerMoves
<1>5. handler' = handler \/ \E j : handler' = [handler EXCEPT ![h] = [Idle EXCEPT !.pc = "next", !.job = j]]
    BY DEF StartReconcile
<1> QED BY <1>3, <1>4, <1>5

-----------------------------------------------------------------------------
(* The adapter, the audit and the crash.                                     *)

\* The adapter runs: of this request, only runs that were never recorded came before.
LEMMA ExecuteStep == ASSUME Inv, NEW h \in Handlers, Execute(h) PROVE Inv'
<1>1. PICK pc, req, body, seen, since, job :
        handler[h] = [pc |-> pc, req |-> req, body |-> body, seen |-> seen, since |-> since, job |-> job]
    BY DEF Inv, Shape, IsHandler
<1>2. /\ UNCHANGED <<auditLog, resultLog, lost, answers, profile, clock, leaseLog>>
      /\ handler[h].pc = "execute" /\ handler[h].pc # "executed" /\ handler[h].req = req
      /\ handler[h].seen = seen /\ handler[h].since = since
    BY <1>1 DEF Execute, stores
<1>3. /\ Audits(req) = {} /\ UnderLease(req, seen, since)
      /\ seen \in Nat /\ seen <= Len(leaseLog) /\ since \in Nat /\ since <= clock
    BY <1>2 DEF Inv, HandlersOK, HandlerOK, Open
<1>4. PICK e : e = [req |-> req, seen |-> seen, since |-> since, n |-> Runs(req)]
    OBVIOUS
<1>5. ran' = ran \cup {e}
    BY <1>2, <1>4 DEF Execute
<1>6. e.req = req /\ e.seen = seen /\ e.since = since
    BY <1>4
<1>7. PICK b : handler' = [handler EXCEPT ![h].pc = "executed", ![h].body = b]
    BY DEF Execute
<1>8. PICK x : x = [pc |-> "executed", req |-> req, body |-> b, seen |-> seen, since |-> since, job |-> job]
    OBVIOUS
<1>9. handler' = [handler EXCEPT ![h] = x]
  <2>1. PICK y : y = [pc |-> "executed", req |-> req, body |-> body, seen |-> seen, since |-> since, job |-> job]
      OBVIOUS
  <2>2. y = [handler[h] EXCEPT !.pc = "executed"]
      BY <1>1, <2>1
  <2>3. x = [y EXCEPT !.body = b]
      BY <1>8, <2>1
  <2> QED BY <1>7, <2>2, <2>3
<1>10. x.pc = "executed" /\ x.req = req /\ x.seen = seen /\ x.since = since
    BY <1>8
<1>11. IsHandler(x)
    BY <1>8 DEF IsHandler
<1>12. /\ handler' = [g \in Handlers |-> handler'[g]]
       /\ \A g \in Handlers : g = h /\ handler'[g] = x /\ IsHandler(handler'[g])
    BY <1>9, <1>11, Alone DEF Inv
<1>13. LeaseKept /\ LeasesOK'
    BY <1>2, LeaseSame DEF Inv
<1>14. Shape'
  <2>1. IsFiniteSet(ran')
      BY <1>5, FS_AddElement DEF Inv, Shape
  <2> QED BY <1>2, <1>12, <2>1 DEF Inv, Shape
<1>15. AuditedOnce' /\ Vouched'
    BY <1>2 DEF Inv, AuditedOnce, Vouched, Audited
<1>16. HandlersOK'
  <2>1. HandlerOK(x)
      BY <1>3, <1>10 DEF HandlerOK
  <2>2. HandlerOK(x)'
      BY <1>2, <1>13, <2>1, HandlerKept DEF Inv, Shape
  <2>3. ASSUME NEW g \in Handlers PROVE HandlerOK(handler[g])'
      BY <1>12, <2>2 DEF HandlerOK, Audits, Audited, UnderLease
  <2> QED BY <2>3 DEF HandlersOK
<1>17. RanOK'
  <2>1. ASSUME NEW y \in ran'
        PROVE  UnderLease(y.req, y.seen, y.since)' /\ y.seen \in Nat /\ y.seen <= Len(leaseLog')
    <3>1. UnderLease(y.req, y.seen, y.since) /\ y.seen \in Nat /\ y.seen <= Len(leaseLog)
        BY <1>3, <1>5, <1>6 DEF Inv, RanOK
    <3>2. UnderLease(y.req, y.seen, y.since)'
        BY <1>2, <1>13, <3>1, UnderLeaseKept
    <3> QED BY <1>2, <3>1, <3>2
  <2> QED BY <2>1 DEF RanOK
<1>18. RunsOK'
  <2>0. SUFFICES ASSUME NEW r PROVE Runs(r)' <= LostRuns(r)' + (IF Accounted(r)' THEN 1 ELSE 0)
      BY DEF RunsOK
  <2>1. LostRuns(r)' = LostRuns(r) /\ LostRuns(r) \in Nat /\ Runs(r) \in Nat
    <3>1. LostRuns(r)' = LostRuns(r)
        BY <1>2 DEF LostRuns
    <3> QED BY <3>1, Counts DEF Inv
  <2>2. Runs(r) <= LostRuns(r) + (IF Accounted(r) THEN 1 ELSE 0)
      BY DEF Inv, RunsOK
  <2>3. \A g \in Handlers : handler[g].pc # "executed"
      BY <1>2, <1>12
  <2>4. CASE r = req
    <3>1. ~Accounted(r)
        BY <1>3, <2>3, <2>4 DEF Accounted
    <3>2. Accounted(r)'
        BY <1>10, <1>12, <2>4 DEF Accounted
    <3>3. PICK F, G : F = {y \in ran : y.req = r} /\ G = {y \in ran' : y.req = r}
        OBVIOUS
    <3>4. G = F \cup {e}
        BY <1>5, <1>6, <2>4, <3>3
    <3>5. IsFiniteSet(F)
        BY <3>3, FS_Subset DEF Inv, Shape
    <3>6. Cardinality(G) = Cardinality(F) \/ Cardinality(G) = Cardinality(F) + 1
        BY <3>4, <3>5, FS_AddElement
    <3>7. Runs(r) = Cardinality(F) /\ Runs(r)' = Cardinality(G)
        BY <3>3 DEF Runs
    <3>8. Runs(r)' <= Runs(r) + 1 /\ Runs(r)' \in Nat
        BY <2>1, <3>6, <3>7
    <3> QED BY <2>1, <2>2, <3>1, <3>2, <3>8
  <2>5. CASE r # req
    <3>1. Runs(r)' = Runs(r)
      <4>1. {y \in ran' : y.req = r} = {y \in ran : y.req = r}
          BY <1>5, <1>6, <2>5
      <4> QED BY <4>1 DEF Runs
    <3>2. Accounted(r)' <=> Accounted(r)
        BY <1>2, <1>10, <1>12, <2>3, <2>5 DEF Accounted, Audits
    <3> QED BY <2>1, <2>2, <3>1, <3>2
  <2> QED BY <2>4, <2>5
<1> QED BY <1>13, <1>14, <1>15, <1>16, <1>17, <1>18 DEF Inv

\* A run is audited once: its record is in the ledger, and the handler goes on
\* or is done.
LEMMA RunAudited ==
    ASSUME Inv, NEW h \in Handlers, handler[h].pc \in {"audit", "executed"},
           NEW req, NEW body, handler[h].req = req, handler[h].body = body,
           UNCHANGED <<resultLog, ran, lost, answers, profile, clock, leaseLog>>,
           NEW e, auditLog' = Append(auditLog, e), e.req = req, e.body = body,
           NEW x, IsHandler(x), handler' = [handler EXCEPT ![h] = x],
           x.pc = "idle" \/ (x.pc = "result" /\ x.req = req /\ x.body = body),
           x.seen \in Nat, x.seen <= Len(leaseLog), x.since \in Nat, x.since <= clock
    PROVE  Inv'
<1>3. Audits(req) = {}
    BY DEF Inv, HandlersOK, HandlerOK, Open
<1>10. /\ handler' = [g \in Handlers |-> handler'[g]]
       /\ \A g \in Handlers : g = h /\ handler'[g] = x /\ IsHandler(handler'[g])
    BY Alone DEF Inv
<1>11. LeaseKept /\ LeasesOK'
    BY LeaseSame DEF Inv
<1>12. PICK S : auditLog \in Seq(S)
    BY DEF Inv, Shape
<1>13. PICK T, n : T = S \cup {e} /\ n = Len(auditLog) + 1
    OBVIOUS
<1>14. auditLog \in Seq(T) /\ e \in T
    BY <1>12, <1>13
<1>15. /\ auditLog' \in Seq(T)
       /\ Len(auditLog) \in Nat /\ DOMAIN auditLog = 1..Len(auditLog)
       /\ DOMAIN auditLog' = 1..n
       /\ \A i \in 1..Len(auditLog) : auditLog'[i] = auditLog[i]
       /\ auditLog'[n] = e
    BY <1>13, <1>14, AppendFacts
<1>16. /\ \A i \in DOMAIN auditLog' : (i \in DOMAIN auditLog /\ auditLog'[i] = auditLog[i]) \/ i = n
       /\ \A i \in DOMAIN auditLog : i \in DOMAIN auditLog' /\ auditLog'[i] = auditLog[i]
       /\ n \in DOMAIN auditLog'
    BY <1>13, <1>15
<1>17. Shape'
    BY <1>10, <1>15 DEF Inv, Shape
<1>18. AuditedOnce'
  <2>1. \A i \in DOMAIN auditLog : auditLog[i].req # req
      BY <1>3 DEF Audits
  <2>2. ASSUME NEW i \in DOMAIN auditLog', NEW j \in DOMAIN auditLog', auditLog'[i].req = auditLog'[j].req
        PROVE  i = j
      BY <1>15, <1>16, <2>1, <2>2 DEF Inv, AuditedOnce
  <2> QED BY <2>2 DEF AuditedOnce
<1>19. ASSUME NEW r, NEW b, Audited(r, b) PROVE Audited(r, b)'
    BY <1>16, <1>19 DEF Audited
<1>20. Vouched'
  <2>1. ASSUME NEW i \in DOMAIN resultLog' PROVE Audited(resultLog[i].req, resultLog[i].body)'
    <3>1. PICK r, b : r = resultLog[i].req /\ b = resultLog[i].body
        OBVIOUS
    <3>2. Audited(r, b)
        BY <3>1 DEF Inv, Vouched
    <3>3. Audited(r, b)'
        BY <1>19, <3>2
    <3> QED BY <3>1, <3>3 DEF Audited
  <2>2. ASSUME NEW a \in answers' PROVE Audited(a.req, a.body)'
    <3>1. Audited(a.req, a.body)
        BY DEF Inv, Vouched
    <3> QED BY <1>19, <3>1
  <2> QED BY <2>1, <2>2 DEF Vouched
<1>21. HandlersOK'
  <2>1. Audited(req, body)'
      BY <1>15, <1>16 DEF Audited
  <2>2. ASSUME NEW g \in Handlers PROVE HandlerOK(handler[g])'
    <3>1. handler'[g] = x
        BY <1>10
    <3>2. x.pc = "result" => Audited(x.req, x.body)'
        BY <2>1
    <3>3. x.seen \in Nat /\ x.seen <= Len(leaseLog') /\ x.since \in Nat /\ x.since <= clock'
        OBVIOUS
    <3> QED BY <3>1, <3>2, <3>3 DEF HandlerOK, Open, Audited
  <2> QED BY <2>2 DEF HandlersOK
<1>22. RanOK'
    BY <1>11, RanKept DEF Inv
<1>23. RunsOK'
  <2>0. SUFFICES ASSUME NEW r PROVE Runs(r)' <= LostRuns(r)' + (IF Accounted(r)' THEN 1 ELSE 0)
      BY DEF RunsOK
  <2>1. Runs(r)' = Runs(r) /\ LostRuns(r)' = LostRuns(r)
      BY DEF Runs, LostRuns
  <2>2. Runs(r) \in Nat /\ LostRuns(r) \in Nat
      BY Counts DEF Inv
  <2>3. Runs(r) <= LostRuns(r) + (IF Accounted(r) THEN 1 ELSE 0)
      BY DEF Inv, RunsOK
  <2>4. ASSUME Accounted(r) PROVE Accounted(r)'
    <3>1. CASE Audits(r) # {}
      <4>1. PICK i \in DOMAIN auditLog : auditLog[i].req = r
          BY <3>1 DEF Audits
      <4>2. i \in Audits(r)'
          BY <1>16, <4>1 DEF Audits
      <4> QED BY <4>2 DEF Accounted
    <3>2. CASE \E g \in Handlers : handler[g].pc = "executed" /\ handler[g].req = r
      <4>1. r = req
          BY <1>10, <3>2
      <4>2. n \in Audits(r)'
          BY <1>15, <1>16, <4>1 DEF Audits
      <4> QED BY <4>2 DEF Accounted
    <3> QED BY <2>4, <3>1, <3>2 DEF Accounted
  <2> QED BY <2>1, <2>2, <2>3, <2>4
<1> QED BY <1>11, <1>17, <1>18, <1>20, <1>21, <1>22, <1>23 DEF Inv

LEMMA AppendAuditStep == ASSUME Inv, NEW h \in Handlers, AppendAudit(h) PROVE Inv'
<1>1. PICK pc, req, body, seen, since, job :
        handler[h] = [pc |-> pc, req |-> req, body |-> body, seen |-> seen, since |-> since, job |-> job]
    BY DEF Inv, Shape, IsHandler
<1>2. /\ UNCHANGED <<resultLog, ran, lost, answers, profile, clock, leaseLog>>
      /\ handler[h].pc \in {"audit", "executed"} /\ handler[h].req = req /\ handler[h].body = body
      /\ handler[h].seen = seen /\ handler[h].since = since
    BY <1>1 DEF AppendAudit, history
<1>3. PICK e : e = [req |-> req, body |-> body]
    OBVIOUS
<1>4. auditLog' = Append(auditLog, e) /\ e.req = req /\ e.body = body
    BY <1>2, <1>3 DEF AppendAudit
<1>5. PICK x : x = [pc |-> "result", req |-> req, body |-> body, seen |-> seen, since |-> since, job |-> job]
    OBVIOUS
<1>6. handler' = [handler EXCEPT ![h] = x]
  <2>1. x = [handler[h] EXCEPT !.pc = "result"]
      BY <1>1, <1>5
  <2> QED BY <2>1 DEF AppendAudit
<1>7. IsHandler(x)
    BY <1>5 DEF IsHandler
<1>8. x.pc = "result" /\ x.req = req /\ x.body = body /\ x.seen = seen /\ x.since = since
    BY <1>5
<1>9. x.seen \in Nat /\ x.seen <= Len(leaseLog) /\ x.since \in Nat /\ x.since <= clock
    BY <1>2, <1>8 DEF Inv, HandlersOK, HandlerOK
<1>10. x.pc = "idle" \/ (x.pc = "result" /\ x.req = req /\ x.body = body)
    BY <1>8
<1> QED BY <1>2, <1>4, <1>6, <1>7, <1>9, <1>10, RunAudited

\* What a handler does ends, and the runs of R are never recorded.
LEMMA RunsLost ==
    ASSUME Inv, UNCHANGED <<auditLog, resultLog, ran, answers, profile, clock, leaseLog>>,
           handler' = [h \in Handlers |-> Idle],
           NEW R, (R = {} /\ lost' = lost) \/ lost' = Append(lost, R),
           \A h \in Handlers : handler[h].pc = "executed" => handler[h].req \in R
    PROVE  Inv'
<1>3. LeaseKept /\ LeasesOK'
    BY LeaseSame DEF Inv
<1>5. PICK S : lost \in Seq(S)
    BY DEF Inv, Shape
<1>6. Len(lost) \in Nat /\ DOMAIN lost = 1..Len(lost)
    BY <1>5
<1>7. \E Q : /\ lost' \in Seq(Q)
             /\ \A r : LostRuns(r)' >= LostRuns(r) /\ (r \in R => LostRuns(r)' >= LostRuns(r) + 1)
                       /\ LostRuns(r)' \in Nat
  <2>1. CASE R = {} /\ lost' = lost
    <3>1. \A r : LostRuns(r)' = LostRuns(r) /\ LostRuns(r) \in Nat
        BY <2>1, Counts DEF Inv, LostRuns
    <3> QED BY <1>5, <2>1, <3>1
  <2>2. CASE lost' = Append(lost, R)
    <3>1. PICK Q, n : Q = S \cup {R} /\ n = Len(lost) + 1
        OBVIOUS
    <3>2. lost \in Seq(Q) /\ R \in Q
        BY <1>5, <3>1
    <3>4. /\ lost' \in Seq(Q) /\ DOMAIN lost' = 1..n
          /\ \A i \in 1..Len(lost) : lost'[i] = lost[i]
          /\ lost'[n] = R
        BY <2>2, <3>1, <3>2, AppendFacts
    <3>5. ASSUME NEW r
          PROVE  LostRuns(r)' >= LostRuns(r) /\ (r \in R => LostRuns(r)' >= LostRuns(r) + 1) /\ LostRuns(r)' \in Nat
      <4>1. PICK F, G : F = {i \in DOMAIN lost : r \in lost[i]} /\ G = {i \in DOMAIN lost' : r \in lost'[i]}
          OBVIOUS
      <4>2. G = IF r \in R THEN F \cup {n} ELSE F
          BY <1>6, <3>1, <3>4, <4>1
      <4>3. n \notin F
          BY <1>6, <3>1, <4>1
      <4>4. IsFiniteSet(F)
        <5>1. IsFiniteSet(1..Len(lost))
            BY <1>6, FS_Interval
        <5> QED BY <1>6, <4>1, <5>1, FS_Subset
      <4>5. Cardinality(F \cup {n}) = Cardinality(F) + 1 /\ Cardinality(F) \in Nat
          BY <4>3, <4>4, FS_AddElement, FS_CardinalityType
      <4>6. LostRuns(r) = Cardinality(F) /\ LostRuns(r)' = Cardinality(G)
          BY <4>1 DEF LostRuns
      <4> QED BY <4>2, <4>5, <4>6
    <3> QED BY <3>4, <3>5
  <2> QED BY <2>1, <2>2
<1>8. IsHandler(Idle) /\ HandlerOK(Idle) /\ Idle.pc = "idle"
    BY IdleOK
<1>9. \A h \in Handlers : handler'[h] = Idle
    OBVIOUS
<1>10. Shape'
  <2>1. handler' = [h \in Handlers |-> handler'[h]]
      OBVIOUS
  <2>2. \A h \in Handlers : IsHandler(handler'[h])
      BY <1>8, <1>9
  <2> QED BY <1>7, <2>1, <2>2 DEF Inv, Shape
<1>11. AuditedOnce' /\ Vouched'
    BY DEF Inv, AuditedOnce, Vouched, Audited
<1>12. HandlersOK'
  <2>1. PICK x : x = Idle
      OBVIOUS
  <2>2. HandlerOK(x)'
      BY <1>3, <1>8, <2>1, HandlerKept DEF Inv, Shape
  <2>3. ASSUME NEW g \in Handlers PROVE HandlerOK(handler[g])'
    <3>1. handler'[g] = x
        BY <1>9, <2>1
    <3> QED BY <2>2, <3>1 DEF HandlerOK, Audits, Audited, UnderLease
  <2> QED BY <2>3 DEF HandlersOK
<1>13. RanOK'
    BY <1>3, RanKept DEF Inv
<1>14. RunsOK'
  <2>0. SUFFICES ASSUME NEW r PROVE Runs(r)' <= LostRuns(r)' + (IF Accounted(r)' THEN 1 ELSE 0)
      BY DEF RunsOK
  <2>1. Runs(r)' = Runs(r) /\ Audits(r)' = Audits(r)
      BY DEF Runs, Audits
  <2>2. Runs(r) \in Nat /\ LostRuns(r) \in Nat
      BY Counts DEF Inv
  <2>3. LostRuns(r)' \in Nat /\ LostRuns(r)' >= LostRuns(r) /\ (r \in R => LostRuns(r)' >= LostRuns(r) + 1)
      BY <1>7
  <2>4. Runs(r) <= LostRuns(r) + (IF Accounted(r) THEN 1 ELSE 0)
      BY DEF Inv, RunsOK
  <2>5. CASE r \in R
      BY <2>1, <2>2, <2>3, <2>4, <2>5
  <2>6. CASE r \notin R
    <3>1. Accounted(r) => Accounted(r)'
      <4>1. ~\E g \in Handlers : handler[g].pc = "executed" /\ handler[g].req = r
          BY <2>6
      <4>2. Accounted(r) => Audits(r) # {}
          BY <4>1 DEF Accounted
      <4> QED BY <2>1, <4>2 DEF Accounted
    <3> QED BY <2>1, <2>2, <2>3, <2>4, <3>1
  <2> QED BY <2>5, <2>6
<1> QED BY <1>3, <1>10, <1>11, <1>12, <1>13, <1>14 DEF Inv

\* A crash loses the runs that were not audited, and nothing else.
LEMMA CrashStep == ASSUME Inv, Crash PROVE Inv'
<1>1. PICK H, R : /\ H = {h \in Handlers : handler[h].pc = "executed"}
                  /\ R = {handler[h].req : h \in H}
    OBVIOUS
<1>2. (R = {} /\ lost' = lost) \/ lost' = Append(lost, R)
  <2>1. PICK S : lost \in Seq(S)
      BY DEF Inv, Shape
  <2>2. CASE H = {}
    <3>1. lost' = lost \o <<>>
        BY <1>1, <2>2 DEF Crash
    <3> QED BY <1>1, <2>1, <2>2, <3>1
  <2>3. CASE H # {}
    <3>1. lost' = lost \o <<R>>
        BY <1>1, <2>3 DEF Crash
    <3>2. PICK Q : Q = S \cup {R}
        OBVIOUS
    <3>3. lost \in Seq(Q) /\ R \in Q
        BY <2>1, <3>2
    <3> QED BY <3>1, <3>3
  <2> QED BY <2>2, <2>3
<1>3. \A h \in Handlers : handler[h].pc = "executed" => handler[h].req \in R
    BY <1>1
<1>4. UNCHANGED <<auditLog, resultLog, ran, answers, profile, clock, leaseLog>> /\ handler' = [h \in Handlers |-> Idle]
    BY DEF Crash, stores
<1> QED BY <1>2, <1>3, <1>4, RunsLost

\* The append of the audit record raises, its line written or not.
LEMMA AuditFailsStep == ASSUME Inv, NEW h \in Handlers, NEW written \in BOOLEAN, AuditFails(h, written) PROVE Inv'
<1>1. PICK req, body : req = handler[h].req /\ body = handler[h].body
    OBVIOUS
<1>2. /\ UNCHANGED <<resultLog, ran, answers, profile, clock, leaseLog>>
      /\ handler[h].pc \in {"audit", "executed"} /\ handler[h].req = req /\ handler[h].body = body
      /\ handler' = [handler EXCEPT ![h] = Idle]
    BY <1>1 DEF AuditFails
<1>3. PICK x : x = Idle
    OBVIOUS
<1>4. /\ IsHandler(x) /\ x.pc = "idle" /\ handler' = [handler EXCEPT ![h] = x]
      /\ x.seen \in Nat /\ x.seen <= Len(leaseLog) /\ x.since \in Nat /\ x.since <= clock
    BY <1>2, <1>3, IdleOK DEF HandlerOK
<1>5. CASE written
  <2>1. PICK e : e = [req |-> req, body |-> body]
      OBVIOUS
  <2>2. auditLog' = Append(auditLog, e) /\ e.req = req /\ e.body = body /\ lost' = lost
      BY <1>1, <1>5, <2>1 DEF AuditFails
  <2> QED BY <1>2, <1>4, <2>2, RunAudited
<1>6. CASE ~written
  <2>1. PICK R : R = IF handler[h].pc = "executed" THEN {req} ELSE {}
      OBVIOUS
  <2>2. auditLog' = auditLog /\ ((R = {} /\ lost' = lost) \/ lost' = Append(lost, R))
      BY <1>1, <1>6, <2>1 DEF AuditFails
  <2>3. handler' = [g \in Handlers |-> Idle] /\ \A g \in Handlers : g = h
    <3>1. /\ handler' = [g \in Handlers |-> handler'[g]]
          /\ \A g \in Handlers : g = h /\ handler'[g] = x
        BY <1>4, Alone DEF Inv
    <3> QED BY <1>3, <3>1
  <2>4. \A g \in Handlers : handler[g].pc = "executed" => handler[g].req \in R
      BY <1>1, <2>1, <2>3
  <2> QED BY <1>2, <2>2, <2>3, <2>4, RunsLost
<1> QED BY <1>5, <1>6

-----------------------------------------------------------------------------
(* The invariant.                                                            *)

\* It holds at the start.
LEMMA Initially == ASSUME Init PROVE Inv
<1>1. leaseLog = <<>> /\ auditLog = <<>> /\ resultLog = <<>> /\ lost = <<>> /\ ran = {} /\ answers = {} /\ clock = 0
    BY DEF Init
<1>2. DOMAIN leaseLog = {} /\ DOMAIN auditLog = {} /\ DOMAIN resultLog = {} /\ DOMAIN lost = {} /\ Len(leaseLog) = 0
    BY <1>1
<1>3. handler = [h \in Handlers |-> Idle]
    BY DEF Init
<1>4. \A h \in Handlers : handler[h] = Idle
    BY <1>3
<1>5. Shape
  <2>1. leaseLog \in Seq({}) /\ auditLog \in Seq({}) /\ resultLog \in Seq({}) /\ lost \in Seq({})
      BY <1>1
  <2>2. handler = [h \in Handlers |-> handler[h]]
      BY <1>3
  <2>3. \A h \in Handlers : IsHandler(handler[h])
      BY <1>4 DEF IsHandler, Idle
  <2>4. IsFiniteSet(ran) /\ clock \in Nat
      BY <1>1, FS_EmptySet
  <2> QED BY <2>1, <2>2, <2>3, <2>4 DEF Shape
<1>6. AuditedOnce /\ Vouched
    BY <1>1, <1>2 DEF AuditedOnce, Vouched
<1>7. LeasesOK
  <2>1. leaseLog \in Seq({})
      BY <1>1
  <2> QED BY <1>2, <2>1 DEF LeasesOK
<1>8. HandlersOK
  <2>1. Idle.pc = "idle" /\ Idle.seen = 0 /\ Idle.since = 0
      BY DEF Idle
  <2>2. HandlerOK(Idle)
      BY <1>1, <1>2, <2>1 DEF HandlerOK, Open
  <2> QED BY <1>4, <2>2 DEF HandlersOK
<1>9. RanOK
    BY <1>1 DEF RanOK
<1>10. RunsOK
  <2>0. SUFFICES ASSUME NEW r PROVE Runs(r) <= LostRuns(r) + (IF Accounted(r) THEN 1 ELSE 0)
      BY DEF RunsOK
  <2>1. {x \in ran : x.req = r} = {} /\ {i \in DOMAIN lost : r \in lost[i]} = {}
      BY <1>1, <1>2
  <2>2. Runs(r) = 0 /\ LostRuns(r) = 0
      BY <2>1, FS_EmptySet DEF Runs, LostRuns
  <2> QED BY <2>2
<1> QED BY <1>5, <1>6, <1>7, <1>8, <1>9, <1>10 DEF Inv

\* A step of the broker, of its operator or of its clients keeps the invariant.
LEMMA Step == ASSUME Inv, [Next]_vars PROVE Inv'
<1>1. CASE Tick
    BY <1>1, TickStep
<1>2. CASE Crash
    BY <1>2, CrashStep
<1>3. CASE Restart
    BY <1>3, RestartStep
<1>4. CASE \E l \in LeaseIds : Revoke(l)
    BY <1>4, RevokeStep
<1>5. CASE \E now \in clock..MaxTime : ExpireLeases(now) \/ CleanupLeases(now)
    BY <1>5, ExpireStep, CleanupStep
<1>6. CASE \E l \in LeaseIds, e \in Experiments, s \in Scopes : Grant(l, e, s, 1)
    BY <1>6, GrantStep
<1>7. CASE \E h \in Handlers, r \in Requests : Receive(h, r)
    BY <1>7, ReceiveStep
<1>8. CASE \E h \in Handlers, q \in Plans, ttl \in {0, 1} : StartReconcile(h, q, None, ttl)
    BY <1>8, StartReconcileStep
<1>9. ASSUME NEW h \in Handlers,
             \/ Recover(h) \/ Authorise(h) \/ Execute(h) \/ AppendAudit(h) \/ AppendResult(h)
             \/ \E written \in BOOLEAN : AuditFails(h, written) \/ ResultFails(h, written)
             \/ NextItem(h) \/ ItemDone(h)
      PROVE  Inv'
    BY <1>9, AuditFailsStep, ResultFailsStep, RecoverStep, AuthoriseStep, ExecuteStep, AppendAuditStep, AppendResultStep, NextItemStep, ItemDoneStep
<1>10. CASE UNCHANGED vars
    BY <1>10, Stutter
<1> QED BY <1>1, <1>2, <1>3, <1>4, <1>5, <1>6, <1>7, <1>8, <1>9, <1>10 DEF Next

\* It holds always.
LEMMA Invariance == Spec => []Inv
<1>1. Init => Inv
    BY Initially
<1>2. Inv /\ [Next]_vars => Inv'
    BY Step
<1> QED BY <1>1, <1>2, PTL DEF Spec

-----------------------------------------------------------------------------
\* A privileged operation runs once per request identity, however often the
\* request is sent, whenever the broker stops and whatever appends raise: again
\* only where the record of the run never reached the audit ledger (request).
THEOREM OperationsRunOnce == Spec => []RunsOnce
<1>1. ASSUME Inv PROVE RunsOnce
  <2> SUFFICES ASSUME NEW x \in ran PROVE Runs(x.req) <= 1 + LostRuns(x.req)
      BY DEF RunsOnce
  <2>1. Runs(x.req) \in Nat /\ LostRuns(x.req) \in Nat
      BY <1>1, Counts DEF Inv
  <2>2. Runs(x.req) <= LostRuns(x.req) + (IF Accounted(x.req) THEN 1 ELSE 0)
      BY <1>1 DEF Inv, RunsOK
  <2> QED BY <2>1, <2>2
<1> QED BY <1>1, Invariance, PTL

\* What needs a lease ran under the grant of one, for its capability and its
\* experiment, that no event had ended and no deadline had passed when the
\* request arrived, whatever the operator does to the leases meanwhile
\* (authorize, CapabilityLeaseStore.active).
THEOREM OperationsUnderLease == Spec => []RanUnderLease
<1>1. ASSUME Inv PROVE RanUnderLease
  <2>0. SUFFICES ASSUME NEW x \in ran, RequiresLease(profile, x.req.cap, x.req.op)
               PROVE  /\ \A i \in LeaseEvents(x.req.lease) : i <= x.seen => leaseLog[i].kind = "grant"
                      /\ LeaseEvents(x.req.lease) # {}
                      /\ Lease(x.req.lease).kind = "grant" /\ x.since < Lease(x.req.lease).expires
                      /\ Lease(x.req.lease).worker = profile.worker
                      /\ x.req.cap \in Lease(x.req.lease).caps /\ x.req.op \in Lease(x.req.lease).ops[x.req.cap]
                      /\ Lease(x.req.lease).exp \in {None, x.req.exp}
      BY DEF RanUnderLease
  <2>1. PICK l : l = x.req.lease
      OBVIOUS
  <2>2. PICK i \in DOMAIN leaseLog :
            /\ leaseLog[i].id = l /\ leaseLog[i].kind = "grant"
            /\ x.since < leaseLog[i].expires
            /\ x.req.cap \in leaseLog[i].caps /\ x.req.op \in leaseLog[i].ops[x.req.cap]
            /\ leaseLog[i].worker = profile.worker /\ leaseLog[i].exp \in {None, x.req.exp}
            /\ \A j \in DOMAIN leaseLog : leaseLog[j].id = l /\ j <= x.seen => j = i
    <3>1. UnderLease(x.req, x.seen, x.since)
        BY <1>1 DEF Inv, RanOK
    <3> QED BY <2>0, <2>1, <3>1 DEF UnderLease
  <2>3. i \in LeaseEvents(l)
      BY <2>2 DEF LeaseEvents
  <2>4. FirstEvent(l) = i
    <3>1. PICK f : f = FirstEvent(l)
        OBVIOUS
    <3>2. f \in LeaseEvents(l) /\ f <= i /\ i \in Nat /\ f \in Nat
        BY <1>1, <2>3, <3>1, FirstAndLast DEF Inv
    <3>3. ~(f < i)
        BY <1>1, <2>2, <3>2 DEF Inv, LeasesOK, LeaseEvents
    <3> QED BY <3>1, <3>2, <3>3
  <2>5. \A j \in LeaseEvents(l) : j <= x.seen => leaseLog[j].kind = "grant"
      BY <2>2 DEF LeaseEvents
  <2> QED BY <2>1, <2>2, <2>3, <2>4, <2>5 DEF Lease
<1> QED BY <1>1, Invariance, PTL

\* A caller never gets two answers for one request, and what it was told is what
\* the audit ledger says: retries, restarts and recovered results included
\* (request, CapabilityResultStore.find).
THEOREM OneAnswerGiven == Spec => []OneAnswer
<1>1. ASSUME Inv PROVE OneAnswer
  <2>1. \A a \in answers : \E i \in DOMAIN auditLog : auditLog[i].req = a.req /\ auditLog[i].body = a.body
      BY <1>1 DEF Inv, Vouched, Audited
  <2>2. ASSUME NEW a \in answers, NEW b \in answers, a.req = b.req PROVE a.body = b.body
      BY <1>1, <2>1, <2>2 DEF Inv, AuditedOnce
  <2> QED BY <2>1, <2>2 DEF OneAnswer
<1> QED BY <1>1, Invariance, PTL
=============================================================================
