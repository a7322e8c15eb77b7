-------------------------- MODULE Delivery_proofs ---------------------------
(***************************************************************************)
(* Theorems about what a controller delivers to its workers: of Rollout,    *)
(* for any fleet, any number of request threads and any bounds, and, below, *)
(* of Artifacts (A) and of Bundles (B).                                     *)
(***************************************************************************)
EXTENDS Rollout, LedgerFacts, SequenceTheorems, FiniteSetTheorems

Workers == Range(Fleet)

States == {"PLANNED", "IN_PROGRESS", "STOPPED", "FAILED", "COMPLETED"}
Statuses == {"CANARY_PENDING", "CANARY_SUCCEEDED", "CANARY_FAILED", "ROLLOUT_STOPPED", "ROLLOUT_CONTINUING"}
ResultSet == [worker : Workers, role : {"canary", "remainder"}, succeeded : BOOLEAN, failed : BOOLEAN]
PlanSet == [id : Nat, canaries : Seq(Workers), remainder : Seq(Workers), stop : BOOLEAN,
            state : States, status : Statuses, results : Seq(ResultSet)]
JobSet == [pc : {"run", "persist"}, plan : PlanSet, next : Seq(Workers), results : Seq(ResultSet),
           state : States, status : Statuses]

\* The workers of a plan in the order in which they are reconciled.
Order(p) == p.canaries \o p.remainder

\* A result has the role its worker has in the plan, and a success was seen:
\* it is in R, the pairs of rollouts and workers that were READY.
Sound(R, p, s) ==
    \A i \in DOMAIN s :
        /\ s[i].role = "canary" <=> s[i].worker \in Range(p.canaries)
        /\ s[i].succeeded => <<p.id, s[i].worker>> \in R

PlanOK(R, p) == p \in PlanSet /\ Sound(R, p, p.results)

\* The workers a thread is done with: the one it has reconciled and not yet
\* persisted is still the head of what is next.
Behind(j) == IF j.pc = "persist" THEN Len(j.results) - 1 ELSE Len(j.results)

\* The results of a thread are those of the first workers of its plan, and
\* what is next follows on them, unless the thread has halted.
Fits(R, j) ==
    /\ j \in JobSet /\ PlanOK(R, j.plan) /\ Sound(R, j.plan, j.results)
    /\ \A i \in DOMAIN j.results :
          i <= Len(Order(j.plan)) /\ j.results[i].worker = Order(j.plan)[i]
    /\ j.next # << >> => /\ Len(j.next) = Len(Order(j.plan)) - Behind(j)
                         /\ \A i \in DOMAIN j.next : j.next[i] = Order(j.plan)[Behind(j) + i]
    /\ j.pc = "persist" => j.next # << >> /\ Len(j.results) > 0

\* Every canary succeeded, or failed where failures do not stop the rollout.
GateOpen(j) ==
    \A i \in 1..Len(j.plan.canaries) :
        i \in DOMAIN j.results /\ (j.results[i].succeeded \/ (j.results[i].failed /\ ~j.plan.stop))

\* A result beyond the canaries' is there only if the gate was open, and a
\* thread that has all canaries behind it and goes on has passed the gate.
Gated(j) == Len(j.results) > Len(j.plan.canaries) => GateOpen(j)
Open(j) == j.pc = "run" /\ j.next # << >> /\ Len(j.results) >= Len(j.plan.canaries) => GateOpen(j)

Complete(j) ==
    j.state = "COMPLETED" =>
        /\ j.next = << >> /\ j.pc = "run" /\ Len(j.results) >= Len(j.plan.canaries)
        /\ ~Pending(j.results) /\ ~Failed(j.results)

JobOK(R, j) == Fits(R, j) /\ Gated(j) /\ Open(j) /\ Complete(j)

JobsOK == job \in [Threads -> {Idle} \cup JobSet] /\ \A t \in Threads : job[t] = Idle \/ JobOK(ready, job[t])
RecordOK == record # None => PlanOK(ready, record)

\* The inductive invariant.
Inv == plans \in Nat /\ RecordOK /\ CompletedIsEarned /\ JobsOK
-----------------------------------------------------------------------------
(* What stays while the reconciles of other threads are recorded.            *)

LEMMA PlanKept == ASSUME NEW R, NEW Q, R \subseteq Q, NEW p, PlanOK(R, p) PROVE PlanOK(Q, p)
BY DEF PlanOK, Sound

LEMMA JobKept == ASSUME NEW R, NEW Q, R \subseteq Q, NEW j, JobOK(R, j) PROVE JobOK(Q, j)
<1>1. PlanOK(Q, j.plan)
    BY PlanKept DEF JobOK, Fits
<1>2. Sound(Q, j.plan, j.results)
    BY DEF JobOK, Fits, Sound
<1> QED BY <1>1, <1>2 DEF JobOK, Fits

LEMMA OrderFacts ==
    ASSUME NEW p \in PlanSet
    PROVE  /\ Order(p) \in Seq(Workers)
           /\ Len(p.canaries) \in Nat /\ DOMAIN p.canaries = 1..Len(p.canaries)
           /\ Len(Order(p)) \in Nat /\ Len(Order(p)) >= Len(p.canaries)
           /\ DOMAIN Order(p) = 1..Len(Order(p))
           /\ \A i \in 1..Len(p.canaries) : Order(p)[i] = p.canaries[i]
<1>1. p.canaries \in Seq(Workers) /\ p.remainder \in Seq(Workers)
    BY DEF PlanSet
<1>2. /\ Order(p) \in Seq(Workers)
      /\ Len(Order(p)) = Len(p.canaries) + Len(p.remainder)
      /\ \A i \in 1..(Len(p.canaries) + Len(p.remainder)) :
            Order(p)[i] = IF i <= Len(p.canaries) THEN p.canaries[i] ELSE p.remainder[i - Len(p.canaries)]
    BY <1>1, ConcatProperties DEF Order
<1>3. Len(p.canaries) \in Nat /\ Len(p.remainder) \in Nat /\ DOMAIN p.canaries = 1..Len(p.canaries)
    BY <1>1
<1>4. DOMAIN Order(p) = 1..Len(Order(p))
    BY <1>2
<1>5. \A a, b \in Nat : a + b \in Nat /\ a + b >= a /\ \A i \in 1..a : i \in 1..(a + b) /\ i <= a
    OBVIOUS
<1>6. /\ Len(p.canaries) + Len(p.remainder) \in Nat
      /\ Len(p.canaries) + Len(p.remainder) >= Len(p.canaries)
      /\ \A i \in 1..Len(p.canaries) :
            i \in 1..(Len(p.canaries) + Len(p.remainder)) /\ i <= Len(p.canaries)
    BY <1>3, <1>5, Zenon
<1>7. \A i \in 1..Len(p.canaries) : Order(p)[i] = p.canaries[i]
    BY <1>2, <1>6, Zenon
<1> QED BY <1>2, <1>3, <1>4, <1>6, <1>7, Zenon

\* The gate: what CanariesDone lets go on has passed it.
LEMMA GatePassed ==
    ASSUME NEW R, NEW j, Fits(R, j), Len(j.results) = Len(j.plan.canaries),
           ~Pending(j.results), ~(Failed(j.results) /\ j.plan.stop)
    PROVE  GateOpen(j)
<1>1. j.plan \in PlanSet /\ j.results \in Seq(ResultSet)
    BY DEF Fits, JobSet
<1>2. DOMAIN j.results = 1..Len(j.plan.canaries)
    BY <1>1
<1>3. ASSUME NEW i \in 1..Len(j.plan.canaries)
      PROVE  i \in DOMAIN j.results /\ (j.results[i].succeeded \/ (j.results[i].failed /\ ~j.plan.stop))
  <2>1. i \in DOMAIN j.results
      BY <1>2
  <2>2. j.results[i].worker = j.plan.canaries[i]
      BY <1>1, <2>1, OrderFacts DEF Fits
  <2>3. j.results[i].role = "canary"
      BY <1>1, <2>1, <2>2, OrderFacts DEF Fits, Sound, Range
  <2>4. j.results[i].succeeded \/ j.results[i].failed
      BY <2>1, <2>3 DEF Pending
  <2>5. j.results[i].failed => ~j.plan.stop
      BY <2>1 DEF Failed
  <2> QED BY <2>1, <2>4, <2>5
<1> QED BY <1>3 DEF GateOpen
-----------------------------------------------------------------------------
(* Passing a worker.                                                         *)

\* A thread that halts, or changes its state or status only, keeps its place.
LEMMA Halts ==
    ASSUME NEW R, NEW j, Fits(R, j), j.pc = "run", Gated(j), NEW state \in States, state # "COMPLETED",
           NEW status \in Statuses, NEW x,
           x = [j EXCEPT !.next = << >>, !.state = state, !.status = status]
    PROVE  JobOK(R, x)
<1>1. j \in JobSet
    BY DEF Fits
<1>2. x \in JobSet
    BY <1>1, EmptySeq DEF JobSet
<1>3. x.pc = "run" /\ x.plan = j.plan /\ x.results = j.results /\ x.next = << >> /\ x.state = state
    BY <1>1 DEF JobSet
<1>4. Fits(R, x)
    BY <1>2, <1>3 DEF Fits
<1> QED BY <1>3, <1>4 DEF JobOK, Gated, Open, Complete, GateOpen

LEMMA Proceeds ==
    ASSUME NEW R, NEW j, Fits(R, j), j.pc = "run", Gated(j), NEW state \in States, NEW status \in Statuses, NEW x,
           x = [j EXCEPT !.state = state, !.status = status],
           Open(j),
           state = "COMPLETED" => /\ j.next = << >> /\ Len(j.results) >= Len(j.plan.canaries)
                                  /\ ~Pending(j.results) /\ ~Failed(j.results)
    PROVE  JobOK(R, x)
<1>1. j \in JobSet
    BY DEF Fits
<1>2. x \in JobSet
    BY <1>1 DEF JobSet
<1>3. x.pc = "run" /\ x.plan = j.plan /\ x.results = j.results /\ x.next = j.next /\ x.state = state
    BY <1>1 DEF JobSet
<1>4. Fits(R, x)
    BY <1>2, <1>3 DEF Fits, Behind
<1> QED BY <1>3, <1>4 DEF JobOK, Gated, Open, Complete, GateOpen

\* The thread goes on to the end of its plan, or ends there.
LEMMA Ends ==
    ASSUME NEW R, NEW j, Fits(R, j), j.pc = "run", Gated(j), Open(j), Complete(j), NEW x,
           x = j \/ /\ x = RemainderDone(j)
                    /\ j.next = << >> /\ Len(j.results) >= Len(j.plan.canaries) /\ ~Pending(j.results)
    PROVE  JobOK(R, x)
<1>1. j \in JobSet
    BY DEF Fits
<1>2. CASE x = j
    BY <1>2 DEF JobOK
<1>3. CASE /\ x = RemainderDone(j) /\ j.next = << >>
           /\ Len(j.results) >= Len(j.plan.canaries) /\ ~Pending(j.results)
  <2>1. CASE Failed(j.results)
    <3>1. x = [j EXCEPT !.state = "FAILED", !.status = j.status] /\ j.status \in Statuses
        BY <1>1, <1>3, <2>1 DEF RemainderDone, JobSet
    <3>2. "FAILED" \in States /\ "FAILED" # "COMPLETED"
        BY DEF States, Statuses
    <3> QED BY <1>3, <3>1, <3>2, Proceeds, Zenon
  <2>2. CASE ~Failed(j.results)
    <3>1. x = [j EXCEPT !.state = "COMPLETED", !.status = "CANARY_SUCCEEDED"]
        BY <1>3, <2>2 DEF RemainderDone
    <3>2. "COMPLETED" \in States /\ "CANARY_SUCCEEDED" \in Statuses
        BY DEF States, Statuses
    <3> QED BY <1>3, <2>2, <3>1, <3>2, Proceeds, Zenon
  <2> QED BY <2>1, <2>2
<1> QED BY <1>2, <1>3

LEMMA PassedOK ==
    ASSUME NEW R, NEW t, NEW j, Fits(R, j), j.pc = "run", Gated(j), j.state # "COMPLETED"
    PROVE  JobOK(R, Passed(t, j))
<1> DEFINE n == Len(j.plan.canaries)
           gated == IF Len(j.results) = n THEN CanariesDone(j) ELSE j
           ended == Len(j.results) >= n /\ gated.state = "IN_PROGRESS" /\ ~Pending(j.results)
                    /\ gated.next = << >>
<1>1. Passed(t, j) = IF ended THEN RemainderDone(gated) ELSE gated
    BY DEF Passed
<1>2. j \in JobSet /\ n \in Nat /\ Len(j.results) \in Nat /\ j.state \in States /\ j.status \in Statuses
    BY DEF Fits, JobSet, PlanSet
<1>3. CASE Len(j.results) # n
  <2>1. gated = j
      BY <1>3
  <2>2. Open(j)
    <3>1. Len(j.results) >= n => Len(j.results) > n
        BY <1>2, <1>3
    <3> QED BY <3>1 DEF Open, Gated
  <2>3. Complete(j)
      BY DEF Complete
  <2> HIDE DEF gated
  <2> QED BY <1>1, <2>1, <2>2, <2>3, Ends
<1>4. CASE Len(j.results) = n
  <2>0. gated = CanariesDone(j)
      BY <1>4
  <2>1. CASE Pending(j.results)
    <3>1. gated = [j EXCEPT !.status = "CANARY_PENDING", !.next = << >>]
        BY <2>0, <2>1 DEF CanariesDone
    <3>2. gated = [j EXCEPT !.next = << >>, !.state = j.state, !.status = "CANARY_PENDING"]
        BY <1>2, <3>1 DEF JobSet
    <3>3. Passed(t, j) = gated
        BY <1>1, <2>1
    <3> HIDE DEF gated
    <3>4. "CANARY_PENDING" \in Statuses
        BY DEF States, Statuses
    <3>5. j.state \in States /\ j.state # "COMPLETED"
        BY <1>2
    <3>6. JobOK(R, gated)
        BY <3>2, <3>4, <3>5, Halts, Zenon
    <3> QED BY <3>3, <3>6
  <2>2. CASE ~Pending(j.results) /\ Failed(j.results) /\ j.plan.stop
    <3>1. gated = [j EXCEPT !.status = "ROLLOUT_STOPPED", !.state = "STOPPED", !.next = << >>]
        BY <2>0, <2>2 DEF CanariesDone
    <3>2. gated = [j EXCEPT !.next = << >>, !.state = "STOPPED", !.status = "ROLLOUT_STOPPED"]
        BY <1>2, <3>1 DEF JobSet
    <3>3. gated.state # "IN_PROGRESS"
        BY <1>2, <3>2 DEF JobSet
    <3>4. Passed(t, j) = gated
        BY <1>1, <3>3
    <3> HIDE DEF gated
    <3>5. "STOPPED" \in States /\ "ROLLOUT_STOPPED" \in Statuses /\ "STOPPED" # "COMPLETED"
        BY DEF States, Statuses
    <3> QED BY <1>2, <3>2, <3>4, <3>5, Halts, Zenon
  <2>3. CASE ~Pending(j.results) /\ ~(Failed(j.results) /\ j.plan.stop)
    <3>1. PICK status \in Statuses : gated = [j EXCEPT !.status = status]
      <4>1. gated = [j EXCEPT !.status = IF Failed(j.results) THEN "CANARY_FAILED" ELSE "ROLLOUT_CONTINUING"]
          BY <2>0, <2>3 DEF CanariesDone
      <4> QED BY <4>1 DEF Statuses
    <3>2. gated = [j EXCEPT !.state = j.state, !.status = status]
        BY <1>2, <3>1 DEF JobSet
    <3>3. GateOpen(j)
        BY <1>4, <2>3, GatePassed
    <3>4. Open(j)
        BY <3>3 DEF Open
    <3>5. /\ gated.results = j.results /\ gated.plan = j.plan /\ gated.next = j.next
          /\ gated.pc = "run"
        BY <1>2, <3>1 DEF JobSet
    <3> HIDE DEF gated
    <3>6. JobOK(R, gated)
        BY <1>2, <3>2, <3>4, Proceeds
    <3> QED BY <1>1, <3>5, <3>6, Ends DEF JobOK
  <2> QED BY <2>1, <2>2, <2>3
<1> QED BY <1>3, <1>4
-----------------------------------------------------------------------------
(* Recording a worker.                                                       *)

\* A result r of the worker that a thread in state j comes to.
ResultOK(R, j, r) ==
    /\ r \in ResultSet /\ r.worker = Head(j.next)
    /\ r.role = "canary" <=> r.worker \in Range(j.plan.canaries)
    /\ r.succeeded => <<j.plan.id, r.worker>> \in R

\* The results of a thread in state j with one more.
Extension(R, j, s) ==
    /\ s \in Seq(ResultSet) /\ Len(j.results) \in Nat /\ Len(s) = Len(j.results) + 1
    /\ Len(s) <= Len(Order(j.plan)) /\ Len(Order(j.plan)) \in Nat
    /\ Sound(R, j.plan, s)
    /\ \A i \in DOMAIN s : i <= Len(Order(j.plan)) /\ s[i].worker = Order(j.plan)[i]
    /\ Len(s) > Len(j.plan.canaries) =>
         \A i \in 1..Len(j.plan.canaries) :
             i \in DOMAIN s /\ (s[i].succeeded \/ (s[i].failed /\ ~j.plan.stop))

LEMMA Room == \A a, b, n \in Nat : a = b - n /\ a > 0 => n + 1 <= b
OBVIOUS

LEMMA OneLess ==
    /\ \A a, b, n \in Nat : a = b - n => a - 1 = b - (n + 1)
    /\ \A a, b, n \in Nat : a = b - (n - 1) => a - 1 = b - n
    /\ \A i, n \in Nat : n + (i + 1) = (n + 1) + i /\ (n - 1) + (i + 1) = n + i
OBVIOUS

LEMMA Appended ==
    ASSUME NEW R, NEW j, JobOK(R, j), j.pc = "run", j.next # << >>, NEW r, ResultOK(R, j, r),
           NEW s, s = Append(j.results, r)
    PROVE  Extension(R, j, s)
<1>1. /\ j \in JobSet /\ j.plan \in PlanSet /\ j.results \in Seq(ResultSet) /\ j.next \in Seq(Workers)
      /\ r \in ResultSet
    BY DEF JobOK, Fits, JobSet, ResultOK
<1> DEFINE n == Len(j.results)
           o == Order(j.plan)
<1>2. /\ s \in Seq(ResultSet) /\ n \in Nat /\ Len(s) = n + 1
      /\ DOMAIN j.results = 1..n /\ DOMAIN s = 1..(n + 1)
      /\ \A i \in 1..n : s[i] = j.results[i]
      /\ s[n + 1] = r
    BY <1>1, AppendFacts
<1>3. Len(j.next) \in Nat /\ Len(j.next) > 0 /\ DOMAIN j.next = 1..Len(j.next) /\ Head(j.next) = j.next[1]
    BY <1>1
<1>4. /\ Len(o) \in Nat /\ Len(j.plan.canaries) \in Nat
    BY <1>1, OrderFacts
<1>5. Len(j.next) = Len(o) - n /\ \A i \in DOMAIN j.next : j.next[i] = o[n + i]
    BY DEF JobOK, Fits, Behind
<1>6. n + 1 <= Len(o) /\ r.worker = o[n + 1]
  <2>1. n + 1 <= Len(o)
      BY <1>2, <1>3, <1>4, <1>5, Room, Zenon
  <2>2. 1 \in DOMAIN j.next
      BY <1>3
  <2> QED BY <1>3, <1>5, <2>1, <2>2, Zenon DEF ResultOK
<1>7. \A i \in DOMAIN s : (i \in DOMAIN j.results /\ s[i] = j.results[i] /\ i \in 1..n) \/ (i = n + 1 /\ s[i] = r)
    BY <1>2
<1>8. Sound(R, j.plan, s)
    BY <1>7, ZenonT(60) DEF Sound, JobOK, Fits, ResultOK
<1>9. \A i \in DOMAIN s : i <= Len(o) /\ s[i].worker = o[i]
    BY <1>6, <1>7 DEF JobOK, Fits
<1>10. ASSUME Len(s) > Len(j.plan.canaries), NEW i \in 1..Len(j.plan.canaries)
       PROVE  i \in DOMAIN s /\ (s[i].succeeded \/ (s[i].failed /\ ~j.plan.stop))
  <2>1. n >= Len(j.plan.canaries)
      BY <1>2, <1>4, <1>10
  <2>2. GateOpen(j)
      BY <2>1 DEF JobOK, Open
  <2>3. i \in DOMAIN j.results /\ (j.results[i].succeeded \/ (j.results[i].failed /\ ~j.plan.stop))
      BY <2>2 DEF GateOpen
  <2>4. i \in DOMAIN s /\ s[i] = j.results[i]
      BY <1>2, <2>3
  <2> QED BY <2>3, <2>4
<1> QED BY <1>2, <1>4, <1>6, <1>8, <1>9, <1>10 DEF Extension

LEMMA Reconciled ==
    ASSUME NEW R, NEW j, JobOK(R, j), j.pc = "run", j.next # << >>, NEW r, ResultOK(R, j, r),
           NEW x, x = [j EXCEPT !.results = Append(j.results, r), !.pc = "persist"]
    PROVE  JobOK(R, x)
<1>1. PICK s : s = Append(j.results, r)
    OBVIOUS
<1>2. /\ s \in Seq(ResultSet) /\ Len(j.results) \in Nat /\ Len(s) = Len(j.results) + 1
      /\ Len(s) <= Len(Order(j.plan)) /\ Len(Order(j.plan)) \in Nat
      /\ Sound(R, j.plan, s)
      /\ \A i \in DOMAIN s : i <= Len(Order(j.plan)) /\ s[i].worker = Order(j.plan)[i]
      /\ Len(s) > Len(j.plan.canaries) =>
           \A i \in 1..Len(j.plan.canaries) :
               i \in DOMAIN s /\ (s[i].succeeded \/ (s[i].failed /\ ~j.plan.stop))
  <2>1. Extension(R, j, s)
      BY <1>1, Appended, Zenon
  <2> QED BY <2>1, Zenon DEF Extension
<1>3. j \in JobSet
    BY DEF JobOK, Fits
<1>4. x = [j EXCEPT !.results = s, !.pc = "persist"]
    BY <1>1
<1>5. /\ x \in JobSet /\ x.pc = "persist" /\ x.plan = j.plan /\ x.results = s /\ x.next = j.next
      /\ x.state = j.state
    BY <1>2, <1>3, <1>4 DEF JobSet
<1>6. Behind(x) = Behind(j) /\ Len(x.results) > 0
    BY <1>2, <1>5 DEF Behind
<1>7. Fits(R, x)
    BY <1>2, <1>5, <1>6, ZenonT(60) DEF JobOK, Fits
<1>8. Gated(x) /\ Open(x)
    BY <1>2, <1>5 DEF Gated, Open, GateOpen
<1>9. Complete(x)
    BY <1>5 DEF JobOK, Complete
<1> QED BY <1>7, <1>8, <1>9 DEF JobOK

\* The thread leaves the worker behind: it was carried over, or it has been
\* reconciled and persisted.
LEMMA Carried ==
    ASSUME NEW R, NEW j, JobOK(R, j), j.pc = "run", j.next # << >>, NEW r, ResultOK(R, j, r),
           NEW x \in JobSet, x.pc = "run", x.plan = j.plan, x.results = Append(j.results, r),
           x.next = Tail(j.next), x.state = j.state
    PROVE  Fits(R, x) /\ x.pc = "run" /\ Gated(x) /\ x.state # "COMPLETED"
<1>1. PICK s, rest : s = Append(j.results, r) /\ rest = Tail(j.next)
    OBVIOUS
<1>2. /\ s \in Seq(ResultSet) /\ Len(j.results) \in Nat /\ Len(s) = Len(j.results) + 1
      /\ Len(s) <= Len(Order(j.plan)) /\ Len(Order(j.plan)) \in Nat
      /\ Sound(R, j.plan, s)
      /\ \A i \in DOMAIN s : i <= Len(Order(j.plan)) /\ s[i].worker = Order(j.plan)[i]
      /\ Len(s) > Len(j.plan.canaries) =>
           \A i \in 1..Len(j.plan.canaries) :
               i \in DOMAIN s /\ (s[i].succeeded \/ (s[i].failed /\ ~j.plan.stop))
  <2>1. Extension(R, j, s)
      BY <1>1, Appended, Zenon
  <2> QED BY <2>1, Zenon DEF Extension
<1>3. j \in JobSet /\ j.next \in Seq(Workers) /\ j.plan \in PlanSet
    BY DEF JobOK, Fits, JobSet
<1>4. /\ rest \in Seq(Workers) /\ Len(rest) = Len(j.next) - 1 /\ Len(j.next) \in Nat
      /\ DOMAIN rest = 1..(Len(j.next) - 1) /\ DOMAIN j.next = 1..Len(j.next)
      /\ \A i \in DOMAIN rest : rest[i] = j.next[i + 1]
    BY <1>1, <1>3
<1>6. x.results = s /\ x.next = rest
    BY <1>1
<1>7. Len(Order(j.plan)) \in Nat
    BY <1>3, OrderFacts
<1>8. /\ Len(x.next) = Len(Order(j.plan)) - Len(s)
      /\ \A i \in DOMAIN x.next : x.next[i] = Order(j.plan)[Len(s) + i]
  <2>1. /\ Len(j.next) = Len(Order(j.plan)) - Len(j.results)
        /\ \A i \in DOMAIN j.next : j.next[i] = Order(j.plan)[Len(j.results) + i]
      BY DEF JobOK, Fits, Behind
  <2>2. Len(x.next) = Len(Order(j.plan)) - Len(s)
    <3>1. Len(j.next) - 1 = Len(Order(j.plan)) - (Len(j.results) + 1)
        BY <1>2, <1>4, <1>7, <2>1, OneLess, ZenonT(30)
    <3> QED BY <1>2, <1>4, <1>6, <3>1, Zenon
  <2>3. ASSUME NEW i \in DOMAIN x.next PROVE x.next[i] = Order(j.plan)[Len(s) + i]
    <3>1. i + 1 \in DOMAIN j.next /\ i \in Nat /\ x.next[i] = j.next[i + 1]
        BY <1>4, <1>6
    <3>2. Len(j.results) + (i + 1) = Len(s) + i
      <4>1. Len(j.results) + (i + 1) = (Len(j.results) + 1) + i
          BY <1>2, <3>1, OneLess, Zenon
      <4> QED BY <1>2, <4>1, Zenon
    <3> QED BY <2>1, <3>1, <3>2
  <2> QED BY <2>2, <2>3
<1>9. Behind(x) = Len(s)
    BY <1>6 DEF Behind
<1>10. Fits(R, x)
  <2>1. PlanOK(R, x.plan) /\ Sound(R, x.plan, x.results)
      BY <1>2, <1>6 DEF JobOK, Fits
  <2> QED BY <1>2, <1>6, <1>8, <1>9, <2>1 DEF Fits
<1>11. Gated(x)
    BY <1>2, <1>6 DEF Gated, GateOpen
<1>12. x.state # "COMPLETED"
    BY DEF JobOK, Complete
<1> QED BY <1>10, <1>11, <1>12

LEMMA Persisted ==
    ASSUME NEW R, NEW j, JobOK(R, j), j.pc = "persist",
           NEW x, x = [j EXCEPT !.pc = "run", !.next = Tail(j.next)]
    PROVE  Fits(R, x) /\ x.pc = "run" /\ Gated(x) /\ x.state # "COMPLETED"
<1>1. /\ j \in JobSet /\ j.next \in Seq(Workers) /\ j.plan \in PlanSet /\ j.next # << >>
      /\ j.results \in Seq(ResultSet)
    BY DEF JobOK, Fits, JobSet
<1>2. /\ Tail(j.next) \in Seq(Workers) /\ Len(Tail(j.next)) = Len(j.next) - 1 /\ Len(j.next) \in Nat
      /\ DOMAIN Tail(j.next) = 1..(Len(j.next) - 1) /\ DOMAIN j.next = 1..Len(j.next)
      /\ \A i \in DOMAIN Tail(j.next) : Tail(j.next)[i] = j.next[i + 1]
    BY <1>1
<1>3. /\ x \in JobSet /\ x.pc = "run" /\ x.plan = j.plan /\ x.results = j.results
      /\ x.next = Tail(j.next) /\ x.state = j.state
    BY <1>1, <1>2 DEF JobSet
<1>4. Len(Order(j.plan)) \in Nat /\ Len(j.results) \in Nat
    BY <1>1, OrderFacts
<1>5. /\ Len(x.next) = Len(Order(j.plan)) - Len(j.results)
      /\ \A i \in DOMAIN x.next : x.next[i] = Order(j.plan)[Len(j.results) + i]
  <2>1. /\ Len(j.next) = Len(Order(j.plan)) - (Len(j.results) - 1)
        /\ \A i \in DOMAIN j.next : j.next[i] = Order(j.plan)[(Len(j.results) - 1) + i]
      BY <1>1 DEF JobOK, Fits, Behind
  <2>2. Len(x.next) = Len(Order(j.plan)) - Len(j.results)
    <3>1. Len(j.next) - 1 = Len(Order(j.plan)) - Len(j.results)
        BY <1>2, <1>4, <2>1, OneLess, Zenon
    <3> QED BY <1>2, <1>3, <3>1, Zenon
  <2>3. ASSUME NEW i \in DOMAIN x.next PROVE x.next[i] = Order(j.plan)[Len(j.results) + i]
    <3>1. i + 1 \in DOMAIN j.next /\ i \in Nat /\ x.next[i] = j.next[i + 1]
        BY <1>2, <1>3
    <3>2. (Len(j.results) - 1) + (i + 1) = Len(j.results) + i
        BY <1>4, <3>1
    <3> QED BY <2>1, <3>1, <3>2
  <2> QED BY <2>2, <2>3
<1>6. Behind(x) = Len(j.results)
    BY <1>3 DEF Behind
<1>7. Fits(R, x)
    BY <1>3, <1>5, <1>6 DEF JobOK, Fits
<1>8. Gated(x)
    BY <1>3 DEF JobOK, Gated, GateOpen
<1>9. x.state # "COMPLETED"
    BY <1>3 DEF JobOK, Complete
<1> QED BY <1>3, <1>7, <1>8, <1>9
-----------------------------------------------------------------------------
(* The steps.                                                                *)

\* One thread moves to x; the others stay where they are.
LEMMA JobsMove ==
    ASSUME Inv, NEW t \in Threads, NEW x, x = Idle \/ JobOK(ready', x),
           job' = [job EXCEPT ![t] = x], ready \subseteq ready'
    PROVE  JobsOK'
<1>1. \A u \in Threads : job[u] = Idle \/ JobOK(ready', job[u])
    BY JobKept DEF Inv, JobsOK
<1>2. x \in {Idle} \cup JobSet
    BY DEF JobOK, Fits
<1>3. job' \in [Threads -> {Idle} \cup JobSet]
    BY <1>2 DEF Inv, JobsOK
<1>4. \A u \in Threads : job'[u] = IF u = t THEN x ELSE job[u]
    BY DEF Inv, JobsOK
<1>5. \A u \in Threads : job'[u] = Idle \/ JobOK(ready', job'[u])
    BY <1>1, <1>4
<1> QED BY <1>3, <1>5 DEF JobsOK

LEMMA RecordSame ==
    ASSUME Inv, record' = record, ready \subseteq ready'
    PROVE  RecordOK' /\ CompletedIsEarned'
<1>1. RecordOK'
    BY PlanKept DEF Inv, RecordOK
<1>2. CompletedIsEarned'
    BY DEF Inv, CompletedIsEarned
<1> QED BY <1>1, <1>2

\* A thread that is not idle.
LEMMA Busy ==
    ASSUME Inv, NEW t \in Threads, job[t].pc # "idle"
    PROVE  JobOK(ready, job[t]) /\ job[t] \in JobSet
BY DEF Inv, JobsOK, Idle, JobOK, Fits

LEMMA InitInv == Init => Inv
BY DEF Init, Inv, RecordOK, CompletedIsEarned, JobsOK

\* A plan is made of the workers asked for.
LEMMA Planned ==
    ASSUME plans \in Nat, NEW workers \in Seq(Workers), NEW n \in Nat, n > 0, NEW stop \in BOOLEAN
    PROVE  PlanOK(ready, BuildRolloutPlan(workers, n, stop)) /\ BuildRolloutPlan(workers, n, stop).state = "PLANNED"
<1> DEFINE m == IF n < Len(workers) THEN n ELSE Len(workers)
           p == BuildRolloutPlan(workers, n, stop)
<1>1. Len(workers) \in Nat /\ \A i \in 1..Len(workers) : workers[i] \in Workers
    OBVIOUS
<1>2. m \in Int /\ \A i \in 1..m : i \in 1..Len(workers)
    BY <1>1
<1>3. SubSeq(workers, 1, m) \in Seq(Workers)
    BY <1>1, <1>2, SubSeqProperties
<1>4. n + 1 \in Int /\ \A i \in (n + 1)..Len(workers) : i \in 1..Len(workers)
    BY <1>1
<1>5. SubSeq(workers, n + 1, Len(workers)) \in Seq(Workers)
    BY <1>1, <1>4, SubSeqProperties
<1>6. p = [id |-> plans + 1, canaries |-> SubSeq(workers, 1, m),
           remainder |-> SubSeq(workers, n + 1, Len(workers)), stop |-> stop,
           state |-> "PLANNED", status |-> "CANARY_PENDING", results |-> << >>]
    BY DEF BuildRolloutPlan
<1>7. << >> \in Seq(ResultSet)
    BY EmptySeq
<1> HIDE DEF m, p
<1>8. p \in PlanSet /\ p.results = << >> /\ p.state = "PLANNED"
    BY <1>3, <1>5, <1>6, <1>7 DEF PlanSet, States, Statuses
<1>9. Sound(ready, p, p.results)
    BY <1>8 DEF Sound
<1> QED BY <1>8, <1>9 DEF PlanOK, p

LEMMA Started ==
    ASSUME NEW p, PlanOK(ready, p)
    PROVE  JobOK(ready, Start(p))
<1> DEFINE x == Start(p)
<1>1. p \in PlanSet
    BY DEF PlanOK
<1>2. Order(p) \in Seq(Workers) /\ Len(Order(p)) \in Nat
    BY <1>1, OrderFacts
<1>3. x = [pc |-> "run", plan |-> p, next |-> Order(p), results |-> << >>,
           state |-> "IN_PROGRESS", status |-> "CANARY_PENDING"]
    BY DEF Start, Order
<1>4. << >> \in Seq(ResultSet) /\ Len(<< >>) = 0 /\ DOMAIN << >> = {}
    BY EmptySeq
<1> HIDE DEF x
<1>5. /\ x \in JobSet /\ x.pc = "run" /\ x.plan = p /\ x.next = Order(p) /\ x.results = << >>
      /\ x.state = "IN_PROGRESS"
    BY <1>1, <1>2, <1>3, <1>4 DEF JobSet, States, Statuses
<1>6. Behind(x) = 0
    BY <1>4, <1>5 DEF Behind
<1>7. Fits(ready, x)
  <2>1. Sound(ready, x.plan, x.results)
      BY <1>4, <1>5 DEF Sound
  <2>2. Len(x.next) = Len(Order(x.plan)) - Behind(x)
      BY <1>2, <1>5, <1>6
  <2>3. \A i \in DOMAIN x.next : x.next[i] = Order(x.plan)[Behind(x) + i]
      BY <1>2, <1>5, <1>6
  <2> QED BY <1>4, <1>5, <2>1, <2>2, <2>3 DEF Fits
<1>8. Len(p.canaries) \in Nat
    BY <1>1, OrderFacts
<1>9. Len(x.results) >= Len(p.canaries) => 1..Len(p.canaries) = {}
    BY <1>4, <1>5, <1>8
<1>10. GateOpen(x) \/ ~(Len(x.results) >= Len(p.canaries))
    BY <1>5, <1>9 DEF GateOpen
<1>11. ~(Len(x.results) > Len(p.canaries))
    BY <1>4, <1>5, <1>8
<1> QED BY <1>5, <1>7, <1>10, <1>11 DEF JobOK, Gated, Open, Complete, x

LEMMA RequestInv ==
    ASSUME Inv, NEW t \in Threads, NEW apply \in BOOLEAN, NEW resume \in BOOLEAN,
           NEW workers \in Seq(Workers), NEW n \in Nat, n > 0, NEW stop \in BOOLEAN,
           Request(t, apply, resume, workers, n, stop)
    PROVE  Inv'
<1> DEFINE again == record # None /\ (resume \/ (apply /\ record.state = "IN_PROGRESS"))
           plan == IF again THEN record ELSE BuildRolloutPlan(workers, n, stop)
<1>1. plans' \in Nat
    BY DEF Inv, Request
<1>2. PlanOK(ready, plan) /\ (~again => plan.state = "PLANNED")
  <2>1. CASE again
      BY <2>1 DEF Inv, RecordOK
  <2>2. CASE ~again
      BY <2>2, Planned DEF Inv
  <2> QED BY <2>1, <2>2
<1>3. ready' = ready
    BY DEF Request
<1>4. CASE apply \/ resume
  <2>1. job' = [job EXCEPT ![t] = Start(plan)] /\ record' = record
      BY <1>4 DEF Request
  <2> HIDE DEF plan, again
  <2>2. JobOK(ready', Start(plan))
      BY <1>2, <1>3, Started
  <2>3. JobsOK'
      BY <1>3, <2>1, <2>2, JobsMove
  <2> QED BY <1>1, <1>3, <2>1, <2>3, RecordSame DEF Inv
<1>5. CASE ~(apply \/ resume)
  <2>1. ~again
      BY <1>5
  <2>2. record' = plan /\ job' = job
      BY <1>5 DEF Request
  <2> HIDE DEF plan, again
  <2>3. RecordOK'
      BY <1>2, <1>3, <2>2 DEF RecordOK
  <2>4. CompletedIsEarned'
      BY <1>2, <2>1, <2>2 DEF CompletedIsEarned
  <2>5. JobsOK'
      BY <1>3, <2>2 DEF Inv, JobsOK
  <2> QED BY <1>1, <2>3, <2>4, <2>5 DEF Inv
<1> QED BY <1>4, <1>5
\* The worker a running thread comes to, and its role.
LEMMA WorkerFacts ==
    ASSUME Inv, NEW t \in Threads, Running(t)
    PROVE  /\ JobOK(ready, job[t]) /\ job[t] \in JobSet
           /\ Worker(t) = Head(job[t].next) /\ Worker(t) \in Workers
           /\ Role(t) \in {"canary", "remainder"}
           /\ Role(t) = "canary" <=> Worker(t) \in Range(job[t].plan.canaries)
<1>1. JobOK(ready, job[t]) /\ job[t] \in JobSet
    BY Busy DEF Running
<1>2. job[t].next \in Seq(Workers) /\ job[t].next # << >> /\ job[t].plan.canaries \in Seq(Workers)
    BY <1>1 DEF JobSet, PlanSet, Running
<1>3. Worker(t) = Head(job[t].next) /\ Worker(t) \in Workers
    BY <1>2, HeadTailProperties DEF Worker
<1>4. DOMAIN job[t].plan.canaries = 1..Len(job[t].plan.canaries)
    BY <1>2
<1>5. Contains(job[t].plan.canaries, Worker(t)) <=> Worker(t) \in Range(job[t].plan.canaries)
    BY <1>4 DEF Contains, Range
<1> QED BY <1>1, <1>3, <1>5 DEF Role

\* A recorded success of a worker is one of this rollout.
LEMMA PriorFacts ==
    ASSUME Inv, NEW t \in Threads, Running(t), Settled(t)
    PROVE  ResultOK(ready, job[t], Prior(t))
<1> DEFINE s == job[t].plan.results
           at == {i \in DOMAIN s : s[i].worker = Worker(t)}
           m == CHOOSE i \in at : \A k \in at : k <= i
<1>1. JobOK(ready, job[t]) /\ job[t] \in JobSet
    BY WorkerFacts
<1>2. s \in Seq(ResultSet) /\ Sound(ready, job[t].plan, s)
    BY <1>1 DEF JobSet, PlanSet, JobOK, Fits, PlanOK
<1>3. Len(s) \in Nat /\ at \subseteq 0..Len(s)
    BY <1>2
<1>4. at # {}
    BY DEF Settled, Prior
<1>5. m \in at
  <2>1. \E i \in at : \A k \in at : k <= i
      BY <1>3, <1>4, GreatestExists
  <2> QED BY <2>1
<1>6. Prior(t) = s[m]
    BY <1>4 DEF Prior
<1>7. Prior(t).succeeded
    BY DEF Settled
<1> HIDE DEF m
<1>8. s[m] \in ResultSet /\ s[m].worker = Worker(t)
    BY <1>2, <1>5
<1>9. Worker(t) = Head(job[t].next)
    BY WorkerFacts
<1> QED BY <1>2, <1>5, <1>6, <1>7, <1>8, <1>9 DEF ResultOK, Sound

\* What a carried worker leaves the thread with.
LEMMA CarriedJob ==
    ASSUME Inv, NEW t \in Threads, Carry(t)
    PROVE  \E x \in JobSet : /\ job' = [job EXCEPT ![t] = Passed(t, x)]
                             /\ Fits(ready, x) /\ x.pc = "run" /\ Gated(x) /\ x.state # "COMPLETED"
<1>1. Running(t) /\ Settled(t)
    BY DEF Carry
<1>2. JobOK(ready, job[t]) /\ job[t] \in JobSet /\ ResultOK(ready, job[t], Prior(t))
    BY <1>1, WorkerFacts, PriorFacts
<1>3. PICK status : status = IF Role(t) = "canary" THEN "CANARY_SUCCEEDED" ELSE job[t].status
    OBVIOUS
<1>4. status \in Statuses
    BY <1>2, <1>3 DEF JobSet, Statuses
<1>5. PICK s, rest : s = Append(job[t].results, Prior(t)) /\ rest = Tail(job[t].next)
    OBVIOUS
<1>6. PICK x : x = [job[t] EXCEPT !.results = s, !.next = rest, !.status = status]
    OBVIOUS
<1>7. job[t].pc = "run" /\ job[t].next # << >>
    BY <1>1 DEF Running
<1>8. Fits(ready, x) /\ x.pc = "run" /\ Gated(x) /\ x.state # "COMPLETED"
  <2>1. s \in Seq(ResultSet) /\ rest \in Seq(Workers)
    <3>1. /\ job[t].results \in Seq(ResultSet) /\ Prior(t) \in ResultSet
          /\ job[t].next \in Seq(Workers)
        BY <1>2 DEF JobSet, ResultOK
    <3> QED BY <1>5, <1>7, <3>1, AppendFacts, HeadTailProperties
  <2>2. /\ x \in JobSet /\ x.pc = "run" /\ x.plan = job[t].plan /\ x.results = s /\ x.next = rest
        /\ x.state = job[t].state
      BY <1>2, <1>4, <1>6, <1>7, <2>1 DEF JobSet
  <2> QED BY <1>2, <1>5, <1>7, <2>2, Carried
<1>9. job' = [job EXCEPT ![t] = Passed(t, x)]
  <2>1. PICK y : y = [job[t] EXCEPT !.results = Append(@, Prior(t)), !.next = Tail(@), !.status = status]
      OBVIOUS
  <2>2. y = x
      BY <1>2, <1>5, <1>6, <2>1 DEF JobSet
  <2>3. job' = [job EXCEPT ![t] = Passed(t, y)]
      BY <1>3, <2>1, Zenon DEF Carry
  <2> QED BY <2>2, <2>3
<1>10. x \in JobSet
    BY <1>8 DEF Fits
<1> QED BY <1>8, <1>9, <1>10

LEMMA CarryInv == ASSUME Inv, NEW t \in Threads, Carry(t) PROVE Inv'
<1>1. PICK x \in JobSet : /\ job' = [job EXCEPT ![t] = Passed(t, x)]
                          /\ Fits(ready, x) /\ x.pc = "run" /\ Gated(x) /\ x.state # "COMPLETED"
    BY CarriedJob
<1>2. JobOK(ready, Passed(t, x))
    BY <1>1, PassedOK
<1>3. UNCHANGED <<record, ready, plans>>
    BY DEF Carry
<1>4. JobsOK'
    BY <1>1, <1>2, <1>3, JobsMove
<1> QED BY <1>3, <1>4, RecordSame DEF Inv

LEMMA ReconcileInv == ASSUME Inv, NEW t \in Threads, NEW o, Reconcile(t, o) PROVE Inv'
<1>1. Running(t)
    BY DEF Reconcile
<1>2. /\ JobOK(ready, job[t]) /\ job[t] \in JobSet /\ Worker(t) = Head(job[t].next) /\ Worker(t) \in Workers
      /\ Role(t) \in {"canary", "remainder"}
      /\ Role(t) = "canary" <=> Worker(t) \in Range(job[t].plan.canaries)
    BY <1>1, WorkerFacts
<1>3. PICK r : r = Recorded(Worker(t), o, Role(t))
    OBVIOUS
<1>4. /\ r \in ResultSet /\ r.worker = Worker(t) /\ r.role = Role(t)
      /\ r.succeeded => CanarySucceeded(o)
  <2>1. CanarySucceeded(o) \in BOOLEAN /\ CanaryFailed(o) \in BOOLEAN
      BY DEF CanarySucceeded, CanaryFailed
  <2>2. PICK a, b : a = CanarySucceeded(o) /\ b = CanaryFailed(o) /\ a \in BOOLEAN /\ b \in BOOLEAN
      BY <2>1
  <2>3. r = [worker |-> Worker(t), role |-> Role(t), succeeded |-> a, failed |-> b]
      BY <1>3, <2>2 DEF Recorded
  <2> QED BY <1>2, <2>2, <2>3 DEF ResultSet
<1>5. ready \subseteq ready'
    BY DEF Reconcile
<1>6. r.succeeded => <<job[t].plan.id, r.worker>> \in ready'
    BY <1>4 DEF Reconcile, CanarySucceeded
<1>7. JobOK(ready', job[t])
    BY <1>2, <1>5, JobKept
<1>8. ResultOK(ready', job[t], r)
    BY <1>2, <1>4, <1>6 DEF ResultOK
<1>9. PICK x : x = [job[t] EXCEPT !.results = Append(job[t].results, r), !.pc = "persist"]
    OBVIOUS
<1>10. job[t].pc = "run" /\ job[t].next # << >>
    BY <1>1 DEF Running
<1>11. JobOK(ready', x)
    BY <1>7, <1>8, <1>9, <1>10, Reconciled
<1>12. job' = [job EXCEPT ![t] = x]
  <2>1. job' = [job EXCEPT ![t].results = Append(@, r), ![t].pc = "persist"]
      BY <1>3 DEF Reconcile
  <2>2. job \in [Threads -> {Idle} \cup JobSet]
      BY DEF Inv, JobsOK
  <2> QED BY <1>9, <2>1, <2>2
<1>13. UNCHANGED <<record, plans>>
    BY DEF Reconcile
<1>14. JobsOK'
    BY <1>5, <1>11, <1>12, JobsMove
<1> QED BY <1>5, <1>13, <1>14, RecordSame DEF Inv

LEMMA RaisesInv == ASSUME Inv, NEW t \in Threads, ReconcileRaises(t) PROVE Inv'
<1>1. UNCHANGED <<record, ready, plans>> /\ job' = [job EXCEPT ![t] = Idle]
    BY DEF ReconcileRaises
<1>2. JobsOK'
    BY <1>1, JobsMove
<1> QED BY <1>1, <1>2, RecordSame DEF Inv
LEMMA PersistInv == ASSUME Inv, NEW t \in Threads, Persist(t) PROVE Inv'
<1>1. job[t].pc = "persist"
    BY DEF Persist
<1>2. JobOK(ready, job[t]) /\ job[t] \in JobSet
    BY <1>1, Busy
<1>3. UNCHANGED <<ready, plans>>
    BY DEF Persist
<1>4. RecordOK' /\ CompletedIsEarned'
  <2>1. PICK p : p = Snapshot(job[t], "IN_PROGRESS")
      OBVIOUS
  <2>2. p = [job[t].plan EXCEPT !.state = "IN_PROGRESS", !.status = job[t].status, !.results = job[t].results]
      BY <2>1 DEF Snapshot
  <2>3. /\ p \in PlanSet /\ p.state = "IN_PROGRESS" /\ p.results = job[t].results
        /\ p.id = job[t].plan.id /\ p.canaries = job[t].plan.canaries
      BY <1>2, <2>2 DEF JobSet, PlanSet, States
  <2>4. Sound(ready, p, p.results)
      BY <1>2, <2>3 DEF JobOK, Fits, Sound
  <2>5. record' = p
      BY <2>1 DEF Persist
  <2> QED BY <1>3, <2>3, <2>4, <2>5 DEF RecordOK, PlanOK, CompletedIsEarned
<1>5. JobOK(ready, Judged(t))
  <2>1. PICK j : j = [job[t] EXCEPT !.pc = "run", !.next = Tail(@)]
      OBVIOUS
  <2>2. j = [job[t] EXCEPT !.pc = "run", !.next = Tail(job[t].next)]
      BY <1>2, <2>1 DEF JobSet
  <2>3. Fits(ready, j) /\ j.pc = "run" /\ Gated(j) /\ j.state # "COMPLETED"
      BY <1>1, <1>2, <2>2, Persisted
  <2>4. j \in JobSet
      BY <2>3 DEF Fits
  <2> DEFINE r == Last(j.results)
             halt == j.plan.stop /\ (r.failed \/ (r.role = "canary" /\ ~r.succeeded))
  <2>5. Judged(t) =
          CASE halt ->
                 [j EXCEPT !.next = << >>, !.state = IF r.failed THEN "STOPPED" ELSE @,
                           !.status = IF r.failed THEN "ROLLOUT_STOPPED" ELSE "CANARY_PENDING"]
            [] ~halt /\ r.role = "canary" ->
                 Passed(t, [j EXCEPT !.status = CASE r.succeeded -> "CANARY_SUCCEEDED"
                                                  [] r.failed -> "CANARY_FAILED"
                                                  [] OTHER -> "CANARY_PENDING"])
            [] OTHER -> Passed(t, j)
      BY <2>1 DEF Judged
  <2>6. PICK q : q = r
      OBVIOUS
  <2> HIDE DEF r
  <2>7. CASE halt
    <3>1. PICK state, status : /\ state = IF r.failed THEN "STOPPED" ELSE j.state
                               /\ status = IF r.failed THEN "ROLLOUT_STOPPED" ELSE "CANARY_PENDING"
        OBVIOUS
    <3>2. state \in States /\ state # "COMPLETED" /\ status \in Statuses
        BY <2>3, <2>4, <3>1 DEF JobSet, States, Statuses
    <3>3. PICK x : x = [j EXCEPT !.next = << >>, !.state = state, !.status = status]
        OBVIOUS
    <3>4. Judged(t) = [j EXCEPT !.next = << >>, !.state = IF r.failed THEN "STOPPED" ELSE @,
                                !.status = IF r.failed THEN "ROLLOUT_STOPPED" ELSE "CANARY_PENDING"]
        BY <2>5, <2>7
    <3>5. Judged(t) = x
        BY <2>4, <3>1, <3>3, <3>4 DEF JobSet
    <3> QED BY <2>3, <3>2, <3>3, <3>5, Halts
  <2>8. CASE ~halt /\ r.role = "canary"
    <3>1. PICK status : status = CASE r.succeeded -> "CANARY_SUCCEEDED"
                                   [] r.failed -> "CANARY_FAILED"
                                   [] OTHER -> "CANARY_PENDING"
        OBVIOUS
    <3>2. Judged(t) = Passed(t, [j EXCEPT !.status = status])
        BY <2>5, <2>8, <3>1
    <3>3. status \in Statuses
        BY <3>1 DEF Statuses
    <3>4. PICK x : x = [j EXCEPT !.status = status]
        OBVIOUS
    <3>5. /\ x \in JobSet /\ x.pc = j.pc /\ x.plan = j.plan /\ x.next = j.next /\ x.results = j.results
          /\ x.state = j.state
        BY <2>4, <3>3, <3>4 DEF JobSet
    <3>6. Fits(ready, x) /\ x.pc = "run" /\ Gated(x) /\ x.state # "COMPLETED"
        BY <2>3, <3>5 DEF Fits, Behind, Gated, GateOpen
    <3> QED BY <3>2, <3>4, <3>6, PassedOK
  <2>9. CASE ~halt /\ r.role # "canary"
    <3>1. Judged(t) = Passed(t, j)
        BY <2>5, <2>9
    <3> QED BY <2>3, <3>1, PassedOK
  <2> QED BY <2>7, <2>8, <2>9
<1>6. JobsOK'
  <2>1. PICK x : x = Judged(t)
      OBVIOUS
  <2>2. job' = [job EXCEPT ![t] = x]
      BY <2>1 DEF Persist
  <2> QED BY <1>3, <1>5, <2>1, <2>2, JobsMove
<1> QED BY <1>3, <1>4, <1>6 DEF Inv

\* A finished thread that has COMPLETED has a success of every canary.
LEMMA Earned ==
    ASSUME NEW R, NEW j, JobOK(R, j), j.state = "COMPLETED", NEW c \in Range(j.plan.canaries)
    PROVE  <<j.plan.id, c>> \in R
<1>1. j \in JobSet /\ j.plan \in PlanSet /\ j.results \in Seq(ResultSet)
    BY DEF JobOK, Fits, JobSet
<1>2. /\ Len(j.plan.canaries) \in Nat /\ DOMAIN j.plan.canaries = 1..Len(j.plan.canaries)
      /\ \A i \in 1..Len(j.plan.canaries) : Order(j.plan)[i] = j.plan.canaries[i]
    BY <1>1, OrderFacts
<1>3. PICK i \in 1..Len(j.plan.canaries) : c = j.plan.canaries[i]
    BY <1>2 DEF Range
<1>4. /\ Len(j.results) \in Nat /\ DOMAIN j.results = 1..Len(j.results)
      /\ Len(j.results) >= Len(j.plan.canaries) /\ ~Pending(j.results) /\ ~Failed(j.results)
    BY <1>1 DEF JobOK, Complete
<1>5. i \in DOMAIN j.results
    BY <1>2, <1>3, <1>4
<1>6. j.results[i].worker = c
    BY <1>2, <1>3, <1>5 DEF JobOK, Fits
<1>7. j.results[i].role = "canary"
    BY <1>5, <1>6 DEF JobOK, Fits, Sound
<1>8. j.results[i].succeeded
    BY <1>4, <1>5, <1>7 DEF Pending, Failed
<1> QED BY <1>5, <1>6, <1>8 DEF JobOK, Fits, Sound

LEMMA FinishInv == ASSUME Inv, NEW t \in Threads, Finish(t) PROVE Inv'
<1>1. job[t].pc = "run"
    BY DEF Finish
<1>2. JobOK(ready, job[t]) /\ job[t] \in JobSet
    BY <1>1, Busy
<1>3. UNCHANGED <<ready, plans>> /\ job' = [job EXCEPT ![t] = Idle]
    BY DEF Finish
<1>4. PICK p : p = Snapshot(job[t], job[t].state)
    OBVIOUS
<1>5. p = [job[t].plan EXCEPT !.state = job[t].state, !.status = job[t].status, !.results = job[t].results]
    BY <1>4 DEF Snapshot
<1>6. /\ p \in PlanSet /\ p.state = job[t].state /\ p.results = job[t].results
      /\ p.id = job[t].plan.id /\ p.canaries = job[t].plan.canaries
    BY <1>2, <1>5 DEF JobSet, PlanSet
<1>7. Sound(ready, p, p.results)
    BY <1>2, <1>6 DEF JobOK, Fits, Sound
<1>8. record' = p
    BY <1>4 DEF Finish
<1>9. RecordOK'
    BY <1>3, <1>6, <1>7, <1>8 DEF RecordOK, PlanOK
<1>10. CompletedIsEarned'
    BY <1>2, <1>3, <1>6, <1>8, Earned DEF CompletedIsEarned
<1>11. JobsOK'
    BY <1>3, JobsMove
<1> QED BY <1>3, <1>9, <1>10, <1>11 DEF Inv

LEMMA RestartInv == ASSUME Inv, Restart PROVE Inv'
<1>1. UNCHANGED <<record, ready, plans>> /\ job' = [t \in Threads |-> Idle]
    BY DEF Restart
<1>2. JobsOK'
    BY <1>1 DEF JobsOK
<1> QED BY <1>1, <1>2, RecordSame DEF Inv

\* What the actions are given: a fleet or the first worker of it.
LEMMA WorkersAsked ==
    \A workers \in {Fleet, SubSeq(Fleet, 1, 1)} : workers \in Seq(Workers)
<1>1. Fleet \in Seq(Workers) /\ Fleet # << >>
    BY RolloutAssumption DEF Workers
<1>2. Len(Fleet) \in Nat /\ 1 <= Len(Fleet) /\ \A i \in 1..1 : Fleet[i] \in Workers
    BY <1>1
<1>3. SubSeq(Fleet, 1, 1) \in Seq(Workers)
    BY <1>2, SubSeqProperties
<1> QED BY <1>1, <1>3

LEMMA InvStep == Inv /\ [Next]_vars => Inv'
<1> SUFFICES ASSUME Inv, [Next]_vars PROVE Inv'
    OBVIOUS
<1>1. ASSUME NEW t \in Threads, NEW apply \in BOOLEAN, NEW resume \in BOOLEAN, NEW stop \in BOOLEAN,
             NEW n \in 1..2, NEW workers \in {Fleet, SubSeq(Fleet, 1, 1)},
             Request(t, apply, resume, workers, n, stop)
      PROVE  Inv'
  <2>1. n \in Nat /\ n > 0
      OBVIOUS
  <2>2. workers \in Seq(Workers)
      BY WorkersAsked, Zenon
  <2> QED BY <1>1, <2>1, <2>2, RequestInv
<1>2. ASSUME NEW t \in Threads, NEW o \in Outcomes, Reconcile(t, o) PROVE Inv'
    BY <1>2, ReconcileInv
<1>3. ASSUME NEW t \in Threads, Carry(t) \/ ReconcileRaises(t) \/ Persist(t) \/ Finish(t) PROVE Inv'
    BY <1>3, CarryInv, RaisesInv, PersistInv, FinishInv
<1>4. CASE UNCHANGED vars
  <2>1. JobsOK'
      BY <1>4 DEF Inv, JobsOK, vars
  <2> QED BY <1>4, <2>1, RecordSame DEF Inv, vars
<1> QED BY <1>1, <1>2, <1>3, <1>4, RestartInv DEF Next

LEMMA InvAlways == Spec => []Inv
BY InitInv, InvStep, PTL DEF Spec

\* Whatever requests take a rollout up again, whichever thread finishes it and
\* wherever the controller ended: a rollout recorded COMPLETED has had every
\* canary READY after its reconcile (rollout.py, execute_rollout).
THEOREM CompletedEarned == Spec => []CompletedIsEarned
<1>1. Inv => CompletedIsEarned
    BY DEF Inv
<1> QED BY <1>1, InvAlways, PTL
-----------------------------------------------------------------------------
(* Canaries first.                                                           *)

LEMMA PassedRuns == ASSUME NEW t, NEW j \in JobSet PROVE Passed(t, j).pc = j.pc
<1>1. CanariesDone(j) \in JobSet /\ CanariesDone(j).pc = j.pc
  <2>1. CASE Pending(j.results)
    <3>1. CanariesDone(j) = [j EXCEPT !.status = "CANARY_PENDING", !.next = << >>]
        BY <2>1 DEF CanariesDone
    <3> QED BY <3>1, EmptySeq, ZenonT(60) DEF JobSet, Statuses
  <2>2. CASE ~Pending(j.results) /\ Failed(j.results) /\ j.plan.stop
    <3>1. CanariesDone(j) = [j EXCEPT !.status = "ROLLOUT_STOPPED", !.state = "STOPPED", !.next = << >>]
        BY <2>2 DEF CanariesDone
    <3> QED BY <3>1, EmptySeq, ZenonT(60) DEF JobSet, Statuses, States
  <2>3. CASE ~Pending(j.results) /\ ~(Failed(j.results) /\ j.plan.stop)
    <3>1. CanariesDone(j) = [j EXCEPT !.status = IF Failed(j.results) THEN "CANARY_FAILED" ELSE "ROLLOUT_CONTINUING"]
        BY <2>3 DEF CanariesDone
    <3> QED BY <3>1 DEF JobSet, Statuses
  <2> QED BY <2>1, <2>2, <2>3
<1>2. \A g \in JobSet : RemainderDone(g).pc = g.pc
    BY DEF RemainderDone, JobSet
<1> QED BY <1>1, <1>2 DEF Passed

\* Only a reconcile takes a thread from running to persisting.
LEMMA OnlyReconcile ==
    ASSUME Inv, Next, NEW t \in Threads, Reconciles(t)
    PROVE  Running(t)
<1>0. job \in [Threads -> {Idle} \cup JobSet] /\ job[t].pc = "run" /\ job'[t].pc = "persist"
    BY DEF Inv, JobsOK, Reconciles
<1>i. Idle.pc = "idle"
    BY DEF Idle
<1>1. ASSUME NEW u \in Threads, NEW apply, NEW resume, NEW stop, NEW n, NEW workers,
             Request(u, apply, resume, workers, n, stop)
      PROVE  FALSE
  <2>1. job[u].pc = "idle" /\ (job' = job \/ \E x : job' = [job EXCEPT ![u] = x])
      BY <1>1, Zenon DEF Request
  <2>2. u # t
      BY <1>0, <2>1
  <2> QED BY <1>0, <2>1, <2>2
<1>2. ASSUME NEW u \in Threads, NEW o, Reconcile(u, o) PROVE Running(t)
  <2>1. CASE u = t
      BY <1>2, <2>1 DEF Reconcile
  <2>2. CASE u # t
    <3>1. job'[t] = job[t]
        BY <1>0, <1>2, <2>2 DEF Reconcile
    <3> QED BY <1>0, <3>1
  <2> QED BY <2>1, <2>2
<1>3. ASSUME NEW u \in Threads, Carry(u) PROVE FALSE
  <2>1. PICK j : job' = [job EXCEPT ![u] = Passed(u, j)] /\ j \in JobSet /\ j.pc = "run"
      BY <1>3, CarriedJob
  <2>2. Passed(u, j).pc = "run"
      BY <2>1, PassedRuns
  <2> QED BY <1>0, <2>1, <2>2
<1>4. ASSUME NEW u \in Threads, ReconcileRaises(u) \/ Finish(u) PROVE FALSE
    BY <1>0, <1>i, <1>4 DEF ReconcileRaises, Finish
<1>5. ASSUME NEW u \in Threads, Persist(u) PROVE FALSE
  <2>1. job[u].pc = "persist" /\ \E x : job' = [job EXCEPT ![u] = x]
      BY <1>5, Zenon DEF Persist
  <2> QED BY <1>0, <2>1
<1>6. ~Restart
    BY <1>0, <1>i DEF Restart
<1> QED BY <1>1, <1>2, <1>3, <1>4, <1>5, <1>6 DEF Next

\* A running thread that comes to a worker of the remainder has passed the gate.
LEMMA GateBehind ==
    ASSUME Inv, NEW t \in Threads, Running(t), Role(t) = "remainder", NEW c \in Range(job[t].plan.canaries)
    PROVE  \/ <<job[t].plan.id, c>> \in ready
           \/ /\ ~job[t].plan.stop
              /\ \E i \in DOMAIN job[t].results : job[t].results[i].worker = c /\ job[t].results[i].failed
<1>1. PICK j : j = job[t]
    OBVIOUS
<1>2. /\ JobOK(ready, j) /\ j \in JobSet /\ Head(j.next) \notin Range(j.plan.canaries)
      /\ j.pc = "run" /\ j.next # << >>
    BY <1>1, WorkerFacts DEF Running
<1>3. j.plan \in PlanSet /\ j.results \in Seq(ResultSet) /\ j.next \in Seq(Workers)
    BY <1>2 DEF JobSet
<1>4. /\ Len(j.plan.canaries) \in Nat /\ DOMAIN j.plan.canaries = 1..Len(j.plan.canaries)
      /\ \A i \in 1..Len(j.plan.canaries) : Order(j.plan)[i] = j.plan.canaries[i]
    BY <1>3, OrderFacts
<1>5. Len(j.results) \in Nat /\ 1 \in DOMAIN j.next /\ Head(j.next) = j.next[1]
    BY <1>2, <1>3
<1>6. Len(j.results) >= Len(j.plan.canaries)
  <2> SUFFICES ASSUME ~(Len(j.results) >= Len(j.plan.canaries)) PROVE FALSE
      OBVIOUS
  <2>1. Len(j.results) + 1 \in 1..Len(j.plan.canaries)
      BY <1>4, <1>5
  <2>2. j.next[1] = Order(j.plan)[Len(j.results) + 1]
      BY <1>2, <1>5 DEF JobOK, Fits, Behind
  <2>3. Head(j.next) = j.plan.canaries[Len(j.results) + 1]
      BY <1>4, <1>5, <2>1, <2>2
  <2> QED BY <1>2, <1>4, <2>1, <2>3 DEF Range
<1>7. GateOpen(j)
    BY <1>2, <1>6 DEF JobOK, Open
<1>8. PICK i \in 1..Len(j.plan.canaries) : c = j.plan.canaries[i]
    BY <1>1, <1>4 DEF Range
<1>9. i \in DOMAIN j.results /\ (j.results[i].succeeded \/ (j.results[i].failed /\ ~j.plan.stop))
    BY <1>7, <1>8 DEF GateOpen
<1>10. j.results[i].worker = c
    BY <1>2, <1>4, <1>8, <1>9 DEF JobOK, Fits
<1>11. j.results[i].succeeded => <<j.plan.id, c>> \in ready
    BY <1>2, <1>9, <1>10 DEF JobOK, Fits, Sound
<1> QED BY <1>1, <1>9, <1>10, <1>11

\* No worker of the remainder is reconciled before every canary of that
\* rollout came back READY, or failed where failures do not stop it, for any
\* fleet, any requests that overlap and any ends of the controller
\* (rollout.py, execute_rollout).
THEOREM CanariesGoFirst == Spec => CanariesFirst
<1> DEFINE A == \A t \in Threads :
                  Reconciles(t) /\ Role(t) = "remainder" =>
                      \A c \in Range(job[t].plan.canaries) :
                         \/ <<job[t].plan.id, c>> \in ready
                         \/ /\ ~job[t].plan.stop
                            /\ \E i \in DOMAIN job[t].results :
                                  job[t].results[i].worker = c /\ job[t].results[i].failed
<1>1. Inv /\ [Next]_vars => [A]_vars
  <2> SUFFICES ASSUME Inv, Next PROVE A
      OBVIOUS
  <2> QED BY OnlyReconcile, GateBehind
<1>2. Spec => [][A]_vars
  <2> HIDE DEF A
  <2> QED BY <1>1, InvAlways, PTL DEF Spec
<1> QED BY <1>2 DEF CanariesFirst

-----------------------------------------------------------------------------
(***************************************************************************)
(* The package on a worker's disk (Artifacts).  Nothing is assumed of the   *)
(* builds, their versions and sizes, the chunks or the bounds.              *)
(***************************************************************************)
CONSTANTS Builds, Factory, Versions, VersionOf, SizeOf, Torn, ChunkCount, Transfers,
          MaxUpdates, MaxFaults
VARIABLES stage, previous, request, session, expired, inbox, task, installed, running,
          receipt, operator, faults

A == INSTANCE Artifacts WITH job <- task

TaskFields == {"pc", "op", "build", "honest", "transfer", "named", "current", "cover",
               "capability", "prior"}
DirFields == {"desc", "files", "torn", "copy"}
IsTask(j) == j = [f \in TaskFields |-> j[f]]
IsDir(d) == d = [f \in DirFields |-> d[f]]

\* What each stage of an installation is done for.
RightOp(j) ==
    /\ j.pc \in {"retain", "retain_desc"} => j.op \in {"stage", "apply"}
    /\ j.pc \in {"previous", "request"} => j.op = "apply"
    /\ j.pc \in {"copy", "verify", "install"} => j.op \in {"apply", "rollback"}

\* The build that an apply was asked for is still the one that is described in
\* the stage directory, and the one of a rollback that in previous/, if any is.
StillNamed(j, s, p) ==
    /\ j.op = "apply" /\ j.pc \in {"previous", "retain", "retain_desc", "request", "copy", "verify", "install"}
          => j.named = s
    /\ j.op = "rollback" /\ j.pc \in {"copy", "verify", "install"} => p \in {None, j.named}

\* The file that pip will read is the one that was verified.
Checked == task.pc = "install" /\ task.cover = "beside" => A!Content = task.named

DiskInv ==
    /\ IsTask(task) /\ IsDir(stage) /\ IsDir(previous)
    /\ RightOp(task) /\ StillNamed(task, stage.desc, previous.desc)
    /\ Checked
    /\ A!VerifiedIsInstalled

LEMMA NoTask ==
    /\ IsTask(A!NoJob) /\ RightOp(A!NoJob) /\ A!NoJob.pc = "idle"
    /\ \A s, p : StillNamed(A!NoJob, s, p)
BY DEF IsTask, TaskFields, RightOp, StillNamed, A!NoJob

\* A step that goes on with the task, or leaves it, and changes neither the
\* directories nor the receipt.
LEMMA DiskUntouched ==
    ASSUME DiskInv, UNCHANGED <<stage, previous, receipt>>, task' = task \/ task' = A!NoJob
    PROVE  DiskInv'
<1>1. IsTask(task') /\ IsDir(stage') /\ IsDir(previous') /\ RightOp(task')
    BY NoTask DEF DiskInv
<1>2. StillNamed(task', stage'.desc, previous'.desc)
    BY NoTask DEF DiskInv
<1>3. Checked'
    BY NoTask DEF DiskInv, Checked, A!Content, A!Dir, A!Named
<1>4. A!VerifiedIsInstalled'
    BY DEF DiskInv, A!VerifiedIsInstalled
<1> QED BY <1>1, <1>2, <1>3, <1>4 DEF DiskInv

\* A step that ends the task and may change the directories.
LEMMA TaskEnds ==
    ASSUME DiskInv, task' = A!NoJob, IsDir(stage'), IsDir(previous'), A!VerifiedIsInstalled'
    PROVE  DiskInv'
BY NoTask DEF DiskInv, Checked

\* A step that goes on with the task and is not that of the verification.
LEMMA TaskGoesOn ==
    ASSUME DiskInv, IsDir(stage'), IsDir(previous'), receipt' = receipt,
           IsTask(task'), RightOp(task'), StillNamed(task', stage'.desc, previous'.desc),
           task'.pc # "install"
    PROVE  DiskInv'
BY DEF DiskInv, Checked, A!VerifiedIsInstalled

\* The task an apply starts with names the build that is described.
LEMMA ApplyStarts ==
    ASSUME NEW v
    PROVE  /\ IsTask(A!Applied(v)) /\ RightOp(A!Applied(v)) /\ A!Applied(v).pc # "install"
           /\ \A p : StillNamed(A!Applied(v), stage.desc, p)
<1> DEFINE source == A!ResolveSource(v)
           started == [A!NoJob EXCEPT !.pc = "previous", !.op = "apply", !.build = source, !.named = stage.desc]
           answered(b) == [A!NoJob EXCEPT !.pc = "answer", !.op = "apply", !.current = b]
<1>1. IsTask(started) /\ started.pc = "previous" /\ started.op = "apply" /\ started.named = stage.desc
    BY DEF IsTask, TaskFields, A!NoJob
<1>2. ASSUME NEW b PROVE IsTask(answered(b)) /\ answered(b).pc = "answer"
    BY DEF IsTask, TaskFields, A!NoJob
<1>3. A!Applied(v) = started \/ \E b \in BOOLEAN : A!Applied(v) = answered(b)
    BY Zenon DEF A!Applied
<1> HIDE DEF started, answered
<1>4. CASE A!Applied(v) = started
    BY <1>1, <1>4 DEF RightOp, StillNamed
<1>5. ASSUME NEW b \in BOOLEAN, A!Applied(v) = answered(b)
      PROVE  /\ IsTask(A!Applied(v)) /\ RightOp(A!Applied(v)) /\ A!Applied(v).pc # "install"
             /\ \A p : StillNamed(A!Applied(v), stage.desc, p)
    BY <1>2, <1>5 DEF RightOp, StillNamed
<1> QED BY <1>3, <1>4, <1>5

LEMMA ReceivePreserves ==
    ASSUME DiskInv, NEW r \in inbox, A!Receive(r)
    PROVE  DiskInv'
<1>1. CASE A!Refuse(r) \/ A!Offer(r) \/ A!Chunk(r)
    BY <1>1, DiskUntouched DEF A!Refuse, A!Offer, A!Chunk, A!Handled, A!disk, A!python
<1>2. CASE A!Commit(r) /\ task' = task
    BY <1>2, DiskUntouched DEF A!Commit, A!Handled, A!disk, A!python
<1>3. CASE A!Commit(r) /\ task' # task
  <2>1. UNCHANGED <<stage, previous, receipt>>
      BY <1>3 DEF A!Commit, A!Handled, A!disk, A!python
  <2>2. task' = [A!NoJob EXCEPT !.pc = IF stage.desc = None THEN "stage" ELSE "retain",
                                !.op = "stage", !.build = session.build,
                                !.honest = session.honest, !.transfer = r.transfer]
      BY <1>3 DEF A!Commit, A!Handled
  <2>3. IsTask(task') /\ task'.op = "stage" /\ task'.pc \in {"stage", "retain"}
      BY <2>2 DEF IsTask, TaskFields, A!NoJob
  <2>4. RightOp(task') /\ StillNamed(task', stage'.desc, previous'.desc) /\ task'.pc # "install"
      BY <2>3 DEF RightOp, StillNamed
  <2> QED BY <2>1, <2>3, <2>4, TaskGoesOn DEF DiskInv
<1> QED BY <1>1, <1>2, <1>3 DEF A!Receive

LEMMA RetainPreserves ==
    ASSUME DiskInv, A!Retain \/ A!RetainDescriptor
    PROVE  DiskInv'
<1>1. IsDir(stage') /\ stage' = stage /\ IsDir(previous') /\ receipt' = receipt
    BY DEF DiskInv, IsDir, DirFields, A!Retain, A!RetainDescriptor, A!Continue, A!python
<1>2. task.op \in {"stage", "apply"} /\ task.pc \in {"retain", "retain_desc"} /\ IsTask(task)
    BY DEF DiskInv, RightOp, A!Retain, A!RetainDescriptor
<1>3. A!After(task.op) = IF task.op = "stage" THEN "stage" ELSE "request"
    BY <1>2 DEF A!After
<1>4. /\ IsTask(task') /\ task'.op = task.op /\ task'.named = task.named
      /\ task'.pc = "retain_desc" \/ task'.pc = A!After(task.op)
  <2>1. CASE task' = [task EXCEPT !.pc = "retain_desc"]
      BY <1>2, <2>1 DEF IsTask, TaskFields
  <2>2. CASE task' = [task EXCEPT !.pc = A!After(task.op), !.capability = "partial"]
      BY <1>2, <2>2 DEF IsTask, TaskFields
  <2>3. CASE task' = [task EXCEPT !.pc = A!After(task.op), !.capability = "exact", !.prior = stage.desc]
      BY <1>2, <2>3 DEF IsTask, TaskFields
  <2> QED BY <2>1, <2>2, <2>3 DEF A!Retain, A!RetainDescriptor, A!Continue
<1>5. RightOp(task') /\ task'.pc # "install"
    BY <1>2, <1>3, <1>4 DEF RightOp
<1>6. StillNamed(task', stage'.desc, previous'.desc)
    BY <1>1, <1>2, <1>3, <1>4 DEF DiskInv, StillNamed
<1> QED BY <1>1, <1>4, <1>5, <1>6, TaskGoesOn

LEMMA StagePreserves ==
    ASSUME DiskInv, A!Stage \/ A!StageDescriptor
    PROVE  DiskInv'
<1>1. IsDir(stage') /\ previous' = previous /\ IsDir(previous') /\ receipt' = receipt
    BY DEF DiskInv, IsDir, DirFields, A!Stage, A!StageDescriptor, A!StagingEnds, A!Continue, A!python
<1>2. CASE task' = A!NoJob
  <2>1. A!VerifiedIsInstalled'
      BY <1>1 DEF DiskInv, A!VerifiedIsInstalled
  <2> QED BY <1>1, <1>2, <2>1, TaskEnds
<1>3. CASE task' = [task EXCEPT !.pc = "describe"]
  <2>1. IsTask(task') /\ task'.pc = "describe"
      BY <1>3 DEF DiskInv, IsTask, TaskFields
  <2>2. RightOp(task') /\ StillNamed(task', stage'.desc, previous'.desc)
      BY <2>1 DEF RightOp, StillNamed
  <2> QED BY <1>1, <2>1, <2>2, TaskGoesOn
<1> QED BY <1>2, <1>3 DEF A!Stage, A!StageDescriptor, A!StagingEnds, A!Continue

LEMMA ApplyPreserves ==
    ASSUME DiskInv, A!Apply \/ \E v \in Versions : A!ApplyOutOfTurn(v)
    PROVE  DiskInv'
<1>1. PICK v : task' = A!Applied(v)
    BY DEF A!Apply, A!ApplyOutOfTurn
<1>2. UNCHANGED <<stage, previous, receipt>>
    BY DEF A!Apply, A!ApplyOutOfTurn, A!disk, A!python
<1> QED BY <1>1, <1>2, ApplyStarts, TaskGoesOn DEF DiskInv

LEMMA ReadPreviousPreserves ==
    ASSUME DiskInv, A!ReadPrevious
    PROVE  DiskInv'
<1>1. UNCHANGED <<stage, previous, receipt>>
    BY DEF A!ReadPrevious, A!Continue, A!disk, A!python
<1>2. IsTask(task) /\ task.pc = "previous" /\ task.op = "apply" /\ task.named = stage.desc
    BY DEF DiskInv, RightOp, StillNamed, A!ReadPrevious
<1>3. /\ IsTask(task') /\ task'.op = "apply" /\ task'.named = stage.desc
      /\ task'.pc \in {"retain", "request"}
  <2>1. CASE task' = [task EXCEPT !.pc = "retain"]
      BY <1>2, <2>1 DEF IsTask, TaskFields
  <2>2. ASSUME NEW c, NEW p, task' = [task EXCEPT !.pc = "request", !.capability = c, !.prior = p]
        PROVE  /\ IsTask(task') /\ task'.op = "apply" /\ task'.named = stage.desc
               /\ task'.pc \in {"retain", "request"}
      BY <1>2, <2>2 DEF IsTask, TaskFields
  <2> QED BY <2>1, <2>2, Zenon DEF A!ReadPrevious, A!Continue
<1>4. RightOp(task') /\ StillNamed(task', stage'.desc, previous'.desc) /\ task'.pc # "install"
    BY <1>1, <1>3 DEF RightOp, StillNamed
<1> QED BY <1>1, <1>3, <1>4, TaskGoesOn DEF DiskInv

LEMMA CopyPreserves ==
    ASSUME DiskInv, A!WriteRequest \/ A!Copy
    PROVE  DiskInv'
<1>1. /\ IsDir(stage') /\ IsDir(previous') /\ receipt' = receipt
      /\ stage'.desc = stage.desc /\ previous'.desc = previous.desc
    BY DEF DiskInv, IsDir, DirFields, A!WriteRequest, A!Copy, A!Installable, A!Continue, A!python
<1>2. \/ task' = [task EXCEPT !.pc = "copy"] /\ task.pc = "request"
      \/ task' = [task EXCEPT !.pc = "verify"] /\ task.pc = "copy"
    BY DEF A!WriteRequest, A!Copy, A!Continue
<1>3. /\ IsTask(task') /\ task'.op = task.op /\ task'.named = task.named
      /\ \/ task'.pc = "copy" /\ task.pc = "request"
         \/ task'.pc = "verify" /\ task.pc = "copy"
    BY <1>2 DEF DiskInv, IsTask, TaskFields
<1>4. RightOp(task') /\ task'.pc # "install"
    BY <1>3 DEF DiskInv, RightOp
<1>5. StillNamed(task', stage'.desc, previous'.desc)
    BY <1>1, <1>3 DEF DiskInv, RightOp, StillNamed
<1> QED BY <1>1, <1>3, <1>4, <1>5, TaskGoesOn

\* The descriptor beside the file is that of the build that was asked for.
LEMMA VerifyPreserves ==
    ASSUME DiskInv, A!Verify
    PROVE  DiskInv'
<1>1. UNCHANGED <<stage, previous, receipt>>
    BY DEF A!Verify, A!Ends, A!Continue, A!disk, A!python
<1>2. IsTask(task) /\ task.pc = "verify" /\ task.op \in {"apply", "rollback"}
    BY DEF DiskInv, RightOp, A!Verify
<1>3. CASE task' = A!NoJob
    BY <1>1, <1>3, DiskUntouched
<1>4. CASE /\ task' = [task EXCEPT !.pc = "install", !.cover = A!DescriptorDir]
           /\ A!Covering = None \/ A!Matches(A!Content, A!Covering)
  <2>1. /\ IsTask(task') /\ task'.pc = "install" /\ task'.cover = A!DescriptorDir
        /\ task'.op = task.op /\ task'.named = task.named /\ task'.build = task.build
      BY <1>2, <1>4 DEF IsTask, TaskFields
  <2>2. RightOp(task') /\ StillNamed(task', stage'.desc, previous'.desc)
      BY <1>1, <1>2, <2>1 DEF DiskInv, RightOp, StillNamed
  <2>3. A!Dir' = A!Dir /\ A!Content' = A!Content
      BY <1>1, <2>1 DEF A!Content, A!Dir, A!Named
  <2>4. A!Dir.desc \in {None, task.named}
      BY <1>2 DEF DiskInv, StillNamed, A!Dir
  <2>5. Checked'
      BY <1>4, <2>1, <2>3, <2>4 DEF Checked, A!DescriptorDir, A!Covering, A!Matches
  <2>6. A!VerifiedIsInstalled'
      BY <1>1 DEF DiskInv, A!VerifiedIsInstalled
  <2> QED BY <1>1, <2>1, <2>2, <2>5, <2>6 DEF DiskInv
<1> QED BY <1>3, <1>4 DEF A!Verify, A!Ends, A!Continue
LEMMA InstallPreserves ==
    ASSUME DiskInv, A!Install
    PROVE  DiskInv'
<1>1. task' = A!NoJob /\ UNCHANGED <<stage, previous>>
    BY DEF A!Install, A!Ends, A!disk
<1>2. A!VerifiedIsInstalled'
  <2>1. CASE receipt' = receipt
      BY <2>1 DEF DiskInv, A!VerifiedIsInstalled
  <2>2. CASE receipt' # receipt
    <3>1. receipt' = [op |-> task.op, named |-> task.named, cover |-> task.cover,
                      capability |-> task.capability, prior |-> task.prior,
                      before |-> installed, got |-> A!Content]
        BY <2>2 DEF A!Install, A!python
    <3>2. receipt'.cover = task.cover /\ receipt'.got = A!Content /\ receipt'.named = task.named
        BY <3>1
    <3>3. task.cover = "beside" => A!Content = task.named
        BY DEF DiskInv, Checked, A!Install
    <3> QED BY <3>2, <3>3 DEF A!VerifiedIsInstalled
  <2> QED BY <2>1, <2>2
<1> QED BY <1>1, <1>2, TaskEnds DEF DiskInv

LEMMA RollbackPreserves ==
    ASSUME DiskInv, A!Rollback
    PROVE  DiskInv'
<1>1. UNCHANGED <<stage, previous, receipt>>
    BY DEF A!Rollback, A!disk, A!python
<1>2. task' = [A!NoJob EXCEPT !.pc = "copy", !.op = "rollback", !.build = receipt.prior,
                              !.named = receipt.prior]
    BY DEF A!Rollback
<1>3. IsTask(task') /\ task'.pc = "copy" /\ task'.op = "rollback" /\ task'.named = receipt.prior
    BY <1>2 DEF IsTask, TaskFields, A!NoJob
<1>4. previous.desc \in {None, receipt.prior}
    BY DEF A!Rollback, A!Matches
<1>5. RightOp(task') /\ StillNamed(task', stage'.desc, previous'.desc) /\ task'.pc # "install"
    BY <1>1, <1>3, <1>4 DEF RightOp, StillNamed
<1> QED BY <1>1, <1>3, <1>5, TaskGoesOn DEF DiskInv

LEMMA StopPreserves ==
    ASSUME DiskInv, A!Crash
    PROVE  DiskInv'
<1>1. task' = A!NoJob /\ receipt' = receipt
    BY DEF A!Crash
<1>2. IsDir(stage') /\ IsDir(previous')
    BY DEF DiskInv, A!Crash, A!Interrupted, A!Installable, A!disk, IsDir, DirFields
<1>3. A!VerifiedIsInstalled'
    BY <1>1 DEF DiskInv, A!VerifiedIsInstalled
<1> QED BY <1>1, <1>2, <1>3, TaskEnds

LEMMA DiskStep ==
    ASSUME DiskInv, [A!Next]_A!vars
    PROVE  DiskInv'
<1>1. CASE \/ A!Describe \/ A!Send \/ A!GiveUp
           \/ \E t \in Transfers : A!Abandoned(t) \/ A!TooSlow(t)
           \/ \E b \in Builds : A!NewGoal(b)
    BY <1>1, DiskUntouched
       DEF A!Describe, A!Send, A!GiveUp, A!Abandoned, A!TooSlow, A!Expire, A!NewGoal, A!disk, A!python
<1>2. CASE A!Answer
    BY <1>2, DiskUntouched DEF A!Answer, A!disk, A!python
<1>3. CASE A!WorkerStep
    BY <1>2, <1>3, ReceivePreserves, RetainPreserves, StagePreserves, ReadPreviousPreserves,
       CopyPreserves, VerifyPreserves, InstallPreserves DEF A!WorkerStep
<1>4. CASE UNCHANGED A!vars
    BY <1>4, DiskUntouched DEF A!vars, A!disk, A!python
<1> QED BY <1>1, <1>3, <1>4, ApplyPreserves, RollbackPreserves, StopPreserves DEF A!Next

\* Whatever has been staged, torn, kept or retained before, an apply that is
\* answered VERIFIED has installed the build that was described when it began,
\* and a rollback that its own descriptor verified the one it was asked for
\* (supervisor.py, _verify_apply_provenance): for any builds, of any versions
\* and sizes, and any number of updates and faults.
THEOREM VerifiedInstalls == A!Spec => []A!VerifiedIsInstalled
<1>1. A!Init => DiskInv
  <2> SUFFICES ASSUME A!Init PROVE DiskInv
      OBVIOUS
  <2>1. task = A!NoJob /\ IsDir(stage) /\ IsDir(previous) /\ receipt = None
      BY DEF A!Init, A!Empty, IsDir, DirFields
  <2> QED BY <2>1, NoTask DEF DiskInv, Checked, A!VerifiedIsInstalled
<1>2. DiskInv /\ [A!Next]_A!vars => DiskInv'
    BY DiskStep
<1>3. DiskInv => A!VerifiedIsInstalled
    BY DEF DiskInv
<1> QED BY <1>1, <1>2, <1>3, PTL DEF A!Spec

-----------------------------------------------------------------------------
(***************************************************************************)
(* The bundle cache (Bundles), for any archives and bundles, any number of  *)
(* handlers, any sizes and any bounds.                                      *)
(***************************************************************************)
CONSTANTS Archives, BundleNames, Handlers, Cli, Chunks, ArchiveBytes, ContentBytes,
          MetadataBytes, MaxCacheBytes, MaxInProgress, MaxBundleFaults
VARIABLES service, logical, staging, published, temporary, lock, thread, client, bundleFaults

B == INSTANCE Bundles WITH Bundles <- BundleNames, Threads <- Handlers, ChunkCount <- Chunks,
                           MaxFaults <- MaxBundleFaults, faults <- bundleFaults

HandlerFields == {"pc", "archive", "seq", "status", "part", "plan", "goal", "freed"}
IsHandler(j) == j = [f \in HandlerFields |-> j[f]]
IsClient(c) == c = [f \in {"pc", "seq", "wait"} |-> c[f]] /\ c.pc \in {"begin", "chunk", "commit", "done"}

\* A published directory; in the service it holds the archive as offered.
EntryFields == {"bundle", "archive", "part", "whole", "metadata"}
Genuine(e) == e = [f \in EntryFields |-> e[f]] /\ (service => e.part = B!Exact)
IsCache(s) == \E S : s \in Seq(S) /\ \A e \in S : Genuine(e)

BundleTypes ==
    /\ thread = [t \in Handlers \cup {Cli} |-> thread[t]]
    /\ \A t \in Handlers \cup {Cli} : IsHandler(thread[t])
    /\ client = [a \in Archives |-> client[a]] /\ \A a \in Archives : IsClient(client[a])
    /\ temporary \in Int

\* Where a handler of the service holds _consumer_bundle_lock, and where it has
\* found the staged archive complete.
Locked == {"begin_state", "chunk_append", "chunk_state", "room", "gc", "evict", "publish",
           "replace", "cleanup", "cleaned"}
Making == {"room", "gc", "evict", "publish"}

\* Only the holder of the lock is within a handler of the service: what it has
\* verified is still staged when it is published, and then what it copied.
Guarded(j, t, holder, dirs) ==
    /\ j.pc \in Locked => holder = t
    /\ j.pc \in Making => dirs[j.archive] # None /\ dirs[j.archive].part = B!Exact
    /\ j.pc = "replace" => j.part = B!Exact

\* Every handler that is about to publish may add one entry to the cache.
Size == Len(published) + temporary
Publishing(threads) == {t \in Handlers : threads[t].pc = "publish"}
Bounded(n, threads) ==
    (n + Cardinality(Publishing(threads))) * B!EntryBytes + ArchiveBytes
        <= MaxCacheBytes + B!Publishers * B!EntryBytes

BundleInv ==
    /\ BundleTypes
    /\ IsCache(published)
    /\ service => \A t \in Handlers : Guarded(thread[t], t, lock, staging)
    /\ Bounded(Size, thread)

LEMMA Times ==
    ASSUME NEW k \in Nat, NEW m \in Int, NEW n \in Int
    PROVE  /\ m <= n => m * k <= n * k
           /\ (m + 1) * k = m * k + k
           /\ m * k \in Int
OBVIOUS

\* The cardinalities that Bundles speaks of are those of FiniteSets.
LEMMA SameSets ==
    ASSUME NEW S
    PROVE  B!IsFiniteSet(S) = IsFiniteSet(S) /\ B!Cardinality(S) = Cardinality(S)
BY Zenon DEF B!IsFiniteSet, IsFiniteSet, B!Cardinality, Cardinality

LEMMA EntryBytesFact ==
    ASSUME B!BundleAssumption
    PROVE  /\ B!EntryBytes \in Nat /\ ArchiveBytes \in Nat /\ MaxCacheBytes \in Nat
           /\ ArchiveBytes <= B!EntryBytes
           /\ None \notin Handlers /\ Cli \notin Handlers
           /\ IsFiniteSet(Handlers) /\ Cardinality(Handlers) \in Nat
           /\ B!Publishers \in Nat /\ B!Publishers >= 1
<1>1. IsFiniteSet(Handlers) /\ Handlers # {} /\ None \notin Handlers /\ Cli \notin Handlers
    BY SameSets DEF B!BundleAssumption
<1>2. Cardinality(Handlers) \in Nat /\ Cardinality(Handlers) # 0
    BY <1>1, FS_CardinalityType, FS_EmptySet
<1>3. /\ B!EntryBytes \in Nat /\ ArchiveBytes \in Nat /\ MaxCacheBytes \in Nat
      /\ ArchiveBytes <= B!EntryBytes
    BY DEF B!BundleAssumption, B!EntryBytes
<1>4. B!Publishers = IF service THEN 1 ELSE Cardinality(Handlers)
    BY SameSets DEF B!Publishers
<1> QED BY <1>1, <1>2, <1>3, <1>4

LEMMA CacheFacts ==
    ASSUME NEW s, IsCache(s)
    PROVE  /\ Len(s) \in Nat /\ DOMAIN s = 1..Len(s)
           /\ \A i \in DOMAIN s : Genuine(s[i])
BY DEF IsCache

LEMMA CacheAppend ==
    ASSUME NEW s, IsCache(s), NEW e, Genuine(e)
    PROVE  IsCache(Append(s, e)) /\ Len(Append(s, e)) = Len(s) + 1
<1>1. PICK S : s \in Seq(S) /\ \A d \in S : Genuine(d)
    BY DEF IsCache
<1>2. s \in Seq(S \cup {e}) /\ Append(s, e) \in Seq(S \cup {e}) /\ \A d \in S \cup {e} : Genuine(d)
    BY <1>1
<1> QED BY <1>1, <1>2 DEF IsCache

\* Removing a directory makes the cache no larger.
LEMMA WithoutFacts ==
    ASSUME NEW b, IsCache(published)
    PROVE  IsCache(B!Without(b)) /\ Len(B!Without(b)) <= Len(published)
<1>1. PICK S : published \in Seq(S) /\ \A d \in S : Genuine(d)
    BY DEF IsCache
<1>2. CASE B!Entries(b) = {}
    BY <1>1, <1>2 DEF B!Without, IsCache
<1>3. CASE B!Entries(b) # {}
  <2>1. PICK i \in DOMAIN published : i = CHOOSE k \in DOMAIN published : published[k].bundle = b
      BY <1>3 DEF B!Entries
  <2>2. i \in 1..Len(published) /\ Len(published) \in Nat
      BY <1>1, <2>1
  <2>3. B!Without(b) = SubSeq(published, 1, i - 1) \o SubSeq(published, i + 1, Len(published))
      BY <1>3, <2>1 DEF B!Without, B!RemoveAt
  <2>4. /\ SubSeq(published, 1, i - 1) \in Seq(S) /\ Len(SubSeq(published, 1, i - 1)) = i - 1
        /\ SubSeq(published, i + 1, Len(published)) \in Seq(S)
        /\ Len(SubSeq(published, i + 1, Len(published))) = Len(published) - i
      BY <1>1, <2>2
  <2>5. B!Without(b) \in Seq(S) /\ Len(B!Without(b)) = (i - 1) + (Len(published) - i)
      BY <2>3, <2>4
  <2>6. Len(B!Without(b)) <= Len(published)
      BY <2>2, <2>5
  <2> QED BY <1>1, <2>5, <2>6, Zenon DEF IsCache
<1> QED BY <1>2, <1>3

\* rmtree leaves the archive of a directory as it is, or its content.
LEMMA HoldingFacts ==
    ASSUME NEW b, NEW m, IsCache(published)
    PROVE  IsCache(B!Holding(b, m)) /\ Len(B!Holding(b, m)) = Len(published)
<1>1. /\ Len(published) \in Nat /\ DOMAIN published = 1..Len(published)
      /\ \A i \in DOMAIN published : Genuine(published[i])
    BY CacheFacts
<1> DEFINE h == B!Holding(b, m)
           H == {h[i] : i \in DOMAIN published}
<1>2. h = [i \in 1..Len(published) |-> h[i]] /\ DOMAIN h = 1..Len(published)
    BY <1>1 DEF B!Holding
<1>3. h \in [1..Len(published) -> H]
    BY <1>1, <1>2
<1>4. h \in Seq(H) /\ Len(h) = Len(published)
    BY <1>1, <1>3
<1>5. ASSUME NEW i \in DOMAIN published PROVE Genuine(h[i])
  <2>1. h[i] = published[i] \/ h[i] = [published[i] EXCEPT !.whole = FALSE, !.metadata = m]
      BY <1>5 DEF B!Holding
  <2>2. Genuine(published[i])
      BY <1>1
  <2> HIDE DEF h
  <2>3. CASE h[i] = [published[i] EXCEPT !.whole = FALSE, !.metadata = m]
      BY <2>2, <2>3 DEF Genuine, EntryFields
  <2> QED BY <2>1, <2>2, <2>3
<1>6. \A e \in H : Genuine(e)
    BY <1>5
<1> HIDE DEF h, H
<1>7. IsCache(h)
    BY <1>4, <1>6, Zenon DEF IsCache
<1> QED BY <1>4, <1>7 DEF h

\* Cardinalities of the handlers that are about to publish, as one moves.
LEMMA PublishingFacts ==
    ASSUME B!BundleAssumption, NEW f, NEW g, NEW t \in Handlers,
           \A u \in Handlers : u # t => g[u] = f[u]
    PROVE  /\ Cardinality(Publishing(f)) \in Nat /\ Cardinality(Publishing(g)) \in Nat
           /\ g[t].pc # "publish" =>
                 Cardinality(Publishing(g))
                     = Cardinality(Publishing(f)) - (IF f[t].pc = "publish" THEN 1 ELSE 0)
           /\ Cardinality(Publishing(g)) <= Cardinality(Handlers)
           /\ (\A u \in Handlers : u # t => f[u].pc # "publish") => Cardinality(Publishing(g)) <= 1
<1>1. IsFiniteSet(Handlers)
    BY EntryBytesFact
<1>2. /\ Publishing(f) \subseteq Handlers /\ Publishing(g) \subseteq Handlers
    BY DEF Publishing
<1>3. /\ IsFiniteSet(Publishing(f)) /\ IsFiniteSet(Publishing(g))
      /\ Cardinality(Publishing(f)) \in Nat /\ Cardinality(Publishing(g)) \in Nat
      /\ Cardinality(Publishing(g)) <= Cardinality(Handlers)
    BY <1>1, <1>2, FS_Subset, FS_CardinalityType
<1>4. ASSUME g[t].pc # "publish"
      PROVE  Cardinality(Publishing(g))
                 = Cardinality(Publishing(f)) - (IF f[t].pc = "publish" THEN 1 ELSE 0)
  <2>1. Publishing(g) = Publishing(f) \ {t} /\ (t \in Publishing(f) <=> f[t].pc = "publish")
    <3>1. ASSUME NEW u PROVE u \in Publishing(g) <=> u \in Publishing(f) \ {t}
      <4>1. CASE u = t
          BY <1>4, <4>1 DEF Publishing
      <4>2. CASE u # t
          BY <4>2 DEF Publishing
      <4> QED BY <4>1, <4>2
    <3>2. t \in Publishing(f) <=> f[t].pc = "publish"
        BY DEF Publishing
    <3>3. Publishing(g) = Publishing(f) \ {t}
        BY <3>1, Zenon
    <3> QED BY <3>2, <3>3
  <2>2. Cardinality(Publishing(f) \ {t})
            = IF t \in Publishing(f) THEN Cardinality(Publishing(f)) - 1 ELSE Cardinality(Publishing(f))
      BY <1>3, FS_RemoveElement
  <2> QED BY <1>3, <2>1, <2>2
<1>5. ASSUME \A u \in Handlers : u # t => f[u].pc # "publish"
      PROVE  Cardinality(Publishing(g)) <= 1
  <2>1. Publishing(g) \subseteq {t}
      BY <1>5 DEF Publishing
  <2>2. IsFiniteSet({t}) /\ Cardinality({t}) = 1
      BY FS_Singleton
  <2>3. Cardinality(Publishing(g)) <= Cardinality({t})
      BY <2>1, <2>2, FS_Subset
  <2> QED BY <2>2, <2>3
<1> QED BY <1>3, <1>4, <1>5

LEMMA SizeFacts ==
    ASSUME B!BundleAssumption, NEW m \in Int, NEW n \in Int, n <= m, NEW limit \in Int,
           m * B!EntryBytes + ArchiveBytes <= limit
    PROVE  n * B!EntryBytes + ArchiveBytes <= limit
<1>1. n * B!EntryBytes <= m * B!EntryBytes /\ n * B!EntryBytes \in Int /\ m * B!EntryBytes \in Int
    BY Times, EntryBytesFact
<1> QED BY <1>1, EntryBytesFact

\* A handler publishes one more entry only where it was about to, and is about
\* to only where its archive fits and no handler of the service is beside it.
LEMMA StaysBounded ==
    ASSUME B!BundleAssumption, NEW f, NEW g, NEW t \in Handlers, NEW m \in Int, NEW n \in Int,
           \A u \in Handlers : u # t => g[u] = f[u],
           Bounded(m, f),
           \/ n <= m /\ g[t].pc # "publish"
           \/ n = m + 1 /\ f[t].pc = "publish" /\ g[t].pc # "publish"
           \/ /\ g[t].pc = "publish" /\ n * B!EntryBytes + ArchiveBytes <= MaxCacheBytes
              /\ service => \A u \in Handlers : u # t => f[u].pc # "publish"
    PROVE  Bounded(n, g)
<1> DEFINE limit == MaxCacheBytes + B!Publishers * B!EntryBytes
           before == Cardinality(Publishing(f))
           after == Cardinality(Publishing(g))
<1>1. limit \in Int /\ before \in Nat /\ after \in Nat
    BY EntryBytesFact, PublishingFacts
<1>2. (m + before) * B!EntryBytes + ArchiveBytes <= limit
    BY DEF Bounded
<1>3. CASE g[t].pc # "publish"
  <2>1. n + after <= m + before
    <3>1. after = before - (IF f[t].pc = "publish" THEN 1 ELSE 0)
        BY <1>3, PublishingFacts
    <3> HIDE DEF before, after
    <3> QED BY <1>1, <1>3, <3>1
  <2> HIDE DEF limit, before, after
  <2>2. (n + after) * B!EntryBytes + ArchiveBytes <= limit
      BY <1>1, <1>2, <2>1, SizeFacts
  <2> QED BY <2>2 DEF Bounded, limit, after
<1>4. CASE g[t].pc = "publish"
  <2>1. after <= B!Publishers
    <3>1. service => after <= 1
        BY <1>4, PublishingFacts
    <3>2. after <= Cardinality(Handlers)
        BY PublishingFacts
    <3>3. B!Publishers = IF service THEN 1 ELSE Cardinality(Handlers)
        BY SameSets DEF B!Publishers
    <3> QED BY <3>1, <3>2, <3>3
  <2> HIDE DEF before, after
  <2>2. /\ after * B!EntryBytes <= B!Publishers * B!EntryBytes
        /\ after * B!EntryBytes \in Int /\ B!Publishers * B!EntryBytes \in Int
        /\ n * B!EntryBytes \in Int
      BY <1>1, <2>1, Times, EntryBytesFact
  <2>3. (n + after) * B!EntryBytes = n * B!EntryBytes + after * B!EntryBytes
      BY <1>1, EntryBytesFact
  <2>4. n * B!EntryBytes + ArchiveBytes <= MaxCacheBytes
      BY <1>4
  <2>5. (n + after) * B!EntryBytes + ArchiveBytes <= limit
      BY <2>2, <2>3, <2>4, EntryBytesFact
  <2> QED BY <2>5 DEF Bounded, after
<1> QED BY <1>3, <1>4

\* A step of a handler in the lock, or one that enters it: it goes on, or ends.
LEMMA HandlerPreserves ==
    ASSUME B!BundleAssumption, BundleInv, NEW t \in Handlers, NEW j, IsHandler(j),
           thread' = [thread EXCEPT ![t] = j], UNCHANGED <<service, logical>>,
           client' = [a \in Archives |-> client'[a]], \A a \in Archives : IsClient(client'[a]),
           service => lock \in {None, t},
           service => Guarded(j, t, lock', staging'),
           IsCache(published'), temporary' \in Int,
           \/ Size' <= Size /\ j.pc # "publish"
           \/ Size' = Size + 1 /\ thread[t].pc = "publish" /\ j.pc # "publish"
           \/ j.pc = "publish" /\ Size' * B!EntryBytes + ArchiveBytes <= MaxCacheBytes
    PROVE  BundleInv'
<1>1. Size \in Int /\ Size' \in Int
    BY CacheFacts DEF BundleInv, BundleTypes, Size
<1>2. /\ thread' = [u \in Handlers \cup {Cli} |-> thread'[u]] /\ thread'[t] = j
      /\ \A u \in Handlers \cup {Cli} : u # t => thread'[u] = thread[u]
    BY DEF BundleInv, BundleTypes
<1>3. BundleTypes'
    BY <1>2 DEF BundleInv, BundleTypes
<1>4. ASSUME service, NEW u \in Handlers, u # t PROVE thread[u].pc \notin Locked
  <2>1. Guarded(thread[u], u, lock, staging) /\ lock \in {None, t} /\ u # None
      BY <1>4, EntryBytesFact DEF BundleInv
  <2> QED BY <1>4, <2>1 DEF Guarded
<1>5. ASSUME service', NEW u \in Handlers PROVE Guarded(thread'[u], u, lock', staging')
  <2>1. CASE u = t
      BY <1>2, <1>5, <2>1
  <2>2. CASE u # t
    <3>1. thread'[u] = thread[u] /\ thread[u].pc \notin Locked
        BY <1>2, <1>4, <1>5, <2>2
    <3> QED BY <3>1 DEF Guarded, Locked, Making
  <2> QED BY <2>1, <2>2
<1>6. IsCache(published)'
    BY DEF IsCache, Genuine, B!Exact
<1>7. Bounded(Size', thread')
  <2>1. \A u \in Handlers : u # t => thread'[u] = thread[u]
      BY <1>2
  <2>2. service => \A u \in Handlers : u # t => thread[u].pc # "publish"
      BY <1>4 DEF Locked
  <2>3. Bounded(Size, thread)
      BY DEF BundleInv
  <2> QED BY <1>1, <1>2, <2>1, <2>2, <2>3, StaysBounded
<1>8. Bounded(Size, thread)'
    BY <1>7 DEF Bounded, Publishing, B!Publishers, B!EntryBytes
<1> QED BY <1>3, <1>5, <1>6, <1>8 DEF BundleInv

\* A handler goes on with the lock it has, or takes as it enters.
LEMMA ContinuePreserves ==
    ASSUME B!BundleAssumption, BundleInv, NEW t \in Handlers, NEW j, IsHandler(j), B!Continue(t, j),
           service => lock \in {None, t},
           service => Guarded(j, t, t, staging'),
           IsCache(published'), temporary' \in Int,
           \/ Size' <= Size /\ j.pc # "publish"
           \/ Size' = Size + 1 /\ thread[t].pc = "publish" /\ j.pc # "publish"
           \/ j.pc = "publish" /\ Size' * B!EntryBytes + ArchiveBytes <= MaxCacheBytes
    PROVE  BundleInv'
<1>1. /\ thread' = [thread EXCEPT ![t] = j] /\ lock' = IF service THEN t ELSE lock
      /\ UNCHANGED <<service, logical, client>>
    BY DEF B!Continue
<1>2. client' = [a \in Archives |-> client'[a]] /\ \A a \in Archives : IsClient(client'[a])
    BY <1>1 DEF BundleInv, BundleTypes
<1>3. service => Guarded(j, t, lock', staging')
    BY <1>1
<1> QED BY <1>1, <1>2, <1>3, HandlerPreserves

\* A handler ends and leaves the lock.
LEMMA AnswerPreserves ==
    ASSUME B!BundleAssumption, BundleInv, NEW t \in Handlers, NEW status, NEW next,
           B!AnswerAt(t, status, next),
           service => lock \in {None, t},
           IsCache(published'), temporary' \in Int, Size' <= Size
    PROVE  BundleInv'
<1>1. /\ thread' = [thread EXCEPT ![t] = B!Idle] /\ UNCHANGED <<service, logical>>
    BY DEF B!AnswerAt
<1>2. IsHandler(B!Idle) /\ B!Idle.pc = "idle"
    BY DEF IsHandler, HandlerFields, B!Idle
<1>3. client' = [a \in Archives |-> client'[a]] /\ \A a \in Archives : IsClient(client'[a])
  <2>1. ASSUME NEW c PROVE IsClient(B!ClientAfter(c, status, next))
      BY DEF B!ClientAfter, B!Uploading, B!AtRest, IsClient
  <2>2. PICK a, c : client' = client \/ client' = [client EXCEPT ![a] = B!ClientAfter(c, status, next)]
      BY Zenon DEF B!AnswerAt
  <2> HIDE DEF B!ClientAfter
  <2> QED BY <2>1, <2>2 DEF BundleInv, BundleTypes
<1>4. Guarded(B!Idle, t, lock', staging')
    BY <1>2 DEF Guarded, Locked, Making
<1> QED BY <1>1, <1>2, <1>3, <1>4, HandlerPreserves

\* A handler that is beyond its entry has the lock.
LEMMA HasLock ==
    ASSUME BundleInv, NEW t \in Handlers, thread[t].pc \in Locked
    PROVE  service => lock \in {None, t}
BY DEF BundleInv, Guarded

LEMMA DiskFacts ==
    ASSUME BundleInv
    PROVE  /\ IsCache(published) /\ Len(published) \in Nat /\ temporary \in Int /\ Size \in Int
           /\ \A a : /\ IsCache(B!Discarded(a)) /\ Len(B!Discarded(a)) \in Nat
                     /\ Len(B!Discarded(a)) <= Len(published)
<1>1. IsCache(published) /\ Len(published) \in Nat /\ temporary \in Int
    BY CacheFacts DEF BundleInv, BundleTypes
<1>2. ASSUME NEW a
      PROVE  /\ IsCache(B!Discarded(a)) /\ Len(B!Discarded(a)) \in Nat
             /\ Len(B!Discarded(a)) <= Len(published)
  <2>1. B!Discarded(a) = published \/ B!Discarded(a) = B!Without(logical[a])
      BY DEF B!Discarded
  <2>2. IsCache(B!Without(logical[a])) /\ Len(B!Without(logical[a])) <= Len(published)
      BY <1>1, WithoutFacts
  <2>3. IsCache(B!Discarded(a)) /\ Len(B!Discarded(a)) <= Len(published)
      BY <1>1, <2>1, <2>2
  <2> QED BY <2>3, CacheFacts
<1> QED BY <1>1, <1>2 DEF Size

\* What the steps of a handler that leave the cache alone have in common.
LEMMA SameDisk ==
    ASSUME BundleInv, UNCHANGED <<published, temporary>>
    PROVE  IsCache(published') /\ temporary' \in Int /\ Size' <= Size /\ Size' = Size
<1>1. published' = published /\ temporary' = temporary /\ Size' = Size
    BY DEF Size
<1> QED BY <1>1, DiskFacts

LEMMA BeginPreserves ==
    ASSUME B!BundleAssumption, BundleInv, NEW t \in Handlers, B!Begin(t)
    PROVE  BundleInv'
<1>1. /\ published' = B!Discarded(thread[t].archive) /\ temporary' = temporary
      /\ service => lock \in {None, t}
    BY DEF B!Begin, B!MayEnter
<1>2. IsCache(published') /\ temporary' \in Int /\ Size' <= Size
    BY <1>1, DiskFacts DEF Size
<1>3. \/ \E status, next : B!AnswerAt(t, status, next)
      \/ B!Continue(t, [thread[t] EXCEPT !.pc = "begin_state"])
    BY Zenon DEF B!Begin, B!Answer
<1>4. CASE B!Continue(t, [thread[t] EXCEPT !.pc = "begin_state"])
  <2>1. PICK j : j = [thread[t] EXCEPT !.pc = "begin_state"]
      OBVIOUS
  <2>2. IsHandler(j) /\ j.pc = "begin_state"
      BY <2>1 DEF BundleInv, BundleTypes, IsHandler, HandlerFields
  <2>3. Guarded(j, t, t, staging')
      BY <2>2 DEF Guarded, Making
  <2>4. B!Continue(t, j)
      BY <1>4, <2>1
  <2> QED BY <1>1, <1>2, <2>2, <2>3, <2>4, ContinuePreserves
<1> QED BY <1>1, <1>2, <1>3, <1>4, AnswerPreserves

LEMMA StagingPreserves ==
    ASSUME B!BundleAssumption, BundleInv, NEW t \in Handlers,
           B!BeginState(t) \/ B!Chunk(t) \/ B!ChunkAppend(t) \/ B!ChunkState(t)
           \/ B!Cleanup(t) \/ B!Cleaned(t)
    PROVE  BundleInv'
<1>1. UNCHANGED <<published, temporary>>
    BY DEF B!BeginState, B!Chunk, B!ChunkAppend, B!ChunkState, B!Cleanup, B!Cleaned, B!disk
<1>2. service => lock \in {None, t}
  <2>1. CASE B!Chunk(t)
      BY <2>1 DEF B!Chunk, B!MayEnter
  <2>2. CASE ~B!Chunk(t)
    <3>1. thread[t].pc \in Locked
        BY <2>2 DEF B!BeginState, B!ChunkAppend, B!ChunkState, B!Cleanup, B!Cleaned, Locked
    <3> QED BY <3>1, HasLock
  <2> QED BY <2>1, <2>2
<1>3. \/ \E status, next : B!AnswerAt(t, status, next)
      \/ \E pc \in {"chunk_append", "chunk_state", "cleaned"} : B!Continue(t, [thread[t] EXCEPT !.pc = pc])
    BY Zenon DEF B!BeginState, B!Chunk, B!ChunkAppend, B!ChunkState, B!Cleanup, B!Cleaned, B!Answer
<1>4. ASSUME NEW pc \in {"chunk_append", "chunk_state", "cleaned"},
             B!Continue(t, [thread[t] EXCEPT !.pc = pc])
      PROVE  BundleInv'
  <2>1. PICK j : j = [thread[t] EXCEPT !.pc = pc]
      OBVIOUS
  <2>2. IsHandler(j) /\ j.pc = pc
      BY <2>1 DEF BundleInv, BundleTypes, IsHandler, HandlerFields
  <2>3. Guarded(j, t, t, staging') /\ j.pc # "publish"
      BY <2>2 DEF Guarded, Making
  <2>4. B!Continue(t, j)
      BY <1>4, <2>1
  <2> QED BY <1>1, <1>2, <2>2, <2>3, <2>4, SameDisk, ContinuePreserves
<1> QED BY <1>1, <1>2, <1>3, <1>4, SameDisk, AnswerPreserves

\* What is to be published was found complete under the lock.
LEMMA CommitPreserves ==
    ASSUME B!BundleAssumption, BundleInv, NEW t \in Handlers, B!Commit(t)
    PROVE  BundleInv'
<1>1. /\ published' \in {B!Discarded(thread[t].archive), published} /\ temporary' = temporary
      /\ service => lock \in {None, t}
      /\ staging' = staging
    BY DEF B!Commit, B!MayEnter
<1>2. IsCache(published') /\ temporary' \in Int /\ Size' <= Size
    BY <1>1, DiskFacts DEF Size
<1>3. \/ \E status, next : B!AnswerAt(t, status, next)
      \/ B!Complete(thread[t].archive)
         /\ \/ B!Continue(t, [thread[t] EXCEPT !.pc = "cleanup", !.status = "ALREADY_PRESENT"])
            \/ B!Continue(t, [thread[t] EXCEPT !.pc = "room"])
    BY Zenon DEF B!Commit, B!Answer
<1>4. ASSUME NEW j, j \in {[thread[t] EXCEPT !.pc = "cleanup", !.status = "ALREADY_PRESENT"],
                           [thread[t] EXCEPT !.pc = "room"]},
             B!Continue(t, j), B!Complete(thread[t].archive)
      PROVE  BundleInv'
  <2>1. IsHandler(j) /\ j.pc \in {"cleanup", "room"} /\ j.archive = thread[t].archive
    <3>0. IsHandler(thread[t])
        BY DEF BundleInv, BundleTypes
    <3>1. CASE j = [thread[t] EXCEPT !.pc = "cleanup", !.status = "ALREADY_PRESENT"]
        BY <3>0, <3>1 DEF IsHandler, HandlerFields
    <3>2. CASE j = [thread[t] EXCEPT !.pc = "room"]
        BY <3>0, <3>2 DEF IsHandler, HandlerFields
    <3> QED BY <1>4, <3>1, <3>2
  <2>2. Guarded(j, t, t, staging') /\ j.pc # "publish"
      BY <1>1, <1>4, <2>1 DEF Guarded, B!Complete
  <2> QED BY <1>1, <1>2, <1>4, <2>1, <2>2, ContinuePreserves
<1> QED BY <1>1, <1>2, <1>3, <1>4, AnswerPreserves

\* A handler goes on to publish only where its archive fits.
LEMMA RoomPreserves ==
    ASSUME B!BundleAssumption, BundleInv, NEW t \in Handlers, B!Room(t) \/ B!Collected(t)
    PROVE  BundleInv'
<1>1. UNCHANGED <<staging, published, temporary>> /\ thread[t].pc \in {"room", "gc"}
    BY DEF B!Room, B!Collected, B!disk
<1>2. service => lock \in {None, t} /\ Guarded(thread[t], t, lock, staging)
    BY <1>1, HasLock DEF Locked, BundleInv
<1>3. B!Fits => Size' * B!EntryBytes + ArchiveBytes <= MaxCacheBytes
    BY <1>1 DEF B!Fits, B!CacheBytes, Size
<1> DEFINE fitted == [thread[t] EXCEPT !.pc = "publish"]
           cleared == [thread[t] EXCEPT !.pc = "publish", !.plan = <<>>, !.goal = 0, !.freed = 0]
           collecting == B!Collecting(thread[t], ArchiveBytes, {logical[thread[t].archive]})
<1>4. \/ \E status, next : B!AnswerAt(t, status, next)
      \/ B!Fits /\ (B!Continue(t, fitted) \/ B!Continue(t, cleared))
      \/ B!Continue(t, collecting)
    BY Zenon DEF B!Room, B!Collected, B!Answer
<1>5. /\ IsHandler(fitted) /\ IsHandler(cleared) /\ IsHandler(collecting)
      /\ fitted.pc = "publish" /\ cleared.pc = "publish" /\ collecting.pc = "gc"
      /\ \A j \in {fitted, cleared, collecting} : j.archive = thread[t].archive
  <2> USE DEF BundleInv, BundleTypes, IsHandler, HandlerFields
  <2>1. IsHandler(fitted) /\ fitted.pc = "publish" /\ fitted.archive = thread[t].archive
      BY ZenonT(60)
  <2>2. IsHandler(cleared) /\ cleared.pc = "publish" /\ cleared.archive = thread[t].archive
      BY ZenonT(60)
  <2>3. IsHandler(collecting) /\ collecting.pc = "gc" /\ collecting.archive = thread[t].archive
      BY ZenonT(60) DEF B!Collecting
  <2> HIDE DEF fitted, cleared, collecting
  <2> QED BY <2>1, <2>2, <2>3
<1> HIDE DEF fitted, cleared, collecting
<1>6. ASSUME NEW j \in {fitted, cleared, collecting} PROVE service => Guarded(j, t, t, staging')
    BY <1>1, <1>2, <1>5 DEF Guarded, Making
<1>7. ASSUME NEW j \in {fitted, cleared}, B!Fits, B!Continue(t, j) PROVE BundleInv'
  <2>1. IsHandler(j) /\ j.pc = "publish"
      BY <1>5
  <2>2. service => Guarded(j, t, t, staging')
      BY <1>6
  <2> QED BY <1>1, <1>2, <1>3, <1>7, <2>1, <2>2, SameDisk, ContinuePreserves
<1>8. CASE B!Continue(t, collecting)
  <2>1. service => Guarded(collecting, t, t, staging')
      BY <1>6
  <2> QED BY <1>1, <1>2, <1>5, <1>8, <2>1, SameDisk, ContinuePreserves
<1> QED BY <1>1, <1>2, <1>4, <1>7, <1>8, SameDisk, AnswerPreserves

LEMMA EvictPreserves ==
    ASSUME B!BundleAssumption, BundleInv, NEW t \in Handlers,
           B!Evicting(t, ArchiveBytes) \/ B!Evict(t)
    PROVE  BundleInv'
<1>1. UNCHANGED <<staging, temporary>> /\ thread[t].pc \in {"gc", "evict"}
    BY DEF B!Evicting, B!Evict
<1>2. service => lock \in {None, t} /\ Guarded(thread[t], t, lock, staging)
    BY <1>1, HasLock DEF Locked, BundleInv
<1>3. \/ published' = published \/ \E b, m : published' = B!Holding(b, m)
      \/ \E b : published' = B!Without(b)
    BY Zenon DEF B!Evicting, B!Evict
<1>4. IsCache(published') /\ Len(published') <= Len(published)
  <2>1. ASSUME NEW b, NEW m, published' = B!Holding(b, m)
        PROVE  IsCache(published') /\ Len(published') = Len(published)
      BY <2>1, DiskFacts, HoldingFacts
  <2>2. ASSUME NEW b, published' = B!Without(b)
        PROVE  IsCache(published') /\ Len(published') <= Len(published)
      BY <2>2, DiskFacts, WithoutFacts
  <2> QED BY <1>3, <2>1, <2>2, DiskFacts
<1>5. temporary' \in Int /\ Size' <= Size
    BY <1>1, <1>4, DiskFacts, CacheFacts DEF Size
<1>6. PICK j : /\ B!Continue(t, j)
                /\ \/ \E p : j = [thread[t] EXCEPT !.plan = p]
                   \/ j = [thread[t] EXCEPT !.pc = "evict"]
                   \/ \E p, n : j = [thread[t] EXCEPT !.pc = "gc", !.plan = p, !.freed = n]
  <2>1. CASE B!Evicting(t, ArchiveBytes)
      BY <2>1 DEF B!Evicting
  <2>2. CASE B!Evict(t)
    <3>1. PICK p, n : B!Continue(t, [thread[t] EXCEPT !.pc = "gc", !.plan = p, !.freed = n])
        BY <2>2 DEF B!Evict
    <3> QED BY <3>1, Zenon
  <2> QED BY <2>1, <2>2
<1>7. IsHandler(j) /\ j.pc \in {"gc", "evict"} /\ j.archive = thread[t].archive
  <2>1. IsHandler(thread[t])
      BY DEF BundleInv, BundleTypes
  <2>2. ASSUME NEW p, j = [thread[t] EXCEPT !.plan = p]
        PROVE  IsHandler(j) /\ j.pc = thread[t].pc /\ j.archive = thread[t].archive
      BY <2>1, <2>2 DEF IsHandler, HandlerFields
  <2>3. CASE j = [thread[t] EXCEPT !.pc = "evict"]
      BY <2>1, <2>3 DEF IsHandler, HandlerFields
  <2>4. ASSUME NEW p, NEW n, j = [thread[t] EXCEPT !.pc = "gc", !.plan = p, !.freed = n]
        PROVE  IsHandler(j) /\ j.pc = "gc" /\ j.archive = thread[t].archive
      BY <2>1, <2>4 DEF IsHandler, HandlerFields
  <2> QED BY <1>1, <1>6, <2>2, <2>3, <2>4
<1>8. service => Guarded(j, t, t, staging')
    BY <1>1, <1>2, <1>7 DEF Guarded, Making
<1> QED BY <1>2, <1>4, <1>5, <1>6, <1>7, <1>8, ContinuePreserves

\* The staged archive is read again, after room was made for it.
LEMMA PublishPreserves ==
    ASSUME B!BundleAssumption, BundleInv, NEW t \in Handlers, B!Publish(t)
    PROVE  BundleInv'
<1>1. published' = published /\ thread[t].pc = "publish"
    BY DEF B!Publish
<1>2. service => lock \in {None, t} /\ Guarded(thread[t], t, lock, staging)
    BY <1>1, HasLock DEF Locked, BundleInv
<1>3. CASE temporary' = temporary /\ \E status, next : B!AnswerAt(t, status, next)
    BY <1>1, <1>2, <1>3, SameDisk, AnswerPreserves
<1>4. ASSUME temporary' = temporary + 1, NEW part, part = staging[thread[t].archive].part,
             B!Continue(t, [thread[t] EXCEPT !.pc = "replace", !.part = part])
      PROVE  BundleInv'
  <2>1. PICK j : j = [thread[t] EXCEPT !.pc = "replace", !.part = part]
      OBVIOUS
  <2>2. IsHandler(j) /\ j.pc = "replace" /\ j.part = part
      BY <2>1 DEF BundleInv, BundleTypes, IsHandler, HandlerFields
  <2>3. IsCache(published') /\ temporary' \in Int /\ Size' = Size + 1
    <3>1. Size' = Len(published) + (temporary + 1)
        BY <1>1, <1>4 DEF Size
    <3>2. Size = Len(published) + temporary /\ Len(published) \in Nat /\ temporary \in Int
        BY DiskFacts DEF Size
    <3> QED BY <1>1, <1>4, <3>1, <3>2, DiskFacts
  <2>4. service => Guarded(j, t, t, staging')
      BY <1>1, <1>2, <1>4, <2>2 DEF Guarded, Making
  <2>5. B!Continue(t, j)
      BY <1>4, <2>1
  <2> QED BY <1>1, <1>2, <2>2, <2>3, <2>4, <2>5, ContinuePreserves
<1>5. ASSUME temporary' = temporary + 1,
             B!Continue(t, [thread[t] EXCEPT !.pc = "replace", !.part = staging[thread[t].archive].part])
      PROVE  BundleInv'
    BY <1>4, <1>5
<1> QED BY <1>3, <1>5, Zenon DEF B!Publish, B!Answer

LEMMA ReplacePreserves ==
    ASSUME B!BundleAssumption, BundleInv, NEW t \in Handlers, B!Replace(t)
    PROVE  BundleInv'
<1>1. temporary' = temporary - 1 /\ thread[t].pc = "replace"
    BY DEF B!Replace
<1>2. service => lock \in {None, t} /\ thread[t].part = B!Exact
    BY <1>1, HasLock DEF Locked, BundleInv, Guarded
<1>3. PICK e : /\ published' = published \/ published' = Append(published, e)
               /\ e.part = thread[t].part
               /\ e = [f \in EntryFields |-> e[f]]
  <2>1. CASE published' = published
    <3>1. \E e : e.part = thread[t].part /\ e = [f \in EntryFields |-> e[f]]
      <4>1. PICK e : e = [bundle |-> 0, archive |-> 0, part |-> thread[t].part, whole |-> 0, metadata |-> 0]
          OBVIOUS
      <4> QED BY <4>1 DEF EntryFields
    <3> QED BY <2>1, <3>1, Zenon
  <2>2. CASE published' # published
    <3>1. PICK e : /\ published' = Append(published, e)
                   /\ e = [bundle |-> logical[thread[t].archive], archive |-> thread[t].archive,
                           part |-> thread[t].part, whole |-> TRUE, metadata |-> TRUE]
        BY <2>2 DEF B!Replace
    <3> QED BY <3>1 DEF EntryFields
  <2> QED BY <2>1, <2>2
<1>4. IsCache(published') /\ Len(published') <= Len(published) + 1
  <2>1. Genuine(e)
      BY <1>2, <1>3 DEF Genuine
  <2>2. CASE published' = Append(published, e)
      BY <2>1, <2>2, DiskFacts, CacheAppend
  <2> QED BY <1>3, <2>2, DiskFacts
<1>5. temporary' \in Int /\ Size' <= Size
    BY <1>1, <1>4, DiskFacts, CacheFacts, SMTT(30) DEF Size
<1>6. \/ \E status, next : B!AnswerAt(t, status, next)
      \/ B!Continue(t, [thread[t] EXCEPT !.pc = "cleanup", !.status = "COMMITTED", !.part = <<>>])
    BY Zenon DEF B!Replace, B!Answer
<1>7. ASSUME NEW j, j = [thread[t] EXCEPT !.pc = "cleanup", !.status = "COMMITTED", !.part = <<>>],
             B!Continue(t, j)
      PROVE  BundleInv'
  <2>1. IsHandler(j) /\ j.pc = "cleanup"
      BY <1>7 DEF BundleInv, BundleTypes, IsHandler, HandlerFields
  <2>2. Guarded(j, t, t, staging')
      BY <2>1 DEF Guarded, Making
  <2> QED BY <1>2, <1>4, <1>5, <1>7, <2>1, <2>2, ContinuePreserves
<1> QED BY <1>2, <1>4, <1>5, <1>6, <1>7, AnswerPreserves

\* The cache command, from its own process, only removes.
LEMMA CliPreserves ==
    ASSUME B!BundleAssumption, BundleInv, B!CliGc \/ B!CliStep
    PROVE  BundleInv'
<1>1. PICK j : B!CliContinue(j) /\ IsHandler(j)
  <2>1. CASE B!CliGc
    <3>1. B!CliContinue(B!Collecting(B!Idle, 0, {}))
        BY <2>1 DEF B!CliGc
    <3>2. IsHandler(B!Collecting(B!Idle, 0, {}))
        BY DEF B!Collecting, B!Idle, IsHandler, HandlerFields
    <3> QED BY <3>1, <3>2, Zenon
  <2>2. CASE B!CliStep
    <3>1. PICK j : /\ B!CliContinue(j)
                   /\ \/ j = B!Idle
                      \/ \E p : j = [thread[Cli] EXCEPT !.plan = p]
                      \/ j = [thread[Cli] EXCEPT !.pc = "evict"]
                      \/ \E p, n : j = [thread[Cli] EXCEPT !.pc = "gc", !.plan = p, !.freed = n]
      <4>1. \/ B!CliContinue(B!Idle)
            \/ \E p : B!CliContinue([thread[Cli] EXCEPT !.plan = p])
            \/ B!CliContinue([thread[Cli] EXCEPT !.pc = "evict"])
            \/ \E p, n : B!CliContinue([thread[Cli] EXCEPT !.pc = "gc", !.plan = p, !.freed = n])
          BY <2>2 DEF B!CliStep
      <4> QED BY <4>1, Zenon
    <3>2. IsHandler(j)
        BY <3>1 DEF BundleInv, BundleTypes, IsHandler, HandlerFields, B!Idle
    <3> QED BY <3>1, <3>2
  <2> QED BY <2>1, <2>2
<1>2. /\ thread' = [thread EXCEPT ![Cli] = j]
      /\ UNCHANGED <<service, logical, staging, temporary, lock, client>>
    BY <1>1 DEF B!CliContinue
<1>3. \/ published' = published \/ \E b, m : published' = B!Holding(b, m)
      \/ \E b : published' = B!Without(b)
    BY Zenon DEF B!CliGc, B!CliStep
<1>4. IsCache(published') /\ Len(published') <= Len(published)
  <2>1. ASSUME NEW b, NEW m, published' = B!Holding(b, m)
        PROVE  IsCache(published') /\ Len(published') = Len(published)
      BY <2>1, DiskFacts, HoldingFacts
  <2>2. ASSUME NEW b, published' = B!Without(b)
        PROVE  IsCache(published') /\ Len(published') <= Len(published)
      BY <2>2, DiskFacts, WithoutFacts
  <2> QED BY <1>3, <2>1, <2>2, DiskFacts
<1>5. Size' <= Size /\ Size' \in Int /\ Size \in Int
    BY <1>2, <1>4, DiskFacts, CacheFacts DEF Size
<1>6. /\ thread' = [u \in Handlers \cup {Cli} |-> thread'[u]] /\ thread'[Cli] = j
      /\ \A u \in Handlers : thread'[u] = thread[u]
    BY <1>2, EntryBytesFact DEF BundleInv, BundleTypes
<1>7. BundleTypes'
    BY <1>1, <1>2, <1>6 DEF BundleInv, BundleTypes
<1>8. IsCache(published)'
    BY <1>2, <1>4 DEF IsCache, Genuine, B!Exact
<1>9. ASSUME service', NEW u \in Handlers PROVE Guarded(thread'[u], u, lock', staging')
    BY <1>2, <1>6, <1>9 DEF BundleInv, Guarded, B!Exact
<1>10. Bounded(Size, thread)'
  <2>1. Publishing(thread') = Publishing(thread)
      BY <1>6 DEF Publishing
  <2>2. Cardinality(Publishing(thread)) \in Nat /\ Bounded(Size, thread)
    <3>1. PICK t \in Handlers : TRUE
        BY DEF B!BundleAssumption
    <3> QED BY <3>1, PublishingFacts DEF BundleInv
  <2>3. Bounded(Size', thread')
    <3> DEFINE c == Cardinality(Publishing(thread))
               limit == MaxCacheBytes + B!Publishers * B!EntryBytes
    <3>1. (Size + c) * B!EntryBytes + ArchiveBytes <= limit
        BY <2>2 DEF Bounded
    <3>2. Size + c \in Int /\ Size' + c \in Int /\ Size' + c <= Size + c /\ limit \in Int
        BY <1>5, <2>2, EntryBytesFact
    <3> HIDE DEF limit
    <3>3. (Size' + c) * B!EntryBytes + ArchiveBytes <= limit
        BY <3>1, <3>2, SizeFacts
    <3> QED BY <2>1, <3>3 DEF Bounded, limit
  <2> QED BY <1>2, <2>3 DEF Bounded, Publishing, B!Publishers, B!EntryBytes
<1> QED BY <1>7, <1>8, <1>9, <1>10 DEF BundleInv

\* What leaves the cache alone and brings no handler further keeps its bound.
LEMMA NoneEnters ==
    ASSUME B!BundleAssumption, BundleInv, BundleTypes',
           UNCHANGED <<service, staging, published, temporary>>,
           \A t \in Handlers : \/ thread'[t] = thread[t] /\ lock' = lock
                               \/ thread'[t].pc \in {"idle", "begin", "chunk", "commit"}
    PROVE  BundleInv'
<1>1. IsCache(published)'
    BY DEF BundleInv, IsCache, Genuine, B!Exact
<1>2. ASSUME service', NEW u \in Handlers PROVE Guarded(thread'[u], u, lock', staging')
  <2>1. CASE thread'[u] = thread[u] /\ lock' = lock
      BY <1>2, <2>1 DEF BundleInv, Guarded, B!Exact
  <2>2. CASE thread'[u].pc \in {"idle", "begin", "chunk", "commit"}
      BY <2>2 DEF Guarded, Locked, Making
  <2> QED BY <2>1, <2>2
<1>3. Bounded(Size, thread)'
  <2> DEFINE before == Cardinality(Publishing(thread))
             after == Cardinality(Publishing(thread'))
             limit == MaxCacheBytes + B!Publishers * B!EntryBytes
  <2>1. Publishing(thread') \subseteq Publishing(thread) /\ Publishing(thread) \subseteq Handlers
      BY DEF Publishing
  <2>2. before \in Nat /\ after \in Nat /\ after <= before
      BY <2>1, EntryBytesFact, FS_Subset, FS_CardinalityType
  <2>3. (Size + before) * B!EntryBytes + ArchiveBytes <= limit /\ Size \in Int /\ limit \in Int
      BY DiskFacts, EntryBytesFact DEF BundleInv, Bounded
  <2> HIDE DEF before, after, limit
  <2>4. (Size + after) * B!EntryBytes + ArchiveBytes <= limit
      BY <2>2, <2>3, SizeFacts
  <2>5. Size' = Size
      BY DEF Size
  <2> QED BY <2>4, <2>5 DEF Bounded, B!Publishers, B!EntryBytes, after, limit, Publishing
<1> QED BY <1>1, <1>2, <1>3 DEF BundleInv

\* The steps of the clients: a handler begins, or one is given up.
LEMMA ClientPreserves ==
    ASSUME B!BundleAssumption, BundleInv, NEW a \in Archives,
           (\E t \in Handlers : B!Send(a, t)) \/ B!Timeout(a)
    PROVE  BundleInv'
<1>1. UNCHANGED <<service, logical, staging, published, temporary, lock>>
    BY DEF B!Send, B!Timeout, B!disk
<1>2. client' = [c \in Archives |-> client'[c]] /\ \A c \in Archives : IsClient(client'[c])
  <2>1. IsClient(B!AtRest)
      BY DEF IsClient, B!AtRest
  <2>2. CASE client' = [client EXCEPT ![a] = B!AtRest]
      BY <2>1, <2>2 DEF BundleInv, BundleTypes
  <2>3. ASSUME NEW t, client' = [client EXCEPT ![a].wait = t]
        PROVE  client' = [c \in Archives |-> client'[c]] /\ \A c \in Archives : IsClient(client'[c])
    <3>1. IsClient([client[a] EXCEPT !.wait = t])
        BY DEF BundleInv, BundleTypes, IsClient
    <3>2. client' = [client EXCEPT ![a] = [client[a] EXCEPT !.wait = t]]
        BY <2>3
    <3> QED BY <3>1, <3>2 DEF BundleInv, BundleTypes
  <2> QED BY <2>2, <2>3 DEF B!Send, B!Timeout
<1>3. /\ thread' = [u \in Handlers \cup {Cli} |-> thread'[u]]
      /\ \A u \in Handlers \cup {Cli} :
            \/ thread'[u] = thread[u]
            \/ IsHandler(thread'[u]) /\ thread'[u].pc \in {"begin", "chunk", "commit"}
  <2>1. CASE thread' = thread
      BY <2>1 DEF BundleInv, BundleTypes
  <2>2. ASSUME NEW t \in Handlers, B!Send(a, t)
        PROVE  /\ thread' = [u \in Handlers \cup {Cli} |-> thread'[u]]
               /\ \A u \in Handlers \cup {Cli} :
                     \/ thread'[u] = thread[u]
                     \/ IsHandler(thread'[u]) /\ thread'[u].pc \in {"begin", "chunk", "commit"}
    <3>1. PICK j : /\ thread' = [thread EXCEPT ![t] = j]
                   /\ j = [B!Idle EXCEPT !.pc = client[a].pc, !.archive = a, !.seq = client[a].seq]
        BY <2>2 DEF B!Send
    <3>2. client[a].pc \in {"begin", "chunk", "commit"}
        BY <2>2 DEF B!Send, BundleInv, BundleTypes, IsClient
    <3>3. IsHandler(j) /\ j.pc = client[a].pc
        BY <3>1 DEF IsHandler, HandlerFields, B!Idle
    <3> QED BY <3>1, <3>2, <3>3 DEF BundleInv, BundleTypes
  <2> QED BY <2>1, <2>2 DEF B!Timeout
<1>4. BundleTypes'
    BY <1>1, <1>2, <1>3 DEF BundleInv, BundleTypes
<1> QED BY <1>1, <1>3, <1>4, NoneEnters

LEMMA RestartPreserves ==
    ASSUME B!BundleAssumption, BundleInv, B!Crash
    PROVE  BundleInv'
<1>1. UNCHANGED <<service, logical, staging, published, temporary>>
    BY DEF B!Crash, B!disk
<1>2. /\ thread' = [u \in Handlers \cup {Cli} |-> thread'[u]]
      /\ \A u \in Handlers : thread'[u] = B!Idle
      /\ \A u \in Handlers \cup {Cli} : thread'[u] \in {thread[u], B!Idle}
    BY EntryBytesFact DEF B!Crash
<1>3. client' = [c \in Archives |-> client'[c]] /\ \A c \in Archives : IsClient(client'[c])
    BY DEF B!Crash, BundleInv, BundleTypes, IsClient, B!AtRest
<1>4. IsHandler(B!Idle) /\ B!Idle.pc = "idle"
    BY DEF IsHandler, HandlerFields, B!Idle
<1>5. BundleTypes'
    BY <1>1, <1>2, <1>3, <1>4 DEF BundleInv, BundleTypes
<1> QED BY <1>1, <1>2, <1>4, <1>5, NoneEnters

LEMMA BundleStep ==
    ASSUME B!BundleAssumption, BundleInv, [B!Next]_B!vars
    PROVE  BundleInv'
<1>1. CASE \E t \in Handlers : B!Handle(t)
    BY <1>1, BeginPreserves, StagingPreserves, CommitPreserves, RoomPreserves, EvictPreserves,
       PublishPreserves, ReplacePreserves DEF B!Handle
<1>2. CASE UNCHANGED B!vars
  <2>1. UNCHANGED <<service, logical, staging, published, temporary, lock, thread, client>>
      BY <1>2 DEF B!vars, B!disk
  <2>2. BundleTypes'
      BY <2>1 DEF BundleInv, BundleTypes
  <2> QED BY <2>1, <2>2, NoneEnters
<1> QED BY <1>1, <1>2, ClientPreserves, CliPreserves, RestartPreserves DEF B!Next

LEMMA BundleStarts ==
    ASSUME B!BundleAssumption, B!Init
    PROVE  BundleInv
<1>1. IsHandler(B!Idle) /\ B!Idle.pc = "idle" /\ IsClient(B!AtRest)
    BY DEF IsHandler, HandlerFields, IsClient, B!Idle, B!AtRest
<1>2. <<>> \in Seq({}) /\ Len(<<>>) = 0
    OBVIOUS
<1>3. BundleTypes
    BY <1>1 DEF B!Init, BundleTypes
<1>4. IsCache(published)
    BY <1>2 DEF B!Init, IsCache
<1>5. \A t \in Handlers : thread[t].pc = "idle"
    BY <1>1 DEF B!Init
<1>6. \A t \in Handlers : Guarded(thread[t], t, lock, staging)
    BY <1>5 DEF Guarded, Locked, Making
<1>7. Bounded(Size, thread)
  <2>1. Publishing(thread) = {} /\ Size = 0
    <3>1. Publishing(thread) = {}
        BY <1>5 DEF Publishing
    <3>2. published = <<>> /\ temporary = 0
        BY DEF B!Init
    <3> QED BY <1>2, <3>1, <3>2 DEF Size
  <2>2. Cardinality(Publishing(thread)) = 0
      BY <2>1, FS_EmptySet
  <2>3. /\ (0 + 0) * B!EntryBytes = 0
        /\ 1 * B!EntryBytes <= B!Publishers * B!EntryBytes /\ 1 * B!EntryBytes = B!EntryBytes
        /\ B!Publishers * B!EntryBytes \in Int
      BY Times, EntryBytesFact
  <2> QED BY <2>1, <2>2, <2>3, EntryBytesFact DEF Bounded
<1> QED BY <1>3, <1>4, <1>6, <1>7 DEF BundleInv

\* The service publishes an archive as it was offered: the lock is held from
\* the check of the staged chunks to the publication, so no chunk of a client
\* that tries again, no other archive's commit and no abandoned request of a
\* client that gave up comes between them, whatever the cache command collects
\* and wherever the process stops (bundle_transfer.py, commit;
\* controller_service.py, _consumer_bundle_lock).
THEOREM PublishedAsOffered == B!BundleAssumption => (B!Spec => []B!PublishedIsVerified)
<1> SUFFICES ASSUME B!BundleAssumption PROVE B!Spec => []B!PublishedIsVerified
    OBVIOUS
<1>1. B!Init => BundleInv
    BY BundleStarts
<1>2. BundleInv /\ [B!Next]_B!vars => BundleInv'
    BY BundleStep
<1>3. BundleInv => B!PublishedIsVerified
    BY CacheFacts DEF BundleInv, B!PublishedIsVerified, Genuine
<1> QED BY <1>1, <1>2, <1>3, PTL DEF B!Spec

\* The cache exceeds max_cache_bytes by no more than one bundle for each commit
\* that may be under way: one in the service, whose lock is held from the check
\* to the publication, and one for each handler of a worker, where the others
\* publish between a handler's check and its own publication; what interrupted
\* publications left behind is included (bundle_transfer.py, commit, gc).
THEOREM CacheStaysBounded == B!BundleAssumption => (B!Spec => []B!CacheBounded)
<1> SUFFICES ASSUME B!BundleAssumption PROVE B!Spec => []B!CacheBounded
    OBVIOUS
<1>1. B!Init => BundleInv
    BY BundleStarts
<1>2. BundleInv /\ [B!Next]_B!vars => BundleInv'
    BY BundleStep
<1>3. BundleInv => B!CacheBounded
  <2> SUFFICES ASSUME BundleInv PROVE B!CacheBounded
      OBVIOUS
  <2> DEFINE c == Cardinality(Publishing(thread))
             limit == MaxCacheBytes + B!Publishers * B!EntryBytes
  <2>1. c \in Nat
    <3>1. Publishing(thread) \subseteq Handlers
        BY DEF Publishing
    <3> QED BY <3>1, EntryBytesFact, FS_Subset, FS_CardinalityType
  <2>2. (Size + c) * B!EntryBytes + ArchiveBytes <= limit /\ Size \in Int /\ limit \in Int
      BY DiskFacts, EntryBytesFact DEF BundleInv, Bounded
  <2> HIDE DEF c, limit
  <2>3. Size * B!EntryBytes + ArchiveBytes <= limit
      BY <2>1, <2>2, SizeFacts
  <2> QED BY <2>3 DEF B!CacheBounded, B!CacheBytes, Size, limit
<1> QED BY <1>1, <1>2, <1>3, PTL DEF B!Spec
=============================================================================
