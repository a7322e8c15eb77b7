---------------------------- MODULE Service_proofs ----------------------------
(***************************************************************************)
(* Theorems of Service and TargetEvidence, for any threads, requests,       *)
(* deadlines, cache capacity, executions and clients.                       *)
(***************************************************************************)
EXTENDS Service, LedgerFacts, FiniteSetTheorems

-----------------------------------------------------------------------------
(* The invariant of the execution on exact targets.                          *)

TargetPcs == {"admit", "worker", "executed", "lookup", "add", "write", "failed", "missing"}
TargetSet == [pc : TargetPcs, exec : Executions, client : Clients]
AdmissionSet == [type : {"admission"}, exec : Executions, client : Clients,
                 disposition : {"PASS", "REJECTED", "UNKNOWN"}]
EvidenceSet == [type : {"execution"}, exec : Executions, client : Clients]
IndexSet == [evidence : SUBSET EvidenceSet, signature : Int]

TargetTypes ==
    /\ eth \in [Threads -> TargetSet \cup {TargetIdle}]
    /\ tlog \in Seq(AdmissionSet \cup EvidenceSet)
    /\ index \in IndexSet /\ index.signature <= Len(tlog)
    /\ indexFile \in IndexSet /\ indexFile.signature <= Len(tlog)

\* The index's lock is held by the one thread between the two halves of add.
LockOK ==
    /\ lock \subseteq Threads
    /\ \A t, u \in lock : t = u
    /\ \A t \in Threads : InTarget(t, "write") <=> t \in lock

Admitted(e, c) == \E j \in DOMAIN tlog : tlog[j] = Admission(e, c, "PASS")

AdmittedOK ==
    \A t \in Threads :
        eth[t].pc \notin {"idle", "admit"} => Admitted(eth[t].exec, eth[t].client)

\* Evidence is of executions the worker remembers, and a thread that is about
\* to record its evidence is the only one to do so.
RanOK ==
    /\ \A v \in EvidenceIn(tlog) : v.exec \in ran
    /\ \A t \in Threads : InTarget(t, "executed") =>
          eth[t].exec \in ran /\ \A v \in EvidenceIn(tlog) : v.exec # eth[t].exec
    /\ \A t, u \in Threads :
          InTarget(t, "executed") /\ InTarget(u, "executed") /\ eth[t].exec = eth[u].exec => t = u

\* A thread in add has its evidence in the ledger, and in the index between the
\* two halves.
AddsOK ==
    \A t \in Threads :
        /\ eth[t].pc \in {"add", "write"} => Mine(t) \in EvidenceIn(tlog)
        /\ InTarget(t, "write") => Mine(t) \in index.evidence

InFlight(v) == \E u \in Threads : eth[u].pc \in {"add", "write"} /\ Mine(u) = v

\* The entries a lookup would use lack no evidence but what is in flight, once
\* some thread has appended its admission; so do the entries that the lock's
\* holder will sign.  The file is never signed for more than these.
FreshOK ==
    /\ (\E t \in Threads : eth[t].pc \notin {"idle", "admit"}) =>
          \A v \in EvidenceIn(tlog) \ Ensured.evidence : InFlight(v)
    /\ lock # {} =>
          /\ \A v \in EvidenceIn(tlog) \ index.evidence : InFlight(v)
          /\ indexFile.signature <= index.signature

TargetInv ==
    /\ TargetTypes /\ LockOK /\ AdmittedOK /\ RanOK /\ AddsOK /\ FreshOK
    /\ OneEvidence /\ EvidenceIsDurable
-----------------------------------------------------------------------------
(* The ledger of admissions and evidence.                                    *)

TargetRecordSet == AdmissionSet \cup EvidenceSet

LEMMA LogType == ASSUME TargetTypes PROVE tlog \in Seq(TargetRecordSet)
BY DEF TargetTypes, TargetRecordSet

\* What an append adds to the evidence and leaves of the admissions.
LEMMA TargetAppend ==
    ASSUME TargetTypes, NEW r \in TargetRecordSet, tlog' = Append(tlog, r)
    PROVE  /\ tlog' \in Seq(TargetRecordSet)
           /\ Len(tlog) \in Nat /\ Len(tlog)' = Len(tlog) + 1
           /\ DOMAIN tlog = 1..Len(tlog) /\ DOMAIN tlog' = 1..(Len(tlog) + 1)
           /\ \A i \in DOMAIN tlog : i \in DOMAIN tlog' /\ tlog'[i] = tlog[i]
           /\ Len(tlog) + 1 \in DOMAIN tlog' /\ tlog'[Len(tlog) + 1] = r
           /\ \A i \in DOMAIN tlog' : i \in DOMAIN tlog \/ i = Len(tlog) + 1
           /\ EvidenceIn(tlog)' = EvidenceIn(tlog) \cup (IF r.type = "execution" THEN {r} ELSE {})
           /\ \A e, c : Admitted(e, c) => Admitted(e, c)'
<1>1. tlog \in Seq(TargetRecordSet)
    BY LogType
<1>2. /\ tlog' \in Seq(TargetRecordSet)
      /\ Len(tlog) \in Nat /\ Len(tlog)' = Len(tlog) + 1
      /\ DOMAIN tlog = 1..Len(tlog) /\ DOMAIN tlog' = 1..(Len(tlog) + 1)
      /\ \A i \in 1..Len(tlog) : tlog'[i] = tlog[i]
      /\ tlog'[Len(tlog) + 1] = r
    BY <1>1, AppendFacts
<1>3. /\ \A i \in DOMAIN tlog : i \in DOMAIN tlog' /\ tlog'[i] = tlog[i]
      /\ Len(tlog) + 1 \in DOMAIN tlog'
      /\ \A i \in DOMAIN tlog' : i \in DOMAIN tlog \/ i = Len(tlog) + 1
    BY <1>2
<1>4. EvidenceIn(tlog)' = EvidenceIn(tlog) \cup (IF r.type = "execution" THEN {r} ELSE {})
    BY <1>2, <1>3 DEF EvidenceIn
<1>5. \A e, c : Admitted(e, c) => Admitted(e, c)'
    BY <1>3 DEF Admitted, Admission
<1> QED BY <1>2, <1>3, <1>4, <1>5

LEMMA TargetSame ==
    ASSUME tlog' = tlog
    PROVE  /\ EvidenceIn(tlog)' = EvidenceIn(tlog) /\ Len(tlog)' = Len(tlog)
           /\ \A e, c : Admitted(e, c)' <=> Admitted(e, c)
BY DEF EvidenceIn, Admitted

LEMMA EvidenceType ==
    ASSUME TargetTypes
    PROVE  /\ EvidenceIn(tlog) \subseteq EvidenceSet
           /\ \A v \in EvidenceIn(tlog) : \E i \in DOMAIN tlog : tlog[i] = v /\ tlog[i].type = "execution"
<1>1. tlog \in Seq(TargetRecordSet)
    BY LogType
<1>2. \A i \in DOMAIN tlog : tlog[i] \in TargetRecordSet
    BY <1>1
<1> QED BY <1>2 DEF EvidenceIn, TargetRecordSet, AdmissionSet, EvidenceSet

-----------------------------------------------------------------------------
(* The threads of the handler.                                               *)

LEMMA InHandler ==
    ASSUME TargetTypes, NEW t \in Threads, eth[t].pc # "idle"
    PROVE  /\ eth[t] \in TargetSet /\ eth[t].exec \in Executions /\ eth[t].client \in Clients
           /\ Mine(t) \in EvidenceSet /\ Mine(t).exec = eth[t].exec /\ Mine(t).client = eth[t].client
<1>1. eth[t] \in TargetSet
    BY DEF TargetTypes, TargetIdle
<1> QED BY <1>1 DEF TargetSet, Mine, Evidence, EvidenceSet

\* A thread moves within the handler.
LEMMA GoFacts ==
    ASSUME TargetTypes, NEW t \in Threads, eth[t].pc # "idle", NEW pc \in TargetPcs, GoTarget(t, pc)
    PROVE  /\ eth' \in [Threads -> TargetSet \cup {TargetIdle}]
           /\ eth'[t].pc = pc /\ eth'[t].exec = eth[t].exec /\ eth'[t].client = eth[t].client
           /\ Mine(t)' = Mine(t)
           /\ \A u \in Threads \ {t} : eth'[u] = eth[u] /\ Mine(u)' = Mine(u)
<1>0. eth \in [Threads -> TargetSet \cup {TargetIdle}] /\ eth[t] \in TargetSet
    BY InHandler DEF TargetTypes
<1> DEFINE x == [eth[t] EXCEPT !.pc = pc]
<1>1. x \in TargetSet /\ x.pc = pc /\ x.exec = eth[t].exec /\ x.client = eth[t].client
    BY <1>0 DEF TargetSet
<1>2. eth' = [eth EXCEPT ![t] = x]
    BY <1>0 DEF GoTarget
<1> HIDE DEF x
<1>3. eth' \in [Threads -> TargetSet \cup {TargetIdle}] /\ eth'[t] = x /\ \A u \in Threads \ {t} : eth'[u] = eth[u]
    BY <1>0, <1>1, <1>2
<1> QED BY <1>1, <1>3 DEF Mine

\* A thread leaves the handler.
LEMMA EndFacts ==
    ASSUME TargetTypes, NEW t \in Threads, eth' = [eth EXCEPT ![t] = TargetIdle]
    PROVE  /\ eth' \in [Threads -> TargetSet \cup {TargetIdle}]
           /\ eth'[t].pc = "idle"
           /\ \A u \in Threads \ {t} : eth'[u] = eth[u] /\ Mine(u)' = Mine(u)
<1>0. eth \in [Threads -> TargetSet \cup {TargetIdle}]
    BY DEF TargetTypes
<1>1. TargetIdle.pc = "idle"
    BY DEF TargetIdle
<1> HIDE DEF TargetIdle
<1>2. /\ eth' \in [Threads -> TargetSet \cup {TargetIdle}] /\ eth'[t] = TargetIdle
      /\ \A u \in Threads \ {t} : eth'[u] = eth[u]
    BY <1>0
<1> QED BY <1>1, <1>2 DEF Mine

\* What is in flight stays so unless a thread leaves add.
LEMMA FlightKept ==
    ASSUME NEW t \in Threads, \A u \in Threads \ {t} : eth'[u] = eth[u],
           eth[t].pc \in {"add", "write"} =>
               eth'[t].pc \in {"add", "write"} /\ eth'[t].exec = eth[t].exec /\ eth'[t].client = eth[t].client
    PROVE  \A v : InFlight(v) => InFlight(v)'
BY DEF InFlight, Mine

-----------------------------------------------------------------------------
(* Parts of the invariant that a step leaves alone.                          *)

\* The thread that moves is not in a place these parts speak of.
LEMMA OneEvidenceSame == ASSUME OneEvidence, UNCHANGED <<tlog, answers>> PROVE OneEvidence'
BY DEF OneEvidence

\* A record that is no evidence keeps the evidence as it is.
LEMMA AdmissionAppend ==
    ASSUME TargetTypes, OneEvidence, EvidenceIsDurable, NEW r \in AdmissionSet,
           tlog' = Append(tlog, r), UNCHANGED <<index, indexFile, answers>>
    PROVE  /\ OneEvidence' /\ EvidenceIsDurable' /\ EvidenceIn(tlog)' = EvidenceIn(tlog)
           /\ ~Current(index)' /\ ~Current(indexFile)'
           /\ index.signature <= Len(tlog)' /\ indexFile.signature <= Len(tlog)'
<1>1. r \in TargetRecordSet /\ r.type = "admission"
    BY DEF TargetRecordSet, AdmissionSet
<1>2. /\ Len(tlog) \in Nat /\ Len(tlog)' = Len(tlog) + 1
      /\ DOMAIN tlog = 1..Len(tlog) /\ DOMAIN tlog' = 1..(Len(tlog) + 1)
      /\ \A i \in DOMAIN tlog : i \in DOMAIN tlog' /\ tlog'[i] = tlog[i]
      /\ tlog'[Len(tlog) + 1] = r
      /\ \A i \in DOMAIN tlog' : i \in DOMAIN tlog \/ i = Len(tlog) + 1
      /\ EvidenceIn(tlog)' = EvidenceIn(tlog) \cup (IF r.type = "execution" THEN {r} ELSE {})
    BY <1>1, TargetAppend
<1>3. EvidenceIn(tlog)' = EvidenceIn(tlog)
    BY <1>1, <1>2
<1>4. \A i \in DOMAIN tlog' : tlog'[i].type = "execution" => i \in DOMAIN tlog /\ tlog'[i] = tlog[i]
    BY <1>1, <1>2
<1>5. OneEvidence'
    BY <1>4 DEF OneEvidence
<1>6. EvidenceIsDurable'
  <2>1. ASSUME NEW i \in DOMAIN tlog', tlog'[i].type = "execution"
        PROVE  \E j \in 1..i : tlog'[j] = Admission(tlog'[i].exec, tlog'[i].client, "PASS")
    <3>1. i \in DOMAIN tlog /\ tlog'[i] = tlog[i]
        BY <1>4, <2>1
    <3>2. PICK j \in 1..i : tlog[j] = Admission(tlog[i].exec, tlog[i].client, "PASS")
        BY <2>1, <3>1 DEF EvidenceIsDurable
    <3>3. tlog'[j] = tlog[j]
        BY <1>2, <3>1, <3>2
    <3> QED BY <3>1, <3>2, <3>3
  <2> QED BY <1>3, <2>1 DEF EvidenceIsDurable, Admission
<1>7. /\ index.signature \in Int /\ indexFile.signature \in Int
      /\ index.signature <= Len(tlog) /\ indexFile.signature <= Len(tlog)
    BY DEF TargetTypes, IndexSet
<1>8. ~Current(index)' /\ ~Current(indexFile)'
    BY <1>2, <1>7 DEF Current
<1> QED BY <1>2, <1>3, <1>5, <1>6, <1>7, <1>8
LEMMA AdmittedKept ==
    ASSUME AdmittedOK, \A e, c : Admitted(e, c) => Admitted(e, c)',
           NEW t \in Threads, \A u \in Threads \ {t} : eth'[u] = eth[u],
           eth'[t].pc \notin {"idle", "admit"} => Admitted(eth[t].exec, eth[t].client)'
    PROVE  AdmittedOK'
<1> SUFFICES ASSUME NEW u \in Threads, eth'[u].pc \notin {"idle", "admit"}
             PROVE  Admitted(eth[u].exec, eth[u].client)'
    BY DEF AdmittedOK
<1>1. CASE u = t
    BY <1>1
<1>2. CASE u # t
  <2>1. Admitted(eth[u].exec, eth[u].client)
      BY <1>2 DEF AdmittedOK
  <2>2. eth'[u] = eth[u]
      BY <1>2
  <2> QED BY <2>1, <2>2 DEF Admitted
<1> QED BY <1>1, <1>2

LEMMA LockKept ==
    ASSUME LockOK, lock' = lock, NEW t \in Threads, \A u \in Threads \ {t} : eth'[u] = eth[u],
           eth'[t].pc = "write" <=> eth[t].pc = "write"
    PROVE  LockOK'
BY DEF LockOK, InTarget

LEMMA RanKept ==
    ASSUME RanOK, EvidenceIn(tlog)' = EvidenceIn(tlog), ran \subseteq ran',
           NEW t \in Threads, \A u \in Threads \ {t} : eth'[u] = eth[u], eth'[t].pc # "executed"
    PROVE  RanOK'
BY DEF RanOK, InTarget

LEMMA AddsKept ==
    ASSUME AddsOK, EvidenceIn(tlog) \subseteq EvidenceIn(tlog)', index.evidence \subseteq index'.evidence,
           NEW t \in Threads, \A u \in Threads \ {t} : eth'[u] = eth[u], eth'[t].pc \notin {"add", "write"}
    PROVE  AddsOK'
BY DEF AddsOK, InTarget, Mine

\* A thread moves, and it is not in add.
LEMMA FreshSame ==
    ASSUME FreshOK, UNCHANGED <<tlog, index, indexFile, lock>>,
           NEW t \in Threads, eth[t].pc \notin {"idle", "admit", "add", "write"},
           \A u \in Threads \ {t} : eth'[u] = eth[u]
    PROVE  FreshOK'
<1>1. \A v : InFlight(v) => InFlight(v)'
    BY FlightKept
<1>2. EvidenceIn(tlog)' = EvidenceIn(tlog) /\ Ensured' = Ensured
    BY DEF EvidenceIn, Ensured, Current, Rebuilt
<1>3. \A v \in EvidenceIn(tlog) \ Ensured.evidence : InFlight(v)
    BY DEF FreshOK
<1>4. lock # {} =>
          /\ \A v \in EvidenceIn(tlog) \ index.evidence : InFlight(v)
          /\ indexFile.signature <= index.signature
    BY DEF FreshOK
<1> HIDE DEF Ensured, InFlight, EvidenceIn
<1> QED BY <1>1, <1>2, <1>3, <1>4 DEF FreshOK

\* The ledger grows: neither copy of the index is current.
LEMMA FreshRebuilt ==
    ASSUME FreshOK, ~Current(index)', ~Current(indexFile)', UNCHANGED <<index, indexFile, lock>>,
           \A v \in EvidenceIn(tlog)' \ EvidenceIn(tlog) : InFlight(v)',
           \A v : InFlight(v) => InFlight(v)'
    PROVE  FreshOK'
<1>1. Ensured'.evidence = EvidenceIn(tlog)'
    BY DEF Ensured, Rebuilt
<1>2. lock # {} =>
          /\ \A v \in EvidenceIn(tlog) \ index.evidence : InFlight(v)
          /\ indexFile.signature <= index.signature
    BY DEF FreshOK
<1> HIDE DEF Ensured, InFlight, EvidenceIn
<1>3. lock' # {} =>
          /\ \A v \in EvidenceIn(tlog)' \ index'.evidence : InFlight(v)'
          /\ indexFile'.signature <= index'.signature
    BY <1>2
<1> QED BY <1>1, <1>3 DEF FreshOK

\* The entries in memory are signed for the ledger as it is.
LEMMA FreshCurrent ==
    ASSUME Current(index)', \A v \in EvidenceIn(tlog)' \ index'.evidence : InFlight(v)',
           indexFile'.signature <= index'.signature
    PROVE  FreshOK'
<1>1. Ensured' = index'
    BY DEF Ensured
<1> HIDE DEF Ensured, InFlight, EvidenceIn
<1> QED BY <1>1 DEF FreshOK

\* The entries of _ensure.
LEMMA EnsuredFacts ==
    ASSUME TargetTypes, EvidenceIsDurable
    PROVE  /\ Ensured \in IndexSet /\ Ensured.signature = Len(tlog)
           /\ Ensured.evidence \subseteq EvidenceIn(tlog)
           /\ EnsureFile => /\ indexFile' \in IndexSet /\ indexFile'.signature <= Len(tlog)
                            /\ indexFile'.evidence \subseteq EvidenceIn(tlog)
<1>1. EvidenceIn(tlog) \subseteq EvidenceSet /\ Len(tlog) \in Nat
    BY EvidenceType DEF TargetTypes
<1>2. Rebuilt \in IndexSet /\ Rebuilt.signature = Len(tlog) /\ Rebuilt.evidence = EvidenceIn(tlog)
    BY <1>1 DEF Rebuilt, IndexSet
<1>3. /\ index \in IndexSet /\ indexFile \in IndexSet /\ index.signature <= Len(tlog)
      /\ indexFile.signature <= Len(tlog)
      /\ index.evidence \subseteq EvidenceIn(tlog) /\ indexFile.evidence \subseteq EvidenceIn(tlog)
    BY DEF TargetTypes, EvidenceIsDurable
<1> HIDE DEF Rebuilt, IndexSet, EvidenceIn
<1>4. /\ Ensured \in IndexSet /\ Ensured.signature = Len(tlog)
      /\ Ensured.evidence \subseteq EvidenceIn(tlog)
    BY <1>2, <1>3 DEF Ensured, Current
<1>5. ASSUME EnsureFile
      PROVE  /\ indexFile' \in IndexSet /\ indexFile'.signature <= Len(tlog)
             /\ indexFile'.evidence \subseteq EvidenceIn(tlog)
    BY <1>1, <1>2, <1>3, <1>5 DEF EnsureFile
<1> QED BY <1>4, <1>5
-----------------------------------------------------------------------------
(* The steps of the handler.                                                 *)

\* Admit, whatever it says, and Unavailable: an admission record is appended.
LEMMA RecordsAdmission ==
    ASSUME TargetInv, NEW t \in Threads, eth[t].pc \in {"admit", "failed", "missing"},
           NEW d \in {"PASS", "REJECTED", "UNKNOWN"},
           tlog' = Append(tlog, Admission(eth[t].exec, eth[t].client, d)),
           \/ d = "PASS" /\ GoTarget(t, "worker")
           \/ eth' = [eth EXCEPT ![t] = TargetIdle],
           UNCHANGED <<index, indexFile, lock, ran, answers>>
    PROVE  TargetInv'
<1> DEFINE r == Admission(eth[t].exec, eth[t].client, d)
<1>1. TargetTypes /\ eth[t].pc # "idle"
    BY DEF TargetInv
<1>2. r \in AdmissionSet /\ r \in TargetRecordSet /\ r.type = "admission"
    BY <1>1, InHandler DEF Admission, AdmissionSet, TargetRecordSet
<1>3. /\ OneEvidence' /\ EvidenceIsDurable' /\ EvidenceIn(tlog)' = EvidenceIn(tlog)
      /\ ~Current(index)' /\ ~Current(indexFile)'
      /\ index.signature <= Len(tlog)' /\ indexFile.signature <= Len(tlog)'
    BY <1>1, <1>2, AdmissionAppend DEF TargetInv
<1>4. /\ tlog' \in Seq(TargetRecordSet) /\ Len(tlog) + 1 \in DOMAIN tlog' /\ tlog'[Len(tlog) + 1] = r
      /\ \A e, c : Admitted(e, c) => Admitted(e, c)'
    BY <1>1, <1>2, TargetAppend
<1>6. /\ eth' \in [Threads -> TargetSet \cup {TargetIdle}]
      /\ \A u \in Threads \ {t} : eth'[u] = eth[u]
      /\ \/ eth'[t].pc = "idle"
         \/ d = "PASS" /\ eth'[t].pc = "worker" /\ eth'[t].exec = eth[t].exec /\ eth'[t].client = eth[t].client
    BY <1>1, GoFacts, EndFacts DEF TargetPcs
<1> HIDE DEF r
<1>7. TargetTypes'
    BY <1>1, <1>3, <1>4, <1>6 DEF TargetTypes, TargetRecordSet
<1>8. LockOK'
    BY <1>6, LockKept DEF TargetInv
<1>9. AdmittedOK'
  <2>1. eth'[t].pc \notin {"idle", "admit"} => Admitted(eth[t].exec, eth[t].client)'
      BY <1>4, <1>6 DEF Admitted, r, Admission
  <2> QED BY <1>4, <1>6, <2>1, AdmittedKept DEF TargetInv
<1>10. RanOK'
    BY <1>3, <1>6, RanKept DEF TargetInv
<1>11. AddsOK'
    BY <1>3, <1>6, AddsKept DEF TargetInv
<1>12. FreshOK'
  <2>1. \A v : InFlight(v) => InFlight(v)'
      BY <1>6, FlightKept
  <2> QED BY <1>3, <2>1, FreshRebuilt DEF TargetInv
<1> QED BY <1>3, <1>7, <1>8, <1>9, <1>10, <1>11, <1>12 DEF TargetInv

\* The worker's answer, or its want: the ledger and the index are as before.
LEMMA HearsWorker ==
    ASSUME TargetInv, NEW t \in Threads, WorkerExecutes(t) \/ WorkerRepeats(t) \/ WorkerUnavailable(t)
    PROVE  TargetInv'
<1>1. /\ TargetTypes /\ eth[t].pc = "worker"
      /\ UNCHANGED <<tlog, index, indexFile, lock, answers>> /\ ran \subseteq ran'
    BY DEF TargetInv, WorkerExecutes, WorkerRepeats, WorkerUnavailable, InTarget
<1>2. PICK pc \in {"executed", "failed", "lookup"} :
         /\ GoTarget(t, pc)
         /\ pc = "executed" => eth[t].exec \notin ran /\ ran' = ran \cup {eth[t].exec}
    BY DEF WorkerExecutes, WorkerRepeats, WorkerUnavailable
<1>3. /\ eth' \in [Threads -> TargetSet \cup {TargetIdle}]
      /\ eth'[t].pc = pc /\ eth'[t].exec = eth[t].exec /\ eth'[t].client = eth[t].client
      /\ \A u \in Threads \ {t} : eth'[u] = eth[u]
    BY <1>1, <1>2, GoFacts DEF TargetPcs
<1>4. /\ EvidenceIn(tlog)' = EvidenceIn(tlog) /\ Len(tlog)' = Len(tlog)
      /\ \A e, c : Admitted(e, c)' <=> Admitted(e, c)
    BY <1>1, TargetSame
<1>5. TargetTypes'
    BY <1>1, <1>3 DEF TargetTypes
<1>6. LockOK'
    BY <1>1, <1>3, LockKept DEF TargetInv
<1>7. AdmittedOK'
  <2>1. Admitted(eth[t].exec, eth[t].client)
      BY <1>1 DEF TargetInv, AdmittedOK
  <2>2. Admitted(eth[t].exec, eth[t].client)'
      BY <2>1, <1>1, <1>3 DEF Admitted
  <2> QED BY <1>3, <1>4, <2>2, AdmittedKept DEF TargetInv
<1>8. RanOK'
  <2>1. CASE pc # "executed"
      BY <1>1, <1>3, <1>4, <2>1, RanKept DEF TargetInv
  <2>2. CASE pc = "executed"
    <3>1. eth[t].exec \notin ran /\ ran' = ran \cup {eth[t].exec}
        BY <1>2, <2>2
    <3>2. \A v \in EvidenceIn(tlog) : v.exec \in ran /\ v.exec # eth[t].exec
        BY <3>1 DEF TargetInv, RanOK
    <3>3. \A u \in Threads \ {t} : eth'[u].pc = "executed" =>
             /\ eth'[u].exec \in ran /\ eth'[u].exec # eth[t].exec
             /\ \A v \in EvidenceIn(tlog) : v.exec # eth'[u].exec
        BY <1>3, <3>1 DEF TargetInv, RanOK, InTarget
    <3>4. \A u, w \in Threads \ {t} :
             eth'[u].pc = "executed" /\ eth'[w].pc = "executed" /\ eth'[u].exec = eth'[w].exec => u = w
        BY <1>3 DEF TargetInv, RanOK, InTarget
    <3> QED BY <1>3, <1>4, <3>1, <3>2, <3>3, <3>4 DEF RanOK, InTarget
  <2> QED BY <2>1, <2>2
<1>9. AddsOK'
    BY <1>1, <1>3, <1>4, AddsKept DEF TargetInv
<1>10. FreshOK'
    BY <1>1, <1>3, FreshSame DEF TargetInv
<1>11. OneEvidence' /\ EvidenceIsDurable'
    BY <1>1 DEF TargetInv, OneEvidence, EvidenceIsDurable, EvidenceIn
<1> QED BY <1>5, <1>6, <1>7, <1>8, <1>9, <1>10, <1>11 DEF TargetInv
\* Evidence of an execution that has none yet.
LEMMA RecordsEvidence ==
    ASSUME TargetInv, NEW t \in Threads, Record(t) PROVE TargetInv'
<1> DEFINE m == Mine(t)
<1>1. /\ TargetTypes /\ eth[t].pc = "executed" /\ tlog' = Append(tlog, m)
      /\ UNCHANGED <<index, indexFile, lock, ran, answers>> /\ GoTarget(t, "add")
    BY DEF TargetInv, Record, InTarget
<1>2. m \in EvidenceSet /\ m.exec = eth[t].exec /\ m.client = eth[t].client
    BY <1>1, InHandler
<1>3. m \in TargetRecordSet /\ m.type = "execution"
    BY <1>2 DEF EvidenceSet, TargetRecordSet
<1>4. /\ eth' \in [Threads -> TargetSet \cup {TargetIdle}]
      /\ eth'[t].pc = "add" /\ eth'[t].exec = eth[t].exec /\ eth'[t].client = eth[t].client
      /\ Mine(t)' = m
      /\ \A u \in Threads \ {t} : eth'[u] = eth[u] /\ Mine(u)' = Mine(u)
    BY <1>1, GoFacts DEF TargetPcs
<1> HIDE DEF m
<1>5. /\ tlog' \in Seq(TargetRecordSet)
      /\ Len(tlog) \in Nat /\ Len(tlog)' = Len(tlog) + 1
      /\ DOMAIN tlog = 1..Len(tlog)
      /\ \A i \in DOMAIN tlog : i \in DOMAIN tlog' /\ tlog'[i] = tlog[i]
      /\ tlog'[Len(tlog) + 1] = m
      /\ \A i \in DOMAIN tlog' : i \in DOMAIN tlog \/ i = Len(tlog) + 1
      /\ EvidenceIn(tlog)' = EvidenceIn(tlog) \cup {m}
      /\ \A e, c : Admitted(e, c) => Admitted(e, c)'
    BY <1>1, <1>3, TargetAppend
<1>6. Admitted(eth[t].exec, eth[t].client)
    BY <1>1 DEF TargetInv, AdmittedOK
<1>7. /\ eth[t].exec \in ran /\ \A v \in EvidenceIn(tlog) : v.exec # eth[t].exec
      /\ \A u \in Threads \ {t} : eth[u].pc = "executed" => eth[u].exec # eth[t].exec
    BY <1>1 DEF TargetInv, RanOK, InTarget
<1>8. /\ index.signature \in Int /\ indexFile.signature \in Int
      /\ index.signature <= Len(tlog) /\ indexFile.signature <= Len(tlog)
    BY <1>1 DEF TargetTypes, IndexSet
<1>9. index'.signature <= Len(tlog)' /\ indexFile'.signature <= Len(tlog)'
    BY <1>1, <1>5, <1>8
<1>10. ~Current(index)' /\ ~Current(indexFile)'
    BY <1>1, <1>5, <1>8 DEF Current
<1>11. TargetTypes'
    BY <1>1, <1>4, <1>5, <1>9 DEF TargetTypes, TargetRecordSet
<1>12. LockOK'
    BY <1>1, <1>4, LockKept DEF TargetInv
<1>13. AdmittedOK'
  <2>1. Admitted(eth[t].exec, eth[t].client)'
      BY <1>4, <1>5, <1>6 DEF Admitted
  <2> QED BY <1>4, <1>5, <2>1, AdmittedKept DEF TargetInv
<1>14. RanOK'
  <2>1. \A v \in EvidenceIn(tlog) \cup {m} : v.exec \in ran
      BY <1>2, <1>7 DEF TargetInv, RanOK
  <2>2. \A u \in Threads : eth'[u].pc = "executed" => u # t /\ eth'[u] = eth[u]
      BY <1>4
  <2>3. \A u \in Threads : eth'[u].pc = "executed" =>
           /\ eth'[u].exec \in ran
           /\ \A v \in EvidenceIn(tlog) \cup {m} : v.exec # eth'[u].exec
      BY <1>2, <1>7, <2>2 DEF TargetInv, RanOK, InTarget
  <2>4. \A u, w \in Threads :
           eth'[u].pc = "executed" /\ eth'[w].pc = "executed" /\ eth'[u].exec = eth'[w].exec => u = w
      BY <2>2 DEF TargetInv, RanOK, InTarget
  <2> QED BY <1>1, <1>5, <2>1, <2>3, <2>4 DEF RanOK, InTarget
<1>15. AddsOK'
    BY <1>1, <1>4, <1>5 DEF TargetInv, AddsOK, InTarget
<1>16. FreshOK'
  <2>1. \A v : InFlight(v) => InFlight(v)'
      BY <1>1, <1>4, FlightKept
  <2>2. \A v \in {m} : InFlight(v)'
      BY <1>4 DEF InFlight
  <2> QED BY <1>1, <1>5, <1>10, <2>1, <2>2, FreshRebuilt DEF TargetInv
<1>17. OneEvidence'
  <2>1. \A i \in DOMAIN tlog : tlog[i].type = "execution" => tlog[i].exec # m.exec
      BY <1>2, <1>7 DEF EvidenceIn
  <2>2. ASSUME NEW i \in DOMAIN tlog', NEW j \in DOMAIN tlog',
               tlog'[i].type = "execution", tlog'[j].type = "execution", tlog'[i].exec = tlog'[j].exec
        PROVE  i = j
    <3>1. CASE i \in DOMAIN tlog /\ j \in DOMAIN tlog
        BY <1>5, <2>2, <3>1 DEF TargetInv, OneEvidence
    <3>2. CASE i = Len(tlog) + 1 /\ j \in DOMAIN tlog
        BY <1>5, <2>1, <2>2, <3>2
    <3>3. CASE i \in DOMAIN tlog /\ j = Len(tlog) + 1
        BY <1>5, <2>1, <2>2, <3>3
    <3>4. CASE i = Len(tlog) + 1 /\ j = Len(tlog) + 1
        BY <3>4
    <3> QED BY <1>5, <3>1, <3>2, <3>3, <3>4
  <2> QED BY <1>1, <2>2 DEF TargetInv, OneEvidence
<1>18. EvidenceIsDurable'
  <2>1. ASSUME NEW i \in DOMAIN tlog', tlog'[i].type = "execution"
        PROVE  \E j \in 1..i : tlog'[j] = Admission(tlog'[i].exec, tlog'[i].client, "PASS")
    <3>1. CASE i \in DOMAIN tlog
      <4>1. PICK j \in 1..i : tlog[j] = Admission(tlog[i].exec, tlog[i].client, "PASS")
          BY <1>5, <2>1, <3>1 DEF TargetInv, EvidenceIsDurable
      <4> QED BY <1>5, <3>1, <4>1
    <3>2. CASE i = Len(tlog) + 1
      <4>1. PICK j \in DOMAIN tlog : tlog[j] = Admission(eth[t].exec, eth[t].client, "PASS")
          BY <1>6 DEF Admitted
      <4> QED BY <1>2, <1>5, <3>2, <4>1
    <3> QED BY <1>5, <3>1, <3>2
  <2>2. index.evidence \cup indexFile.evidence \cup {a.evidence : a \in answers} \subseteq EvidenceIn(tlog)
      BY DEF TargetInv, EvidenceIsDurable
  <2> QED BY <1>1, <1>5, <2>1, <2>2 DEF EvidenceIsDurable, Admission
<1> QED BY <1>11, <1>12, <1>13, <1>14, <1>15, <1>16, <1>17, <1>18 DEF TargetInv

\* The evidence already in the ledger becomes an entry of the index.
LEMMA BeginsAdd ==
    ASSUME TargetInv, NEW t \in Threads, Add(t) PROVE TargetInv'
<1> DEFINE m == Mine(t)
<1>1. /\ TargetTypes /\ EvidenceIsDurable /\ eth[t].pc = "add" /\ lock = {} /\ lock' = {t}
      /\ index' = [Ensured EXCEPT !.evidence = @ \cup {m}] /\ EnsureFile
      /\ UNCHANGED <<tlog, ran, answers>> /\ GoTarget(t, "write")
    BY DEF TargetInv, Add, InTarget
<1>2. /\ eth' \in [Threads -> TargetSet \cup {TargetIdle}]
      /\ eth'[t].pc = "write" /\ eth'[t].exec = eth[t].exec /\ eth'[t].client = eth[t].client
      /\ Mine(t)' = m
      /\ \A u \in Threads \ {t} : eth'[u] = eth[u] /\ Mine(u)' = Mine(u)
    BY <1>1, GoFacts DEF TargetPcs
<1>3. m \in EvidenceSet /\ m \in EvidenceIn(tlog)
    BY <1>1, InHandler DEF TargetInv, AddsOK
<1> HIDE DEF m
<1>4. /\ Ensured \in IndexSet /\ Ensured.signature = Len(tlog)
      /\ Ensured.evidence \subseteq EvidenceIn(tlog)
      /\ indexFile' \in IndexSet /\ indexFile'.signature <= Len(tlog)
      /\ indexFile'.evidence \subseteq EvidenceIn(tlog)
    BY <1>1, EnsuredFacts
<1>5. /\ index' \in IndexSet /\ index'.signature = Len(tlog)
      /\ index'.evidence = Ensured.evidence \cup {m}
  <2>1. /\ Ensured.evidence \subseteq EvidenceSet /\ Ensured.signature \in Int
        /\ Ensured = [evidence |-> Ensured.evidence, signature |-> Ensured.signature]
      BY <1>4 DEF IndexSet
  <2> HIDE DEF Ensured
  <2>2. index' = [evidence |-> Ensured.evidence \cup {m}, signature |-> Ensured.signature]
      BY <1>1, <2>1
  <2> QED BY <1>3, <1>4, <2>1, <2>2 DEF IndexSet
<1> HIDE DEF Ensured
<1>6. /\ EvidenceIn(tlog)' = EvidenceIn(tlog) /\ Len(tlog)' = Len(tlog) /\ Len(tlog) \in Nat
      /\ \A e, c : Admitted(e, c)' <=> Admitted(e, c)
    BY <1>1, TargetSame DEF TargetTypes
<1>7. TargetTypes'
    BY <1>1, <1>2, <1>4, <1>5, <1>6 DEF TargetTypes
<1>8. LockOK'
  <2>1. \A u \in Threads : eth[u].pc # "write"
      BY <1>1 DEF TargetInv, LockOK, InTarget
  <2> QED BY <1>1, <1>2, <2>1 DEF LockOK, InTarget
<1>9. AdmittedOK'
  <2>1. Admitted(eth[t].exec, eth[t].client)
      BY <1>1 DEF TargetInv, AdmittedOK
  <2>2. Admitted(eth[t].exec, eth[t].client)'
      BY <2>1, <1>1, <1>2 DEF Admitted
  <2> QED BY <1>2, <1>6, <2>2, AdmittedKept DEF TargetInv
<1>10. RanOK'
    BY <1>1, <1>2, <1>6, RanKept DEF TargetInv
<1>11. AddsOK'
  <2>1. ASSUME NEW u \in Threads \ {t}
        PROVE  eth'[u].pc # "write" /\ (eth'[u].pc = "add" => Mine(u) \in EvidenceIn(tlog))
      BY <1>1, <1>2 DEF TargetInv, LockOK, InTarget, AddsOK
  <2> QED BY <1>2, <1>3, <1>5, <1>6, <2>1 DEF AddsOK, InTarget
<1>12. FreshOK'
  <2>1. \A v : InFlight(v) => InFlight(v)'
      BY <1>1, <1>2, FlightKept
  <2>2. \A v \in EvidenceIn(tlog) \ Ensured.evidence : InFlight(v)
      BY <1>1 DEF TargetInv, FreshOK
  <2>3. Current(index)'
      BY <1>5, <1>6 DEF Current
  <2> QED BY <1>4, <1>5, <1>6, <2>1, <2>2, <2>3, FreshCurrent
<1>13. OneEvidence'
    BY <1>1, OneEvidenceSame DEF TargetInv
<1>14. EvidenceIsDurable'
    BY <1>1, <1>3, <1>4, <1>5, <1>6 DEF EvidenceIsDurable
<1> QED BY <1>7, <1>8, <1>9, <1>10, <1>11, <1>12, <1>13, <1>14 DEF TargetInv
\* The end of add: what the entries lack is in flight by another thread.
LEMMA EndsAdd ==
    ASSUME TargetInv, NEW t \in Threads, AddWrite(t) PROVE TargetInv'
<1> DEFINE m == Mine(t)
<1>1. /\ TargetTypes /\ EvidenceIsDurable /\ eth[t].pc = "write" /\ lock' = {}
      /\ index' = [index EXCEPT !.signature = Len(tlog)] /\ indexFile' = index'
      /\ UNCHANGED <<tlog, ran>> /\ eth' = [eth EXCEPT ![t] = TargetIdle]
      /\ answers' = answers \cup {[client |-> eth[t].client, evidence |-> m]}
    BY DEF TargetInv, AddWrite, InTarget, Answer
<1>2. /\ eth' \in [Threads -> TargetSet \cup {TargetIdle}] /\ eth'[t].pc = "idle"
      /\ \A u \in Threads \ {t} : eth'[u] = eth[u] /\ Mine(u)' = Mine(u)
    BY <1>1, EndFacts
<1>3. /\ m \in EvidenceSet /\ m.client = eth[t].client
      /\ m \in EvidenceIn(tlog) /\ m \in index.evidence
    BY <1>1, InHandler DEF TargetInv, AddsOK, InTarget
<1> HIDE DEF m
<1>4. t \in lock /\ \A u \in Threads \ {t} : eth[u].pc # "write"
    BY <1>1 DEF TargetInv, LockOK, InTarget
<1>5. /\ EvidenceIn(tlog)' = EvidenceIn(tlog) /\ Len(tlog)' = Len(tlog) /\ Len(tlog) \in Nat
      /\ \A e, c : Admitted(e, c)' <=> Admitted(e, c)
    BY <1>1, TargetSame DEF TargetTypes
<1>6. /\ index' \in IndexSet /\ index'.signature = Len(tlog) /\ index'.evidence = index.evidence
  <2>1. index \in IndexSet
      BY <1>1 DEF TargetTypes
  <2> QED BY <1>1, <1>5, <2>1 DEF IndexSet
<1>7. TargetTypes'
    BY <1>1, <1>2, <1>5, <1>6 DEF TargetTypes
<1>8. LockOK'
    BY <1>1, <1>2, <1>4 DEF LockOK, InTarget
<1>9. AdmittedOK'
    BY <1>2, <1>5, AdmittedKept DEF TargetInv
<1>10. RanOK'
    BY <1>1, <1>2, <1>5, RanKept DEF TargetInv
<1>11. AddsOK'
    BY <1>2, <1>5, <1>6, AddsKept DEF TargetInv
<1>12. FreshOK'
  <2>1. ASSUME NEW v \in EvidenceIn(tlog) \ index.evidence PROVE InFlight(v)'
    <3>1. InFlight(v)
        BY <1>4, <2>1 DEF TargetInv, FreshOK
    <3>2. PICK u \in Threads : eth[u].pc \in {"add", "write"} /\ Mine(u) = v
        BY <3>1 DEF InFlight
    <3>3. u # t
        BY <1>3, <2>1, <3>2 DEF m
    <3> QED BY <1>2, <3>2, <3>3 DEF InFlight
  <2>2. Current(index)'
      BY <1>5, <1>6 DEF Current
  <2> QED BY <1>1, <1>5, <1>6, <2>1, <2>2, FreshCurrent
<1>13. OneEvidence'
    BY <1>1, <1>3 DEF TargetInv, OneEvidence
<1>14. EvidenceIsDurable'
    BY <1>1, <1>3, <1>5, <1>6 DEF EvidenceIsDurable
<1> QED BY <1>7, <1>8, <1>9, <1>10, <1>11, <1>12, <1>13, <1>14 DEF TargetInv

\* A lookup: the entries are brought up to date, and only evidence of the
\* caller is handed out.
LEMMA LooksUp ==
    ASSUME TargetInv, NEW t \in Threads, Lookup(t) PROVE TargetInv'
<1> DEFINE m == Mine(t)
<1>1. /\ TargetTypes /\ EvidenceIsDurable /\ eth[t].pc = "lookup" /\ lock = {}
      /\ index' = Ensured /\ EnsureFile /\ UNCHANGED <<tlog, lock, ran>>
    BY DEF TargetInv, Lookup, InTarget
<1>2. m \in EvidenceSet /\ m.client = eth[t].client
    BY <1>1, InHandler
<1>3. /\ Ensured \in IndexSet /\ Ensured.signature = Len(tlog)
      /\ Ensured.evidence \subseteq EvidenceIn(tlog)
      /\ indexFile' \in IndexSet /\ indexFile'.signature <= Len(tlog)
      /\ indexFile'.evidence \subseteq EvidenceIn(tlog)
    BY <1>1, EnsuredFacts
<1>4. \/ /\ m \in Ensured.evidence /\ eth' = [eth EXCEPT ![t] = TargetIdle]
         /\ answers' = answers \cup {[client |-> eth[t].client, evidence |-> m]}
      \/ UNCHANGED answers /\ \E pc \in {"failed", "missing"} : GoTarget(t, pc)
    BY DEF Lookup, Candidates, Answer
<1> HIDE DEF m, Ensured
<1>5. /\ eth' \in [Threads -> TargetSet \cup {TargetIdle}] /\ eth'[t].pc \in {"idle", "failed", "missing"}
      /\ eth'[t].pc # "idle" => eth'[t].exec = eth[t].exec /\ eth'[t].client = eth[t].client
      /\ \A u \in Threads \ {t} : eth'[u] = eth[u] /\ Mine(u)' = Mine(u)
  <2>1. CASE eth' = [eth EXCEPT ![t] = TargetIdle]
      BY <1>1, <2>1, EndFacts
  <2>2. CASE \E pc \in {"failed", "missing"} : GoTarget(t, pc)
      BY <1>1, <2>2, GoFacts DEF TargetPcs
  <2> QED BY <1>4, <2>1, <2>2
<1>6. /\ EvidenceIn(tlog)' = EvidenceIn(tlog) /\ Len(tlog)' = Len(tlog) /\ Len(tlog) \in Nat
      /\ \A e, c : Admitted(e, c)' <=> Admitted(e, c)
    BY <1>1, TargetSame DEF TargetTypes
<1>7. TargetTypes'
    BY <1>1, <1>3, <1>5, <1>6 DEF TargetTypes
<1>8. LockOK'
    BY <1>1, <1>5, LockKept DEF TargetInv
<1>9. AdmittedOK'
  <2>1. Admitted(eth[t].exec, eth[t].client)
      BY <1>1 DEF TargetInv, AdmittedOK
  <2>2. eth'[t].pc # "idle" => Admitted(eth[t].exec, eth[t].client)'
      BY <2>1, <1>1, <1>5 DEF Admitted
  <2> QED BY <1>5, <1>6, <2>2, AdmittedKept DEF TargetInv
<1>10. RanOK'
    BY <1>1, <1>5, <1>6, RanKept DEF TargetInv
<1>11. AddsOK'
  <2>1. ASSUME NEW u \in Threads
        PROVE  eth'[u].pc # "write" /\ (eth'[u].pc = "add" => u # t /\ Mine(u) \in EvidenceIn(tlog))
    <3>1. CASE u = t
        BY <1>5, <3>1
    <3>2. CASE u # t
        BY <1>1, <1>5, <3>2 DEF TargetInv, LockOK, InTarget, AddsOK
    <3> QED BY <3>1, <3>2
  <2> QED BY <1>5, <1>6, <2>1 DEF AddsOK, InTarget
<1>12. FreshOK'
  <2>1. \A v : InFlight(v) => InFlight(v)'
      BY <1>1, <1>5, FlightKept
  <2>2. \A v \in EvidenceIn(tlog) \ Ensured.evidence : InFlight(v)
      BY <1>1 DEF TargetInv, FreshOK
  <2>3. Current(index)'
      BY <1>1, <1>3, <1>6 DEF Current
  <2> QED BY <1>1, <1>3, <1>6, <2>1, <2>2, <2>3, FreshCurrent
<1>13. OneEvidence'
    BY <1>1, <1>2, <1>4 DEF TargetInv, OneEvidence
<1>14. EvidenceIsDurable'
    BY <1>1, <1>3, <1>4, <1>6 DEF EvidenceIsDurable
<1> QED BY <1>7, <1>8, <1>9, <1>10, <1>11, <1>12, <1>13, <1>14 DEF TargetInv

\* A write of the index's file fails: the entries in memory have the evidence
\* of the thread that gives up, or will be read from the ledger.
LEMMA IndexFails ==
    ASSUME TargetInv, NEW t \in Threads, IndexWriteFails(t) PROVE TargetInv'
<1>1. /\ TargetTypes /\ eth[t].pc \in {"write", "add", "lookup"} /\ GoTarget(t, "failed")
      /\ UNCHANGED <<tlog, index, indexFile, ran, answers>>
      /\ \/ eth[t].pc = "write" /\ lock' = {}
         \/ eth[t].pc # "write" /\ lock = {} /\ ~Current(index) /\ ~Current(indexFile) /\ lock' = lock
    BY DEF TargetInv, IndexWriteFails, InTarget
<1>2. /\ eth' \in [Threads -> TargetSet \cup {TargetIdle}] /\ eth'[t].pc = "failed"
      /\ eth'[t].exec = eth[t].exec /\ eth'[t].client = eth[t].client
      /\ \A u \in Threads \ {t} : eth'[u] = eth[u] /\ Mine(u)' = Mine(u)
    BY <1>1, GoFacts DEF TargetPcs
<1>3. /\ EvidenceIn(tlog)' = EvidenceIn(tlog) /\ Len(tlog)' = Len(tlog)
      /\ \A e, c : Admitted(e, c)' <=> Admitted(e, c)
    BY <1>1, TargetSame
<1>4. TargetTypes'
    BY <1>1, <1>2 DEF TargetTypes
<1>5. LockOK'
  <2>1. \A u \in Threads \ {t} : eth[u].pc # "write"
      BY <1>1 DEF TargetInv, LockOK, InTarget
  <2> QED BY <1>1, <1>2, <2>1 DEF LockOK, InTarget
<1>6. AdmittedOK'
  <2>1. Admitted(eth[t].exec, eth[t].client)
      BY <1>1 DEF TargetInv, AdmittedOK
  <2>2. Admitted(eth[t].exec, eth[t].client)'
      BY <2>1, <1>1, <1>2 DEF Admitted
  <2> QED BY <1>2, <1>3, <2>2, AdmittedKept DEF TargetInv
<1>7. RanOK'
    BY <1>1, <1>2, <1>3, RanKept DEF TargetInv
<1>8. AddsOK'
    BY <1>1, <1>2, <1>3, AddsKept DEF TargetInv
<1>9. FreshOK'
  <2>1. lock' = {}
      BY <1>1
  <2>2. Ensured' = Ensured
      BY <1>1 DEF Ensured, Current, Rebuilt, EvidenceIn
  <2>3. ASSUME NEW v \in EvidenceIn(tlog) \ Ensured.evidence PROVE InFlight(v)'
    <3>1. PICK u \in Threads : eth[u].pc \in {"add", "write"} /\ Mine(u) = v
      <4>1. InFlight(v)
          BY <1>1, <2>3 DEF TargetInv, FreshOK
      <4> QED BY <4>1 DEF InFlight
    <3>2. u # t
      <4>1. CASE eth[t].pc # "write"
          BY <1>1, <2>3, <4>1 DEF Ensured, Rebuilt
      <4>2. CASE eth[t].pc = "write"
        <5>1. /\ index.signature \in Int /\ indexFile.signature \in Int /\ Len(tlog) \in Nat
              /\ index.signature <= Len(tlog)
            BY <1>1 DEF TargetTypes, IndexSet
        <5>2. t \in lock /\ Mine(t) \in index.evidence
            BY <4>2 DEF TargetInv, LockOK, AddsOK, InTarget
        <5>3. indexFile.signature <= index.signature
            BY <5>2 DEF TargetInv, FreshOK
        <5>4. Current(indexFile) => Current(index)
            BY <5>1, <5>3 DEF Current
        <5> QED BY <2>3, <3>1, <5>2, <5>4 DEF Ensured, Rebuilt
      <4> QED BY <4>1, <4>2
    <3> QED BY <1>2, <3>1, <3>2 DEF InFlight
  <2> HIDE DEF Ensured, InFlight, EvidenceIn
  <2> QED BY <1>3, <2>1, <2>2, <2>3 DEF FreshOK
<1>10. OneEvidence' /\ EvidenceIsDurable'
    BY <1>1 DEF TargetInv, OneEvidence, EvidenceIsDurable, EvidenceIn
<1> QED BY <1>4, <1>5, <1>6, <1>7, <1>8, <1>9, <1>10 DEF TargetInv
\* The handler begins for a request that was accepted.
LEMMA BeginsTarget ==
    ASSUME TargetInv, NEW t \in Threads, eth[t] = TargetIdle, NEW e \in Executions, NEW c \in Clients,
           eth' = [eth EXCEPT ![t] = TargetCall(e, c)],
           UNCHANGED <<tlog, index, indexFile, lock, ran, answers>>
    PROVE  TargetInv'
<1> DEFINE x == TargetCall(e, c)
<1>1. x \in TargetSet /\ x.pc = "admit"
    BY DEF TargetCall, TargetSet, TargetPcs
<1>2. TargetTypes /\ eth[t].pc = "idle"
    BY DEF TargetInv, TargetIdle
<1> HIDE DEF x
<1>3. /\ eth' \in [Threads -> TargetSet \cup {TargetIdle}] /\ eth'[t] = x
      /\ \A u \in Threads \ {t} : eth'[u] = eth[u]
    BY <1>1, <1>2 DEF TargetTypes, x
<1>4. /\ EvidenceIn(tlog)' = EvidenceIn(tlog) /\ Len(tlog)' = Len(tlog)
      /\ \A n, k : Admitted(n, k)' <=> Admitted(n, k)
    BY TargetSame
<1>5. TargetTypes'
    BY <1>2, <1>3 DEF TargetTypes
<1>6. LockOK'
    BY <1>1, <1>2, <1>3, LockKept DEF TargetInv
<1>7. AdmittedOK'
    BY <1>1, <1>3, <1>4, AdmittedKept DEF TargetInv
<1>8. RanOK'
    BY <1>1, <1>3, <1>4, RanKept DEF TargetInv
<1>9. AddsOK'
    BY <1>1, <1>3, <1>4, AddsKept DEF TargetInv
<1>10. FreshOK'
  <2>1. \A v : InFlight(v) => InFlight(v)'
      BY <1>2, <1>3, FlightKept
  <2>2. Ensured' = Ensured
      BY DEF Ensured, Current, Rebuilt, EvidenceIn
  <2>3. (\E u \in Threads : eth'[u].pc \notin {"idle", "admit"}) =>
            \E u \in Threads : eth[u].pc \notin {"idle", "admit"}
      BY <1>1, <1>3
  <2>4. /\ (\E u \in Threads : eth[u].pc \notin {"idle", "admit"}) =>
              \A v \in EvidenceIn(tlog) \ Ensured.evidence : InFlight(v)
        /\ lock # {} =>
              /\ \A v \in EvidenceIn(tlog) \ index.evidence : InFlight(v)
              /\ indexFile.signature <= index.signature
      BY DEF TargetInv, FreshOK
  <2> HIDE DEF Ensured, InFlight, EvidenceIn
  <2> QED BY <1>4, <2>1, <2>2, <2>3, <2>4 DEF FreshOK
<1>11. OneEvidence' /\ EvidenceIsDurable'
    BY DEF TargetInv, OneEvidence, EvidenceIsDurable, EvidenceIn
<1> QED BY <1>5, <1>6, <1>7, <1>8, <1>9, <1>10, <1>11 DEF TargetInv

LEMMA TargetRestarts ==
    ASSUME TargetInv, TargetRestart PROVE TargetInv'
<1>1. /\ \A t \in Threads : eth'[t] = TargetIdle /\ eth'[t].pc = "idle"
      /\ eth' \in [Threads -> TargetSet \cup {TargetIdle}]
      /\ index' = NoIndex /\ lock' = {} /\ UNCHANGED <<tlog, indexFile, ran, answers>>
    BY DEF TargetRestart, TargetIdle
<1>2. index' \in IndexSet /\ index'.evidence = {} /\ index'.signature = -1
    BY <1>1 DEF NoIndex, IndexSet
<1>3. TargetTypes'
  <2>1. TargetTypes /\ Len(tlog) \in Nat
      BY DEF TargetInv, TargetTypes
  <2> QED BY <1>1, <1>2, <2>1 DEF TargetTypes
<1>4. LockOK' /\ AdmittedOK' /\ AddsOK' /\ FreshOK'
    BY <1>1 DEF LockOK, AdmittedOK, AddsOK, FreshOK, InTarget
<1>5. RanOK'
    BY <1>1 DEF TargetInv, RanOK, InTarget, EvidenceIn
<1>6. OneEvidence' /\ EvidenceIsDurable'
    BY <1>1, <1>2 DEF TargetInv, OneEvidence, EvidenceIsDurable, EvidenceIn
<1> QED BY <1>3, <1>4, <1>5, <1>6 DEF TargetInv

LEMMA TargetUnchanged ==
    ASSUME TargetInv, UNCHANGED targetVars PROVE TargetInv'
<1>1. UNCHANGED <<eth, tlog, index, indexFile, lock, ran, answers>>
    BY DEF targetVars
<1>2. TargetTypes' /\ LockOK' /\ OneEvidence'
    BY <1>1 DEF TargetInv, TargetTypes, LockOK, OneEvidence, InTarget
<1>3. AdmittedOK' /\ RanOK' /\ AddsOK' /\ EvidenceIsDurable'
    BY <1>1 DEF TargetInv, AdmittedOK, RanOK, AddsOK, EvidenceIsDurable, Admitted, InTarget, Mine, EvidenceIn
<1>4. FreshOK'
  <2>1. EvidenceIn(tlog)' = EvidenceIn(tlog) /\ Ensured' = Ensured
      BY <1>1 DEF EvidenceIn, Ensured, Current, Rebuilt
  <2>2. \A v : InFlight(v)' <=> InFlight(v)
      BY <1>1 DEF InFlight, Mine
  <2> HIDE DEF Ensured, InFlight, EvidenceIn
  <2> QED BY <1>1, <2>1, <2>2 DEF TargetInv, FreshOK
<1> QED BY <1>2, <1>3, <1>4 DEF TargetInv

LEMMA TargetStepInv ==
    ASSUME TargetInv, NEW t \in Threads, TargetStep(t) PROVE TargetInv'
<1>1. CASE Admit(t)
    BY <1>1, RecordsAdmission DEF Admit, InTarget
<1>2. CASE WorkerExecutes(t) \/ WorkerRepeats(t) \/ WorkerUnavailable(t)
    BY <1>2, HearsWorker
<1>3. CASE Record(t)
    BY <1>3, RecordsEvidence
<1>4. CASE Add(t)
    BY <1>4, BeginsAdd
<1>5. CASE AddWrite(t)
    BY <1>5, EndsAdd
<1>6. CASE Lookup(t)
    BY <1>6, LooksUp
<1>7. CASE Unavailable(t)
    BY <1>7, RecordsAdmission DEF Unavailable, InTarget
<1> QED BY <1>1, <1>2, <1>3, <1>4, <1>5, <1>6, <1>7 DEF TargetStep

LEMMA TargetInitInv == ASSUME TargetInit PROVE TargetInv
<1>1. /\ \A t \in Threads : eth[t].pc = "idle" /\ eth \in [Threads -> TargetSet \cup {TargetIdle}]
      /\ tlog = <<>> /\ index = NoIndex /\ indexFile = NoIndex /\ lock = {} /\ ran = {} /\ answers = {}
    BY DEF TargetInit, TargetIdle
<1>2. EvidenceIn(tlog) = {} /\ DOMAIN tlog = {} /\ Len(tlog) = 0
    BY <1>1 DEF EvidenceIn
<1>3. TargetTypes
    BY <1>1, <1>2 DEF TargetTypes, TargetInit, NoIndex, IndexSet
<1>4. OneEvidence /\ EvidenceIsDurable
    BY <1>1, <1>2 DEF OneEvidence, EvidenceIsDurable, NoIndex
<1> QED BY <1>1, <1>2, <1>3, <1>4 DEF TargetInv, LockOK, AdmittedOK, RanOK, AddsOK, FreshOK, InTarget
-----------------------------------------------------------------------------
(* The invariant of the scheduled-work queue.                                *)

QueuePcs == {"idle", "enqueue", "control", "ensure", "install", "paused", "queued", "next", "append",
             "finish", "return"}
QueueSet ==
    [op : QueueOps \cup {"none"}, pc : QueuePcs, then : QueuePcs, work : Works \cup {0}, todo : SUBSET Works,
     map : Objects \cup {NoObject}, paused : BOOLEAN, scanned : [Works -> States], tok : Nat, start : Nat]
QueueRecordSet ==
    [work : Works, state : {"QUEUED", "DISPATCHED"}] \cup [work : {-1}, state : {"PAUSED", "RESUMED"}]

QueueTypes ==
    /\ qth \in [Threads -> QueueSet]
    /\ qlog \in Seq(QueueRecordSet)
    /\ heap \in [Objects -> [Works -> States]]
    /\ cache \in [map : Objects, paused : BOOLEAN]
    /\ token \in Nat /\ token <= Len(qlog)

\* x is at p, or will be when its call of _ensure_state returns.
WillBe(x, p) == x.pc = p \/ (x.pc \in {"ensure", "install"} /\ x.then = p)

QueuedIn(w) == \E j \in DOMAIN qlog : qlog[j] = WorkRecord(w, "QUEUED")

\* What a thread has read, listed or is about to write is in the ledger.
ThreadKnows(x) ==
    /\ x.pc = "enqueue" => x.op = "enqueue" /\ x.work \in Works
    /\ x.pc = "control" => x.op \in {"pause", "resume"}
    /\ x.pc \in {"ensure", "install"} => x.then \in {"paused", "queued", "append", "finish", "return"}
    /\ x.pc \in {"finish", "queued", "paused"} => x.map \in Objects
    /\ (x.pc = "next" \/ WillBe(x, "paused") \/ WillBe(x, "queued")) => x.op = "tick"
    /\ WillBe(x, "append") => x.op = "tick" /\ x.work \in Works /\ QueuedIn(x.work)
    /\ WillBe(x, "finish") =>
          \/ x.op \in {"pause", "resume"}
          \/ x.op \in {"enqueue", "tick"} /\ x.work \in Works /\ QueuedIn(x.work)
    /\ \A w \in Works : x.scanned[w] # "ABSENT" => QueuedIn(w)
    /\ \A w \in x.todo : QueuedIn(w)
    /\ x.tok <= Len(qlog)

ThreadsKnow == \A t \in Threads : ThreadKnows(qth[t])
HeapKnows == \A o \in Objects, w \in Works : heap[o][w] # "ABSENT" => QueuedIn(w)

\* While nothing overlapped: one thread is in the queue; the cached pair is what
\* its token's ledger says; what was read is what the ledger says; and at finish
\* the thread holds the cached map, which already says what it is about to write.
Alone == \A t, u \in Threads : qth[t] # QueueIdle /\ qth[u] # QueueIdle => t = u

CacheExact ==
    token = Len(qlog) => heap[cache.map] = Projection(qlog) /\ cache.paused = Paused(qlog)

ThreadExact(x) ==
    /\ x.pc = "install" =>
          x.scanned = Projection(qlog) /\ x.paused = Paused(qlog) /\ x.tok = Len(qlog)
    /\ x.pc = "finish" => x.map = cache.map /\ token = Len(qlog)
    /\ WillBe(x, "finish") =>
          /\ x.op = "enqueue" => Projection(qlog)[x.work] = "QUEUED"
          /\ x.op = "tick" => Projection(qlog)[x.work] = "DISPATCHED"
          /\ x.op = "pause" => Paused(qlog) = TRUE
          /\ x.op = "resume" => Paused(qlog) = FALSE

ExactOK == ~overlapped => Alone /\ CacheExact /\ \A t \in Threads : ThreadExact(qth[t])

QueueInv == QueueTypes /\ ThreadsKnow /\ HeapKnows /\ AdmittedOnce /\ ExactOK
-----------------------------------------------------------------------------
(* The queue's ledger.                                                       *)

\* The last record about w, if there is one.
LEMMA LastStateFacts ==
    ASSUME NEW S, NEW log \in Seq(S), NEW w, NEW d
    PROVE  /\ (\A i \in DOMAIN log : log[i].work # w) => LastState(log, w, d) = d
           /\ \A i \in DOMAIN log :
                 log[i].work = w /\ (\A j \in DOMAIN log : log[j].work = w => j <= i) =>
                     LastState(log, w, d) = log[i].state
           /\ (\E i \in DOMAIN log : log[i].work = w) =>
                 \E i \in DOMAIN log : log[i].work = w /\ LastState(log, w, d) = log[i].state
<1> DEFINE I == {i \in DOMAIN log : log[i].work = w}
<1>0. LastState(log, w, d) = IF I = {} THEN d ELSE log[CHOOSE i \in I : \A j \in I : j <= i].state
    BY DEF LastState
<1>1. DOMAIN log = 1..Len(log) /\ Len(log) \in Nat
    OBVIOUS
<1>2. ASSUME NEW i \in I, \A j \in I : j <= i
      PROVE  LastState(log, w, d) = log[i].state
  <2> DEFINE c == CHOOSE k \in I : \A j \in I : j <= k
  <2>1. c \in I /\ \A j \in I : j <= c
      BY <1>2
  <2>2. c \in Int /\ i \in Int /\ c <= i /\ i <= c
      BY <1>1, <1>2, <2>1
  <2>3. c = i
      BY <2>2
  <2> QED BY <1>0, <2>1, <2>3
<1>3. I # {} => \E i \in I : \A j \in I : j <= i
  <2>1. I \subseteq 0..Len(log)
      BY <1>1
  <2> QED BY <1>1, <2>1, GreatestExists
<1> QED BY <1>0, <1>2, <1>3

\* After an append, the last record about w is the new one or as before.
LEMMA LastStateAppend ==
    ASSUME NEW S, NEW log \in Seq(S), NEW r \in S, NEW w, NEW d
    PROVE  LastState(Append(log, r), w, d) = IF r.work = w THEN r.state ELSE LastState(log, w, d)
<1> DEFINE new == Append(log, r)
<1>1. /\ new \in Seq(S) /\ Len(log) \in Nat /\ DOMAIN log = 1..Len(log)
      /\ DOMAIN new = 1..(Len(log) + 1) /\ new[Len(log) + 1] = r
      /\ \A i \in 1..Len(log) : new[i] = log[i]
    BY AppendFacts
<1> HIDE DEF new
<1>2. CASE r.work = w
  <2>1. Len(log) + 1 \in DOMAIN new /\ \A j \in DOMAIN new : j <= Len(log) + 1
      BY <1>1
  <2>2. LastState(new, w, d) = new[Len(log) + 1].state
      BY <1>1, <1>2, <2>1, LastStateFacts
  <2> QED BY <1>1, <1>2, <2>2 DEF new
<1>3. CASE r.work # w /\ \A i \in DOMAIN log : log[i].work # w
  <2>1. \A i \in DOMAIN new : new[i].work # w
      BY <1>1, <1>3
  <2>2. LastState(new, w, d) = d /\ LastState(log, w, d) = d
      BY <1>1, <1>3, <2>1, LastStateFacts
  <2> QED BY <1>3, <2>2 DEF new
<1>4. CASE r.work # w /\ \E i \in DOMAIN log : log[i].work = w
  <2> DEFINE I == {i \in DOMAIN log : log[i].work = w}
  <2>1. I \subseteq 0..Len(log) /\ I # {}
      BY <1>1, <1>4
  <2>2. PICK i \in I : \A j \in I : j <= i
      BY <1>1, <2>1, GreatestExists
  <2>3. LastState(log, w, d) = log[i].state
      BY <2>2, LastStateFacts
  <2>4. i \in DOMAIN new /\ new[i] = log[i] /\ \A j \in DOMAIN new : new[j].work = w => j <= i
      BY <1>1, <1>4, <2>2
  <2>5. LastState(new, w, d) = new[i].state
      BY <1>1, <2>2, <2>4, LastStateFacts
  <2> QED BY <1>4, <2>3, <2>4, <2>5 DEF new
<1> QED BY <1>2, <1>3, <1>4

LEMMA QueueAppend ==
    ASSUME QueueTypes, NEW r \in QueueRecordSet, qlog' = Append(qlog, r)
    PROVE  /\ qlog' \in Seq(QueueRecordSet)
           /\ Len(qlog) \in Nat /\ Len(qlog)' = Len(qlog) + 1
           /\ DOMAIN qlog = 1..Len(qlog) /\ DOMAIN qlog' = 1..(Len(qlog) + 1)
           /\ \A i \in DOMAIN qlog : i \in DOMAIN qlog' /\ qlog'[i] = qlog[i]
           /\ Len(qlog) + 1 \in DOMAIN qlog' /\ qlog'[Len(qlog) + 1] = r
           /\ \A i \in DOMAIN qlog' : i \in DOMAIN qlog \/ i = Len(qlog) + 1
           /\ \A w : QueuedIn(w) => QueuedIn(w)'
<1>1. /\ qlog' \in Seq(QueueRecordSet)
      /\ Len(qlog) \in Nat /\ Len(qlog)' = Len(qlog) + 1
      /\ DOMAIN qlog = 1..Len(qlog) /\ DOMAIN qlog' = 1..(Len(qlog) + 1)
      /\ \A i \in 1..Len(qlog) : qlog'[i] = qlog[i]
      /\ qlog'[Len(qlog) + 1] = r
    BY AppendFacts DEF QueueTypes
<1>2. /\ \A i \in DOMAIN qlog : i \in DOMAIN qlog' /\ qlog'[i] = qlog[i]
      /\ Len(qlog) + 1 \in DOMAIN qlog'
      /\ \A i \in DOMAIN qlog' : i \in DOMAIN qlog \/ i = Len(qlog) + 1
    BY <1>1
<1>3. \A w : QueuedIn(w) => QueuedIn(w)'
    BY <1>2 DEF QueuedIn, WorkRecord
<1> QED BY <1>1, <1>2, <1>3

\* What the ledger says of a work, and of the operator's pause.
LEMMA ProjectionFacts ==
    ASSUME QueueTypes, AdmittedOnce
    PROVE  /\ Projection(qlog) \in [Works -> States]
           /\ Paused(qlog) \in BOOLEAN
           /\ \A w \in Works : Projection(qlog)[w] # "ABSENT" <=> QueuedIn(w)
<1>1. qlog \in Seq(QueueRecordSet) /\ \A i \in DOMAIN qlog : qlog[i] \in QueueRecordSet
    BY DEF QueueTypes
<1>2. ASSUME NEW w \in Works
      PROVE  /\ LastState(qlog, w, "ABSENT") \in States
             /\ LastState(qlog, w, "ABSENT") # "ABSENT" <=> QueuedIn(w)
  <2>1. CASE \A i \in DOMAIN qlog : qlog[i].work # w
    <3>1. LastState(qlog, w, "ABSENT") = "ABSENT"
        BY <1>1, <2>1, LastStateFacts
    <3>2. ~QueuedIn(w)
        BY <2>1 DEF QueuedIn, WorkRecord
    <3> QED BY <3>1, <3>2 DEF States
  <2>2. CASE \E i \in DOMAIN qlog : qlog[i].work = w
    <3>1. PICK i \in DOMAIN qlog : qlog[i].work = w /\ LastState(qlog, w, "ABSENT") = qlog[i].state
        BY <1>1, <2>2, LastStateFacts
    <3>2. qlog[i].state \in {"QUEUED", "DISPATCHED"} /\ qlog[i] = WorkRecord(w, qlog[i].state)
        BY <1>1, <3>1, WorksAssumption DEF QueueRecordSet, WorkRecord
    <3>3. QueuedIn(w)
      <4>1. CASE qlog[i].state = "QUEUED"
          BY <3>2, <4>1 DEF QueuedIn
      <4>2. CASE qlog[i].state = "DISPATCHED"
        <5>1. PICK j \in 1..i : qlog[j] = WorkRecord(w, "QUEUED")
            BY <3>1, <4>2 DEF AdmittedOnce
        <5>2. j \in DOMAIN qlog
            BY <1>1, <5>1
        <5> QED BY <5>1, <5>2 DEF QueuedIn
      <4> QED BY <3>2, <4>1, <4>2
    <3> QED BY <3>1, <3>2, <3>3 DEF States
  <2> QED BY <2>1, <2>2
<1> HIDE DEF LastState
<1> QED BY <1>2 DEF Projection, Paused

LEMMA ProjectionAppend ==
    ASSUME QueueTypes, NEW r \in QueueRecordSet, qlog' = Append(qlog, r)
    PROVE  /\ \A w \in Works : Projection(qlog)'[w] = IF r.work = w THEN r.state ELSE Projection(qlog)[w]
           /\ r.work = -1 => (Paused(qlog)' <=> r.state = "PAUSED")
<1>1. qlog \in Seq(QueueRecordSet)
    BY DEF QueueTypes
<1>2. \A w \in Works : Projection(qlog)'[w] = LastState(qlog', w, "ABSENT")
    BY DEF Projection
<1>3. \A w \in Works : Projection(qlog)[w] = LastState(qlog, w, "ABSENT")
    BY DEF Projection
<1>4. \A w, d : LastState(qlog', w, d) = IF r.work = w THEN r.state ELSE LastState(qlog, w, d)
    BY <1>1, LastStateAppend
<1> HIDE DEF LastState
<1>5. r.work = -1 => (Paused(qlog)' <=> r.state = "PAUSED")
    BY <1>4 DEF Paused
<1> QED BY <1>2, <1>3, <1>4, <1>5
-----------------------------------------------------------------------------
(* The threads in the queue.                                                 *)

LEMMA BecomesFacts ==
    ASSUME QueueTypes, NEW t \in Threads, NEW x \in QueueSet, Becomes(t, x)
    PROVE  /\ qth' \in [Threads -> QueueSet] /\ qth'[t] = x
           /\ \A u \in Threads \ {t} : qth'[u] = qth[u]
BY DEF QueueTypes, Becomes

LEMMA KnowsKept ==
    ASSUME \A w : QueuedIn(w) => QueuedIn(w)', Len(qlog) \in Nat, Len(qlog)' \in Nat, Len(qlog) <= Len(qlog)',
           NEW x \in QueueSet, ThreadKnows(x)
    PROVE  ThreadKnows(x)'
<1>1. x.tok <= Len(qlog)'
  <2>1. x.tok \in Nat /\ x.tok <= Len(qlog)
      BY DEF QueueSet, ThreadKnows
  <2> QED BY <2>1
<1> HIDE DEF QueuedIn, WillBe
<1> QED BY <1>1 DEF ThreadKnows

LEMMA IdleFacts ==
    /\ QueueIdle \in QueueSet /\ QueueIdle.pc = "idle" /\ QueueIdle.map = NoObject
    /\ QueueTypes => ThreadKnows(QueueIdle) /\ ThreadExact(QueueIdle)
<1>1. QueueIdle \in QueueSet /\ QueueIdle.pc = "idle" /\ QueueIdle.map = NoObject
    BY DEF QueueIdle, QueueSet, QueuePcs, EmptyMap, States, NoObject
<1>2. ASSUME QueueTypes PROVE ThreadKnows(QueueIdle) /\ ThreadExact(QueueIdle)
  <2>1. Len(qlog) \in Nat
      BY <1>2 DEF QueueTypes
  <2> QED BY <2>1 DEF QueueIdle, ThreadKnows, ThreadExact, WillBe, EmptyMap
<1> QED BY <1>1, <1>2

\* The thread's own part of the invariant is enough when it does not write.
LEMMA ThreadMoves ==
    ASSUME QueueInv, NEW t \in Threads, qth[t] # QueueIdle, NEW x \in QueueSet, Becomes(t, x),
           UNCHANGED <<qlog, heap, cache, token, overlapped>>,
           ThreadKnows(x), ~overlapped => ThreadExact(x)
    PROVE  QueueInv'
<1>1. /\ qth' \in [Threads -> QueueSet] /\ qth'[t] = x
      /\ \A u \in Threads \ {t} : qth'[u] = qth[u]
    BY BecomesFacts DEF QueueInv
<1>2. QueueTypes' /\ HeapKnows' /\ AdmittedOnce'
    BY <1>1 DEF QueueInv, QueueTypes, HeapKnows, AdmittedOnce, QueuedIn
<1>3. ThreadsKnow'
  <2>1. \A y : ThreadKnows(y) => ThreadKnows(y)'
      BY DEF ThreadKnows, QueuedIn
  <2> QED BY <1>1, <2>1 DEF QueueInv, ThreadsKnow
<1>4. ExactOK'
  <2> SUFFICES ASSUME ~overlapped' PROVE Alone' /\ CacheExact' /\ \A u \in Threads : ThreadExact(qth[u])'
      BY DEF ExactOK
  <2>1. Alone /\ CacheExact /\ \A u \in Threads : ThreadExact(qth[u])
      BY DEF QueueInv, ExactOK
  <2>2. \A y : ThreadExact(y) => ThreadExact(y)'
      BY DEF ThreadExact, Projection, Paused, LastState
  <2>3. Alone'
      BY <1>1, <2>1 DEF Alone
  <2>4. CacheExact'
      BY <2>1 DEF CacheExact, Projection, Paused, LastState
  <2>5. \A u \in Threads : ThreadExact(qth[u])'
    <3> SUFFICES ASSUME NEW u \in Threads PROVE ThreadExact(qth[u])'
        OBVIOUS
    <3>1. PICK y : y = qth'[u]
        OBVIOUS
    <3>2. ThreadExact(y)
        BY <1>1, <2>1, <3>1
    <3> QED BY <2>2, <3>1, <3>2 DEF ThreadExact
  <2> QED BY <2>3, <2>4, <2>5
<1> QED BY <1>2, <1>3, <1>4 DEF QueueInv
\* In the queue at pc: the thread is not idle, and its parts hold.
LEMMA InQueueFacts ==
    ASSUME QueueInv, NEW t \in Threads
    PROVE  /\ qth[t] \in QueueSet /\ ThreadKnows(qth[t]) /\ (~overlapped => ThreadExact(qth[t]))
           /\ qth[t].pc # "idle" => qth[t] # QueueIdle
BY IdleFacts DEF QueueInv, QueueTypes, ThreadsKnow, ExactOK

LEMMA NextWorkFacts ==
    ASSUME QueueInv, NEW t \in Threads, qth[t].todo # {}
    PROVE  NextWork(t) \in qth[t].todo
<1>1. qth[t].todo \subseteq Nat
    BY InQueueFacts, WorksAssumption DEF QueueSet
<1>2. \E w \in qth[t].todo : \A v \in qth[t].todo : w <= v
    BY <1>1, LeastExists
<1> QED BY <1>2 DEF NextWork

LEMMA Moves ==
    ASSUME QueueInv, NEW t \in Threads, UNCHANGED overlapped,
           \/ EnsureCached(t) \/ EnsureScan(t) \/ CheckPaused(t) \/ TickQueued(t) \/ TickHold(t) \/ TickSelect(t)
    PROVE  QueueInv'
<1> DEFINE q == qth[t]
<1>0. q \in QueueSet /\ ThreadKnows(q) /\ (~overlapped => ThreadExact(q)) /\ (q.pc # "idle" => q # QueueIdle)
    BY InQueueFacts
<1>a. QueueTypes /\ cache.map \in Objects /\ cache.paused \in BOOLEAN /\ Len(qlog) \in Nat
    BY DEF QueueInv, QueueTypes
<1>1. CASE EnsureCached(t)
  <2> DEFINE x == [q EXCEPT !.pc = q.then, !.map = cache.map, !.paused = cache.paused]
  <2>1. q.pc = "ensure" /\ token = Len(qlog) /\ Becomes(t, x) /\ UNCHANGED <<qlog, heap, cache, token>>
      BY <1>1 DEF EnsureCached, InQueue
  <2>2. /\ x.op = q.op /\ x.pc = q.then /\ x.then = q.then /\ x.work = q.work /\ x.todo = q.todo
        /\ x.map = cache.map /\ x.scanned = q.scanned /\ x.tok = q.tok
      BY <1>0 DEF QueueSet
  <2>3. x \in QueueSet
      BY <1>0, <1>a DEF QueueSet
  <2> HIDE DEF x
  <2>4. ThreadKnows(x)
      BY <1>0, <1>a, <2>1, <2>2 DEF ThreadKnows, WillBe
  <2>5. ~overlapped => ThreadExact(x)
      BY <1>0, <2>1, <2>2 DEF ThreadExact, ThreadKnows, WillBe
  <2> QED BY <1>0, <2>1, <2>3, <2>4, <2>5, ThreadMoves
<1>2. CASE EnsureScan(t)
  <2>1. /\ Projection(qlog) \in [Works -> States] /\ Paused(qlog) \in BOOLEAN
        /\ \A w \in Works : Projection(qlog)[w] # "ABSENT" <=> QueuedIn(w)
      BY <1>a, ProjectionFacts DEF QueueInv
  <2> DEFINE x == [q EXCEPT !.pc = "install", !.scanned = Projection(qlog), !.paused = Paused(qlog), !.tok = Len(qlog)]
  <2>2. q.pc = "ensure" /\ Becomes(t, x) /\ UNCHANGED <<qlog, heap, cache, token>>
      BY <1>2 DEF EnsureScan, InQueue
  <2> HIDE DEF Projection, Paused
  <2>3. /\ x.op = q.op /\ x.pc = "install" /\ x.then = q.then /\ x.work = q.work /\ x.todo = q.todo
        /\ x.scanned = Projection(qlog) /\ x.paused = Paused(qlog) /\ x.tok = Len(qlog)
      BY <1>0 DEF QueueSet
  <2>4. x \in QueueSet
      BY <1>0, <1>a, <2>1 DEF QueueSet, QueuePcs
  <2> HIDE DEF x
  <2>5. ThreadKnows(x)
      BY <1>0, <1>a, <2>1, <2>2, <2>3 DEF ThreadKnows, WillBe
  <2>6. ~overlapped => ThreadExact(x)
      BY <1>0, <2>2, <2>3 DEF ThreadExact, WillBe
  <2> QED BY <1>0, <2>2, <2>4, <2>5, <2>6, ThreadMoves
<1>3. CASE CheckPaused(t)
  <2> DEFINE p == IF q.paused THEN "return" ELSE "queued"
  <2> DEFINE x == [q EXCEPT !.pc = "ensure", !.then = p]
  <2>1. q.pc = "paused" /\ Becomes(t, x) /\ UNCHANGED <<qlog, heap, cache, token>> /\ p \in {"return", "queued"}
      BY <1>3 DEF CheckPaused, InQueue, EnsureThen
  <2> HIDE DEF p
  <2>2. /\ x.op = q.op /\ x.pc = "ensure" /\ x.then = p /\ x.work = q.work /\ x.todo = q.todo
        /\ x.scanned = q.scanned /\ x.tok = q.tok
      BY <1>0 DEF QueueSet
  <2>3. x \in QueueSet
      BY <1>0, <2>1 DEF QueueSet, QueuePcs
  <2> HIDE DEF x
  <2>4. ThreadKnows(x) /\ ThreadExact(x)
      BY <1>0, <2>1, <2>2 DEF ThreadKnows, ThreadExact, WillBe
  <2> QED BY <1>0, <2>1, <2>3, <2>4, ThreadMoves
<1>4. CASE TickQueued(t)
  <2> DEFINE d == {w \in Works : heap[q.map][w] = "QUEUED"}
  <2> DEFINE x == [q EXCEPT !.pc = "next", !.todo = d]
  <2>1. q.pc = "queued" /\ Becomes(t, x) /\ UNCHANGED <<qlog, heap, cache, token>>
      BY <1>4 DEF TickQueued, InQueue
  <2>2. q.map \in Objects /\ q.op = "tick"
      BY <1>0, <2>1 DEF ThreadKnows, WillBe
  <2>3. d \subseteq Works /\ \A w \in d : QueuedIn(w)
      BY <2>2 DEF QueueInv, HeapKnows
  <2> HIDE DEF d
  <2>4. /\ x.op = q.op /\ x.pc = "next" /\ x.todo = d /\ x.scanned = q.scanned /\ x.tok = q.tok
      BY <1>0 DEF QueueSet
  <2>5. x \in QueueSet
      BY <1>0, <2>3 DEF QueueSet, QueuePcs
  <2> HIDE DEF x
  <2>6. ThreadKnows(x) /\ ThreadExact(x)
      BY <1>0, <2>2, <2>3, <2>4 DEF ThreadKnows, ThreadExact, WillBe
  <2> QED BY <1>0, <2>1, <2>5, <2>6, ThreadMoves
<1>5. CASE TickHold(t)
  <2> DEFINE d == q.todo \ {NextWork(t)}
  <2> DEFINE x == [q EXCEPT !.todo = d]
  <2>1. q.pc = "next" /\ Becomes(t, x) /\ UNCHANGED <<qlog, heap, cache, token>>
      BY <1>5 DEF TickHold, InQueue
  <2>2. d \subseteq q.todo
      OBVIOUS
  <2> HIDE DEF d
  <2>3. /\ x.op = q.op /\ x.pc = "next" /\ x.todo = d /\ x.scanned = q.scanned /\ x.tok = q.tok
      BY <1>0, <2>1 DEF QueueSet
  <2>4. x \in QueueSet
      BY <1>0, <2>2 DEF QueueSet
  <2> HIDE DEF x
  <2>5. ThreadKnows(x) /\ ThreadExact(x)
      BY <1>0, <2>1, <2>2, <2>3 DEF ThreadKnows, ThreadExact, WillBe
  <2> QED BY <1>0, <2>1, <2>4, <2>5, ThreadMoves
<1>6. CASE TickSelect(t)
  <2> DEFINE n == NextWork(t)
  <2> DEFINE x == [q EXCEPT !.pc = "ensure", !.then = "append", !.work = n]
  <2>1. q.pc = "next" /\ q.todo # {} /\ UNCHANGED <<qlog, heap, cache, token>>
        /\ Becomes(t, [EnsureThen(t, "append") EXCEPT !.work = n])
      BY <1>6 DEF TickSelect, InQueue
  <2>2. n \in q.todo
      BY <2>1, NextWorkFacts
  <2> HIDE DEF n
  <2>3. Becomes(t, x)
    <3>1. [EnsureThen(t, "append") EXCEPT !.work = n] = x
        BY <1>0 DEF EnsureThen, QueueSet
    <3> QED BY <2>1, <3>1
  <2>4. /\ x.op = q.op /\ x.pc = "ensure" /\ x.then = "append" /\ x.work = n /\ x.todo = q.todo
        /\ x.scanned = q.scanned /\ x.tok = q.tok
      BY <1>0 DEF QueueSet
  <2>5. x \in QueueSet
      BY <1>0, <2>2 DEF QueueSet, QueuePcs
  <2>6. n \in Works
      BY <1>0, <2>2 DEF QueueSet
  <2> HIDE DEF x
  <2>7. ThreadKnows(x) /\ ThreadExact(x)
      BY <1>0, <2>1, <2>2, <2>4, <2>6 DEF ThreadKnows, ThreadExact, WillBe
  <2> QED BY <1>0, <2>1, <2>3, <2>5, <2>7, ThreadMoves
<1> QED BY <1>1, <1>2, <1>3, <1>4, <1>5, <1>6
\* While a thread is alone, what it leaves is exact if the cached pair is and its
\* own part holds.
LEMMA ExactStep ==
    ASSUME QueueInv, NEW t \in Threads, qth[t] # QueueIdle, overlapped' = overlapped,
           \A u \in Threads \ {t} : qth'[u] = qth[u],
           ~overlapped => CacheExact' /\ ThreadExact(qth[t])'
    PROVE  ExactOK'
<1> SUFFICES ASSUME ~overlapped' PROVE Alone' /\ CacheExact' /\ \A u \in Threads : ThreadExact(qth[u])'
    BY DEF ExactOK
<1>1. Alone
    BY DEF QueueInv, ExactOK
<1>2. \A u \in Threads \ {t} : qth'[u] = QueueIdle
    BY <1>1 DEF Alone
<1>3. Alone'
    BY <1>2 DEF Alone
<1>4. \A u \in Threads : ThreadExact(qth[u])'
  <2>1. ASSUME NEW u \in Threads \ {t} PROVE ThreadExact(qth[u])'
      BY <1>2, IdleFacts DEF ThreadExact, WillBe
  <2> QED BY <2>1
<1> QED BY <1>3, <1>4

\* An append: the work is new, or is already known to be admitted.
LEMMA ThreadAppends ==
    ASSUME QueueInv, NEW t \in Threads, UNCHANGED <<overlapped, heap, cache, token>>,
           qth[t].pc \in {"enqueue", "control", "append"}, Becomes(t, EnsureThen(t, "finish")),
           NEW r \in QueueRecordSet, qlog' = Append(qlog, r),
           \/ qth[t].op = "enqueue" /\ r = WorkRecord(qth[t].work, "QUEUED") /\ qth[t].work \in Works
              /\ ~QueuedIn(qth[t].work)
           \/ qth[t].op = "tick" /\ r = WorkRecord(qth[t].work, "DISPATCHED") /\ qth[t].work \in Works
              /\ QueuedIn(qth[t].work)
           \/ qth[t].op = "pause" /\ r = Control("PAUSED")
           \/ qth[t].op = "resume" /\ r = Control("RESUMED")
    PROVE  QueueInv'
<1> DEFINE q == qth[t]
           x == [q EXCEPT !.pc = "ensure", !.then = "finish"]
<1>1. q \in QueueSet /\ ThreadKnows(q) /\ q # QueueIdle /\ QueueTypes
    BY InQueueFacts DEF QueueInv
<1>2. /\ x.op = q.op /\ x.pc = "ensure" /\ x.then = "finish" /\ x.work = q.work /\ x.todo = q.todo
      /\ x.scanned = q.scanned /\ x.tok = q.tok
    BY <1>1 DEF QueueSet
<1>3. x \in QueueSet
    BY <1>1 DEF QueueSet, QueuePcs
<1>4. Becomes(t, x)
    BY DEF EnsureThen
<1> HIDE DEF x
<1>5. /\ qth' \in [Threads -> QueueSet] /\ qth'[t] = x
      /\ \A u \in Threads \ {t} : qth'[u] = qth[u]
    BY <1>1, <1>3, <1>4, BecomesFacts
<1>6. /\ qlog' \in Seq(QueueRecordSet)
      /\ Len(qlog) \in Nat /\ Len(qlog)' = Len(qlog) + 1
      /\ DOMAIN qlog = 1..Len(qlog) /\ DOMAIN qlog' = 1..(Len(qlog) + 1)
      /\ \A i \in DOMAIN qlog : i \in DOMAIN qlog' /\ qlog'[i] = qlog[i]
      /\ Len(qlog) + 1 \in DOMAIN qlog' /\ qlog'[Len(qlog) + 1] = r
      /\ \A i \in DOMAIN qlog' : i \in DOMAIN qlog \/ i = Len(qlog) + 1
      /\ \A w : QueuedIn(w) => QueuedIn(w)'
    BY <1>1, QueueAppend
<1>7. QueueTypes'
    BY <1>1, <1>5, <1>6 DEF QueueTypes
<1>8. AdmittedOnce'
  <2>1. \A i \in DOMAIN qlog : qlog[i] = r => ~(q.op = "enqueue")
    BY DEF QueuedIn
  <2> SUFFICES ASSUME NEW i \in DOMAIN qlog', qlog'[i].work \in Works
               PROVE  /\ qlog'[i].state = "QUEUED" => \A j \in DOMAIN qlog' : qlog'[j] = qlog'[i] => j = i
                      /\ qlog'[i].state = "DISPATCHED" =>
                            \E j \in 1..i : qlog'[j] = WorkRecord(qlog'[i].work, "QUEUED")
      BY DEF AdmittedOnce, WorkRecord
  <2>2. r.work \in Works => r.state \in {"QUEUED", "DISPATCHED"} /\ (r.state = "QUEUED" <=> q.op = "enqueue")
      BY WorksAssumption DEF WorkRecord, Control
  <2>3. CASE i \in DOMAIN qlog
    <3>1. /\ qlog[i].state = "QUEUED" => \A j \in DOMAIN qlog : qlog[j] = qlog[i] => j = i
          /\ qlog[i].state = "DISPATCHED" => \E j \in 1..i : qlog[j] = WorkRecord(qlog[i].work, "QUEUED")
        BY <1>6, <2>3 DEF QueueInv, AdmittedOnce
    <3>2. qlog[i].state = "QUEUED" => qlog[i] # r
        BY <1>6, <2>1, <2>2, <2>3
    <3>3. 1..i \subseteq DOMAIN qlog /\ qlog'[i] = qlog[i]
        BY <1>6, <2>3
    <3>4. ASSUME qlog'[i].state = "QUEUED", NEW j \in DOMAIN qlog', qlog'[j] = qlog'[i]
          PROVE  j = i
        BY <1>6, <3>1, <3>2, <3>3, <3>4
    <3>5. ASSUME qlog'[i].state = "DISPATCHED"
          PROVE  \E j \in 1..i : qlog'[j] = WorkRecord(qlog'[i].work, "QUEUED")
      <4>1. PICK j \in 1..i : qlog[j] = WorkRecord(qlog[i].work, "QUEUED")
          BY <3>1, <3>3, <3>5
      <4> QED BY <1>6, <3>3, <4>1
    <3> QED BY <3>4, <3>5
  <2>4. CASE i = Len(qlog) + 1
    <3>1. qlog'[i] = r
        BY <1>6, <2>4
    <3>2. ASSUME r.state = "QUEUED", NEW j \in DOMAIN qlog', qlog'[j] = r PROVE j = i
      <4>1. j \notin DOMAIN qlog
          BY <1>6, <2>1, <2>2, <3>1, <3>2
      <4> QED BY <1>6, <2>4, <4>1
    <3>3. ASSUME r.state = "DISPATCHED"
          PROVE  \E j \in 1..i : qlog'[j] = WorkRecord(r.work, "QUEUED")
      <4>1. q.op = "tick" /\ r.work = q.work /\ QueuedIn(q.work)
          BY <3>3 DEF WorkRecord, Control
      <4>2. PICK j \in DOMAIN qlog : qlog[j] = WorkRecord(r.work, "QUEUED")
          BY <4>1 DEF QueuedIn
      <4>3. j \in 1..i
          BY <1>6, <2>4, <4>2
      <4> QED BY <1>6, <4>2, <4>3
    <3> QED BY <3>1, <3>2, <3>3
  <2> QED BY <1>6, <2>3, <2>4
<1>9. HeapKnows'
    BY <1>6 DEF QueueInv, HeapKnows
<1>10. PICK y : y = x
    OBVIOUS
<1>11. PICK n : n = q.work
    OBVIOUS
<1>12. ThreadKnows(y)'
  <2>1. q.op \in {"enqueue", "tick"} => n \in Works /\ QueuedIn(n)'
    <3>1. q.op = "enqueue" => n \in Works /\ qlog'[Len(qlog) + 1] = WorkRecord(n, "QUEUED")
        BY <1>6, <1>11
    <3>2. q.op = "tick" => n \in Works /\ QueuedIn(n)
        BY <1>11
    <3> QED BY <1>6, <3>1, <3>2 DEF QueuedIn, WorkRecord
  <2>2. /\ \A w \in Works : y.scanned[w] # "ABSENT" => QueuedIn(w)'
        /\ \A w \in y.todo : QueuedIn(w)'
      BY <1>1, <1>2, <1>6, <1>10 DEF ThreadKnows
  <2>3. y.tok <= Len(qlog)'
    <3>1. q.tok \in Nat /\ q.tok <= Len(qlog)
        BY <1>1 DEF QueueSet, ThreadKnows
    <3> QED BY <1>2, <1>6, <1>10, <3>1
  <2>4. y.op \in {"enqueue", "tick", "pause", "resume"} /\ y.pc = "ensure" /\ y.then = "finish" /\ y.work = n /\ y.op = q.op
      BY <1>2, <1>10, <1>11
  <2> HIDE DEF QueuedIn, q
  <2> QED BY <2>1, <2>2, <2>3, <2>4 DEF ThreadKnows, WillBe
<1>13. ThreadsKnow'
  <2> SUFFICES ASSUME NEW u \in Threads PROVE ThreadKnows(qth[u])'
      BY DEF ThreadsKnow
  <2>1. CASE u = t
      BY <1>5, <1>10, <1>12, <2>1 DEF ThreadKnows, QueuedIn
  <2>2. CASE u # t
    <3>1. PICK z : z = qth[u]
        OBVIOUS
    <3>2. z \in QueueSet /\ ThreadKnows(z) /\ qth'[u] = z
        BY <1>5, <2>2, <3>1, InQueueFacts
    <3>3. ThreadKnows(z)'
        BY <1>6, <3>2, KnowsKept
    <3> QED BY <3>2, <3>3 DEF ThreadKnows, QueuedIn
  <2> QED BY <2>1, <2>2
<1>14. ExactOK'
  <2>1. CacheExact'
    <3>1. token \in Nat /\ token <= Len(qlog)
        BY <1>1 DEF QueueTypes
    <3>2. token' # Len(qlog)'
        BY <1>6, <3>1
    <3> QED BY <3>2 DEF CacheExact
  <2>2. ThreadExact(y)'
    <3>1. /\ \A w \in Works : Projection(qlog)'[w] = IF r.work = w THEN r.state ELSE Projection(qlog)[w]
          /\ r.work = -1 => (Paused(qlog)' <=> r.state = "PAUSED")
        BY <1>1, ProjectionAppend
    <3>2. /\ q.op = "enqueue" => n \in Works /\ r.work = n /\ r.state = "QUEUED"
          /\ q.op = "tick" => n \in Works /\ r.work = n /\ r.state = "DISPATCHED"
          /\ q.op = "pause" => r.work = -1 /\ r.state = "PAUSED"
          /\ q.op = "resume" => r.work = -1 /\ r.state = "RESUMED"
        BY <1>11 DEF WorkRecord, Control
    <3>3. /\ q.op = "enqueue" => Projection(qlog)'[n] = "QUEUED"
          /\ q.op = "tick" => Projection(qlog)'[n] = "DISPATCHED"
        BY <3>1, <3>2
    <3>4. /\ q.op = "pause" => Paused(qlog)' = TRUE
          /\ q.op = "resume" => Paused(qlog)' = FALSE
      <4>1. Paused(qlog)' \in BOOLEAN
          BY DEF Paused
      <4> QED BY <3>1, <3>2, <4>1
    <3>5. y.pc = "ensure" /\ y.then = "finish" /\ y.work = n /\ y.op = q.op
        BY <1>2, <1>10, <1>11
    <3> HIDE DEF Projection, Paused, q
    <3> QED BY <3>3, <3>4, <3>5 DEF ThreadExact, WillBe
  <2>3. ThreadExact(qth[t])'
      BY <1>5, <1>10, <2>2 DEF ThreadExact
  <2> QED BY <1>1, <1>5, <2>1, <2>3, ExactStep
<1> QED BY <1>7, <1>8, <1>9, <1>13, <1>14 DEF QueueInv
LEMMA Appends ==
    ASSUME QueueInv, NEW t \in Threads, UNCHANGED overlapped, Enqueue(t) \/ PauseOrResume(t) \/ TickAppend(t)
    PROVE  QueueInv'
<1> DEFINE q == qth[t]
<1>0. q \in QueueSet /\ ThreadKnows(q) /\ (q.pc # "idle" => q # QueueIdle)
    BY InQueueFacts
<1>1. CASE Enqueue(t)
  <2>0. q.pc = "enqueue" /\ UNCHANGED <<heap, cache, token>>
      BY <1>1 DEF Enqueue, InQueue
  <2>1. q.op = "enqueue" /\ q.work \in Works
      BY <1>0, <2>0 DEF ThreadKnows
  <2>2. CASE Projection(qlog)[q.work] = "ABSENT"
    <3>1. /\ qlog' = Append(qlog, WorkRecord(q.work, "QUEUED"))
          /\ Becomes(t, EnsureThen(t, "finish"))
        BY <1>1, <2>2 DEF Enqueue
    <3>2. ~QueuedIn(q.work)
        BY <2>1, <2>2, ProjectionFacts DEF QueueInv
    <3>3. WorkRecord(q.work, "QUEUED") \in QueueRecordSet
        BY <2>1 DEF WorkRecord, QueueRecordSet
    <3> QED BY <2>0, <2>1, <3>1, <3>2, <3>3, ThreadAppends
  <2>3. CASE Projection(qlog)[q.work] # "ABSENT"
    <3> DEFINE x == [q EXCEPT !.pc = "ensure", !.then = "return"]
    <3>1. Becomes(t, x) /\ UNCHANGED qlog
        BY <1>1, <2>3 DEF Enqueue, EnsureThen
    <3>2. /\ x.op = q.op /\ x.pc = "ensure" /\ x.then = "return" /\ x.work = q.work /\ x.todo = q.todo
          /\ x.scanned = q.scanned /\ x.tok = q.tok
        BY <1>0 DEF QueueSet
    <3>3. x \in QueueSet
        BY <1>0 DEF QueueSet, QueuePcs
    <3> HIDE DEF x
    <3>4. ThreadKnows(x) /\ ThreadExact(x)
        BY <1>0, <2>0, <3>2 DEF ThreadKnows, ThreadExact, WillBe
    <3> QED BY <1>0, <2>0, <3>1, <3>3, <3>4, ThreadMoves
  <2> QED BY <2>2, <2>3
<1>2. CASE PauseOrResume(t)
  <2>1. /\ q.pc = "control" /\ UNCHANGED <<heap, cache, token>> /\ Becomes(t, EnsureThen(t, "finish"))
        /\ qlog' = Append(qlog, Control(IF q.op = "pause" THEN "PAUSED" ELSE "RESUMED"))
      BY <1>2 DEF PauseOrResume, InQueue
  <2>2. q.op \in {"pause", "resume"}
      BY <1>0, <2>1 DEF ThreadKnows
  <2>3. Control("PAUSED") \in QueueRecordSet /\ Control("RESUMED") \in QueueRecordSet
      BY DEF Control, QueueRecordSet
  <2>4. CASE q.op = "pause"
    <3>1. qlog' = Append(qlog, Control("PAUSED"))
        BY <2>1, <2>4
    <3> QED BY <2>1, <2>3, <2>4, <3>1, ThreadAppends
  <2>5. CASE q.op = "resume"
    <3>1. qlog' = Append(qlog, Control("RESUMED"))
        BY <2>1, <2>5
    <3> QED BY <2>1, <2>3, <2>5, <3>1, ThreadAppends
  <2> QED BY <2>2, <2>4, <2>5
<1>3. CASE TickAppend(t)
  <2>1. /\ q.pc = "append" /\ UNCHANGED <<heap, cache, token>> /\ Becomes(t, EnsureThen(t, "finish"))
        /\ qlog' = Append(qlog, WorkRecord(q.work, "DISPATCHED"))
      BY <1>3 DEF TickAppend, InQueue
  <2>2. q.op = "tick" /\ q.work \in Works /\ QueuedIn(q.work)
      BY <1>0, <2>1 DEF ThreadKnows, WillBe
  <2>3. WorkRecord(q.work, "DISPATCHED") \in QueueRecordSet
      BY <2>2 DEF WorkRecord, QueueRecordSet
  <2> QED BY <2>1, <2>2, <2>3, ThreadAppends
<1> QED BY <1>1, <1>2, <1>3

-----------------------------------------------------------------------------
(* The map objects.                                                          *)

LEMMA ObjectsFinite ==
    /\ Cardinality(Threads) \in Nat /\ Objects \subseteq Nat /\ 1 \in Objects
    /\ IsFiniteSet(Objects) /\ Cardinality(Objects) = Cardinality(Threads) + 2
<1>1. Cardinality(Threads) \in Nat
    BY ThreadsAssumption, FS_CardinalityType
<1>2. PICK n \in Nat : n = Cardinality(Threads) + 2 /\ 1 <= n
    BY <1>1
<1>3. IsFiniteSet(Objects) /\ Cardinality(Objects) = Cardinality(Threads) + 2
  <2>1. IsFiniteSet(1..n) /\ Cardinality(1..n) = IF 1 > n THEN 0 ELSE n - 1 + 1
      BY FS_Interval
  <2> QED BY <1>2, <2>1 DEF Objects
<1>4. Objects \subseteq Nat /\ 1 \in Objects
    BY <1>1 DEF Objects
<1> QED BY <1>1, <1>3, <1>4

\* A new object can always be had: the cache and the threads hold one each.
LEMMA FreshObject ==
    LET used == {cache.map} \cup {qth[u].map : u \in Threads}
    IN  \E n \in Objects \ used : \A m \in Objects \ used : n <= m
<1> DEFINE used == {cache.map} \cup {qth[u].map : u \in Threads}
           c == cache.map
           M == {qth[u].map : u \in Threads}
           f == [u \in Threads |-> qth[u].map]
<1>1. f \in Surjection(Threads, M)
    BY DEF Surjection
<1>2. IsFiniteSet(M) /\ Cardinality(M) <= Cardinality(Threads)
    BY <1>1, ThreadsAssumption, FS_Surjection
<1> HIDE DEF M
<1>3. Cardinality(M) \in Nat /\ IsFiniteSet(M \cup {c}) /\ Cardinality(M \cup {c}) <= Cardinality(M) + 1
  <2>1. Cardinality(M) \in Nat
      BY <1>2, FS_CardinalityType
  <2>2. /\ IsFiniteSet(M \cup {c})
        /\ Cardinality(M \cup {c}) = IF c \in M THEN Cardinality(M) ELSE Cardinality(M) + 1
      BY <1>2, FS_AddElement
  <2> QED BY <2>1, <2>2
<1>4. used = M \cup {c}
    BY DEF M
<1> HIDE DEF used, f, c
<1>5. Cardinality(used) \in Nat /\ Cardinality(used) < Cardinality(Objects)
  <2>1. Cardinality(used) \in Nat
      BY <1>3, <1>4, FS_CardinalityType
  <2>2. Cardinality(used) <= Cardinality(M) + 1
      BY <1>3, <1>4
  <2>3. Cardinality(Threads) \in Nat /\ Cardinality(Objects) = Cardinality(Threads) + 2
      BY ObjectsFinite
  <2> QED BY <1>2, <1>3, <2>1, <2>2, <2>3
<1>6. Objects \ used # {}
  <2> SUFFICES ASSUME Objects \subseteq used PROVE FALSE
      OBVIOUS
  <2>1. Cardinality(Objects) <= Cardinality(used)
      BY <1>3, <1>4, FS_Subset
  <2> QED BY <1>5, <2>1, ObjectsFinite
<1>7. Objects \ used \subseteq Nat
    BY ObjectsFinite
<1>8. \E n \in Objects \ used : \A m \in Objects \ used : n <= m
    BY <1>6, <1>7, LeastExists
<1> QED BY <1>8 DEF used

\* Objects no one can reach are forgotten; the others keep their contents.
LEMMA ReachableFacts ==
    ASSUME NEW h \in [Objects -> [Works -> States]], NEW c, c.map \in Objects, NEW q
    PROVE  /\ Reachable(h, c, q) \in [Objects -> [Works -> States]]
           /\ Reachable(h, c, q)[c.map] = h[c.map]
           /\ \A o \in Objects : Reachable(h, c, q)[o] = h[o] \/ Reachable(h, c, q)[o] = EmptyMap
<1>1. EmptyMap \in [Works -> States]
    BY DEF EmptyMap, States
<1> HIDE DEF EmptyMap
<1> QED BY <1>1 DEF Reachable

\* A thread writes the maps, the cached pair and the token, not the ledger.
LEMMA ThreadWrites ==
    ASSUME QueueInv, NEW t \in Threads, qth[t] # QueueIdle, NEW x \in QueueSet, Becomes(t, x),
           UNCHANGED <<qlog, overlapped>>,
           NEW h \in [Objects -> [Works -> States]], \A o \in Objects, w \in Works : h[o][w] # "ABSENT" => QueuedIn(w),
           NEW c \in [map : Objects, paused : BOOLEAN], cache' = c, heap' = Reachable(h, c, qth'),
           token' \in Nat, token' <= Len(qlog), ThreadKnows(x),
           x.pc # "install",
           ~overlapped =>
              /\ token' = Len(qlog) => h[c.map] = Projection(qlog) /\ c.paused = Paused(qlog)
              /\ x.pc = "finish" => x.map = c.map /\ token' = Len(qlog)
              /\ WillBe(x, "finish") =>
                    /\ x.op = "enqueue" => Projection(qlog)[x.work] = "QUEUED"
                    /\ x.op = "tick" => Projection(qlog)[x.work] = "DISPATCHED"
                    /\ x.op = "pause" => Paused(qlog) = TRUE
                    /\ x.op = "resume" => Paused(qlog) = FALSE
    PROVE  QueueInv'
<1>1. /\ qth' \in [Threads -> QueueSet] /\ qth'[t] = x
      /\ \A u \in Threads \ {t} : qth'[u] = qth[u]
    BY BecomesFacts DEF QueueInv
<1>2. c.map \in Objects /\ c.paused \in BOOLEAN
    OBVIOUS
<1>3. /\ heap' \in [Objects -> [Works -> States]] /\ heap'[c.map] = h[c.map]
      /\ \A o \in Objects : heap'[o] = h[o] \/ heap'[o] = EmptyMap
    BY <1>2, ReachableFacts
<1>4. QueueTypes'
    BY <1>1, <1>3 DEF QueueInv, QueueTypes
<1>5. AdmittedOnce'
    BY DEF QueueInv, AdmittedOnce
<1>6. HeapKnows'
  <2>1. \A o \in Objects, w \in Works : heap'[o][w] # "ABSENT" => QueuedIn(w)
      BY <1>3 DEF EmptyMap
  <2> QED BY <2>1 DEF HeapKnows, QueuedIn
<1>7. ThreadsKnow'
  <2>1. \A y : ThreadKnows(y) => ThreadKnows(y)'
      BY DEF ThreadKnows, QueuedIn
  <2> QED BY <1>1, <2>1 DEF QueueInv, ThreadsKnow
<1>8. Projection(qlog)' = Projection(qlog) /\ Paused(qlog)' = Paused(qlog) /\ Len(qlog)' = Len(qlog)
    BY DEF Projection, Paused, LastState
<1>9. ~overlapped => CacheExact'
    BY <1>3, <1>8 DEF CacheExact
<1>10. ~overlapped => ThreadExact(x)'
    BY <1>8 DEF ThreadExact, WillBe
<1>11. ~overlapped => ThreadExact(qth[t])'
    BY <1>1, <1>10 DEF ThreadExact
<1>12. ExactOK'
    BY <1>1, <1>9, <1>11, ExactStep
<1> QED BY <1>4, <1>5, <1>6, <1>7, <1>12 DEF QueueInv
\* What was read becomes the cached pair, in an object of its own.
LEMMA Installs ==
    ASSUME QueueInv, NEW t \in Threads, UNCHANGED overlapped, EnsureInstall(t) PROVE QueueInv'
<1> DEFINE q == qth[t]
           used == {cache.map} \cup {qth[u].map : u \in Threads}
           o == CHOOSE n \in Objects \ used : \A m \in Objects \ used : n <= m
           x == [q EXCEPT !.pc = q.then, !.map = o, !.scanned = EmptyMap, !.tok = 0]
           h == [heap EXCEPT ![o] = q.scanned]
           c == [map |-> o, paused |-> q.paused]
<1>0. /\ q \in QueueSet /\ ThreadKnows(q) /\ (~overlapped => ThreadExact(q)) /\ QueueTypes
      /\ (q.pc # "idle" => q # QueueIdle)
    BY InQueueFacts DEF QueueInv
<1>1. o \in Objects
  <2>1. \E n \in Objects \ used : \A m \in Objects \ used : n <= m
      BY FreshObject
  <2> QED BY <2>1
<1>2. /\ q.pc = "install" /\ cache' = c /\ Becomes(t, x) /\ heap' = Reachable(h, cache', qth')
      /\ token' = q.tok /\ UNCHANGED qlog
    BY DEF EnsureInstall, InQueue
<1> HIDE DEF o, used
<1>3. /\ x.op = q.op /\ x.pc = q.then /\ x.work = q.work /\ x.todo = q.todo
      /\ x.map = o /\ x.scanned = EmptyMap /\ x.tok = 0
    BY <1>0 DEF QueueSet
<1>4. x \in QueueSet
    BY <1>0, <1>1 DEF QueueSet, EmptyMap, States
<1>5. c \in [map : Objects, paused : BOOLEAN] /\ c.map = o /\ c.paused = q.paused
    BY <1>0, <1>1 DEF QueueSet
<1>6. q.scanned \in [Works -> States] /\ q.tok \in Nat /\ q.tok <= Len(qlog) /\ Len(qlog) \in Nat
    BY <1>0 DEF QueueSet, ThreadKnows, QueueTypes
<1>7. h \in [Objects -> [Works -> States]] /\ h[o] = q.scanned /\ \A p \in Objects \ {o} : h[p] = heap[p]
    BY <1>0, <1>1, <1>6 DEF QueueTypes
<1>8. \A p \in Objects, w \in Works : h[p][w] # "ABSENT" => QueuedIn(w)
    BY <1>0, <1>7 DEF QueueInv, HeapKnows, ThreadKnows
<1> HIDE DEF h, c, x
<1>9. q.then \in {"paused", "queued", "append", "finish", "return"}
    BY <1>0, <1>2 DEF ThreadKnows
<1>10. ThreadKnows(x)
    BY <1>0, <1>1, <1>2, <1>3, <1>6, <1>9 DEF ThreadKnows, WillBe, EmptyMap
<1>11. ASSUME ~overlapped
       PROVE  /\ token' = Len(qlog) => h[c.map] = Projection(qlog) /\ c.paused = Paused(qlog)
              /\ x.pc = "finish" => x.map = c.map /\ token' = Len(qlog)
              /\ WillBe(x, "finish") =>
                    /\ x.op = "enqueue" => Projection(qlog)[x.work] = "QUEUED"
                    /\ x.op = "tick" => Projection(qlog)[x.work] = "DISPATCHED"
                    /\ x.op = "pause" => Paused(qlog) = TRUE
                    /\ x.op = "resume" => Paused(qlog) = FALSE
    BY <1>0, <1>2, <1>3, <1>5, <1>7, <1>9, <1>11 DEF ThreadExact, WillBe
<1>12. x.pc # "install" /\ cache' = c /\ heap' = Reachable(h, c, qth') /\ token' \in Nat /\ token' <= Len(qlog)
    BY <1>2, <1>3, <1>6, <1>9
<1>13. q # QueueIdle
    BY <1>0, <1>2
<1> QED BY <1>2, <1>4, <1>5, <1>7, <1>8, <1>10, <1>11, <1>12, <1>13, ThreadWrites

\* The assignments after an append, and a return.
LEMMA Finishes ==
    ASSUME QueueInv, NEW t \in Threads, UNCHANGED overlapped, FinishControl(t) \/ Return(t)
    PROVE  QueueInv'
<1> DEFINE q == qth[t]
<1>0. /\ q \in QueueSet /\ ThreadKnows(q) /\ (~overlapped => ThreadExact(q)) /\ QueueTypes
      /\ (q.pc # "idle" => q # QueueIdle)
    BY InQueueFacts DEF QueueInv
<1>1. /\ QueueIdle \in QueueSet /\ QueueIdle.pc = "idle" /\ ThreadKnows(QueueIdle) /\ ~WillBe(QueueIdle, "finish")
    BY <1>0, IdleFacts DEF WillBe
<1>2. /\ heap \in [Objects -> [Works -> States]]
      /\ \A o \in Objects, w \in Works : heap[o][w] # "ABSENT" => QueuedIn(w)
      /\ cache \in [map : Objects, paused : BOOLEAN]
      /\ token \in Nat /\ token <= Len(qlog) /\ Len(qlog) \in Nat
    BY <1>0 DEF QueueInv, QueueTypes, HeapKnows
<1>3. ~overlapped => CacheExact
    BY DEF QueueInv, ExactOK
<1>4. CASE FinishControl(t)
  <2> DEFINE c == [map |-> q.map, paused |-> (q.op = "pause")]
  <2>1. /\ q.pc = "finish" /\ q.op \in {"pause", "resume"} /\ cache' = c /\ token' = Len(qlog)
        /\ Becomes(t, QueueIdle) /\ heap' = Reachable(heap, cache', qth') /\ UNCHANGED qlog
      BY <1>4 DEF FinishControl, InQueue
  <2>2. q.map \in Objects
      BY <1>0, <2>1 DEF ThreadKnows
  <2>3. c \in [map : Objects, paused : BOOLEAN] /\ c.map = q.map /\ c.paused = (q.op = "pause")
      BY <2>2
  <2> HIDE DEF c
  <2>4. ASSUME ~overlapped PROVE heap[c.map] = Projection(qlog) /\ c.paused = Paused(qlog)
    <3>1. q.map = cache.map /\ token = Len(qlog) /\ heap[cache.map] = Projection(qlog)
        BY <1>0, <1>3, <2>1, <2>4 DEF ThreadExact, CacheExact
    <3>2. /\ q.op = "pause" => Paused(qlog) = TRUE
          /\ q.op = "resume" => Paused(qlog) = FALSE
        BY <1>0, <2>1, <2>4 DEF ThreadExact, WillBe
    <3> QED BY <2>1, <2>3, <3>1, <3>2
  <2>5. q # QueueIdle /\ cache' = c /\ heap' = Reachable(heap, c, qth') /\ token' \in Nat /\ token' <= Len(qlog)
      BY <1>0, <1>2, <2>1
  <2> QED BY <1>1, <1>2, <2>1, <2>3, <2>4, <2>5, ThreadWrites
<1>5. CASE Return(t)
  <2>1. /\ q.pc \in {"return", "next"} /\ Becomes(t, QueueIdle) /\ heap' = Reachable(heap, cache, qth')
        /\ UNCHANGED <<qlog, cache, token>>
      BY <1>5 DEF Return, InQueue
  <2>2. ~overlapped => (token' = Len(qlog) => heap[cache.map] = Projection(qlog) /\ cache.paused = Paused(qlog))
      BY <1>3, <2>1 DEF CacheExact
  <2>3. q # QueueIdle /\ cache' = cache /\ token' \in Nat /\ token' <= Len(qlog)
      BY <1>0, <1>2, <2>1
  <2> QED BY <1>1, <1>2, <2>1, <2>2, <2>3, ThreadWrites
<1> QED BY <1>4, <1>5

\* The map the thread holds is patched with what the ledger says already.
LEMMA Patches ==
    ASSUME QueueInv, NEW t \in Threads, UNCHANGED overlapped, FinishEnqueue(t) \/ FinishDispatch(t)
    PROVE  QueueInv'
<1> DEFINE q == qth[t]
           s == IF q.op = "enqueue" THEN "QUEUED" ELSE "DISPATCHED"
           m == [heap[q.map] EXCEPT ![q.work] = s]
           h == [heap EXCEPT ![q.map] = m]
           x == IF q.op = "enqueue" THEN QueueIdle
                ELSE [q EXCEPT !.pc = "next", !.todo = q.todo \ {q.work}, !.work = 0, !.map = NoObject]
<1>0. /\ q \in QueueSet /\ ThreadKnows(q) /\ (~overlapped => ThreadExact(q)) /\ QueueTypes
      /\ (q.pc # "idle" => q # QueueIdle)
    BY InQueueFacts DEF QueueInv
<1>1. /\ q.pc = "finish" /\ q.op \in {"enqueue", "tick"} /\ token' = Len(qlog)
      /\ Becomes(t, x) /\ UNCHANGED <<qlog, cache>> /\ heap' = Reachable(h, cache, qth')
    BY DEF FinishEnqueue, FinishDispatch, InQueue
<1>2. q.map \in Objects /\ q.work \in Works /\ QueuedIn(q.work) /\ s \in States
    BY <1>0, <1>1 DEF ThreadKnows, WillBe, States
<1>3. /\ heap \in [Objects -> [Works -> States]]
      /\ \A o \in Objects, w \in Works : heap[o][w] # "ABSENT" => QueuedIn(w)
      /\ cache \in [map : Objects, paused : BOOLEAN] /\ cache.map \in Objects
      /\ Len(qlog) \in Nat
    BY <1>0 DEF QueueInv, QueueTypes, HeapKnows
<1>4. x \in QueueSet /\ x.pc \in {"idle", "next"} /\ ThreadKnows(x)
  <2>1. CASE q.op = "enqueue"
      BY <1>0, <2>1, IdleFacts
  <2>2. CASE q.op # "enqueue"
    <3>1. /\ x.op = q.op /\ x.pc = "next" /\ x.todo = q.todo \ {q.work} /\ x.scanned = q.scanned /\ x.tok = q.tok
        BY <1>0, <2>2 DEF QueueSet
    <3>2. x \in QueueSet
        BY <1>0, <2>2 DEF QueueSet, QueuePcs
    <3> HIDE DEF x
    <3>3. ThreadKnows(x)
        BY <1>0, <1>1, <2>2, <3>1 DEF ThreadKnows, WillBe
    <3> QED BY <3>1, <3>2, <3>3
  <2> QED BY <2>1, <2>2
<1> HIDE DEF x, s
<1>5. /\ m \in [Works -> States] /\ m[q.work] = s /\ \A w \in Works \ {q.work} : m[w] = heap[q.map][w]
    BY <1>2, <1>3
<1> HIDE DEF m
<1>6. h \in [Objects -> [Works -> States]] /\ h[q.map] = m /\ \A p \in Objects \ {q.map} : h[p] = heap[p]
    BY <1>2, <1>3, <1>5
<1> HIDE DEF h
<1>7. \A p \in Objects, w \in Works : h[p][w] # "ABSENT" => QueuedIn(w)
    BY <1>2, <1>3, <1>5, <1>6
<1>8. ASSUME ~overlapped PROVE h[cache.map] = Projection(qlog) /\ cache.paused = Paused(qlog)
  <2>1. /\ q.map = cache.map /\ heap[cache.map] = Projection(qlog) /\ cache.paused = Paused(qlog)
      BY <1>0, <1>1, <1>8 DEF QueueInv, ExactOK, ThreadExact, CacheExact
  <2>2. Projection(qlog)[q.work] = s
      BY <1>0, <1>1, <1>8 DEF ThreadExact, WillBe, s
  <2>3. m = Projection(qlog)
    <3>1. heap[q.map] \in [Works -> States]
        BY <1>2, <1>3
    <3> QED BY <1>5, <2>1, <2>2, <3>1
  <2> QED BY <1>6, <2>1, <2>3
<1>9. q # QueueIdle /\ cache' = cache /\ token' \in Nat /\ token' <= Len(qlog) /\ x.pc # "install" /\ ~WillBe(x, "finish")
    BY <1>0, <1>1, <1>3, <1>4 DEF WillBe
<1> QED BY <1>1, <1>3, <1>4, <1>6, <1>7, <1>8, <1>9, ThreadWrites DEF WillBe
\* An operation of the queue begins; with another under way, they overlap.
LEMMA BeginsQueue ==
    ASSUME QueueInv, NEW t \in Threads, NEW op \in QueueOps, NEW w, op = "enqueue" => w \in Works,
           qth' = [qth EXCEPT ![t] = QueueCall(op, w)],
           overlapped' = (overlapped \/ \E u \in Threads : qth[u] # QueueIdle),
           UNCHANGED <<qlog, heap, cache, token>>
    PROVE  QueueInv'
<1> DEFINE x == QueueCall(op, w)
<1>0. QueueTypes /\ Len(qlog) \in Nat
    BY DEF QueueInv, QueueTypes
<1>1. x \in QueueSet
    BY <1>0 DEF QueueCall, QueueIdle, QueueSet, QueuePcs, QueueOps, EmptyMap, States, NoObject
<1>2. /\ x.op = op /\ x.pc \in {"enqueue", "ensure", "control"} /\ x.todo = {} /\ x.tok = 0 /\ x.scanned = EmptyMap
      /\ x.pc = "enqueue" => op = "enqueue" /\ x.work = w
      /\ x.pc = "control" => op \in {"pause", "resume"}
      /\ x.pc = "ensure" => op = "tick" /\ x.then = "paused"
    BY DEF QueueCall, QueueIdle, QueueOps
<1>3. Becomes(t, x)
    BY DEF Becomes
<1> HIDE DEF x
<1>4. /\ qth' \in [Threads -> QueueSet] /\ qth'[t] = x /\ \A u \in Threads \ {t} : qth'[u] = qth[u]
    BY <1>0, <1>1, <1>3, BecomesFacts
<1>5. ThreadKnows(x) /\ ThreadExact(x)
    BY <1>0, <1>2 DEF ThreadKnows, ThreadExact, WillBe, EmptyMap
<1>6. QueueTypes' /\ HeapKnows' /\ AdmittedOnce'
    BY <1>4 DEF QueueInv, QueueTypes, HeapKnows, AdmittedOnce, QueuedIn
<1>7. PICK y : y = x
    OBVIOUS
<1>8. ThreadsKnow'
  <2>1. \A z : ThreadKnows(z) => ThreadKnows(z)'
      BY DEF ThreadKnows, QueuedIn
  <2>2. ThreadKnows(y)'
      BY <1>5, <1>7, <2>1
  <2>3. \A u \in Threads \ {t} : ThreadKnows(qth[u])'
      BY <1>4, <2>1 DEF QueueInv, ThreadsKnow
  <2>4. ThreadKnows(qth[t])'
      BY <1>4, <1>7, <2>2 DEF ThreadKnows
  <2> QED BY <2>3, <2>4 DEF ThreadsKnow
<1>9. ExactOK'
  <2> SUFFICES ASSUME ~overlapped' PROVE Alone' /\ CacheExact' /\ \A u \in Threads : ThreadExact(qth[u])'
      BY DEF ExactOK
  <2>1. ~overlapped /\ \A u \in Threads : qth[u] = QueueIdle
      OBVIOUS
  <2>2. Alone'
      BY <1>4, <2>1 DEF Alone
  <2>3. CacheExact'
      BY <2>1 DEF QueueInv, ExactOK, CacheExact, Projection, Paused, LastState
  <2>4. ThreadExact(y)'
      BY <1>2, <1>7 DEF ThreadExact, WillBe
  <2>5. ThreadExact(qth[t])'
      BY <1>4, <1>7, <2>4 DEF ThreadExact
  <2>6. ASSUME NEW u \in Threads \ {t} PROVE ThreadExact(qth[u])'
      BY <1>4, <2>1, IdleFacts DEF ThreadExact, WillBe
  <2> QED BY <2>2, <2>3, <2>5, <2>6
<1> QED BY <1>6, <1>8, <1>9 DEF QueueInv

\* Nothing in memory is left: the cached pair is that of an empty ledger.
LEMMA EmptyExact ==
    ASSUME qlog \in Seq(QueueRecordSet), heap = [o \in Objects |-> EmptyMap],
           cache = [map |-> 1, paused |-> FALSE], token = 0
    PROVE  CacheExact /\ cache.map \in Objects /\ heap \in [Objects -> [Works -> States]]
<1>1. cache.map = 1 /\ 1 \in Objects /\ heap[1] = EmptyMap /\ cache.paused = FALSE
    BY ObjectsFinite
<1>2. heap \in [Objects -> [Works -> States]]
    BY DEF EmptyMap, States
<1>3. ASSUME Len(qlog) = 0 PROVE Projection(qlog) = EmptyMap /\ Paused(qlog) = FALSE
  <2>1. \A i \in DOMAIN qlog : FALSE
      BY <1>3
  <2>2. \A w, d : LastState(qlog, w, d) = d
      BY <2>1, LastStateFacts
  <2> HIDE DEF LastState
  <2> QED BY <2>2 DEF Projection, Paused, EmptyMap
<1> QED BY <1>1, <1>2, <1>3 DEF CacheExact

LEMMA QueueRestarts ==
    ASSUME QueueInv, QueueRestart PROVE QueueInv'
<1>0. QueueTypes
    BY DEF QueueInv
<1>1. /\ qth' = [t \in Threads |-> QueueIdle] /\ heap' = [o \in Objects |-> EmptyMap]
      /\ cache' = [map |-> 1, paused |-> FALSE] /\ token' = 0 /\ qlog' = qlog
    BY DEF QueueRestart
<1>2. qlog \in Seq(QueueRecordSet) /\ Len(qlog) \in Nat
    BY <1>0 DEF QueueTypes
<1>3. CacheExact' /\ cache'.map \in Objects /\ heap' \in [Objects -> [Works -> States]]
  <2>1. cache'.map = 1 /\ 1 \in Objects /\ heap'[1] = EmptyMap /\ cache'.paused = FALSE
      BY <1>1, ObjectsFinite
  <2>2. heap' \in [Objects -> [Works -> States]]
      BY <1>1 DEF EmptyMap, States
  <2>3. ASSUME Len(qlog) = 0 PROVE Projection(qlog) = EmptyMap /\ Paused(qlog) = FALSE
    <3>1. \A i \in DOMAIN qlog : FALSE
        BY <1>2, <2>3
    <3>2. \A w, d : LastState(qlog, w, d) = d
        BY <1>2, <3>1, LastStateFacts
    <3> HIDE DEF LastState
    <3> QED BY <3>2 DEF Projection, Paused, EmptyMap
  <2>4. Projection(qlog)' = Projection(qlog) /\ Paused(qlog)' = Paused(qlog)
      BY <1>1 DEF Projection, Paused, LastState
  <2> QED BY <1>1, <2>1, <2>2, <2>3, <2>4 DEF CacheExact
<1>4. QueueTypes'
    BY <1>0, <1>1, <1>2, <1>3, IdleFacts DEF QueueTypes
<1>5. AdmittedOnce' /\ HeapKnows'
    BY <1>1 DEF QueueInv, AdmittedOnce, HeapKnows, EmptyMap
<1>6. ThreadKnows(QueueIdle)
    BY <1>0, IdleFacts
<1>7. ThreadsKnow'
    BY <1>1, <1>6 DEF ThreadsKnow, ThreadKnows, QueuedIn
<1>8. ExactOK'
  <2>1. Alone'
      BY <1>1 DEF Alone
  <2>2. \A u \in Threads : ThreadExact(qth[u])'
      BY <1>1, IdleFacts DEF ThreadExact, WillBe
  <2> QED BY <1>3, <2>1, <2>2 DEF ExactOK
<1> QED BY <1>4, <1>5, <1>7, <1>8 DEF QueueInv

LEMMA QueueUnchanged ==
    ASSUME QueueInv, UNCHANGED <<queueVars, overlapped>> PROVE QueueInv'
<1>1. UNCHANGED <<qth, qlog, heap, cache, token, overlapped>>
    BY DEF queueVars
<1>2. QueueTypes' /\ HeapKnows' /\ AdmittedOnce' /\ ThreadsKnow'
    BY <1>1 DEF QueueInv, QueueTypes, HeapKnows, AdmittedOnce, ThreadsKnow, ThreadKnows, QueuedIn
<1>3. Projection(qlog)' = Projection(qlog) /\ Paused(qlog)' = Paused(qlog)
    BY <1>1 DEF Projection, Paused, LastState
<1>4. ExactOK'
    BY <1>1, <1>3 DEF QueueInv, ExactOK, Alone, CacheExact, ThreadExact
<1> QED BY <1>2, <1>4 DEF QueueInv

LEMMA QueueStepInv ==
    ASSUME QueueInv, NEW t \in Threads, QueueStep(t), UNCHANGED overlapped PROVE QueueInv'
<1>1. CASE EnsureCached(t) \/ EnsureScan(t) \/ CheckPaused(t) \/ TickQueued(t) \/ TickHold(t) \/ TickSelect(t)
    BY <1>1, Moves
<1>2. CASE Enqueue(t) \/ PauseOrResume(t) \/ TickAppend(t)
    BY <1>2, Appends
<1>3. CASE EnsureInstall(t)
    BY <1>3, Installs
<1>4. CASE FinishControl(t) \/ Return(t)
    BY <1>4, Finishes
<1>5. CASE FinishEnqueue(t) \/ FinishDispatch(t)
    BY <1>5, Patches
<1> QED BY <1>1, <1>2, <1>3, <1>4, <1>5 DEF QueueStep

LEMMA QueueInitInv == ASSUME QueueInit, overlapped = FALSE PROVE QueueInv
<1>1. qth = [t \in Threads |-> QueueIdle] /\ qlog = <<>> /\ token = 0 /\ heap = [o \in Objects |-> EmptyMap]
      /\ cache = [map |-> 1, paused |-> FALSE]
    BY DEF QueueInit
<1>2. qlog \in Seq(QueueRecordSet) /\ Len(qlog) = 0 /\ DOMAIN qlog = {}
    BY <1>1
<1>3. CacheExact /\ cache.map \in Objects /\ heap \in [Objects -> [Works -> States]]
    BY <1>1, <1>2, EmptyExact
<1>4. QueueTypes
    BY <1>1, <1>2, <1>3, IdleFacts DEF QueueTypes
<1>5. HeapKnows /\ AdmittedOnce
    BY <1>1, <1>2 DEF HeapKnows, AdmittedOnce, EmptyMap
<1>6. \A t \in Threads : ThreadKnows(qth[t]) /\ ThreadExact(qth[t])
    BY <1>1, <1>4, IdleFacts
<1>7. Alone
    BY <1>1 DEF Alone
<1> QED BY <1>3, <1>4, <1>5, <1>6, <1>7 DEF QueueInv, ThreadsKnow, ExactOK
-----------------------------------------------------------------------------
(* The replay cache.                                                         *)

CheckSet == [pc : {"check"}, req : Requests, at : Nat]

ReplayTypes ==
    /\ clock \in Nat /\ up \in BOOLEAN
    /\ th \in [Threads -> CheckSet \cup {NoRequest}]
    /\ \A t \in Threads : Checking(t) => th[t].at <= clock
    /\ seen \subseteq Requests /\ seenFile \subseteq Requests
    /\ IsFiniteSet(seen) /\ IsFiniteSet(seenFile) /\ Cardinality(seenFile) <= Capacity
    /\ accepted \in [Requests -> Nat]

\* A thread checks a request only while the service is up, and before it has
\* begun to handle it.
CheckFirst == \A t \in Threads : Checking(t) => up /\ qth[t] = QueueIdle /\ eth[t] = TargetIdle

ReplayInv == ReplayTypes /\ CheckFirst /\ ReplayWindow

LEMMA LiveFacts ==
    ASSUME ReplayInv, NEW t \in Threads, Checking(t)
    PROVE  /\ th[t].req \in Requests /\ up /\ qth[t] = QueueIdle /\ eth[t] = TargetIdle
           /\ Live(t) \subseteq seen /\ IsFiniteSet(Live(t)) /\ Cardinality(Live(t)) \in Nat
           /\ Cardinality(Live(t)) <= Capacity
           /\ \A r \in seen : clock < Expiry[r] => r \in Live(t)
<1>1. th[t] \in CheckSet
    BY DEF ReplayInv, ReplayTypes, Checking, NoRequest
<1>2. th[t].req \in Requests /\ th[t].at \in Nat /\ th[t].at <= clock /\ clock \in Nat
    BY <1>1 DEF CheckSet, ReplayInv, ReplayTypes
<1>3. Live(t) \subseteq seen /\ IsFiniteSet(seen) /\ seen \subseteq Requests /\ Cardinality(seen) <= Capacity
    BY DEF Live, ReplayInv, ReplayTypes, ReplayWindow
<1>4. /\ IsFiniteSet(Live(t)) /\ Cardinality(Live(t)) <= Cardinality(seen)
      /\ Cardinality(Live(t)) \in Nat /\ Cardinality(seen) \in Nat
    BY <1>3, FS_Subset, FS_CardinalityType
<1>5. Cardinality(Live(t)) <= Capacity
    BY <1>3, <1>4, ServiceAssumption
<1>6. \A r \in seen : clock < Expiry[r] => r \in Live(t)
    BY <1>2, <1>3, ServiceAssumption DEF Live
<1>7. up /\ qth[t] = QueueIdle /\ eth[t] = TargetIdle
    BY DEF ReplayInv, CheckFirst
<1> QED BY <1>2, <1>3, <1>4, <1>5, <1>6, <1>7

LEMMA LeaveFacts ==
    ASSUME ReplayInv, NEW t \in Threads, Leave(t)
    PROVE  /\ th' \in [Threads -> CheckSet \cup {NoRequest}] /\ th'[t].pc # "check"
           /\ \A u \in Threads \ {t} : th'[u] = th[u]
<1>1. NoRequest.pc # "check"
    BY DEF NoRequest
<1>2. th \in [Threads -> CheckSet \cup {NoRequest}]
    BY DEF ReplayInv, ReplayTypes
<1> HIDE DEF NoRequest
<1> QED BY <1>1, <1>2 DEF Leave

\* The other threads have neither begun nor ended anything.
LEMMA CheckFirstKept ==
    ASSUME ReplayInv, NEW t \in Threads, th'[t].pc # "check", up' = up,
           \A u \in Threads \ {t} : th'[u] = th[u] /\ qth'[u] = qth[u] /\ eth'[u] = eth[u]
    PROVE  CheckFirst'
BY DEF ReplayInv, CheckFirst, Checking

\* Entries that have expired are dropped, in memory and perhaps in the file.
LEMMA Prunes ==
    ASSUME ReplayInv, NEW t \in Threads, Checking(t), seen' = Live(t),
           seenFile' = seenFile \/ seenFile' = Live(t), Leave(t),
           UNCHANGED <<clock, up, accepted, queueVars, targetVars>>
    PROVE  ReplayInv'
<1>1. /\ up /\ Live(t) \subseteq seen /\ IsFiniteSet(Live(t)) /\ Cardinality(Live(t)) <= Capacity
      /\ \A r \in seen : clock < Expiry[r] => r \in Live(t)
    BY LiveFacts
<1>2. /\ th' \in [Threads -> CheckSet \cup {NoRequest}] /\ th'[t].pc # "check"
      /\ \A u \in Threads \ {t} : th'[u] = th[u]
    BY LeaveFacts
<1>3. ReplayTypes'
    BY <1>1, <1>2 DEF ReplayInv, ReplayTypes, Checking
<1>4. CheckFirst'
    BY <1>2, CheckFirstKept DEF queueVars, targetVars
<1>5. ReplayWindow'
    BY <1>1 DEF ReplayInv, ReplayWindow
<1> QED BY <1>3, <1>4, <1>5 DEF ReplayInv

\* A request gets past the check: before its deadline only if it never did.
LEMMA Accepts ==
    ASSUME TargetTypes, QueueTypes, ReplayInv, NEW t \in Threads, Accept(t) PROVE ReplayInv'
<1> DEFINE q == th[t].req
<1>1. /\ Checking(t) /\ q \notin Live(t) /\ Cardinality(Live(t)) < Capacity
      /\ seen' = Live(t) \cup {q} /\ seenFile' = seen' /\ accepted' = [accepted EXCEPT ![q] = @ + 1]
      /\ Leave(t) /\ StartOperation(t) /\ UNCHANGED <<clock, up>>
    BY DEF Accept, Acceptable
<1>2. /\ q \in Requests /\ up /\ Live(t) \subseteq seen /\ IsFiniteSet(Live(t))
      /\ Cardinality(Live(t)) \in Nat
      /\ \A r \in seen : clock < Expiry[r] => r \in Live(t)
    BY <1>1, LiveFacts
<1>3. /\ th' \in [Threads -> CheckSet \cup {NoRequest}] /\ th'[t].pc # "check"
      /\ \A u \in Threads \ {t} : th'[u] = th[u]
    BY <1>1, LeaveFacts
<1>4. IsFiniteSet(seen') /\ Cardinality(seen') = Cardinality(Live(t)) + 1
    BY <1>1, <1>2, FS_AddElement
<1>5. Cardinality(seen') <= Capacity
    BY <1>1, <1>2, <1>4, ServiceAssumption
<1>6. \A u \in Threads \ {t} : qth'[u] = qth[u] /\ eth'[u] = eth[u]
  <2>1. eth \in [Threads -> TargetSet \cup {TargetIdle}] /\ qth \in [Threads -> QueueSet]
      BY DEF TargetTypes, QueueTypes
  <2>2. \/ UNCHANGED eth /\ \E x : qth' = [qth EXCEPT ![t] = x]
        \/ UNCHANGED qth /\ \E x : eth' = [eth EXCEPT ![t] = x]
      BY <1>1 DEF StartOperation, queueVars, targetVars
  <2> QED BY <2>1, <2>2
<1>7. accepted \in [Requests -> Nat] /\ clock \in Nat /\ seen \subseteq Requests
    BY DEF ReplayInv, ReplayTypes
<1> HIDE DEF q
<1>8. accepted' \in [Requests -> Nat] /\ accepted'[q] = accepted[q] + 1
      /\ \A r \in Requests \ {q} : accepted'[r] = accepted[r]
    BY <1>1, <1>2, <1>7
<1>9. ReplayTypes'
    BY <1>1, <1>2, <1>3, <1>4, <1>5, <1>8 DEF ReplayInv, ReplayTypes, Checking
<1>10. CheckFirst'
    BY <1>1, <1>3, <1>6, CheckFirstKept
<1>11. clock < Expiry[q] => accepted[q] = 0
  <2>1. /\ clock < Expiry[q] => accepted[q] <= 1
        /\ clock < Expiry[q] /\ accepted[q] = 1 => q \in seen
      BY <1>2 DEF ReplayInv, ReplayWindow
  <2>2. clock < Expiry[q] => accepted[q] # 1
      BY <1>1, <1>2, <2>1
  <2> QED BY <1>2, <1>7, <2>1, <2>2
<1>12. ReplayWindow'
  <2>1. ASSUME NEW r \in Requests, clock < Expiry[r]
        PROVE  accepted'[r] <= 1 /\ (accepted'[r] = 1 => r \in seen')
    <3>1. CASE r = q
        BY <1>1, <1>8, <1>11, <2>1, <3>1
    <3>2. CASE r # q
        BY <1>1, <1>2, <1>8, <2>1, <3>2 DEF ReplayInv, ReplayWindow
    <3> QED BY <3>1, <3>2
  <2> QED BY <1>1, <1>5, <2>1 DEF ReplayWindow
<1> QED BY <1>9, <1>10, <1>12 DEF ReplayInv

\* A request arrives at a thread that handles nothing.
LEMMA Arrives ==
    ASSUME ReplayInv, NEW t \in Threads, NEW r \in Requests, Arrive(t, r) PROVE ReplayInv'
<1> DEFINE x == [pc |-> "check", req |-> r, at |-> clock]
<1>1. /\ up /\ Free(t) /\ th' = [th EXCEPT ![t] = x]
      /\ UNCHANGED <<clock, up, seen, seenFile, accepted, queueVars, targetVars>>
    BY DEF Arrive
<1>2. x \in CheckSet /\ x.at = clock /\ clock \in Nat
    BY DEF CheckSet, ReplayInv, ReplayTypes
<1> HIDE DEF x
<1>3. /\ th' \in [Threads -> CheckSet \cup {NoRequest}] /\ th'[t] = x
      /\ \A u \in Threads \ {t} : th'[u] = th[u]
    BY <1>1, <1>2 DEF ReplayInv, ReplayTypes
<1>4. ReplayTypes'
    BY <1>1, <1>2, <1>3 DEF ReplayInv, ReplayTypes, Checking
<1>5. CheckFirst'
    BY <1>1, <1>3 DEF ReplayInv, CheckFirst, Checking, Free, queueVars, targetVars
<1>6. ReplayWindow'
    BY <1>1 DEF ReplayInv, ReplayWindow
<1> QED BY <1>4, <1>5, <1>6 DEF ReplayInv

\* The threads that handle an accepted request leave the cache alone.
LEMMA Handles ==
    ASSUME ReplayInv, NEW t \in Threads, ~Checking(t), UNCHANGED <<clock, up, th, seen, seenFile, accepted>>,
           \A u \in Threads \ {t} : qth'[u] = qth[u] /\ eth'[u] = eth[u]
    PROVE  ReplayInv'
<1>1. ReplayTypes' /\ ReplayWindow'
    BY DEF ReplayInv, ReplayTypes, ReplayWindow, Checking
<1>2. CheckFirst'
    BY DEF ReplayInv, CheckFirst, Checking
<1> QED BY <1>1, <1>2 DEF ReplayInv

LEMMA Crashes == ASSUME ReplayInv, Crash PROVE ReplayInv'
<1>1. /\ up' = FALSE /\ seen' = {} /\ th' = [t \in Threads |-> NoRequest]
      /\ UNCHANGED <<clock, seenFile, accepted>>
    BY DEF Crash
<1>2. IsFiniteSet({}) /\ Cardinality({}) = 0
    BY FS_EmptySet
<1>3. ReplayTypes'
    BY <1>1, <1>2 DEF ReplayInv, ReplayTypes, Checking, NoRequest
<1>4. CheckFirst'
    BY <1>1 DEF CheckFirst, Checking, NoRequest
<1>5. ReplayWindow'
    BY <1>1, <1>2, ServiceAssumption DEF ReplayInv, ReplayWindow
<1> QED BY <1>3, <1>4, <1>5 DEF ReplayInv

LEMMA Restarts == ASSUME ReplayInv, Restart PROVE ReplayInv'
<1>1. /\ ~up /\ up' = TRUE /\ seen' = seenFile
      /\ UNCHANGED <<clock, th, seenFile, accepted, queueVars, targetVars>>
    BY DEF Restart
<1>2. ReplayTypes'
    BY <1>1 DEF ReplayInv, ReplayTypes, Checking
<1>3. CheckFirst'
    BY <1>1 DEF ReplayInv, CheckFirst, Checking
<1>4. ReplayWindow'
    BY <1>1 DEF ReplayInv, ReplayTypes, ReplayWindow
<1> QED BY <1>2, <1>3, <1>4 DEF ReplayInv

LEMMA Elapses == ASSUME ReplayInv, Elapse PROVE ReplayInv'
<1>1. /\ clock' = clock + 1 /\ UNCHANGED <<up, th, seen, seenFile, accepted, queueVars, targetVars>>
      /\ clock \in Nat
    BY DEF Elapse, replayVars, ReplayInv, ReplayTypes
<1>2. ReplayTypes'
  <2>1. ASSUME NEW t \in Threads, Checking(t)' PROVE th'[t].at <= clock'
    <3>1. th[t] \in CheckSet /\ th[t].at <= clock
        BY <1>1, <2>1 DEF ReplayInv, ReplayTypes, Checking, NoRequest
    <3>2. th[t].at \in Nat
        BY <3>1 DEF CheckSet
    <3> QED BY <1>1, <3>1, <3>2
  <2> QED BY <1>1, <2>1 DEF ReplayInv, ReplayTypes
<1>3. CheckFirst'
    BY <1>1 DEF ReplayInv, CheckFirst, Checking, queueVars, targetVars
<1>4. ReplayWindow'
  <2>1. \A r \in Requests : clock' < Expiry[r] => clock < Expiry[r]
      BY <1>1, ServiceAssumption
  <2> QED BY <1>1, <2>1 DEF ReplayInv, ReplayWindow
<1> QED BY <1>2, <1>3, <1>4 DEF ReplayInv

LEMMA ReplayInitInv == ASSUME Init PROVE ReplayInv
<1>1. IsFiniteSet({}) /\ Cardinality({}) = 0
    BY FS_EmptySet
<1> QED BY <1>1, ServiceAssumption
        DEF Init, ReplayInv, ReplayTypes, CheckFirst, ReplayWindow, Checking, NoRequest

-----------------------------------------------------------------------------
(* The service.                                                              *)

Inv == TargetInv /\ QueueInv /\ ReplayInv

\* A step of a handler is a step of one thread.
LEMMA OneThread ==
    ASSUME TargetTypes, QueueTypes, NEW t \in Threads
    PROVE  /\ TargetStep(t) \/ IndexWriteFails(t) =>
                 eth[t].pc # "idle" /\ \A u \in Threads \ {t} : eth'[u] = eth[u]
           /\ QueueStep(t) => qth[t].pc # "idle" /\ \A u \in Threads \ {t} : qth'[u] = qth[u]
<1>1. eth \in [Threads -> TargetSet \cup {TargetIdle}] /\ qth \in [Threads -> QueueSet]
    BY DEF TargetTypes, QueueTypes
<1>2. ASSUME TargetStep(t) \/ IndexWriteFails(t)
      PROVE  eth[t].pc # "idle" /\ \E x : eth' = [eth EXCEPT ![t] = x]
    BY <1>2 DEF TargetStep, Admit, WorkerExecutes, WorkerRepeats, WorkerUnavailable, Record, Add, AddWrite,
                Lookup, Unavailable, IndexWriteFails, InTarget, GoTarget, Answer
<1>3. ASSUME QueueStep(t) PROVE qth[t].pc # "idle" /\ \E x : qth' = [qth EXCEPT ![t] = x]
    BY <1>3 DEF QueueStep, EnsureCached, EnsureScan, EnsureInstall, Enqueue, PauseOrResume, CheckPaused, TickQueued,
                TickHold, TickSelect, TickAppend, FinishControl, FinishEnqueue, FinishDispatch, Return, InQueue, Becomes
<1> QED BY <1>1, <1>2, <1>3
LEMMA Starts ==
    ASSUME Inv, NEW t \in Threads, Accept(t) PROVE TargetInv' /\ QueueInv'
<1> DEFINE op == Operation[th[t].req]
<1>1. Checking(t) /\ StartOperation(t)
    BY DEF Accept
<1>2. th[t].req \in Requests /\ eth[t] = TargetIdle
    BY <1>1, LiveFacts DEF Inv
<1>3. \/ op.kind \in QueueOps /\ (op.kind = "enqueue" => op.work \in Works)
      \/ op.kind = "target" /\ op.exec \in Executions /\ op.client \in Clients
    BY <1>2, ServiceAssumption
<1>4. CASE op.kind \in QueueOps
  <2>1. op.kind # "target"
      BY <1>4 DEF QueueOps
  <2>2. /\ qth' = [qth EXCEPT ![t] = QueueCall(op.kind, op.work)]
        /\ overlapped' = (overlapped \/ \E u \in Threads : qth[u] # QueueIdle)
        /\ UNCHANGED <<qlog, heap, cache, token, targetVars>>
      BY <1>1, <2>1 DEF StartOperation
  <2>3. op.kind = "enqueue" => op.work \in Works
      BY <1>3, <2>1
  <2> HIDE DEF op
  <2>4. QueueInv'
      BY <1>4, <2>2, <2>3, BeginsQueue DEF Inv
  <2>5. TargetInv'
      BY <2>2, TargetUnchanged DEF Inv
  <2> QED BY <2>4, <2>5
<1>5. CASE op.kind = "target"
  <2>1. op.kind \notin QueueOps
      BY <1>5 DEF QueueOps
  <2>2. /\ eth' = [eth EXCEPT ![t] = TargetCall(op.exec, op.client)]
        /\ UNCHANGED <<tlog, index, indexFile, lock, ran, answers, overlapped, queueVars>>
      BY <1>1, <2>1 DEF StartOperation
  <2>3. op.exec \in Executions /\ op.client \in Clients
      BY <1>3, <2>1
  <2> HIDE DEF op
  <2>4. TargetInv'
      BY <1>2, <2>2, <2>3, BeginsTarget DEF Inv
  <2>5. QueueInv'
      BY <2>2, QueueUnchanged DEF Inv
  <2> QED BY <2>4, <2>5
<1> QED BY <1>3, <1>4, <1>5

LEMMA NextInv == ASSUME Inv, [Next]_vars PROVE Inv'
<1>0. TargetTypes /\ QueueTypes /\ TargetInv /\ QueueInv /\ ReplayInv
    BY DEF Inv, TargetInv, QueueInv
<1>1. ASSUME NEW t \in Threads, NEW r \in Requests, Arrive(t, r) PROVE Inv'
  <2>1. UNCHANGED <<queueVars, targetVars, overlapped>>
      BY <1>1 DEF Arrive
  <2> QED BY <1>0, <1>1, <2>1, Arrives, QueueUnchanged, TargetUnchanged DEF Inv
<1>2. ASSUME NEW t \in Threads, Refuse(t) \/ PersistFails(t) PROVE Inv'
  <2>1. /\ Checking(t) /\ seen' = Live(t) /\ (seenFile' = seenFile \/ seenFile' = Live(t)) /\ Leave(t)
        /\ UNCHANGED <<clock, up, accepted, queueVars, targetVars, overlapped>>
      BY <1>2 DEF Refuse, PersistFails, PrunedFile
  <2> QED BY <1>0, <2>1, Prunes, QueueUnchanged, TargetUnchanged DEF Inv
<1>3. ASSUME NEW t \in Threads, Accept(t) PROVE Inv'
    BY <1>0, <1>3, Starts, Accepts DEF Inv
<1>4. ASSUME NEW t \in Threads, Queue(t) PROVE Inv'
  <2>1. /\ QueueStep(t) /\ UNCHANGED <<clock, up, th, seen, seenFile, accepted, overlapped, targetVars, eth>>
      BY <1>4 DEF Queue, replayVars, targetVars
  <2>2. qth[t].pc # "idle" /\ \A u \in Threads \ {t} : qth'[u] = qth[u]
      BY <1>0, <2>1, OneThread
  <2>3. ~Checking(t)
      BY <1>0, <2>2, IdleFacts DEF ReplayInv, CheckFirst
  <2>4. ReplayInv'
      BY <1>0, <2>1, <2>2, <2>3, Handles
  <2> QED BY <1>0, <2>1, <2>4, QueueStepInv, TargetUnchanged DEF Inv
<1>5. ASSUME NEW t \in Threads, Target(t) \/ TargetFault(t) PROVE Inv'
  <2>1. /\ TargetStep(t) \/ IndexWriteFails(t)
        /\ UNCHANGED <<clock, up, th, seen, seenFile, accepted, overlapped, queueVars, qth>>
      BY <1>5 DEF Target, TargetFault, replayVars, queueVars
  <2>2. eth[t].pc # "idle" /\ \A u \in Threads \ {t} : eth'[u] = eth[u]
      BY <1>0, <2>1, OneThread
  <2>3. ~Checking(t)
      BY <1>0, <2>2 DEF ReplayInv, CheckFirst, TargetIdle
  <2>4. ReplayInv'
      BY <1>0, <2>1, <2>2, <2>3, Handles
  <2>5. TargetInv'
      BY <1>0, <2>1, TargetStepInv, IndexFails
  <2> QED BY <1>0, <2>1, <2>4, <2>5, QueueUnchanged DEF Inv
<1>6. CASE Crash
  <2>1. QueueRestart /\ TargetRestart
      BY <1>6 DEF Crash
  <2> QED BY <1>0, <1>6, <2>1, Crashes, QueueRestarts, TargetRestarts DEF Inv
<1>7. CASE Restart
  <2>1. UNCHANGED <<queueVars, targetVars, overlapped>>
      BY <1>7 DEF Restart
  <2> QED BY <1>0, <1>7, <2>1, Restarts, QueueUnchanged, TargetUnchanged DEF Inv
<1>8. CASE Elapse
  <2>1. UNCHANGED <<queueVars, targetVars, overlapped>>
      BY <1>8 DEF Elapse
  <2> QED BY <1>0, <1>8, <2>1, Elapses, QueueUnchanged, TargetUnchanged DEF Inv
<1>9. CASE UNCHANGED vars
  <2>1. UNCHANGED <<clock, up, th, seen, seenFile, accepted, overlapped, queueVars, targetVars, qth, eth>>
      BY <1>9 DEF vars, replayVars, queueVars, targetVars
  <2>2. ReplayInv'
      BY <1>0, <2>1 DEF ReplayInv, ReplayTypes, CheckFirst, ReplayWindow, Checking
  <2> QED BY <1>0, <2>1, <2>2, QueueUnchanged, TargetUnchanged DEF Inv
<1> QED BY <1>1, <1>2, <1>3, <1>4, <1>5, <1>6, <1>7, <1>8, <1>9 DEF Next

LEMMA ServiceInv == Spec => []Inv
<1>1. Init => Inv
    BY TargetInitInv, QueueInitInv, ReplayInitInv DEF Init, Inv
<1>2. Inv /\ [Next]_vars => Inv'
    BY NextInv
<1> QED BY <1>1, <1>2, PTL DEF Spec

\* _ServiceReplayCache (controller_service.py:63-146): until its deadline a request
\* is handled at most once, over any number of threads, crashes, failed saves and
\* prunings, and the cache never holds more than its capacity.
THEOREM ServiceReplayWindow == Spec => []ReplayWindow
<1>1. Inv => ReplayWindow
    BY DEF Inv, ReplayInv
<1> QED BY <1>1, ServiceInv, PTL

\* enqueue, pause, resume and tick (work_queue.py:50-253): whatever overlaps, a
\* work is admitted once and before it is dispatched; and while nothing overlapped,
\* the projection that the operations leave behind is what the ledger says.
THEOREM QueueIsExact == Spec => []QueueExact
<1>1. Inv => QueueExact
    BY DEF Inv, QueueInv, ExactOK, CacheExact, QueueExact, ExactWithoutOverlap
<1> QED BY <1>1, ServiceInv, PTL

\* execution.target.dispatch (controller_service.py:1654-1763): an execution leaves
\* at most one piece of evidence, and no other client is answered with it.
THEOREM TargetOneEvidence == Spec => []OneEvidence
<1>1. Inv => OneEvidence
    BY DEF Inv, TargetInv
<1> QED BY <1>1, ServiceInv, PTL

\* target_index.py: what the index holds, in memory or in its file, and what a
\* caller was told is in the ledger, behind the admission of the same client.
THEOREM TargetEvidenceDurable == Spec => []EvidenceIsDurable
<1>1. Inv => EvidenceIsDurable
    BY DEF Inv, TargetInv
<1> QED BY <1>1, ServiceInv, PTL

\* lookup (target_index.py:107-174): a repeated result is refused for want of
\* evidence only while the thread that appended the evidence has not left add,
\* although the index may be signed for a ledger that holds evidence it lacks.
THEOREM LookupMissesOnlyInFlight == Spec => MissingOnlyInFlight
<1>1. ASSUME Inv, [Next]_vars, NEW t \in Threads, InTarget(t, "lookup"), eth'[t].pc = "missing",
             NEW v \in EvidenceIn(tlog), v.exec = eth[t].exec
      PROVE  \E u \in Threads \ {t} : (InTarget(u, "add") \/ InTarget(u, "write")) /\ eth[u].exec = eth[t].exec
  <2>0. TargetTypes /\ QueueTypes /\ eth[t].pc = "lookup" /\ eth'[t] # eth[t]
      BY <1>1 DEF Inv, TargetInv, QueueInv, InTarget
  <2>1. Lookup(t)
    <3>1. ASSUME NEW u \in Threads, TargetStep(u) \/ IndexWriteFails(u) PROVE Lookup(t)
      <4>1. u = t
          BY <2>0, <3>1, OneThread
      <4>2. ~IndexWriteFails(t)
        <5>1. IndexWriteFails(t) => GoTarget(t, "failed")
            BY DEF IndexWriteFails
        <5>2. GoTarget(t, "failed") => eth'[t].pc = "failed"
            BY <2>0, GoFacts DEF TargetPcs
        <5> QED BY <1>1, <5>1, <5>2
      <4> QED BY <2>0, <3>1, <4>1, <4>2
              DEF TargetStep, Admit, WorkerExecutes, WorkerRepeats, WorkerUnavailable, Record, Add, AddWrite,
                  Unavailable, InTarget
    <3>2. ASSUME NEW u \in Threads, Accept(u) PROVE FALSE
      <4>1. eth[u] = TargetIdle /\ StartOperation(u)
          BY <1>1, <3>2, LiveFacts DEF Inv, Accept
      <4>2. u # t
          BY <2>0, <4>1 DEF TargetIdle
      <4>3. eth' = eth \/ \E x : eth' = [eth EXCEPT ![u] = x]
          BY <4>1 DEF StartOperation, targetVars
      <4> QED BY <2>0, <4>2, <4>3 DEF TargetTypes
    <3>3. ~Crash
      <4>1. Crash => eth'[t] = TargetIdle
          BY DEF Crash, TargetRestart
      <4> QED BY <1>1, <4>1 DEF TargetIdle
    <3>4. eth' # eth
        BY <2>0
    <3>5. \E u \in Threads : Accept(u) \/ Target(u) \/ TargetFault(u)
      <4>1. ASSUME NEW u \in Threads, Refuse(u) \/ PersistFails(u) \/ Queue(u) PROVE FALSE
          BY <3>4, <4>1 DEF Refuse, PersistFails, Queue, targetVars
      <4>2. ASSUME NEW u \in Threads, NEW r \in Requests, Arrive(u, r) PROVE FALSE
          BY <3>4, <4>2 DEF Arrive, targetVars
      <4>3. ~Restart /\ ~Elapse /\ ~UNCHANGED vars
          BY <3>4 DEF Restart, Elapse, vars, targetVars
      <4> QED BY <1>1, <3>3, <4>1, <4>2, <4>3 DEF Next
    <3> QED BY <3>1, <3>2, <3>5 DEF Target, TargetFault
  <2>2. Candidates(t) = {}
    <3>1. GoTarget(t, "failed") => eth'[t].pc = "failed"
        BY <2>0, GoFacts DEF TargetPcs
    <3>2. eth' = [eth EXCEPT ![t] = TargetIdle] => eth'[t].pc = "idle"
        BY <2>0, EndFacts
    <3> QED BY <1>1, <2>1, <3>1, <3>2 DEF Lookup, Answer
  <2>3. v \notin Ensured.evidence
      BY <1>1, <2>2 DEF Candidates
  <2>4. InFlight(v)
      BY <1>1, <2>0, <2>3 DEF Inv, TargetInv, FreshOK
  <2>5. PICK u \in Threads : eth[u].pc \in {"add", "write"} /\ Mine(u) = v
      BY <2>4 DEF InFlight
  <2>6. Mine(u).exec = eth[u].exec
      BY <2>0, <2>5, InHandler
  <2> QED BY <1>1, <2>0, <2>5, <2>6 DEF InTarget
<1>2. Inv /\ [Next]_vars =>
         [\A t \in Threads :
             (InTarget(t, "lookup") /\ eth'[t].pc = "missing" /\ \E v \in EvidenceIn(tlog) : v.exec = eth[t].exec) =>
                \E u \in Threads \ {t} :
                   (InTarget(u, "add") \/ InTarget(u, "write")) /\ eth[u].exec = eth[t].exec]_targetVars
    BY <1>1
<1> QED BY <1>2, ServiceInv, PTL DEF Spec, MissingOnlyInFlight
=============================================================================
