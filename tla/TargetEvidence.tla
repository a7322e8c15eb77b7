--------------------------- MODULE TargetEvidence ---------------------------
(***************************************************************************)
(* Execution on an exact target: the execution.target.dispatch handler of   *)
(* the controller service and the evidence index it uses (target_index.py). *)
(* The handler records an admission, sends the work to the target's worker, *)
(* and answers with the evidence of the execution: new evidence when the    *)
(* worker executed, the original evidence when the worker only repeats the  *)
(* result of an execution it remembers.                                     *)
(*                                                                          *)
(* The index caches the evidence of the ledger, in memory and in a file,    *)
(* each with the signature of the ledger it was made from.  The signature   *)
(* is the ledger's length: every append changes size and digest.  The       *)
(* index's lock does not exclude appends to the ledger.  An execution is    *)
(* named by its execution_request_identity; of the binding that lookup      *)
(* compares, the authenticated client is kept.                              *)
(***************************************************************************)
EXTENDS RequestThreads

CONSTANTS
    Executions,     \* execution_request_identity values
    Clients         \* authenticated_client_identity values

VARIABLES
    eth,            \* what each thread does in this handler
    tlog,           \* target_ledger
    index,          \* _entries and _source_signature
    indexFile,      \* the persisted index
    lock,           \* the thread that holds the index's lock, as a set
    ran,            \* the executions the worker remembers (external)
    answers         \* what callers were told: the evidence, for whom

targetVars == <<eth, tlog, index, indexFile, lock, ran, answers>>

TargetIdle == [pc |-> "idle"]
NoIndex == [evidence |-> {}, signature |-> -1]

TargetInit ==
    /\ eth = [t \in Threads |-> TargetIdle]
    /\ tlog = <<>> /\ index = NoIndex /\ indexFile = NoIndex /\ lock = {}
    /\ ran = {} /\ answers = {}

Admission(e, c, d) == [type |-> "admission", exec |-> e, client |-> c, disposition |-> d]
Evidence(e, c) == [type |-> "execution", exec |-> e, client |-> c]
EvidenceIn(log) == {log[i] : i \in {j \in DOMAIN log : log[j].type = "execution"}}

InTarget(t, pc) == eth[t].pc = pc
GoTarget(t, pc) == eth' = [eth EXCEPT ![t].pc = pc]
Mine(t) == Evidence(eth[t].exec, eth[t].client)

\* evaluate_target_admission; whatever it says is recorded.
Admit(t) ==
    /\ InTarget(t, "admit")
    /\ \/ /\ tlog' = Append(tlog, Admission(eth[t].exec, eth[t].client, "PASS"))
          /\ GoTarget(t, "worker")
       \/ /\ tlog' = Append(tlog, Admission(eth[t].exec, eth[t].client, "REJECTED"))
          /\ eth' = [eth EXCEPT ![t] = TargetIdle]
    /\ UNCHANGED <<index, indexFile, lock, ran, answers>>

\* The worker executes a request once and repeats the result of one it has
\* executed; the answer may not come back, or not be one of these two.
WorkerExecutes(t) ==
    /\ InTarget(t, "worker") /\ eth[t].exec \notin ran
    /\ ran' = ran \cup {eth[t].exec}
    /\ \E pc \in {"executed", "failed"} : GoTarget(t, pc)
    /\ UNCHANGED <<tlog, index, indexFile, lock, answers>>

WorkerRepeats(t) ==
    /\ InTarget(t, "worker") /\ eth[t].exec \in ran
    /\ GoTarget(t, "lookup")
    /\ UNCHANGED <<tlog, index, indexFile, lock, ran, answers>>

WorkerUnavailable(t) ==
    /\ InTarget(t, "worker")
    /\ GoTarget(t, "failed")
    /\ UNCHANGED <<tlog, index, indexFile, lock, ran, answers>>

\* Mutant: the evidence goes to the index only.
RecordInIndexOnly(t) ==
    /\ InTarget(t, "executed")
    /\ GoTarget(t, "add")
    /\ UNCHANGED <<tlog, index, indexFile, lock, ran, answers>>

\* EXECUTED: the evidence is appended, then given to the index.
Record(t) ==
    /\ InTarget(t, "executed")
    /\ tlog' = Append(tlog, Mine(t))
    /\ GoTarget(t, "add")
    /\ UNCHANGED <<index, indexFile, lock, ran, answers>>

(***************************************************************************)
(* The index                                                                *)
(***************************************************************************)
Current(i) == i.signature = Len(tlog)
Rebuilt == [evidence |-> EvidenceIn(tlog), signature |-> Len(tlog)]

\* _ensure: the entries in memory, the file's, or a rebuild that is written
Ensured == IF Current(index) THEN index ELSE IF Current(indexFile) THEN indexFile ELSE Rebuilt
EnsureFile == indexFile' = IF Current(index) \/ Current(indexFile) THEN indexFile ELSE Rebuilt

\* add, under the lock: the entries as of now, with the new evidence
Add(t) ==
    /\ InTarget(t, "add") /\ lock = {}
    /\ lock' = {t}
    /\ index' = [Ensured EXCEPT !.evidence = @ \cup {Mine(t)}]
    /\ EnsureFile
    /\ GoTarget(t, "write")
    /\ UNCHANGED <<tlog, ran, answers>>

Answer(t, evidence) ==
    /\ answers' = answers \cup {[client |-> eth[t].client, evidence |-> evidence]}
    /\ eth' = [eth EXCEPT ![t] = TargetIdle]

\* add, its end: the ledger may have grown since, and the entries are written
\* under the signature it has now.
AddWrite(t) ==
    /\ InTarget(t, "write")
    /\ index' = [index EXCEPT !.signature = Len(tlog)]
    /\ indexFile' = index'
    /\ lock' = {}
    /\ Answer(t, Mine(t))
    /\ UNCHANGED <<tlog, ran>>

\* _write raises: at the end of add, or in the rebuild of add or lookup.
IndexWriteFails(t) ==
    /\ \/ InTarget(t, "write") /\ lock' = {}
       \/ /\ InTarget(t, "add") \/ InTarget(t, "lookup")
          /\ lock = {} /\ ~Current(index) /\ ~Current(indexFile)
          /\ UNCHANGED lock
    /\ GoTarget(t, "failed")
    /\ UNCHANGED <<tlog, index, indexFile, ran, answers>>

Candidates(t) == {v \in Ensured.evidence : v.exec = eth[t].exec}

\* Mutant: only the execution is compared.
LookupAnyClient(t) ==
    /\ InTarget(t, "lookup") /\ lock = {}
    /\ index' = Ensured /\ EnsureFile
    /\ \/ \E v \in Candidates(t) : Answer(t, v)
       \/ Candidates(t) = {} /\ GoTarget(t, "missing") /\ UNCHANGED answers
    /\ UNCHANGED <<tlog, lock, ran>>

\* DUPLICATE_IDEMPOTENT: the original evidence if its binding is the caller's, a
\* conflict if there is only other evidence, and an error if there is none
Lookup(t) ==
    /\ InTarget(t, "lookup") /\ lock = {}
    /\ index' = Ensured /\ EnsureFile
    /\ \/ Mine(t) \in Candidates(t) /\ Answer(t, Mine(t))
       \/ Mine(t) \notin Candidates(t) /\ Candidates(t) # {} /\ GoTarget(t, "failed") /\ UNCHANGED answers
       \/ Candidates(t) = {} /\ GoTarget(t, "missing") /\ UNCHANGED answers
    /\ UNCHANGED <<tlog, lock, ran>>

\* The exception handler records that the target became unavailable.
Unavailable(t) ==
    /\ InTarget(t, "failed") \/ InTarget(t, "missing")
    /\ tlog' = Append(tlog, Admission(eth[t].exec, eth[t].client, "UNKNOWN"))
    /\ eth' = [eth EXCEPT ![t] = TargetIdle]
    /\ UNCHANGED <<index, indexFile, lock, ran, answers>>

TargetStep(t) ==
    \/ Admit(t) \/ WorkerExecutes(t) \/ WorkerRepeats(t) \/ WorkerUnavailable(t)
    \/ Record(t) \/ Add(t) \/ AddWrite(t) \/ Lookup(t) \/ Unavailable(t)

TargetCall(e, c) == [pc |-> "admit", exec |-> e, client |-> c]

\* The process starts again; the ledger, the index file and the worker remain.
TargetRestart ==
    /\ eth' = [t \in Threads |-> TargetIdle]
    /\ index' = NoIndex /\ lock' = {}
    /\ UNCHANGED <<tlog, indexFile, ran, answers>>

(***************************************************************************)
(* Properties                                                               *)
(***************************************************************************)
TargetTypeOK ==
    /\ \A t \in Threads : eth[t] # TargetIdle => eth[t].exec \in Executions /\ eth[t].client \in Clients
    /\ \A i \in DOMAIN tlog :
          /\ tlog[i].exec \in Executions /\ tlog[i].client \in Clients
          /\ tlog[i].type = "admission" => tlog[i].disposition \in {"PASS", "REJECTED", "UNKNOWN"}
    /\ \A x \in {index, indexFile} :
          /\ x.signature \in -1..Len(tlog)
          /\ \A v \in x.evidence : v.type = "execution" /\ v.exec \in Executions /\ v.client \in Clients
    /\ lock \in SUBSET Threads /\ Cardinality(lock) <= 1
    /\ \A t \in Threads : InTarget(t, "write") <=> t \in lock
    /\ ran \subseteq Executions

\* An execution leaves at most one piece of evidence, however many requests,
\* crashes and lost answers there were, and a request of another client that
\* names the execution is never answered with it (target_index.py:140-174,
\* controller_service.py:1733-1744).
OneEvidence ==
    /\ \A i, j \in DOMAIN tlog :
          tlog[i].type = "execution" /\ tlog[j].type = "execution" /\ tlog[i].exec = tlog[j].exec => i = j
    /\ \A a \in answers : a.evidence.client = a.client

\* "the ledger remains canonical" (target_index.py:23): what a caller was told,
\* and what the index holds in memory or in its file, is in the ledger, and the
\* evidence follows the admission of the same client.
EvidenceIsDurable ==
    /\ index.evidence \cup indexFile.evidence \cup {a.evidence : a \in answers} \subseteq EvidenceIn(tlog)
    /\ \A i \in DOMAIN tlog : tlog[i].type = "execution" =>
          \E j \in 1..i : tlog[j] = Admission(tlog[i].exec, tlog[i].client, "PASS")

\* A repeated result is refused for want of evidence only while the evidence is
\* not in the ledger, or while the thread that appended it has not left add.
\* The index can be signed for a ledger that holds evidence it lacks (an append
\* between the two halves of add, then a crash): the admission that each handler
\* appends before its lookup is what makes the index read the ledger again
\* (target_index.py:107-138).
MissingOnlyInFlight ==
    [][\A t \in Threads :
          (InTarget(t, "lookup") /\ eth'[t].pc = "missing" /\ \E v \in EvidenceIn(tlog) : v.exec = eth[t].exec) =>
             \E u \in Threads \ {t} :
                (InTarget(u, "add") \/ InTarget(u, "write")) /\ eth[u].exec = eth[t].exec]_targetVars
=============================================================================
