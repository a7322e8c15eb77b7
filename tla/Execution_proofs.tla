-------------------------- MODULE Execution_proofs ---------------------------
(***************************************************************************)
(* Theorems of WorkerReplay and of Execution, for any work items, bindings, *)
(* clients, threads, worker connections and bounds.                         *)
(*                                                                          *)
(* The first part is about the worker alone (Spec).  In the second, about   *)
(* controller and worker together (SystemSpec), the system's steps are      *)
(* steps of the worker, so its invariants hold; what is proved there is     *)
(* that the controller gets the answers of its own dispatches.              *)
(***************************************************************************)
EXTENDS Execution, LedgerFacts

(***************************************************************************)
(* The worker.                                                              *)
(***************************************************************************)

\* The points of a handler that carries a dispatch.
Carrying == {"accepts", "prior", "admit", "intent", "publish", "execute",
             "running", "result", "publishResult"}

\* A busy handler belongs to the running endpoint; a handler that carries a
\* dispatch has a request and a binding.
HandlersOK ==
    \A c \in Conns :
        /\ h[c].pc # "idle" => up /\ c \in slots
        /\ h[c].pc \in Carrying => h[c].req \in Requests /\ h[c].binding \in Bindings

TypeInv == TypeOK /\ HandlersOK

EntrySet == [type : {"dispatch", "result", "other"}, req : Requests \cup {None},
             binding : Bindings \cup {None}, record : Nat]

\* Latest(type, r) is the greatest of the request's positions.
LEMMA LatestIsGreatest ==
    ASSUME ledger \in Seq(EntrySet), NEW type, NEW r, Positions(type, r) # {}
    PROVE  /\ Latest(type, r) \in Positions(type, r)
           /\ \A j \in Positions(type, r) : j <= Latest(type, r)
<1>1. Len(ledger) \in Nat /\ Positions(type, r) \subseteq 0..Len(ledger)
    BY DEF Positions
<1>2. \E x \in Positions(type, r) : \A y \in Positions(type, r) : y <= x
    BY <1>1, GreatestExists
<1> QED BY <1>2 DEF Latest

LEMMA IdleType == Idle \in Handler
BY DEF Idle, Handler, Pcs, Kinds

\* The initial state is well typed.
LEMMA TypeInit == Init => TypeInv
<1> SUFFICES ASSUME Init PROVE TypeInv
    OBVIOUS
<1>1. h \in [Conns -> Handler]
    BY IdleType DEF Init
<1>2. TypeOK
    BY <1>1, BoundAssumption DEF Init, TypeOK, States
<1>3. HandlersOK
    BY DEF Init, HandlersOK, Idle, Carrying
<1> QED BY <1>2, <1>3 DEF TypeInv

\* What a step that only advances a handler does to the handlers.
LEMMA StepFacts ==
    ASSUME h \in [Conns -> Handler], NEW c \in Conns, NEW from, NEW to \in Pcs, Step(c, from, to)
    PROVE  /\ h' \in [Conns -> Handler]
           /\ h[c].pc = from /\ up
           /\ h'[c].pc = to /\ h'[c].req = h[c].req /\ h'[c].binding = h[c].binding
           /\ h'[c].record = h[c].record /\ h'[c].kind = h[c].kind
           /\ \A d \in Conns \ {c} : h'[d] = h[d]
<1>1. h[c] \in Handler
    OBVIOUS
<1> DEFINE x == [h[c] EXCEPT !.pc = to]
<1>2. /\ x \in Handler
      /\ x.pc = to /\ x.req = h[c].req /\ x.binding = h[c].binding
      /\ x.record = h[c].record /\ x.kind = h[c].kind
    BY <1>1 DEF Handler
<1>3. h' = [h EXCEPT ![c] = x] /\ h[c].pc = from /\ up
    BY DEF Step
<1> HIDE DEF x
<1> QED BY <1>2, <1>3

\* What a handler's return does to the handlers.
LEMMA ReturnFacts ==
    ASSUME h \in [Conns -> Handler], NEW c \in Conns, NEW from, NEW kind \in Kinds,
           NEW record \in Nat, Return(c, from, kind, record)
    PROVE  /\ h' \in [Conns -> Handler]
           /\ h[c].pc = from /\ up
           /\ h'[c].pc = "reply" /\ h'[c].req = h[c].req /\ h'[c].binding = h[c].binding
           /\ h'[c].record = record /\ h'[c].kind = kind
           /\ \A d \in Conns \ {c} : h'[d] = h[d]
<1>1. h[c] \in Handler
    OBVIOUS
<1> DEFINE x == [h[c] EXCEPT !.pc = "reply", !.kind = kind, !.record = record]
<1>2. /\ x \in Handler
      /\ x.pc = "reply" /\ x.req = h[c].req /\ x.binding = h[c].binding
      /\ x.record = record /\ x.kind = kind
    BY <1>1 DEF Handler, Pcs
<1>3. h' = [h EXCEPT ![c] = x] /\ h[c].pc = from /\ up
    BY DEF Return
<1> HIDE DEF x
<1> QED BY <1>2, <1>3

\* Advancing a handler that carries a dispatch keeps the handlers well formed.
LEMMA AdvanceOK ==
    ASSUME TypeInv, NEW c \in Conns, NEW from \in Carrying, NEW to \in Carrying,
           Step(c, from, to), UNCHANGED <<slots, up>>
    PROVE  h' \in [Conns -> Handler] /\ HandlersOK'
<1>1. to \in Pcs /\ from # "idle"
    BY DEF Carrying, Pcs
<1>2. h \in [Conns -> Handler] /\ HandlersOK
    BY DEF TypeInv, TypeOK
<1>3. /\ h' \in [Conns -> Handler]
      /\ h[c].pc = from
      /\ h'[c].pc = to /\ h'[c].req = h[c].req /\ h'[c].binding = h[c].binding
      /\ \A d \in Conns \ {c} : h'[d] = h[d]
    BY <1>1, <1>2, StepFacts
<1> QED BY <1>1, <1>2, <1>3 DEF HandlersOK

\* So does a return ...
LEMMA ReturnOK ==
    ASSUME TypeInv, NEW c \in Conns, NEW from, from # "idle", NEW kind \in Kinds, NEW record \in Nat,
           Return(c, from, kind, record), UNCHANGED <<slots, up>>
    PROVE  h' \in [Conns -> Handler] /\ HandlersOK'
BY ReturnFacts DEF TypeInv, TypeOK, HandlersOK, Carrying

\* ... and the end of a handler.
LEMMA IdleOK ==
    ASSUME TypeInv, NEW c \in Conns, h' = [h EXCEPT ![c] = Idle], UNCHANGED <<slots, up>>
    PROVE  h' \in [Conns -> Handler] /\ HandlersOK'
<1>1. h' \in [Conns -> Handler]
    BY IdleType DEF TypeInv, TypeOK
<1>2. h'[c] = Idle /\ \A d \in Conns \ {c} : h'[d] = h[d]
    BY DEF TypeInv, TypeOK
<1>3. Idle.pc = "idle" /\ "idle" \notin Carrying
    BY DEF Idle, Carrying
<1> QED BY <1>1, <1>2, <1>3 DEF TypeInv, HandlersOK

\* The end of the process keeps the types.
LEMMA ProcessEndsOK == ASSUME TypeInv, ProcessEnds PROVE TypeInv'
<1>1. h' \in [Conns -> Handler]
    BY IdleType DEF ProcessEnds
<1>2. TypeOK'
  <2>0. exits' \in 0..MaxExits
      BY BoundAssumption DEF ProcessEnds, TypeInv, TypeOK
  <2>1. mgmt' \in States /\ up' \in BOOLEAN
      BY DEF ProcessEnds, States
  <2>2. dispatchBy' \in [Requests -> Bindings \cup {None}] /\ resultBy' \in [Requests -> Nat]
      BY DEF ProcessEnds
  <2> QED BY <1>1, <2>0, <2>1, <2>2 DEF ProcessEnds, TypeInv, TypeOK
<1>3. HandlersOK'
    BY DEF ProcessEnds, HandlersOK, Idle, Carrying
<1> QED BY <1>2, <1>3 DEF TypeInv

\* Every step keeps the types.
LEMMA TypeStep == TypeInv /\ [Next]_vars => TypeInv'
<1> SUFFICES ASSUME TypeInv, [Next]_vars PROVE TypeInv'
    OBVIOUS
<1> USE DEF TypeInv
<1> USE BoundAssumption
<1>1. ASSUME NEW c \in Conns, NEW r \in Requests, NEW b \in Bindings, Receive(c, r, b)
      PROVE  TypeInv'
  <2>1. h' \in [Conns -> Handler]
      BY <1>1 DEF Receive, TypeOK, Handler, Idle, Pcs, Kinds
  <2>2. TypeOK'
      BY <1>1, <2>1 DEF Receive, TypeOK
  <2>3. HandlersOK'
      BY <1>1 DEF Receive, TypeOK, HandlersOK, Idle, Carrying
  <2> QED BY <2>2, <2>3
<1>2. ASSUME NEW c \in Conns, NEW command \in Commands, Manage(c, command)
      PROVE  TypeInv'
  <2>1. h' \in [Conns -> Handler]
      BY <1>2 DEF Manage, TypeOK, Handler, Idle, Pcs, Kinds
  <2>2. mgmt' \in States
      BY <1>2 DEF Manage, TypeOK, Target, States
  <2>3. TypeOK'
      BY <1>2, <2>1, <2>2 DEF Manage, TypeOK
  <2>4. HandlersOK'
      BY <1>2 DEF Manage, TypeOK, HandlersOK, Idle, Carrying
  <2> QED BY <2>3, <2>4
<1>3. ASSUME NEW c \in Conns, Observe(c)
      PROVE  TypeInv'
  <2>1. h' \in [Conns -> Handler]
      BY <1>3 DEF Observe, TypeOK, Handler, Idle, Pcs, Kinds
  <2>2. TypeOK'
      BY <1>3, <2>1 DEF Observe, TypeOK
  <2>3. HandlersOK'
      BY <1>3 DEF Observe, TypeOK, HandlersOK, Idle, Carrying
  <2> QED BY <2>2, <2>3
<1>4. ASSUME NEW c \in Conns, CheckAcceptsWork(c)
      PROVE  TypeInv'
  <2>1. "accepts" \in Carrying /\ "prior" \in Carrying /\ "UNKNOWN" \in Kinds
      BY DEF Carrying, Kinds
  <2>2. h' \in [Conns -> Handler] /\ HandlersOK'
      BY <1>4, <2>1, AdvanceOK, ReturnOK DEF CheckAcceptsWork
  <2> QED BY <1>4, <2>2 DEF CheckAcceptsWork, TypeOK
<1>5. ASSUME NEW c \in Conns, CheckPrior(c)
      PROVE  TypeInv'
  <2>1. /\ "prior" \in Carrying /\ "admit" \in Carrying
        /\ {"CONFLICTING_REPLAY", "DUPLICATE_IDEMPOTENT", "DUPLICATE_IN_PROGRESS"} \subseteq Kinds
      BY DEF Carrying, Kinds
  <2>2. resultBy[h[c].req] \in Nat
      BY <1>5, <2>1 DEF CheckPrior, TypeOK, HandlersOK
  <2>3. h' \in [Conns -> Handler] /\ HandlersOK'
      BY <1>5, <2>1, <2>2, AdvanceOK, ReturnOK DEF CheckPrior
  <2> QED BY <1>5, <2>3 DEF CheckPrior, TypeOK
<1>6. ASSUME NEW c \in Conns, Admit(c)
      PROVE  TypeInv'
  <2>1. "admit" \in Carrying /\ "intent" \in Carrying /\ "UNKNOWN" \in Kinds
      BY DEF Carrying, Kinds
  <2>2. h' \in [Conns -> Handler] /\ HandlersOK'
      BY <1>6, <2>1, AdvanceOK, ReturnOK DEF Admit
  <2> QED BY <1>6, <2>2 DEF Admit, TypeOK
<1>7. ASSUME NEW c \in Conns, AppendDispatch(c)
      PROVE  TypeInv'
  <2>1. "intent" \in Carrying /\ "publish" \in Carrying
      BY DEF Carrying
  <2>2. h' \in [Conns -> Handler] /\ HandlersOK'
      BY <1>7, <2>1, AdvanceOK DEF AppendDispatch
  <2>3. ledger' \in Seq(EntrySet)
    <3>1. h[c] \in Handler
        BY DEF TypeOK
    <3>2. Entry("dispatch", h[c].req, h[c].binding, 0) \in EntrySet
        BY <3>1 DEF Entry, EntrySet, Handler
    <3> QED BY <1>7, <3>2, AppendFacts DEF AppendDispatch, TypeOK, EntrySet
  <2> QED BY <1>7, <2>2, <2>3 DEF AppendDispatch, TypeOK, EntrySet
<1>8. ASSUME NEW c \in Conns, PublishDispatch(c)
      PROVE  TypeInv'
  <2>1. "publish" \in Carrying /\ "execute" \in Carrying
      BY DEF Carrying
  <2>2. h' \in [Conns -> Handler] /\ HandlersOK'
      BY <1>8, <2>1, AdvanceOK DEF PublishDispatch
  <2>3. dispatchBy' \in [Requests -> Bindings \cup {None}]
      BY <1>8, <2>1 DEF PublishDispatch, Step, TypeOK, HandlersOK
  <2> QED BY <1>8, <2>2, <2>3 DEF PublishDispatch, TypeOK
<1>9. ASSUME NEW c \in Conns, StartExecution(c)
      PROVE  TypeInv'
  <2>1. "execute" \in Carrying /\ "running" \in Carrying
      BY DEF Carrying
  <2>2. h' \in [Conns -> Handler] /\ HandlersOK'
      BY <1>9, <2>1, AdvanceOK DEF StartExecution
  <2>3. runs' \in Seq([req : Requests, binding : Bindings, slot : Conns])
      BY <1>9, <2>1 DEF StartExecution, Step, TypeOK, HandlersOK
  <2> QED BY <1>9, <2>2, <2>3 DEF StartExecution, TypeOK
<1>10. ASSUME NEW c \in Conns, FinishExecution(c)
      PROVE  TypeInv'
  <2>1. PICK n \in DOMAIN runs : h' = [h EXCEPT ![c].pc = "result", ![c].record = n]
      BY <1>10 DEF FinishExecution
  <2>2. n \in Nat /\ h[c] \in Handler /\ h[c].pc = "running"
      BY <1>10 DEF TypeOK, FinishExecution
  <2> DEFINE x == [h[c] EXCEPT !.pc = "result", !.record = n]
  <2>3. x \in Handler /\ x.pc = "result" /\ x.req = h[c].req /\ x.binding = h[c].binding
      BY <2>2 DEF Handler, Pcs
  <2>4. h' = [h EXCEPT ![c] = x]
      BY <2>1
  <2> HIDE DEF x
  <2>5. h' \in [Conns -> Handler] /\ HandlersOK'
      BY <1>10, <2>2, <2>3, <2>4 DEF FinishExecution, TypeOK, HandlersOK, Carrying
  <2> QED BY <1>10, <2>5 DEF FinishExecution, TypeOK
<1>11. ASSUME NEW c \in Conns, AppendResult(c)
      PROVE  TypeInv'
  <2>1. "result" \in Carrying /\ "publishResult" \in Carrying
      BY DEF Carrying
  <2>2. h' \in [Conns -> Handler] /\ HandlersOK'
      BY <1>11, <2>1, AdvanceOK DEF AppendResult
  <2>3. ledger' \in Seq(EntrySet)
    <3>1. h[c] \in Handler
        BY DEF TypeOK
    <3>2. Entry("result", h[c].req, h[c].binding, h[c].record) \in EntrySet
        BY <3>1 DEF Entry, EntrySet, Handler
    <3> QED BY <1>11, <3>2, AppendFacts DEF AppendResult, TypeOK, EntrySet
  <2> QED BY <1>11, <2>2, <2>3 DEF AppendResult, TypeOK, EntrySet
<1>12. ASSUME NEW c \in Conns, PublishResult(c)
      PROVE  TypeInv'
  <2>1. h[c].record \in Nat /\ "EXECUTED" \in Kinds
      BY DEF TypeOK, Handler, Kinds
  <2>2. h' \in [Conns -> Handler] /\ HandlersOK'
      BY <1>12, <2>1, ReturnOK DEF PublishResult
  <2>3. resultBy' \in [Requests -> Nat]
      BY <1>12, <2>1 DEF PublishResult, TypeOK
  <2> QED BY <1>12, <2>2, <2>3 DEF PublishResult, TypeOK
<1>13. ASSUME NEW c \in Conns, AppendOther(c)
      PROVE  TypeInv'
  <2>1. "OTHER" \in Kinds
      BY DEF Kinds
  <2>2. h' \in [Conns -> Handler] /\ HandlersOK'
      BY <1>13, <2>1, ReturnOK DEF AppendOther
  <2>3. Entry("other", None, None, 0) \in EntrySet
      BY DEF Entry, EntrySet
  <2>4. ledger' \in Seq(EntrySet)
      BY <1>13, <2>3, AppendFacts DEF AppendOther, TypeOK, EntrySet
  <2> QED BY <1>13, <2>2, <2>4 DEF AppendOther, TypeOK, EntrySet
<1>14. ASSUME NEW c \in Conns, Respond(c)
      PROVE  TypeInv'
  <2>1. h' \in [Conns -> Handler] /\ HandlersOK'
      BY <1>14, IdleOK DEF Respond
  <2>2. h[c] \in Handler
      BY DEF TypeOK
  <2>3. replies' \subseteq [req : Requests \cup {None}, binding : Bindings \cup {None},
                            kind : Kinds, record : Nat]
      BY <1>14, <2>2 DEF Respond, TypeOK, Handler
  <2> QED BY <1>14, <2>1, <2>3 DEF Respond, TypeOK
<1>15. ASSUME NEW c \in Conns, Reject(c)
      PROVE  TypeInv'
  <2>1. h' \in [Conns -> Handler] /\ HandlersOK'
      BY <1>15, IdleOK DEF Reject
  <2> QED BY <1>15, <2>1 DEF Reject, TypeOK
<1>16. ASSUME NEW c \in Conns, AppendFails(c)
      PROVE  TypeInv'
  <2>1. h' \in [Conns -> Handler] /\ HandlersOK'
      BY <1>16, IdleOK DEF AppendFails
  <2>2. h[c] \in Handler
      BY DEF TypeOK
  <2>3. Pending(c) \in EntrySet
      BY <2>2 DEF Pending, Entry, EntrySet, Handler
  <2>4. ledger' \in Seq(EntrySet)
    <3>1. ledger \in Seq(EntrySet)
        BY DEF TypeOK, EntrySet
    <3>2. Append(ledger, Pending(c)) \in Seq(EntrySet)
        BY <2>3, <3>1, AppendFacts
    <3> QED BY <1>16, <3>1, <3>2 DEF AppendFails
  <2> QED BY <1>16, <2>1, <2>4 DEF AppendFails, TypeOK, EntrySet
<1>17. ASSUME NEW c \in Conns, HandlerRaises(c)
      PROVE  TypeInv'
  <2>1. CASE ProcessEnds
      BY <2>1, ProcessEndsOK
  <2>2. CASE ~ProcessEnds
    <3>1. h' = [h EXCEPT ![c] = Idle]
          /\ UNCHANGED <<slots, ledger, dispatchBy, resultBy, mgmt, up, runs, replies, received, exits>>
        BY <1>17, <2>2 DEF HandlerRaises
    <3>2. h' \in [Conns -> Handler] /\ HandlersOK'
        BY <3>1, IdleOK
    <3> QED BY <3>1, <3>2 DEF TypeOK
  <2> QED BY <2>1, <2>2
<1>18. CASE Crash
    BY <1>18, ProcessEndsOK DEF Crash
<1>19. CASE Restart
  <2>1. ledger \in Seq(EntrySet)
      BY DEF TypeOK, EntrySet
  <2>2. ASSUME NEW type, NEW r, Positions(type, r) # {}
        PROVE  ledger[Latest(type, r)] \in EntrySet
      BY <2>1, <2>2, LatestIsGreatest DEF Positions
  <2>3. dispatchBy' \in [Requests -> Bindings \cup {None}]
      BY <1>19, <2>2 DEF Restart, EntrySet
  <2>4. resultBy' \in [Requests -> Nat]
      BY <1>19, <2>2 DEF Restart, EntrySet
  <2>5. HandlersOK'
      BY <1>19 DEF Restart, HandlersOK
  <2> QED BY <1>19, <2>3, <2>4, <2>5 DEF Restart, TypeOK
<1>20. CASE UNCHANGED vars
    BY <1>20 DEF vars, TypeOK, HandlersOK
<1> QED
    BY <1>1, <1>2, <1>3, <1>4, <1>5, <1>6, <1>7, <1>8, <1>9, <1>10, <1>11, <1>12, <1>13,
       <1>14, <1>15, <1>16, <1>17, <1>18, <1>19, <1>20 DEF Next, Handle

\* The types of the worker's state hold in every reachable state.
THEOREM TypeCorrect == Spec => []TypeOK
<1>1. Init => TypeInv
    BY TypeInit
<1>2. TypeInv /\ [Next]_vars => TypeInv'
    BY TypeStep
<1>3. TypeInv => TypeOK
    BY DEF TypeInv
<1> QED BY <1>1, <1>2, <1>3, PTL DEF Spec
-----------------------------------------------------------------------------
(* The write-ahead discipline, for any number of connection slots.           *)

HasDispatch(r, b) == \E i \in Positions("dispatch", r) : ledger[i].binding = b
HasResult(r, k) == \E i \in Positions("result", r) : ledger[i].record = k

\* The handler holds an execution record as its answer.
Answering(c) == h[c].pc = "publishResult" \/ (h[c].pc = "reply" /\ h[c].kind \in ResultKinds)

\* What a handler is about to start is in the ledger, and so is every record a
\* handler is about to tell or the result dictionary holds.
Durable ==
    /\ WriteAhead
    /\ \A c \in Conns :
          /\ h[c].pc \in {"publish", "execute"} => HasDispatch(h[c].req, h[c].binding)
          /\ Answering(c) => HasResult(h[c].req, h[c].record)
    /\ \A r \in Requests : resultBy[r] # 0 => HasResult(r, resultBy[r])


\* The ledger is only ever appended to.
LedgerKept == \A i \in DOMAIN ledger : i \in DOMAIN ledger' /\ ledger'[i] = ledger[i]

LEMMA AppendKeeps ==
    ASSUME TypeInv, NEW e \in EntrySet, ledger' = Append(ledger, e)
    PROVE  /\ LedgerKept
           /\ Len(ledger) \in Nat /\ DOMAIN ledger = 1..Len(ledger)
           /\ DOMAIN ledger' = 1..(Len(ledger) + 1)
           /\ ledger'[Len(ledger) + 1] = e
<1>1. ledger \in Seq(EntrySet)
    BY DEF TypeInv, TypeOK, EntrySet
<1>2. /\ Len(ledger) \in Nat /\ DOMAIN ledger = 1..Len(ledger)
      /\ DOMAIN ledger' = 1..(Len(ledger) + 1)
      /\ \A i \in 1..Len(ledger) : ledger'[i] = ledger[i]
      /\ ledger'[Len(ledger) + 1] = e
    BY <1>1, AppendFacts
<1>3. 1..Len(ledger) \subseteq 1..(Len(ledger) + 1)
    BY <1>2
<1> QED BY <1>2, <1>3 DEF LedgerKept

LEMMA SameKeeps == ASSUME ledger' = ledger PROVE LedgerKept
BY DEF LedgerKept

\* A step of one handler that starts nothing, tells nothing and publishes no
\* result keeps Durable if that handler's own obligations are met.
LEMMA DurableKept ==
    ASSUME Durable, LedgerKept, NEW c \in Conns,
           \A d \in Conns \ {c} : h'[d] = h[d],
           UNCHANGED <<runs, replies, resultBy>>,
           h'[c].pc \in {"publish", "execute"} =>
               \E i \in DOMAIN ledger' : /\ ledger'[i].type = "dispatch" /\ ledger'[i].req = h'[c].req
                                         /\ ledger'[i].binding = h'[c].binding,
           Answering(c)' =>
               \E i \in DOMAIN ledger' : /\ ledger'[i].type = "result" /\ ledger'[i].req = h'[c].req
                                         /\ ledger'[i].record = h'[c].record
    PROVE  Durable'
<1>1. WriteAhead'
    BY DEF Durable, WriteAhead, Positions, LedgerKept
<1>2. ASSUME NEW d \in Conns
      PROVE  /\ h'[d].pc \in {"publish", "execute"} => HasDispatch(h[d].req, h[d].binding)'
             /\ Answering(d)' => HasResult(h[d].req, h[d].record)'
  <2>1. CASE d = c
      BY <2>1 DEF HasDispatch, HasResult, Positions
  <2>2. CASE d # c
    <3>1. h'[d] = h[d]
        BY <2>2
    <3> QED BY <3>1 DEF Durable, Answering, HasDispatch, HasResult, Positions, LedgerKept
  <2> QED BY <2>1, <2>2
<1>3. ASSUME NEW r \in Requests, resultBy'[r] # 0 PROVE HasResult(r, resultBy[r])'
    BY <1>3 DEF Durable, HasResult, Positions, LedgerKept
<1> QED BY <1>1, <1>2, <1>3 DEF Durable

LEMMA IdleFacts ==
    ASSUME TypeInv, NEW c \in Conns, h' = [h EXCEPT ![c] = Idle]
    PROVE  h'[c].pc = "idle" /\ h'[c].req = None /\ \A d \in Conns \ {c} : h'[d] = h[d]
BY DEF TypeInv, TypeOK, Idle

\* The points at which a handler owes the ledger nothing.
Free == {"idle", "accepts", "prior", "admit", "intent", "running", "result", "manage"}

\* A handler that arrives at such a point.
LEMMA DurableFree ==
    ASSUME Durable, LedgerKept, NEW c \in Conns,
           \A d \in Conns \ {c} : h'[d] = h[d],
           UNCHANGED <<runs, replies, resultBy>>,
           h'[c].pc \in Free \/ (h'[c].pc = "reply" /\ h'[c].kind \notin ResultKinds)
    PROVE  Durable'
<1>1. h'[c].pc \notin {"publish", "execute"} /\ ~Answering(c)'
    BY DEF Free, Answering
<1> QED BY <1>1, DurableKept

LEMMA DurableInit == Init => Durable
<1> SUFFICES ASSUME Init PROVE Durable
    OBVIOUS
<1>1. WriteAhead
    BY DEF Init, WriteAhead
<1> QED BY <1>1 DEF Init, Durable, Answering, Idle

\* Every step keeps the write-ahead discipline.
LEMMA DurableStep == TypeInv /\ Durable /\ [Next]_vars => Durable'
<1> SUFFICES ASSUME TypeInv, Durable, [Next]_vars PROVE Durable'
    OBVIOUS
<1>0. h \in [Conns -> Handler] /\ ledger \in Seq(EntrySet)
    BY DEF TypeInv, TypeOK, EntrySet
<1>1. ASSUME NEW c \in Conns, NEW r \in Requests, NEW b \in Bindings, Receive(c, r, b)
      PROVE  Durable'
  <2>1. h'[c].pc = "accepts" /\ \A d \in Conns \ {c} : h'[d] = h[d]
      BY <1>0, <1>1 DEF Receive, Idle
  <2> QED BY <1>1, <2>1, SameKeeps, DurableFree DEF Receive, Free
<1>2. ASSUME NEW c \in Conns, NEW command \in Commands, Manage(c, command)
      PROVE  Durable'
  <2>1. h'[c].pc = "manage" /\ \A d \in Conns \ {c} : h'[d] = h[d]
      BY <1>0, <1>2 DEF Manage, Idle
  <2> QED BY <1>2, <2>1, SameKeeps, DurableFree DEF Manage, Free
<1>3. ASSUME NEW c \in Conns, Observe(c)
      PROVE  Durable'
  <2>1. h'[c].pc = "manage" /\ \A d \in Conns \ {c} : h'[d] = h[d]
      BY <1>0, <1>3 DEF Observe, Idle
  <2> QED BY <1>3, <2>1, SameKeeps, DurableFree DEF Observe, Free
<1>4. ASSUME NEW c \in Conns, CheckAcceptsWork(c) \/ Admit(c)
      PROVE  Durable'
  <2>1. "UNKNOWN" \in Kinds \ ResultKinds /\ {"prior", "intent"} \subseteq Pcs \cap Free
      BY DEF Kinds, ResultKinds, Pcs, Free
  <2>2. /\ h'[c].pc \in Free \/ (h'[c].pc = "reply" /\ h'[c].kind \notin ResultKinds)
        /\ \A d \in Conns \ {c} : h'[d] = h[d]
    <3>1. CASE Step(c, "accepts", "prior") \/ Step(c, "admit", "intent")
        BY <1>0, <2>1, <3>1, StepFacts
    <3>2. ASSUME NEW from, Return(c, from, "UNKNOWN", 0)
          PROVE  /\ h'[c].pc = "reply" /\ h'[c].kind \notin ResultKinds
                 /\ \A d \in Conns \ {c} : h'[d] = h[d]
      <4>1. "UNKNOWN" \in Kinds /\ "UNKNOWN" \notin ResultKinds /\ 0 \in Nat
          BY <2>1
      <4>2. h'[c].pc = "reply" /\ h'[c].kind = "UNKNOWN" /\ \A d \in Conns \ {c} : h'[d] = h[d]
          BY <1>0, <4>1, <3>2, ReturnFacts
      <4> QED BY <4>1, <4>2
    <3> QED BY <1>4, <3>1, <3>2 DEF CheckAcceptsWork, Admit
  <2> QED BY <1>4, <2>2, SameKeeps, DurableFree DEF CheckAcceptsWork, Admit
<1>5. ASSUME NEW c \in Conns, CheckPrior(c)
      PROVE  Durable'
  <2> DEFINE r == h[c].req
  <2>0. r \in Requests /\ resultBy[r] \in Nat
      BY <1>5 DEF CheckPrior, TypeInv, TypeOK, HandlersOK, Carrying
  <2>1. UNCHANGED <<ledger, runs, replies, resultBy>> /\ LedgerKept
      BY <1>5, SameKeeps DEF CheckPrior
  <2>2. CASE Step(c, "prior", "admit")
    <3>1. "admit" \in Pcs \cap Free
        BY DEF Pcs, Free
    <3> QED BY <1>0, <2>1, <2>2, <3>1, StepFacts, DurableFree
  <2>3. ASSUME NEW kind \in {"CONFLICTING_REPLAY", "DUPLICATE_IN_PROGRESS"},
               Return(c, "prior", kind, 0)
        PROVE  Durable'
    <3>1. kind \in Kinds \ ResultKinds
        BY DEF Kinds, ResultKinds
    <3>2. /\ h'[c].pc = "reply" /\ h'[c].kind = kind
          /\ \A d \in Conns \ {c} : h'[d] = h[d]
        BY <1>0, <2>3, <3>1, ReturnFacts
    <3> QED BY <2>1, <3>1, <3>2, DurableFree
  <2>4. CASE resultBy[r] # 0 /\ Return(c, "prior", "DUPLICATE_IDEMPOTENT", resultBy[r])
    <3>1. "DUPLICATE_IDEMPOTENT" \in Kinds
        BY DEF Kinds
    <3>2. /\ h'[c].pc = "reply" /\ h'[c].req = r /\ h'[c].record = resultBy[r]
          /\ \A d \in Conns \ {c} : h'[d] = h[d]
        BY <1>0, <2>0, <2>4, <3>1, ReturnFacts
    <3>3. \E i \in DOMAIN ledger : /\ ledger[i].type = "result" /\ ledger[i].req = r
                                   /\ ledger[i].record = resultBy[r]
        BY <2>0, <2>4 DEF Durable, HasResult, Positions
    <3>4. \E i \in DOMAIN ledger' : /\ ledger'[i].type = "result" /\ ledger'[i].req = h'[c].req
                                    /\ ledger'[i].record = h'[c].record
        BY <2>1, <3>2, <3>3
    <3> QED BY <2>1, <3>2, <3>4, DurableKept
  <2> QED BY <1>5, <2>2, <2>3, <2>4 DEF CheckPrior
<1>6. ASSUME NEW c \in Conns, AppendDispatch(c)
      PROVE  Durable'
  <2>1. Entry("dispatch", h[c].req, h[c].binding, 0) \in EntrySet
      BY <1>0 DEF Entry, EntrySet, Handler
  <2>2. LedgerKept /\ \E i \in DOMAIN ledger' : ledger'[i] = Entry("dispatch", h[c].req, h[c].binding, 0)
      BY <1>6, <2>1, AppendKeeps DEF AppendDispatch
  <2>3. "publish" \in Pcs
      BY DEF Pcs
  <2>4. /\ h'[c].pc = "publish" /\ h'[c].req = h[c].req /\ h'[c].binding = h[c].binding
        /\ \A d \in Conns \ {c} : h'[d] = h[d]
      BY <1>0, <1>6, <2>3, StepFacts DEF AppendDispatch
  <2>5. \E i \in DOMAIN ledger' : /\ ledger'[i].type = "dispatch" /\ ledger'[i].req = h'[c].req
                                  /\ ledger'[i].binding = h'[c].binding
      BY <2>2, <2>4 DEF Entry
  <2>6. ~Answering(c)'
      BY <2>4 DEF Answering
  <2> QED BY <1>6, <2>2, <2>4, <2>5, <2>6, DurableKept DEF AppendDispatch
<1>7. ASSUME NEW c \in Conns, PublishDispatch(c)
      PROVE  Durable'
  <2>1. "execute" \in Pcs
      BY DEF Pcs
  <2>2. /\ h[c].pc = "publish"
        /\ h'[c].pc = "execute" /\ h'[c].req = h[c].req /\ h'[c].binding = h[c].binding
        /\ \A d \in Conns \ {c} : h'[d] = h[d]
      BY <1>0, <1>7, <2>1, StepFacts DEF PublishDispatch
  <2>3. \E i \in DOMAIN ledger' : /\ ledger'[i].type = "dispatch" /\ ledger'[i].req = h'[c].req
                                  /\ ledger'[i].binding = h'[c].binding
      BY <1>7, <2>2 DEF PublishDispatch, Durable, HasDispatch, Positions
  <2>4. ~Answering(c)'
      BY <2>2 DEF Answering
  <2> QED BY <1>7, <2>2, <2>3, <2>4, SameKeeps, DurableKept DEF PublishDispatch
<1>8. ASSUME NEW c \in Conns, StartExecution(c)
      PROVE  Durable'
  <2>1. "running" \in Pcs
      BY DEF Pcs
  <2>2. /\ h[c].pc = "execute" /\ h'[c].pc = "running"
        /\ \A d \in Conns \ {c} : h'[d] = h[d]
      BY <1>0, <1>8, <2>1, StepFacts DEF StartExecution
  <2>3. h[c].req \in Requests /\ h[c].binding \in Bindings /\ HasDispatch(h[c].req, h[c].binding)
      BY <2>2 DEF Durable, TypeInv, HandlersOK, Carrying
  <2>4. /\ DOMAIN runs' = 1..(Len(runs) + 1) /\ DOMAIN runs = 1..Len(runs) /\ Len(runs) \in Nat
        /\ \A n \in 1..Len(runs) : runs'[n] = runs[n]
        /\ runs'[Len(runs) + 1] = [req |-> h[c].req, binding |-> h[c].binding, slot |-> c]
    <3>1. runs \in Seq([req : Requests, binding : Bindings, slot : Conns])
        BY DEF TypeInv, TypeOK
    <3> QED BY <1>8, <2>3, <3>1, AppendFacts DEF StartExecution
  <2>5. ASSUME NEW n \in DOMAIN runs'
        PROVE  \E i \in DOMAIN ledger : /\ ledger[i].type = "dispatch" /\ ledger[i].req = runs'[n].req
                                        /\ ledger[i].binding = runs'[n].binding
    <3>1. CASE n \in 1..Len(runs)
        BY <2>4, <3>1 DEF Durable, WriteAhead, Positions
    <3>2. CASE n = Len(runs) + 1
        BY <2>3, <2>4, <3>2 DEF HasDispatch, Positions
    <3> QED BY <2>4, <3>1, <3>2
  <2>6. WriteAhead'
      BY <1>8, <2>5 DEF StartExecution, Durable, WriteAhead, Positions
  <2>7. \A d \in Conns : /\ h'[d].pc \in {"publish", "execute"} => h'[d] = h[d]
                         /\ Answering(d)' => h'[d] = h[d]
      BY <2>2 DEF Answering
  <2> QED
      BY <1>8, <2>6, <2>7
      DEF StartExecution, Durable, Answering, HasDispatch, HasResult, Positions
<1>9. ASSUME NEW c \in Conns, FinishExecution(c)
      PROVE  Durable'
  <2>1. h'[c].pc = "result" /\ \A d \in Conns \ {c} : h'[d] = h[d]
      BY <1>0, <1>9 DEF FinishExecution, Handler
  <2> QED BY <1>9, <2>1, SameKeeps, DurableFree DEF FinishExecution, Free
<1>10. ASSUME NEW c \in Conns, AppendResult(c)
      PROVE  Durable'
  <2>1. Entry("result", h[c].req, h[c].binding, h[c].record) \in EntrySet
      BY <1>0 DEF Entry, EntrySet, Handler
  <2>2. LedgerKept /\ \E i \in DOMAIN ledger' :
                         ledger'[i] = Entry("result", h[c].req, h[c].binding, h[c].record)
      BY <1>10, <2>1, AppendKeeps DEF AppendResult
  <2>3. "publishResult" \in Pcs
      BY DEF Pcs
  <2>4. /\ h'[c].pc = "publishResult" /\ h'[c].req = h[c].req /\ h'[c].record = h[c].record
        /\ \A d \in Conns \ {c} : h'[d] = h[d]
      BY <1>0, <1>10, <2>3, StepFacts DEF AppendResult
  <2>5. \E i \in DOMAIN ledger' : /\ ledger'[i].type = "result" /\ ledger'[i].req = h'[c].req
                                  /\ ledger'[i].record = h'[c].record
      BY <2>2, <2>4 DEF Entry
  <2> QED BY <1>10, <2>2, <2>4, <2>5, DurableKept DEF AppendResult
<1>11. ASSUME NEW c \in Conns, PublishResult(c)
      PROVE  Durable'
  <2>1. "EXECUTED" \in Kinds /\ h[c].record \in Nat
      BY <1>0 DEF Kinds, Handler
  <2>2. /\ h[c].pc = "publishResult"
        /\ h'[c].pc = "reply" /\ h'[c].req = h[c].req /\ h'[c].record = h[c].record
        /\ \A d \in Conns \ {c} : h'[d] = h[d]
    <3>1. Return(c, "publishResult", "EXECUTED", h[c].record)
        BY <1>11 DEF PublishResult
    <3>2. /\ h[c].pc = "publishResult"
          /\ h'[c].pc = "reply" /\ h'[c].req = h[c].req
          /\ \A d \in Conns \ {c} : h'[d] = h[d]
        BY <1>0, <2>1, <3>1, ReturnFacts
    <3>3. h'[c].record = h[c].record
        BY <1>0, <2>1, <3>1, ReturnFacts
    <3> QED BY <3>2, <3>3
  <2>3. HasResult(h[c].req, h[c].record) /\ h[c].req \in Requests
      BY <2>2 DEF Durable, Answering, TypeInv, HandlersOK, Carrying
  <2>4. WriteAhead'
      BY <1>11 DEF PublishResult, Durable, WriteAhead, Positions
  <2>5. ASSUME NEW d \in Conns
        PROVE  /\ h'[d].pc \in {"publish", "execute"} => HasDispatch(h[d].req, h[d].binding)'
               /\ Answering(d)' => HasResult(h[d].req, h[d].record)'
    <3>1. CASE d = c
        BY <1>11, <2>2, <2>3, <3>1 DEF PublishResult, HasResult, Positions
    <3>2. CASE d # c
      <4>1. h'[d] = h[d]
          BY <2>2, <3>2
      <4> QED BY <1>11, <4>1 DEF PublishResult, Durable, Answering, HasDispatch, HasResult, Positions
    <3> QED BY <3>1, <3>2
  <2>6. ASSUME NEW r \in Requests, resultBy'[r] # 0 PROVE HasResult(r, resultBy[r])'
    <3>1. CASE r = h[c].req
      <4>1. resultBy'[r] = h[c].record
          BY <1>11, <3>1 DEF PublishResult, TypeInv, TypeOK
      <4> QED BY <1>11, <2>3, <3>1, <4>1 DEF PublishResult, HasResult, Positions
    <3>2. CASE r # h[c].req
      <4>1. resultBy'[r] = resultBy[r]
          BY <1>11, <3>2 DEF PublishResult, TypeInv, TypeOK
      <4> QED BY <1>11, <2>6, <4>1 DEF PublishResult, Durable, HasResult, Positions
    <3> QED BY <3>1, <3>2
  <2> QED BY <2>4, <2>5, <2>6 DEF Durable
<1>12. ASSUME NEW c \in Conns, AppendOther(c)
      PROVE  Durable'
  <2>1. Entry("other", None, None, 0) \in EntrySet /\ "OTHER" \in Kinds \ ResultKinds
      BY DEF Entry, EntrySet, Kinds, ResultKinds
  <2>2. LedgerKept
      BY <1>12, <2>1, AppendKeeps DEF AppendOther
  <2>3. /\ h'[c].pc = "reply" /\ h'[c].kind = "OTHER"
        /\ \A d \in Conns \ {c} : h'[d] = h[d]
      BY <1>0, <1>12, <2>1, ReturnFacts DEF AppendOther
  <2> QED BY <1>12, <2>1, <2>2, <2>3, DurableFree DEF AppendOther
<1>13. ASSUME NEW c \in Conns, Respond(c)
      PROVE  Durable'
  <2>1. h'[c].pc = "idle" /\ \A d \in Conns \ {c} : h'[d] = h[d]
      BY <1>13, IdleFacts DEF Respond
  <2> DEFINE p == [req |-> h[c].req, binding |-> h[c].binding, kind |-> h[c].kind, record |-> h[c].record]
  <2>2. p.kind \in ResultKinds => HasResult(p.req, p.record)
      BY <1>13 DEF Respond, Durable, Answering
  <2>3. WriteAhead'
      BY <1>13, <2>2 DEF Respond, Durable, WriteAhead, HasResult, Positions
  <2>4. \A d \in Conns : /\ h'[d].pc \in {"publish", "execute"} => h'[d] = h[d]
                         /\ Answering(d)' => h'[d] = h[d]
      BY <2>1 DEF Answering
  <2> QED
      BY <1>13, <2>3, <2>4 DEF Respond, Durable, Answering, HasDispatch, HasResult, Positions
<1>14. ASSUME NEW c \in Conns, Reject(c)
      PROVE  Durable'
  <2>1. h'[c].pc = "idle" /\ \A d \in Conns \ {c} : h'[d] = h[d]
      BY <1>14, IdleFacts DEF Reject
  <2> QED BY <1>14, <2>1, SameKeeps, DurableFree DEF Reject, Free
<1>15. ASSUME NEW c \in Conns, AppendFails(c)
      PROVE  Durable'
  <2>1. h'[c].pc = "idle" /\ \A d \in Conns \ {c} : h'[d] = h[d]
      BY <1>15, IdleFacts DEF AppendFails
  <2>2. h[c] \in Handler
      BY <1>0
  <2>3. Pending(c) \in EntrySet
      BY <2>2 DEF Pending, Entry, EntrySet, Handler
  <2>4. LedgerKept
      BY <1>15, <2>3, AppendKeeps, SameKeeps DEF AppendFails
  <2> QED BY <1>15, <2>1, <2>4, DurableFree DEF AppendFails, Free
<1>16. ASSUME ProcessEnds
      PROVE  Durable'
  <2>1. WriteAhead'
      BY <1>16 DEF ProcessEnds, Durable, WriteAhead, Positions
  <2>2. \A c \in Conns : h'[c].pc = "idle"
      BY <1>16 DEF ProcessEnds, Idle
  <2> QED BY <1>16, <2>1, <2>2 DEF ProcessEnds, Durable, Answering
<1>17. ASSUME NEW c \in Conns, HandlerRaises(c)
      PROVE  Durable'
  <2>1. CASE ProcessEnds
      BY <1>16, <2>1
  <2>2. CASE ~ProcessEnds
    <3>1. h' = [h EXCEPT ![c] = Idle] /\ UNCHANGED <<ledger, runs, replies, resultBy>>
        BY <1>17, <2>2 DEF HandlerRaises
    <3>2. h'[c].pc = "idle" /\ \A d \in Conns \ {c} : h'[d] = h[d]
        BY <3>1, IdleFacts
    <3> QED BY <3>1, <3>2, SameKeeps, DurableFree DEF Free
  <2> QED BY <2>1, <2>2
<1>18. CASE Crash
    BY <1>16, <1>18 DEF Crash
<1>19. CASE Restart
  <2>1. WriteAhead'
      BY <1>19 DEF Restart, Durable, WriteAhead, Positions
  <2>2. ASSUME NEW r \in Requests, resultBy'[r] # 0 PROVE HasResult(r, resultBy[r])'
    <3>1. Positions("result", r) # {} /\ resultBy'[r] = ledger[Latest("result", r)].record
        BY <1>19, <2>2 DEF Restart
    <3>2. Latest("result", r) \in Positions("result", r)
        BY <1>0, <3>1, LatestIsGreatest
    <3> QED BY <1>19, <3>1, <3>2 DEF Restart, HasResult, Positions
  <2> QED
      BY <1>19, <2>1, <2>2 DEF Restart, Durable, Answering, HasDispatch, HasResult, Positions
<1>20. CASE UNCHANGED vars
    BY <1>20 DEF vars, Durable, WriteAhead, Answering, HasDispatch, HasResult, Positions
<1> QED
    BY <1>1, <1>2, <1>3, <1>4, <1>5, <1>6, <1>7, <1>8, <1>9, <1>10, <1>11, <1>12, <1>13,
       <1>14, <1>15, <1>17, <1>18, <1>19, <1>20 DEF Next, Handle

\* No workload begins before its dispatch is durable, and no record is told
\* before it is durable: for any number of slots, over crashes, restarts and
\* failed appends.
THEOREM WriteAheadHolds == Spec => []WriteAhead
<1>1. Init => TypeInv /\ Durable
    BY TypeInit, DurableInit
<1>2. TypeInv /\ Durable /\ [Next]_vars => TypeInv' /\ Durable'
    BY TypeStep, DurableStep
<1>3. Durable => WriteAhead
    BY DEF Durable
<1> QED BY <1>1, <1>2, <1>3, PTL DEF Spec

-----------------------------------------------------------------------------
(* One connection at a time.                                                 *)

RunOf(n, r, b) == n \in DOMAIN runs /\ runs[n].req = r /\ runs[n].binding = b
NoRun(r) == \A n \in DOMAIN runs : runs[n].req # r

\* The request's latest dispatch entry carries this binding: a failed append
\* may have left an earlier one, for which nothing was started.
LatestBinding(r, b) ==
    \E i \in Positions("dispatch", r) :
        ledger[i].binding = b /\ \A j \in Positions("dispatch", r) : j <= i

\* How far the one busy handler has come with its request.
HandlerInv(c) ==
    /\ h[c].pc \in {"admit", "intent", "publish", "execute"} => NoRun(h[c].req)
    /\ h[c].pc \in {"publish", "execute"} => LatestBinding(h[c].req, h[c].binding)
    /\ h[c].pc = "execute" => dispatchBy[h[c].req] = h[c].binding
    /\ h[c].pc = "running" =>
          \E n \in DOMAIN runs :
              /\ RunOf(n, h[c].req, h[c].binding) /\ runs[n].slot = c
              /\ \A m \in DOMAIN runs : runs[m].slot = c => m <= n
    /\ h[c].pc = "result" \/ Answering(c) => RunOf(h[c].record, h[c].req, h[c].binding)
    /\ h[c].pc \in {"prior", "admit", "intent", "publish", "execute"} => mgmt \in Schedulable

RunsInv ==
    /\ DuplicateIsIdempotent
    /\ \A n \in DOMAIN runs : LatestBinding(runs[n].req, runs[n].binding)
    /\ up => \A n \in DOMAIN runs : dispatchBy[runs[n].req] = runs[n].binding

ResultsInv ==
    /\ \A i \in DOMAIN ledger :
          ledger[i].type = "result" =>
              ledger[i].record \in DOMAIN runs /\ runs[ledger[i].record].req = ledger[i].req
    /\ \A r \in Requests :
          resultBy[r] # 0 => resultBy[r] \in DOMAIN runs /\ runs[resultBy[r]].req = r
    /\ \A p \in replies : p.kind \in ResultKinds => RunOf(p.record, p.req, p.binding)

\* The inductive invariant of a serial endpoint.
SerialInv == Serial => RunsInv /\ ResultsInv /\ \A c \in Conns : HandlerInv(c)

LEMMA RunFields ==
    ASSUME TypeInv, NEW n \in DOMAIN runs
    PROVE  runs[n].req \in Requests /\ runs[n].binding \in Bindings
<1> DEFINE R == [req : Requests, binding : Bindings, slot : Conns]
<1>1. runs \in Seq(R)
    BY DEF TypeInv, TypeOK
<1> HIDE DEF R
<1>2. runs[n] \in R
    BY <1>1
<1> QED BY <1>2 DEF R

LEMMA IdleHandler == ASSUME NEW d, h[d].pc = "idle" PROVE HandlerInv(d)
BY DEF HandlerInv, Answering

\* With one slot, a handler that is at work or about to be is the only one.
LEMMA OthersIdle ==
    ASSUME TypeInv, Serial, NEW c \in Conns, c \in slots \/ h[c].pc # "idle",
           \A d \in Conns \ {c} : h'[d] = h[d]
    PROVE  \A d \in Conns \ {c} : h[d].pc = "idle" /\ h'[d].pc = "idle"
<1>1. c \in slots
    BY DEF TypeInv, HandlersOK
<1>2. ASSUME NEW d \in Conns, h[d].pc # "idle" PROVE d = c
  <2>1. d \in slots
      BY <1>2 DEF TypeInv, HandlersOK
  <2> QED BY <1>1, <2>1 DEF Serial
<1> QED BY <1>2

\* So its own obligations are all there is to check of the handlers.
LEMMA HandlersFrom ==
    ASSUME TypeInv, Serial, NEW c \in Conns, c \in slots \/ h[c].pc # "idle",
           \A d \in Conns \ {c} : h'[d] = h[d], HandlerInv(c)'
    PROVE  \A d \in Conns : HandlerInv(d)'
<1>1. \A d \in Conns \ {c} : h'[d].pc = "idle"
    BY OthersIdle
<1>2. ASSUME NEW d \in Conns \ {c} PROVE HandlerInv(d)'
    BY <1>1 DEF HandlerInv, Answering
<1> QED BY <1>2

LEMMA RunsSame ==
    ASSUME RunsInv, UNCHANGED <<ledger, runs, dispatchBy, up>> PROVE RunsInv'
BY DEF RunsInv, DuplicateIsIdempotent, LatestBinding, Positions

LEMMA ResultsSame ==
    ASSUME ResultsInv, UNCHANGED <<ledger, runs, resultBy, replies>> PROVE ResultsInv'
BY DEF ResultsInv, RunOf

\* An entry that is no dispatch of r leaves r's latest dispatch alone ...
LEMMA LatestKept ==
    ASSUME TypeInv, NEW e \in EntrySet, ledger' = Append(ledger, e),
           NEW r, NEW b, LatestBinding(r, b), e.type # "dispatch" \/ e.req # r
    PROVE  LatestBinding(r, b)'
<1>1. /\ LedgerKept
      /\ Len(ledger) \in Nat /\ DOMAIN ledger = 1..Len(ledger)
      /\ DOMAIN ledger' = 1..(Len(ledger) + 1)
      /\ ledger'[Len(ledger) + 1] = e
    BY AppendKeeps
<1>2. Positions("dispatch", r)' = Positions("dispatch", r)
  <2>1. ASSUME NEW i \in DOMAIN ledger', ledger'[i].type = "dispatch", ledger'[i].req = r
        PROVE  i \in DOMAIN ledger
      BY <1>1, <2>1
  <2> QED BY <1>1, <2>1 DEF Positions, LedgerKept
<1>3. \A i \in Positions("dispatch", r) : ledger'[i] = ledger[i]
    BY <1>1 DEF LedgerKept, Positions
<1> QED BY <1>2, <1>3 DEF LatestBinding

\* ... and a dispatch of r becomes it.
LEMMA LatestNew ==
    ASSUME TypeInv, NEW r \in Requests, NEW b \in Bindings,
           ledger' = Append(ledger, Entry("dispatch", r, b, 0))
    PROVE  LatestBinding(r, b)'
<1> DEFINE e == Entry("dispatch", r, b, 0)
<1>1. e \in EntrySet /\ e.type = "dispatch" /\ e.req = r /\ e.binding = b
    BY DEF Entry, EntrySet
<1> HIDE DEF e
<1>2. /\ Len(ledger) \in Nat
      /\ DOMAIN ledger' = 1..(Len(ledger) + 1)
      /\ ledger'[Len(ledger) + 1] = e
    BY <1>1, AppendKeeps DEF e
<1>3. Len(ledger) + 1 \in DOMAIN ledger' /\ \A j \in DOMAIN ledger' : j <= Len(ledger) + 1
    BY <1>2
<1> QED BY <1>1, <1>2, <1>3 DEF LatestBinding, Positions

\* The runs' invariant over an append that is no dispatch of a started request.
LEMMA RunsAppend ==
    ASSUME TypeInv, RunsInv, NEW e \in EntrySet, ledger' = Append(ledger, e),
           UNCHANGED <<runs, dispatchBy, up>>,
           e.type = "dispatch" => NoRun(e.req)
    PROVE  RunsInv'
<1>1. ASSUME NEW n \in DOMAIN runs PROVE LatestBinding(runs[n].req, runs[n].binding)'
  <2>1. e.type # "dispatch" \/ e.req # runs[n].req
      BY DEF NoRun
  <2> DEFINE r == runs[n].req
             b == runs[n].binding
  <2>2. r' = r /\ b' = b
      OBVIOUS
  <2>3. LatestBinding(r, b)
      BY DEF RunsInv
  <2> QED BY <2>1, <2>2, <2>3, LatestKept
<1> QED BY <1>1 DEF RunsInv, DuplicateIsIdempotent

\* The results' invariant over an append that is no result, or a run's result.
LEMMA ResultsAppend ==
    ASSUME TypeInv, ResultsInv, NEW e \in EntrySet, ledger' = Append(ledger, e),
           UNCHANGED <<runs, resultBy, replies>>,
           e.type = "result" => e.record \in DOMAIN runs /\ runs[e.record].req = e.req
    PROVE  ResultsInv'
<1>1. /\ LedgerKept /\ DOMAIN ledger = 1..Len(ledger) /\ Len(ledger) \in Nat
      /\ DOMAIN ledger' = 1..(Len(ledger) + 1)
      /\ ledger'[Len(ledger) + 1] = e
    BY AppendKeeps
<1>2. ASSUME NEW i \in DOMAIN ledger', ledger'[i].type = "result"
      PROVE  ledger'[i].record \in DOMAIN runs /\ runs[ledger'[i].record].req = ledger'[i].req
  <2>1. CASE i = Len(ledger) + 1
      BY <1>1, <1>2, <2>1
  <2>2. CASE i \in DOMAIN ledger
      BY <1>1, <1>2, <2>2 DEF LedgerKept, ResultsInv
  <2> QED BY <1>1, <2>1, <2>2
<1> QED BY <1>2 DEF ResultsInv, RunOf

LEMMA SerialInit == Init => SerialInv
<1> SUFFICES ASSUME Init PROVE RunsInv /\ ResultsInv /\ \A c \in Conns : HandlerInv(c)
    BY DEF SerialInv
<1>1. \A c \in Conns : h[c].pc = "idle"
    BY DEF Init, Idle
<1>2. \A c \in Conns : HandlerInv(c)
    BY <1>1, IdleHandler
<1>3. DOMAIN runs = {} /\ DOMAIN ledger = {}
    BY DEF Init
<1> QED BY <1>2, <1>3 DEF Init, RunsInv, ResultsInv, DuplicateIsIdempotent

\* Every step of a serial endpoint keeps the invariant.
LEMMA SerialStep == TypeInv /\ SerialInv /\ [Next]_vars => SerialInv'
<1> SUFFICES ASSUME TypeInv, SerialInv, [Next]_vars, Serial'
             PROVE  (RunsInv /\ ResultsInv /\ \A c \in Conns : HandlerInv(c))'
    BY DEF SerialInv
<1> DEFINE Goal == (RunsInv /\ ResultsInv /\ \A c \in Conns : HandlerInv(c))'
<1>0. /\ h \in [Conns -> Handler] /\ ledger \in Seq(EntrySet)
      /\ runs \in Seq([req : Requests, binding : Bindings, slot : Conns])
    BY DEF TypeInv, TypeOK, EntrySet
<1>s. slots' = slots
    BY DEF Next, Handle, vars, Receive, Manage, Observe, CheckAcceptsWork, CheckPrior, Admit,
           AppendDispatch, PublishDispatch, StartExecution, FinishExecution, AppendResult,
           PublishResult, AppendOther, Respond, Reject, AppendFails, HandlerRaises,
           ProcessEnds, Crash, Restart
<1>i. Serial /\ RunsInv /\ ResultsInv /\ \A c \in Conns : HandlerInv(c)
    BY <1>s DEF Serial, SerialInv
<1>1. ASSUME NEW c \in Conns, NEW r \in Requests, NEW b \in Bindings, Receive(c, r, b)
      PROVE  Goal
  <2>1. h'[c].pc = "accepts" /\ \A d \in Conns \ {c} : h'[d] = h[d]
      BY <1>0, <1>1 DEF Receive, Idle
  <2>2. HandlerInv(c)'
      BY <2>1 DEF HandlerInv, Answering
  <2>3. \A d \in Conns : HandlerInv(d)'
      BY <1>1, <1>i, <2>1, <2>2, HandlersFrom DEF Receive
  <2> QED BY <1>1, <1>i, <2>3, RunsSame, ResultsSame DEF Receive
<1>2. ASSUME NEW c \in Conns, (\E command \in Commands : Manage(c, command)) \/ Observe(c)
      PROVE  Goal
  <2>1. h'[c].pc = "manage" /\ \A d \in Conns \ {c} : h'[d] = h[d]
      BY <1>0, <1>2 DEF Manage, Observe, Idle
  <2>2. HandlerInv(c)'
      BY <2>1 DEF HandlerInv, Answering
  <2>3. c \in slots
      BY <1>2 DEF Manage, Observe
  <2>4. \A d \in Conns : HandlerInv(d)'
      BY <1>i, <2>1, <2>2, <2>3, HandlersFrom
  <2> QED BY <1>2, <1>i, <2>4, RunsSame, ResultsSame DEF Manage, Observe
<1>3. ASSUME NEW c \in Conns, CheckAcceptsWork(c)
      PROVE  Goal
  <2>1. CASE mgmt \in Schedulable /\ Step(c, "accepts", "prior")
    <3>1. "prior" \in Pcs
        BY DEF Pcs
    <3>2. h[c].pc = "accepts" /\ h'[c].pc = "prior" /\ \A d \in Conns \ {c} : h'[d] = h[d]
        BY <1>0, <2>1, <3>1, StepFacts
    <3>3. HandlerInv(c)'
        BY <1>3, <2>1, <3>2 DEF CheckAcceptsWork, HandlerInv, Answering
    <3>4. \A d \in Conns : HandlerInv(d)'
        BY <1>i, <3>2, <3>3, HandlersFrom
    <3> QED BY <1>3, <1>i, <3>4, RunsSame, ResultsSame DEF CheckAcceptsWork
  <2>2. CASE Return(c, "accepts", "UNKNOWN", 0)
    <3>1. "UNKNOWN" \in Kinds /\ "UNKNOWN" \notin ResultKinds
        BY DEF Kinds, ResultKinds
    <3>2. /\ h[c].pc = "accepts" /\ h'[c].pc = "reply" /\ h'[c].kind = "UNKNOWN"
          /\ \A d \in Conns \ {c} : h'[d] = h[d]
        BY <1>0, <2>2, <3>1, ReturnFacts
    <3>3. HandlerInv(c)'
        BY <3>1, <3>2 DEF HandlerInv, Answering
    <3>4. \A d \in Conns : HandlerInv(d)'
        BY <1>i, <3>2, <3>3, HandlersFrom
    <3> QED BY <1>3, <1>i, <3>4, RunsSame, ResultsSame DEF CheckAcceptsWork
  <2> QED BY <1>3, <2>1, <2>2 DEF CheckAcceptsWork
<1>4. ASSUME NEW c \in Conns, CheckPrior(c)
      PROVE  Goal
  <2> DEFINE r == h[c].req
  <2>1. /\ h[c].pc = "prior" /\ up /\ r \in Requests /\ resultBy[r] \in Nat
        /\ mgmt \in Schedulable
      BY <1>4, <1>i DEF CheckPrior, TypeInv, TypeOK, HandlersOK, Carrying, HandlerInv
  <2>2. RunsInv' /\ ResultsInv' /\ UNCHANGED <<runs, mgmt>>
      BY <1>4, <1>i, RunsSame, ResultsSame DEF CheckPrior
  <2>3. CASE dispatchBy[r] = None /\ Step(c, "prior", "admit")
    <3>1. "admit" \in Pcs
        BY DEF Pcs
    <3>2. h'[c].pc = "admit" /\ h'[c].req = r /\ \A d \in Conns \ {c} : h'[d] = h[d]
        BY <1>0, <2>3, <3>1, StepFacts
    <3>3. NoRun(r)
      <4>1. \A n \in DOMAIN runs : runs[n].binding \in Bindings
          BY RunFields
      <4>2. \A n \in DOMAIN runs : dispatchBy[runs[n].req] = runs[n].binding
          BY <1>i, <2>1 DEF RunsInv
      <4> QED BY <2>3, <4>1, <4>2, NoneAssumption DEF NoRun
    <3>4. HandlerInv(c)'
        BY <2>1, <2>2, <3>2, <3>3 DEF HandlerInv, Answering, NoRun
    <3> QED BY <1>i, <2>1, <2>2, <3>2, <3>4, HandlersFrom
  <2>4. ASSUME NEW kind \in {"CONFLICTING_REPLAY", "DUPLICATE_IN_PROGRESS"},
               Return(c, "prior", kind, 0)
        PROVE  Goal
    <3>1. kind \in Kinds /\ kind \notin ResultKinds
        BY DEF Kinds, ResultKinds
    <3>2. h'[c].pc = "reply" /\ h'[c].kind = kind /\ \A d \in Conns \ {c} : h'[d] = h[d]
        BY <1>0, <2>4, <3>1, ReturnFacts
    <3>3. HandlerInv(c)'
        BY <3>1, <3>2 DEF HandlerInv, Answering
    <3> QED BY <1>i, <2>1, <2>2, <3>2, <3>3, HandlersFrom
  <2>5. CASE /\ dispatchBy[r] = h[c].binding /\ resultBy[r] # 0
             /\ Return(c, "prior", "DUPLICATE_IDEMPOTENT", resultBy[r])
    <3>1. "DUPLICATE_IDEMPOTENT" \in Kinds
        BY DEF Kinds
    <3>2. /\ h'[c].pc = "reply" /\ h'[c].req = r /\ h'[c].binding = h[c].binding
          /\ h'[c].record = resultBy[r]
          /\ \A d \in Conns \ {c} : h'[d] = h[d]
        BY <1>0, <2>1, <2>5, <3>1, ReturnFacts
    <3>3. RunOf(resultBy[r], r, h[c].binding)
        BY <1>i, <2>1, <2>5 DEF ResultsInv, RunsInv, RunOf
    <3>4. HandlerInv(c)'
        BY <2>2, <3>2, <3>3 DEF HandlerInv, Answering, RunOf
    <3> QED BY <1>i, <2>1, <2>2, <3>2, <3>4, HandlersFrom
  <2> QED BY <1>4, <2>3, <2>4, <2>5 DEF CheckPrior
<1>5. ASSUME NEW c \in Conns, Admit(c)
      PROVE  Goal
  <2>1. RunsInv' /\ ResultsInv' /\ UNCHANGED <<runs, mgmt>>
      BY <1>5, <1>i, RunsSame, ResultsSame DEF Admit
  <2>2. CASE Step(c, "admit", "intent")
    <3>1. "intent" \in Pcs
        BY DEF Pcs
    <3>2. /\ h[c].pc = "admit" /\ h'[c].pc = "intent" /\ h'[c].req = h[c].req
          /\ \A d \in Conns \ {c} : h'[d] = h[d]
        BY <1>0, <2>2, <3>1, StepFacts
    <3>3. NoRun(h[c].req) /\ mgmt \in Schedulable
        BY <1>i, <3>2 DEF HandlerInv
    <3>4. HandlerInv(c)'
        BY <2>1, <3>2, <3>3 DEF HandlerInv, Answering, NoRun
    <3> QED BY <1>i, <2>1, <3>2, <3>4, HandlersFrom
  <2>3. CASE Return(c, "admit", "UNKNOWN", 0)
    <3>1. "UNKNOWN" \in Kinds /\ "UNKNOWN" \notin ResultKinds
        BY DEF Kinds, ResultKinds
    <3>2. /\ h[c].pc = "admit" /\ h'[c].pc = "reply" /\ h'[c].kind = "UNKNOWN"
          /\ \A d \in Conns \ {c} : h'[d] = h[d]
        BY <1>0, <2>3, <3>1, ReturnFacts
    <3>3. HandlerInv(c)'
        BY <3>1, <3>2 DEF HandlerInv, Answering
    <3> QED BY <1>i, <2>1, <3>2, <3>3, HandlersFrom
  <2> QED BY <1>5, <2>2, <2>3 DEF Admit
<1>6. ASSUME NEW c \in Conns, AppendDispatch(c)
      PROVE  Goal
  <2>1. "publish" \in Pcs
      BY DEF Pcs
  <2>2. /\ h[c].pc = "intent" /\ h'[c].pc = "publish"
        /\ h'[c].req = h[c].req /\ h'[c].binding = h[c].binding
        /\ \A d \in Conns \ {c} : h'[d] = h[d]
      BY <1>0, <1>6, <2>1, StepFacts DEF AppendDispatch
  <2>3. /\ h[c].req \in Requests /\ h[c].binding \in Bindings
        /\ NoRun(h[c].req) /\ mgmt \in Schedulable
      BY <1>i, <2>2 DEF HandlerInv, TypeInv, HandlersOK, Carrying
  <2> DEFINE e == Entry("dispatch", h[c].req, h[c].binding, 0)
  <2>4. e \in EntrySet /\ e.type = "dispatch" /\ e.req = h[c].req
      BY <2>3 DEF Entry, EntrySet
  <2>5. ledger' = Append(ledger, e)
      BY <1>6 DEF AppendDispatch
  <2>6. LatestBinding(h[c].req, h[c].binding)'
    <3> DEFINE r == h[c].req
               b == h[c].binding
    <3>1. ledger' = Append(ledger, Entry("dispatch", r, b, 0))
        BY <2>5
    <3>2. r' = r /\ b' = b
        BY <2>2
    <3>3. r \in Requests /\ b \in Bindings
        BY <2>3
    <3> HIDE DEF r, b
    <3>4. LatestBinding(r, b)'
        BY <3>1, <3>2, <3>3, LatestNew
    <3> QED BY <3>4 DEF r, b
  <2> HIDE DEF e
  <2>7. RunsInv'
      BY <1>6, <1>i, <2>3, <2>4, <2>5, RunsAppend DEF AppendDispatch
  <2>8. ResultsInv'
      BY <1>6, <1>i, <2>4, <2>5, ResultsAppend DEF AppendDispatch
  <2>9. HandlerInv(c)'
      BY <1>6, <2>2, <2>3, <2>6 DEF AppendDispatch, HandlerInv, Answering, NoRun
  <2> QED BY <1>i, <2>2, <2>7, <2>8, <2>9, HandlersFrom
<1>7. ASSUME NEW c \in Conns, PublishDispatch(c)
      PROVE  Goal
  <2>1. "execute" \in Pcs
      BY DEF Pcs
  <2>2. /\ h[c].pc = "publish" /\ h'[c].pc = "execute"
        /\ h'[c].req = h[c].req /\ h'[c].binding = h[c].binding
        /\ \A d \in Conns \ {c} : h'[d] = h[d]
      BY <1>0, <1>7, <2>1, StepFacts DEF PublishDispatch
  <2>3. /\ h[c].req \in Requests /\ NoRun(h[c].req) /\ mgmt \in Schedulable
        /\ LatestBinding(h[c].req, h[c].binding)
      BY <1>i, <2>2 DEF HandlerInv, TypeInv, HandlersOK, Carrying
  <2>4. /\ dispatchBy'[h[c].req] = h[c].binding
        /\ \A r \in Requests : r # h[c].req => dispatchBy'[r] = dispatchBy[r]
      BY <1>7, <2>3 DEF PublishDispatch, TypeInv, TypeOK
  <2>5. \A n \in DOMAIN runs : runs[n].req \in Requests /\ runs[n].req # h[c].req
      BY <2>3, RunFields DEF NoRun
  <2>6. RunsInv'
    <3>1. up' => \A n \in DOMAIN runs : dispatchBy'[runs[n].req] = runs[n].binding
        BY <1>7, <1>i, <2>4, <2>5 DEF PublishDispatch, RunsInv
    <3> QED
        BY <1>7, <1>i, <3>1
        DEF PublishDispatch, RunsInv, DuplicateIsIdempotent, LatestBinding, Positions
  <2>7. ResultsInv'
      BY <1>7, <1>i, ResultsSame DEF PublishDispatch
  <2>8. HandlerInv(c)'
      BY <1>7, <2>2, <2>3, <2>4
      DEF PublishDispatch, HandlerInv, Answering, NoRun, LatestBinding, Positions
  <2> QED BY <1>i, <2>2, <2>6, <2>7, <2>8, HandlersFrom
<1>8. ASSUME NEW c \in Conns, StartExecution(c)
      PROVE  Goal
  <2>1. "running" \in Pcs
      BY DEF Pcs
  <2>2. /\ h[c].pc = "execute" /\ h'[c].pc = "running"
        /\ h'[c].req = h[c].req /\ h'[c].binding = h[c].binding
        /\ \A d \in Conns \ {c} : h'[d] = h[d]
      BY <1>0, <1>8, <2>1, StepFacts DEF StartExecution
  <2>3. /\ h[c].req \in Requests /\ h[c].binding \in Bindings /\ NoRun(h[c].req)
        /\ LatestBinding(h[c].req, h[c].binding) /\ dispatchBy[h[c].req] = h[c].binding
      BY <1>i, <2>2 DEF HandlerInv, TypeInv, HandlersOK, Carrying
  <2> DEFINE x == [req |-> h[c].req, binding |-> h[c].binding, slot |-> c]
  <2>4. x \in [req : Requests, binding : Bindings, slot : Conns]
        /\ x.req = h[c].req /\ x.binding = h[c].binding /\ x.slot = c
      BY <2>3
  <2>5. runs' = Append(runs, x)
      BY <1>8 DEF StartExecution
  <2> HIDE DEF x
  <2>6. /\ Len(runs) \in Nat /\ DOMAIN runs = 1..Len(runs) /\ DOMAIN runs' = 1..(Len(runs) + 1)
        /\ \A n \in DOMAIN runs : runs'[n] = runs[n]
        /\ runs'[Len(runs) + 1] = x
      BY <1>0, <2>4, <2>5, AppendFacts
  <2>7. \A n \in DOMAIN runs : n \in DOMAIN runs'
      BY <2>6
  <2>8. \A n \in DOMAIN runs' : n \in DOMAIN runs \/ n = Len(runs) + 1
      BY <2>6
  <2>9. UNCHANGED <<ledger, dispatchBy, resultBy, mgmt, up, replies>>
      BY <1>8 DEF StartExecution
  <2>10. RunsInv'
    <3>1. DuplicateIsIdempotent'
        BY <1>i, <2>3, <2>4, <2>6, <2>8 DEF RunsInv, DuplicateIsIdempotent, NoRun
    <3>2. ASSUME NEW n \in DOMAIN runs' PROVE LatestBinding(runs[n].req, runs[n].binding)'
      <4>1. CASE n \in DOMAIN runs
          BY <1>i, <2>6, <2>9, <4>1 DEF RunsInv, LatestBinding, Positions
      <4>2. CASE n = Len(runs) + 1
          BY <2>3, <2>4, <2>6, <2>9, <4>2 DEF LatestBinding, Positions
      <4> QED BY <2>8, <4>1, <4>2
    <3>3. up' => \A n \in DOMAIN runs' : dispatchBy'[runs'[n].req] = runs'[n].binding
        BY <1>i, <2>3, <2>4, <2>6, <2>8, <2>9 DEF RunsInv
    <3> QED BY <3>1, <3>2, <3>3 DEF RunsInv
  <2>11. ResultsInv'
      BY <1>i, <2>6, <2>7, <2>9 DEF ResultsInv, RunOf
  <2>12. HandlerInv(c)'
    <3>1. Len(runs) + 1 \in DOMAIN runs' /\ \A m \in DOMAIN runs' : m <= Len(runs) + 1
        BY <2>6
    <3> QED BY <2>2, <2>4, <2>6, <3>1 DEF HandlerInv, Answering, RunOf
  <2> QED BY <1>i, <2>2, <2>10, <2>11, <2>12, HandlersFrom
<1>9. ASSUME NEW c \in Conns, FinishExecution(c)
      PROVE  Goal
  <2>1. PICK n \in DOMAIN runs :
           /\ runs[n].slot = c /\ \A m \in DOMAIN runs : runs[m].slot = c => m <= n
           /\ h' = [h EXCEPT ![c].pc = "result", ![c].record = n]
      BY <1>9 DEF FinishExecution
  <2>2. /\ h[c].pc = "running" /\ h'[c].pc = "result" /\ h'[c].record = n
        /\ h'[c].req = h[c].req /\ h'[c].binding = h[c].binding
        /\ \A d \in Conns \ {c} : h'[d] = h[d]
      BY <1>0, <1>9, <2>1 DEF FinishExecution, Handler
  <2>3. PICK k \in DOMAIN runs :
           /\ RunOf(k, h[c].req, h[c].binding) /\ runs[k].slot = c
           /\ \A m \in DOMAIN runs : runs[m].slot = c => m <= k
      BY <1>i, <2>2 DEF HandlerInv
  <2>4. n = k
      BY <1>0, <2>1, <2>3
  <2>5. HandlerInv(c)'
      BY <1>9, <2>2, <2>3, <2>4 DEF FinishExecution, HandlerInv, Answering, RunOf
  <2>6. \A d \in Conns : HandlerInv(d)'
      BY <1>i, <2>2, <2>5, HandlersFrom
  <2> QED BY <1>9, <1>i, <2>6, RunsSame, ResultsSame DEF FinishExecution
<1>10. ASSUME NEW c \in Conns, AppendResult(c)
      PROVE  Goal
  <2>1. "publishResult" \in Pcs
      BY DEF Pcs
  <2>2. /\ h[c].pc = "result" /\ h'[c].pc = "publishResult" /\ h'[c].record = h[c].record
        /\ h'[c].req = h[c].req /\ h'[c].binding = h[c].binding
        /\ \A d \in Conns \ {c} : h'[d] = h[d]
      BY <1>0, <1>10, <2>1, StepFacts DEF AppendResult
  <2>3. RunOf(h[c].record, h[c].req, h[c].binding)
      BY <1>i, <2>2 DEF HandlerInv
  <2> DEFINE e == Entry("result", h[c].req, h[c].binding, h[c].record)
  <2>4. e \in EntrySet /\ e.type = "result" /\ e.req = h[c].req /\ e.record = h[c].record
      BY <1>0 DEF Entry, EntrySet, Handler
  <2>5. ledger' = Append(ledger, e)
      BY <1>10 DEF AppendResult
  <2> HIDE DEF e
  <2>6. RunsInv'
      BY <1>10, <1>i, <2>4, <2>5, RunsAppend DEF AppendResult
  <2>7. ResultsInv'
      BY <1>10, <1>i, <2>3, <2>4, <2>5, ResultsAppend DEF AppendResult, RunOf
  <2>8. HandlerInv(c)'
      BY <1>10, <2>2, <2>3 DEF AppendResult, HandlerInv, Answering, RunOf
  <2> QED BY <1>i, <2>2, <2>6, <2>7, <2>8, HandlersFrom
<1>11. ASSUME NEW c \in Conns, PublishResult(c)
      PROVE  Goal
  <2>1. "EXECUTED" \in Kinds /\ h[c].record \in Nat
      BY <1>0 DEF Kinds, Handler
  <2>2. Return(c, "publishResult", "EXECUTED", h[c].record)
      BY <1>11 DEF PublishResult
  <2>3. /\ h[c].pc = "publishResult" /\ h'[c].pc = "reply"
        /\ h'[c].req = h[c].req /\ h'[c].binding = h[c].binding
        /\ \A d \in Conns \ {c} : h'[d] = h[d]
      BY <1>0, <2>1, <2>2, ReturnFacts
  <2>4. h'[c].record = h[c].record
      BY <1>0, <2>1, <2>2, ReturnFacts
  <2>5. RunOf(h[c].record, h[c].req, h[c].binding)
      BY <1>i, <2>3 DEF HandlerInv, Answering
  <2>6. \A r \in Requests : resultBy'[r] = IF r = h[c].req THEN h[c].record ELSE resultBy[r]
      BY <1>11 DEF PublishResult, TypeInv, TypeOK
  <2>7. ResultsInv'
      BY <1>11, <1>i, <2>5, <2>6 DEF PublishResult, ResultsInv, RunOf
  <2>8. RunsInv'
      BY <1>11, <1>i, RunsSame DEF PublishResult
  <2>9. HandlerInv(c)'
      BY <1>11, <2>3, <2>4, <2>5 DEF PublishResult, HandlerInv, Answering, RunOf
  <2> QED BY <1>i, <2>3, <2>7, <2>8, <2>9, HandlersFrom
<1>12. ASSUME NEW c \in Conns, AppendOther(c)
      PROVE  Goal
  <2>1. "OTHER" \in Kinds /\ "OTHER" \notin ResultKinds
      BY DEF Kinds, ResultKinds
  <2>2. /\ h[c].pc = "manage" /\ h'[c].pc = "reply" /\ h'[c].kind = "OTHER"
        /\ \A d \in Conns \ {c} : h'[d] = h[d]
      BY <1>0, <1>12, <2>1, ReturnFacts DEF AppendOther
  <2> DEFINE e == Entry("other", None, None, 0)
  <2>3. e \in EntrySet /\ e.type = "other"
      BY DEF Entry, EntrySet
  <2>4. ledger' = Append(ledger, e)
      BY <1>12 DEF AppendOther
  <2> HIDE DEF e
  <2>5. RunsInv' /\ ResultsInv'
      BY <1>12, <1>i, <2>3, <2>4, RunsAppend, ResultsAppend DEF AppendOther
  <2>6. HandlerInv(c)'
      BY <2>1, <2>2 DEF HandlerInv, Answering
  <2> QED BY <1>i, <2>2, <2>5, <2>6, HandlersFrom
<1>13. ASSUME NEW c \in Conns, Respond(c)
      PROVE  Goal
  <2>1. h[c].pc = "reply" /\ UNCHANGED <<ledger, runs, dispatchBy, resultBy, up>>
      BY <1>13 DEF Respond
  <2>2. h'[c].pc = "idle" /\ \A d \in Conns \ {c} : h'[d] = h[d]
      BY <1>0, <1>13 DEF Respond, Idle
  <2>3. HandlerInv(c)'
      BY <2>2 DEF HandlerInv, Answering
  <2>4. ASSUME NEW p \in replies', p.kind \in ResultKinds
        PROVE  RunOf(p.record, p.req, p.binding)
    <3>1. CASE p \in replies
        BY <1>i, <2>4, <3>1 DEF ResultsInv
    <3>2. CASE p \notin replies
      <4>1. p.req = h[c].req /\ p.binding = h[c].binding /\ p.kind = h[c].kind /\ p.record = h[c].record
          BY <1>13, <3>2 DEF Respond
      <4> QED BY <1>i, <2>1, <2>4, <4>1 DEF HandlerInv, Answering
    <3> QED BY <3>1, <3>2
  <2>5. ResultsInv'
      BY <1>i, <2>1, <2>4 DEF ResultsInv, RunOf
  <2> QED BY <1>i, <2>1, <2>2, <2>3, <2>5, RunsSame, HandlersFrom
<1>14. ASSUME NEW c \in Conns, Reject(c)
      PROVE  Goal
  <2>1. h[c].pc # "idle" /\ h'[c].pc = "idle" /\ \A d \in Conns \ {c} : h'[d] = h[d]
      BY <1>0, <1>14 DEF Reject, Idle
  <2>2. HandlerInv(c)'
      BY <2>1 DEF HandlerInv, Answering
  <2>3. \A d \in Conns : HandlerInv(d)'
      BY <1>i, <2>1, <2>2, HandlersFrom
  <2> QED BY <1>14, <1>i, <2>3, RunsSame, ResultsSame DEF Reject
<1>15. ASSUME NEW c \in Conns, AppendFails(c)
      PROVE  Goal
  <2>1. h[c].pc # "idle" /\ h'[c].pc = "idle" /\ \A d \in Conns \ {c} : h'[d] = h[d]
      BY <1>0, <1>15 DEF AppendFails, Idle
  <2>2. HandlerInv(c)'
      BY <2>1 DEF HandlerInv, Answering
  <2>3. \A d \in Conns : HandlerInv(d)'
      BY <1>i, <2>1, <2>2, HandlersFrom
  <2>4. UNCHANGED <<runs, dispatchBy, resultBy, up, replies>>
      BY <1>15 DEF AppendFails
  <2>5. CASE ledger' = ledger
      BY <1>i, <2>3, <2>4, <2>5, RunsSame, ResultsSame
  <2>6. CASE ledger' = Append(ledger, Pending(c))
    <3>1. Pending(c) \in EntrySet
        BY <1>0 DEF Pending, Entry, EntrySet, Handler
    <3>2. Pending(c).type = "dispatch" => NoRun(Pending(c).req)
      <4>1. Pending(c).type = "dispatch" => h[c].pc = "intent" /\ Pending(c).req = h[c].req
          BY DEF Pending, Entry
      <4> QED BY <1>i, <4>1 DEF HandlerInv
    <3>3. Pending(c).type = "result" =>
              Pending(c).record \in DOMAIN runs /\ runs[Pending(c).record].req = Pending(c).req
      <4>1. Pending(c).type = "result" =>
                h[c].pc = "result" /\ Pending(c).req = h[c].req /\ Pending(c).record = h[c].record
          BY DEF Pending, Entry
      <4> QED BY <1>i, <4>1 DEF HandlerInv, RunOf
    <3> DEFINE e == Pending(c)
    <3>4. ledger' = Append(ledger, e) /\ e \in EntrySet
        BY <2>6, <3>1
    <3>5. /\ e.type = "dispatch" => NoRun(e.req)
          /\ e.type = "result" => e.record \in DOMAIN runs /\ runs[e.record].req = e.req
        BY <3>2, <3>3
    <3> HIDE DEF e
    <3>6. RunsInv'
        BY <1>i, <2>4, <3>4, <3>5, RunsAppend
    <3>7. ResultsInv'
        BY <1>i, <2>4, <3>4, <3>5, ResultsAppend
    <3> QED BY <2>3, <3>6, <3>7
  <2> QED BY <1>15, <2>5, <2>6 DEF AppendFails
<1>16. ASSUME ProcessEnds
      PROVE  Goal
  <2>1. /\ \A c \in Conns : h'[c].pc = "idle"
        /\ \A r \in Requests : resultBy'[r] = 0
        /\ ~up' /\ UNCHANGED <<ledger, runs, replies>>
      BY <1>16 DEF ProcessEnds, Idle
  <2>2. RunsInv'
      BY <1>i, <2>1 DEF RunsInv, DuplicateIsIdempotent, LatestBinding, Positions
  <2>3. ResultsInv'
      BY <1>i, <2>1 DEF ResultsInv, RunOf
  <2>4. \A c \in Conns : HandlerInv(c)'
      BY <2>1 DEF HandlerInv, Answering
  <2> QED BY <2>2, <2>3, <2>4
<1>17. ASSUME NEW c \in Conns, HandlerRaises(c)
      PROVE  Goal
    BY <1>16, <1>17, <1>i DEF HandlerRaises
<1>18. CASE Crash
    BY <1>16, <1>18 DEF Crash
<1>19. CASE Restart
  <2>1. UNCHANGED <<ledger, runs, replies, h>>
      BY <1>19 DEF Restart
  <2>2. \A c \in Conns : h'[c].pc = "idle"
      BY <1>19 DEF Restart, TypeInv, HandlersOK
  <2>3. \A c \in Conns : HandlerInv(c)'
      BY <2>2 DEF HandlerInv, Answering
  <2>4. ASSUME NEW n \in DOMAIN runs PROVE dispatchBy'[runs[n].req] = runs[n].binding
    <3> DEFINE r == runs[n].req
               b == runs[n].binding
    <3>1. r \in Requests
        BY RunFields
    <3>2. LatestBinding(r, b)
        BY <1>i DEF RunsInv
    <3> HIDE DEF r, b
    <3>3. PICK i \in Positions("dispatch", r) :
             ledger[i].binding = b /\ \A j \in Positions("dispatch", r) : j <= i
        BY <3>2 DEF LatestBinding
    <3>4. /\ Latest("dispatch", r) \in Positions("dispatch", r)
          /\ \A j \in Positions("dispatch", r) : j <= Latest("dispatch", r)
        BY <1>0, <3>3, LatestIsGreatest
    <3>5. \A j \in Positions("dispatch", r) : j \in Nat
        BY <1>0 DEF Positions
    <3>6. Latest("dispatch", r) = i
      <4>1. i <= Latest("dispatch", r) /\ Latest("dispatch", r) <= i
          BY <3>3, <3>4
      <4>2. i \in Nat /\ Latest("dispatch", r) \in Nat
          BY <3>3, <3>4, <3>5
      <4> QED BY <4>1, <4>2
    <3>7. dispatchBy'[r] = ledger[Latest("dispatch", r)].binding
        BY <1>19, <3>1, <3>3 DEF Restart
    <3> QED BY <3>3, <3>6, <3>7 DEF r, b
  <2>5. ASSUME NEW r \in Requests, resultBy'[r] # 0
        PROVE  resultBy'[r] \in DOMAIN runs /\ runs[resultBy'[r]].req = r
    <3>1. Positions("result", r) # {} /\ resultBy'[r] = ledger[Latest("result", r)].record
        BY <1>19, <2>5 DEF Restart
    <3>2. Latest("result", r) \in Positions("result", r)
        BY <1>0, <3>1, LatestIsGreatest
    <3> QED BY <1>i, <3>1, <3>2 DEF ResultsInv, Positions
  <2>6. RunsInv'
      BY <1>i, <2>1, <2>4 DEF RunsInv, DuplicateIsIdempotent, LatestBinding, Positions
  <2>7. ResultsInv'
      BY <1>i, <2>1, <2>5 DEF ResultsInv, RunOf
  <2> QED BY <2>3, <2>6, <2>7
<1>20. CASE UNCHANGED vars
  <2>1. RunsInv' /\ ResultsInv'
      BY <1>20, <1>i, RunsSame, ResultsSame DEF vars
  <2>2. \A c \in Conns : HandlerInv(c)'
      BY <1>20, <1>i DEF vars, HandlerInv, Answering, RunOf, NoRun, LatestBinding, Positions
  <2> QED BY <2>1, <2>2
<1> QED
    BY <1>1, <1>2, <1>3, <1>4, <1>5, <1>6, <1>7, <1>8, <1>9, <1>10, <1>11, <1>12, <1>13,
       <1>14, <1>15, <1>17, <1>18, <1>19, <1>20 DEF Next, Handle

\* The inductive invariant holds throughout.
THEOREM SerialInvHolds == Spec => [](TypeInv /\ SerialInv)
<1>1. Init => TypeInv /\ SerialInv
    BY TypeInit, SerialInit
<1>2. TypeInv /\ SerialInv /\ [Next]_vars => TypeInv' /\ SerialInv'
    BY TypeStep, SerialStep
<1> QED BY <1>1, <1>2, PTL DEF Spec

\* A worker endpoint that serves one connection at a time executes a request id
\* at most once: over duplicates, changed bindings, crashes at any point of the
\* handler, restarts, and appends that fail before or after the line is written.
THEOREM ExecutesAtMostOnce == Spec => []AtMostOnce
<1>1. TypeInv /\ SerialInv => AtMostOnce
    BY DEF SerialInv, RunsInv, AtMostOnce
<1> QED BY <1>1, SerialInvHolds, PTL

\* Every execution.result a serial endpoint sends for a request id carries the one
\* record of the execution of the dispatch it answers.
THEOREM AnswersAgree == Spec => []SameAnswer
<1>1. TypeInv /\ SerialInv => SameAnswer
  <2> SUFFICES ASSUME TypeInv, SerialInv, Serial, NEW p \in replies, NEW q \in replies,
                      p.kind \in ResultKinds
               PROVE  /\ p.record \in DOMAIN runs
                      /\ runs[p.record].req = p.req /\ runs[p.record].binding = p.binding
                      /\ q.kind \in ResultKinds /\ q.req = p.req => q.record = p.record
      BY DEF SameAnswer
  <2> QED BY DEF SerialInv, RunsInv, ResultsInv, RunOf, DuplicateIsIdempotent
<1> QED BY <1>1, SerialInvHolds, PTL

-----------------------------------------------------------------------------
(* What a step of a serial endpoint never does.                              *)

\* A workload begins only in StartExecution, whose handler passed accepts_work
\* and, being the only one, let no management request in since.
THEOREM DrainHolds == Spec => DrainedStartsNothing
<1>1. TypeInv /\ SerialInv /\ [Next]_vars => [Serial /\ runs' # runs => mgmt \in Schedulable]_vars
  <2> SUFFICES ASSUME SerialInv, [Next]_vars, Serial, runs' # runs
               PROVE  mgmt \in Schedulable
      OBVIOUS
  <2>1. PICK c \in Conns : StartExecution(c)
      BY DEF Next, Handle, vars, Receive, Manage, Observe, CheckAcceptsWork, CheckPrior, Admit,
             AppendDispatch, PublishDispatch, FinishExecution, AppendResult, PublishResult,
             AppendOther, Respond, Reject, AppendFails, HandlerRaises, ProcessEnds, Crash, Restart
  <2>2. h[c].pc = "execute"
      BY <2>1 DEF StartExecution, Step
  <2> QED BY <2>2 DEF SerialInv, HandlerInv
<1> QED BY <1>1, SerialInvHolds, PTL DEF Spec, DrainedStartsNothing

Before == {"accepts", "prior", "admit", "reply"}

\* A step of one handler keeps a request interrupted if it adds no result of
\* it and does not take it up.
LEMMA InterruptedKept ==
    ASSUME NEW r \in Requests, Interrupted(r), runs' = runs, NEW c \in Conns,
           \A d \in Conns \ {c} : h'[d] = h[d],
           h'[c].req = r => h'[c].pc \in Before,
           \A i \in DOMAIN ledger' : \/ i \in DOMAIN ledger /\ ledger'[i] = ledger[i]
                                     \/ ledger'[i].type # "result"
                                     \/ ledger'[i].req # r
    PROVE  Interrupted(r)'
<1>1. Positions("result", r)' = {}
    BY DEF Interrupted, Positions
<1>2. \A d \in Conns : h'[d].req = r => h'[d].pc \in Before
    BY DEF Interrupted, Before
<1> QED BY <1>1, <1>2 DEF Interrupted, Before

\* An append adds nothing else than its entry.
LEMMA AppendedOnly ==
    ASSUME TypeInv, NEW e \in EntrySet, ledger' = Append(ledger, e), NEW r,
           e.type # "result" \/ e.req # r
    PROVE  \A i \in DOMAIN ledger' : \/ i \in DOMAIN ledger /\ ledger'[i] = ledger[i]
                                     \/ ledger'[i].type # "result"
                                     \/ ledger'[i].req # r
<1>1. /\ LedgerKept
      /\ Len(ledger) \in Nat /\ DOMAIN ledger = 1..Len(ledger)
      /\ DOMAIN ledger' = 1..(Len(ledger) + 1)
      /\ ledger'[Len(ledger) + 1] = e
    BY AppendKeeps
<1>2. \A i \in DOMAIN ledger' : i \in DOMAIN ledger \/ i = Len(ledger) + 1
    BY <1>1
<1> QED BY <1>1, <1>2 DEF LedgerKept

LEMMA InterruptedStep ==
    ASSUME TypeInv, SerialInv, [Next]_vars, Serial, NEW r \in Requests, Interrupted(r)
    PROVE  Interrupted(r)'
<1>0. h \in [Conns -> Handler]
    BY DEF TypeInv, TypeOK
<1>i. \A c \in Conns : HandlerInv(c)
    BY DEF SerialInv
<1>r. ~NoRun(r)
    BY DEF Interrupted, NoRun
\* A handler past admission does not carry the interrupted request.
<1>n. \A c \in Conns : h[c].pc \notin {"idle", "accepts", "prior", "reply", "manage"} => h[c].req # r
  <2> TAKE c \in Conns
  <2>1. h[c].req = r => h[c].pc \in Before
      BY DEF Interrupted, Before
  <2>2. h[c].req = r => h[c].pc # "admit"
      BY <1>i, <1>r DEF HandlerInv
  <2> QED BY <2>1, <2>2 DEF Before
<1>a. Idle.req # r /\ Idle.pc = "idle"
    BY NoneAssumption DEF Idle
<1>1. ASSUME NEW c \in Conns, NEW q \in Requests, NEW b \in Bindings, Receive(c, q, b)
      PROVE  Interrupted(r)'
  <2>1. h'[c].pc = "accepts" /\ \A d \in Conns \ {c} : h'[d] = h[d]
      BY <1>0, <1>1 DEF Receive, Idle
  <2> QED BY <1>1, <2>1, InterruptedKept DEF Receive, Before
<1>2. ASSUME NEW c \in Conns, (\E command \in Commands : Manage(c, command)) \/ Observe(c)
      PROVE  Interrupted(r)'
  <2>1. h'[c].req # r /\ \A d \in Conns \ {c} : h'[d] = h[d]
      BY <1>0, <1>2, NoneAssumption DEF Manage, Observe, Idle
  <2> QED BY <1>2, <2>1, InterruptedKept DEF Manage, Observe
<1>3. ASSUME NEW c \in Conns, CheckAcceptsWork(c)
      PROVE  Interrupted(r)'
  <2>1. h'[c].pc \in Before /\ \A d \in Conns \ {c} : h'[d] = h[d]
      BY <1>0, <1>3 DEF CheckAcceptsWork, Step, Return, Before, Handler
  <2> QED BY <1>3, <2>1, InterruptedKept DEF CheckAcceptsWork
<1>4. ASSUME NEW c \in Conns, CheckPrior(c)
      PROVE  Interrupted(r)'
  <2>1. h'[c].pc \in Before /\ \A d \in Conns \ {c} : h'[d] = h[d]
      BY <1>0, <1>4 DEF CheckPrior, Step, Return, Before, Handler
  <2> QED BY <1>4, <2>1, InterruptedKept DEF CheckPrior
\* The steps past admission leave the handler's request as it was.
<1>5. ASSUME NEW c \in Conns, Admit(c)
      PROVE  Interrupted(r)'
  <2>1. h[c].pc = "admit" /\ h'[c].req = h[c].req /\ \A d \in Conns \ {c} : h'[d] = h[d]
      BY <1>0, <1>5 DEF Admit, Step, Return, Handler
  <2> QED BY <1>5, <1>n, <2>1, InterruptedKept DEF Admit
<1>6. ASSUME NEW c \in Conns, AppendDispatch(c)
      PROVE  Interrupted(r)'
  <2>1. h[c].pc = "intent" /\ h'[c].req = h[c].req /\ \A d \in Conns \ {c} : h'[d] = h[d]
      BY <1>0, <1>6 DEF AppendDispatch, Step, Handler
  <2> DEFINE e == Entry("dispatch", h[c].req, h[c].binding, 0)
  <2>2. e \in EntrySet /\ e.type # "result"
      BY <1>0 DEF Entry, EntrySet, Handler
  <2>3. ledger' = Append(ledger, e)
      BY <1>6 DEF AppendDispatch
  <2> HIDE DEF e
  <2> QED BY <1>6, <1>n, <2>1, <2>2, <2>3, AppendedOnly, InterruptedKept DEF AppendDispatch
<1>7. ASSUME NEW c \in Conns, PublishDispatch(c)
      PROVE  Interrupted(r)'
  <2>1. h[c].pc = "publish" /\ h'[c].req = h[c].req /\ \A d \in Conns \ {c} : h'[d] = h[d]
      BY <1>0, <1>7 DEF PublishDispatch, Step, Handler
  <2> QED BY <1>7, <1>n, <2>1, InterruptedKept DEF PublishDispatch
<1>8. ASSUME NEW c \in Conns, StartExecution(c)
      PROVE  Interrupted(r)'
  <2>1. h[c].pc = "execute" /\ h'[c].req = h[c].req /\ \A d \in Conns \ {c} : h'[d] = h[d]
      BY <1>0, <1>8 DEF StartExecution, Step, Handler
  <2>2. \A d \in Conns : h'[d].req = r => h'[d].pc \in Before
      BY <1>n, <2>1 DEF Interrupted, Before
  <2>3. Positions("result", r)' = {}
      BY <1>8 DEF StartExecution, Interrupted, Positions
  <2>4. \E n \in DOMAIN runs' : runs'[n].req = r
    <3> DEFINE R == [req : Requests, binding : Bindings, slot : Conns]
               x == [req |-> h[c].req, binding |-> h[c].binding, slot |-> c]
    <3>1. x \in R
        BY <2>1 DEF TypeInv, HandlersOK, Carrying
    <3>2. runs \in Seq(R) /\ runs' = Append(runs, x)
        BY <1>8 DEF StartExecution, TypeInv, TypeOK
    <3>3. PICK n \in DOMAIN runs : runs[n].req = r
        BY DEF Interrupted
    <3> HIDE DEF R, x
    <3>4. n \in DOMAIN runs' /\ runs'[n] = runs[n]
        BY <3>1, <3>2, <3>3, AppendFacts
    <3> QED BY <3>3, <3>4
  <2> QED BY <2>2, <2>3, <2>4 DEF Interrupted, Before
<1>9. ASSUME NEW c \in Conns, FinishExecution(c)
      PROVE  Interrupted(r)'
  <2>1. h[c].pc = "running" /\ h'[c].req = h[c].req /\ \A d \in Conns \ {c} : h'[d] = h[d]
      BY <1>0, <1>9 DEF FinishExecution, Handler
  <2> QED BY <1>9, <1>n, <2>1, InterruptedKept DEF FinishExecution
<1>10. ASSUME NEW c \in Conns, AppendResult(c)
      PROVE  Interrupted(r)'
  <2>1. h[c].pc = "result" /\ h'[c].req = h[c].req /\ \A d \in Conns \ {c} : h'[d] = h[d]
      BY <1>0, <1>10 DEF AppendResult, Step, Handler
  <2> DEFINE e == Entry("result", h[c].req, h[c].binding, h[c].record)
  <2>2. e \in EntrySet /\ e.req = h[c].req
      BY <1>0 DEF Entry, EntrySet, Handler
  <2>3. ledger' = Append(ledger, e)
      BY <1>10 DEF AppendResult
  <2> HIDE DEF e
  <2>4. e.req # r /\ h'[c].req # r
      BY <1>n, <2>1, <2>2
  <2> QED BY <1>10, <2>1, <2>2, <2>3, <2>4, AppendedOnly, InterruptedKept DEF AppendResult
<1>11. ASSUME NEW c \in Conns, PublishResult(c)
      PROVE  Interrupted(r)'
  <2>1. h[c].pc = "publishResult" /\ h'[c].req = h[c].req /\ \A d \in Conns \ {c} : h'[d] = h[d]
      BY <1>0, <1>11 DEF PublishResult, Return, Handler
  <2> QED BY <1>11, <1>n, <2>1, InterruptedKept DEF PublishResult
<1>12. ASSUME NEW c \in Conns, AppendOther(c)
      PROVE  Interrupted(r)'
  <2>1. h'[c].pc = "reply" /\ \A d \in Conns \ {c} : h'[d] = h[d]
      BY <1>0, <1>12 DEF AppendOther, Return, Handler
  <2> DEFINE e == Entry("other", None, None, 0)
  <2>2. e \in EntrySet /\ e.type # "result"
      BY DEF Entry, EntrySet
  <2>3. ledger' = Append(ledger, e)
      BY <1>12 DEF AppendOther
  <2> HIDE DEF e
  <2> QED BY <1>12, <2>1, <2>2, <2>3, AppendedOnly, InterruptedKept DEF AppendOther, Before
<1>13. ASSUME NEW c \in Conns, Respond(c) \/ Reject(c)
      PROVE  Interrupted(r)'
  <2>1. h'[c] = Idle /\ \A d \in Conns \ {c} : h'[d] = h[d]
      BY <1>0, <1>13 DEF Respond, Reject
  <2> QED BY <1>13, <1>a, <2>1, InterruptedKept DEF Respond, Reject
<1>14. ASSUME NEW c \in Conns, AppendFails(c)
      PROVE  Interrupted(r)'
  <2>1. h'[c] = Idle /\ \A d \in Conns \ {c} : h'[d] = h[d]
      BY <1>0, <1>14 DEF AppendFails
  <2> DEFINE e == Pending(c)
  <2>2. e \in EntrySet
      BY <1>0 DEF Pending, Entry, EntrySet, Handler
  <2>3. e.type # "result" \/ e.req # r
      BY <1>n DEF Pending, Entry
  <2>4. ledger' = ledger \/ ledger' = Append(ledger, e)
      BY <1>14 DEF AppendFails
  <2> HIDE DEF e
  <2>5. \A i \in DOMAIN ledger' : \/ i \in DOMAIN ledger /\ ledger'[i] = ledger[i]
                                  \/ ledger'[i].type # "result"
                                  \/ ledger'[i].req # r
      BY <2>2, <2>3, <2>4, AppendedOnly
  <2> QED BY <1>14, <1>a, <2>1, <2>5, InterruptedKept DEF AppendFails
<1>15. ASSUME ProcessEnds
      PROVE  Interrupted(r)'
  <2>1. \A c \in Conns : h'[c] = Idle
      BY <1>15 DEF ProcessEnds
  <2> QED BY <1>15, <1>a, <2>1 DEF ProcessEnds, Interrupted, Positions
<1>16. ASSUME NEW c \in Conns, HandlerRaises(c)
      PROVE  Interrupted(r)'
    BY <1>15, <1>16 DEF HandlerRaises
<1>17. CASE Crash \/ Restart \/ UNCHANGED vars
    BY <1>15, <1>17 DEF Crash, Restart, vars, Interrupted, Positions
<1> QED
    BY <1>1, <1>2, <1>3, <1>4, <1>5, <1>6, <1>7, <1>8, <1>9, <1>10, <1>11, <1>12, <1>13,
       <1>14, <1>16, <1>17 DEF Next, Handle

\* An execution that began and left no result in the ledger is never taken up
\* again by a serial endpoint, whatever is redelivered or restarted.
THEOREM InterruptedForGood == Spec => InterruptedStays
<1>1. TypeInv /\ SerialInv /\ [Next]_vars =>
          [Serial => \A r \in Requests : Interrupted(r) => Interrupted(r)']_vars
    BY InterruptedStep
<1> QED BY <1>1, SerialInvHolds, PTL DEF Spec, InterruptedStays

-----------------------------------------------------------------------------
(* The worker implements ExecuteOnce.  The four state functions below are    *)
(* what Once substitutes for ExecuteOnce's variables.                        *)

BegunBar == IF Serial THEN [n \in DOMAIN runs |-> [req |-> runs[n].req, binding |-> runs[n].binding]]
            ELSE <<>>
RecordedBar == {r \in Requests : Serial /\ Positions("result", r) # {}}
LostBar == {r \in Requests : Serial /\ Interrupted(r)}
ToldBar == {[req |-> p.req, binding |-> p.binding] :
               p \in {q \in replies : Serial /\ q.kind \in ResultKinds}}
Bar == <<BegunBar, RecordedBar, LostBar, ToldBar>>

\* A handler without a dispatch names no request, and while a workload runs, or
\* its record is about to be appended, its request has no result.
Unresolved ==
    /\ \A c \in Conns : h[c].pc \in {"idle", "manage"} => h[c].req = None
    /\ Serial => \A c \in Conns :
                    h[c].pc \in {"running", "result"} => Positions("result", h[c].req) = {}

LEMMA UnresolvedInit == Init => Unresolved
BY DEF Init, Unresolved, Idle

\* A step of one handler keeps Unresolved if its own obligations are met.
LEMMA UnresolvedKept ==
    ASSUME TypeInv, Unresolved, NEW c \in Conns, \A d \in Conns \ {c} : h'[d] = h[d],
           c \in slots \/ h[c].pc # "idle", slots' = slots,
           h'[c].pc \in {"idle", "manage"} => h'[c].req = None,
           Serial /\ h'[c].pc \in {"running", "result"} => Positions("result", h[c].req)' = {}
    PROVE  Unresolved'
<1>1. \A d \in Conns : h'[d].pc \in {"idle", "manage"} => h'[d].req = None
    BY DEF Unresolved
<1>2. ASSUME Serial', NEW d \in Conns, h'[d].pc \in {"running", "result"}
      PROVE  Positions("result", h[d].req)' = {}
  <2>1. Serial
      BY <1>2 DEF Serial
  <2>2. \A e \in Conns \ {c} : h'[e].pc = "idle"
      BY <2>1, OthersIdle
  <2> QED BY <1>2, <2>1, <2>2
<1> QED BY <1>1, <1>2 DEF Unresolved

LEMMA UnresolvedStep ==
    TypeInv /\ SerialInv /\ Unresolved /\ [Next]_vars => Unresolved'
<1> SUFFICES ASSUME TypeInv, SerialInv, Unresolved, [Next]_vars PROVE Unresolved'
    OBVIOUS
<1>0. h \in [Conns -> Handler]
    BY DEF TypeInv, TypeOK
<1>1. ASSUME NEW c \in Conns, NEW q \in Requests, NEW b \in Bindings, Receive(c, q, b)
      PROVE  Unresolved'
  <2>1. h'[c].pc = "accepts" /\ \A d \in Conns \ {c} : h'[d] = h[d]
      BY <1>0, <1>1 DEF Receive, Idle
  <2> QED BY <1>1, <2>1, UnresolvedKept DEF Receive
<1>2. ASSUME NEW c \in Conns, (\E command \in Commands : Manage(c, command)) \/ Observe(c)
      PROVE  Unresolved'
  <2>1. h'[c].pc = "manage" /\ h'[c].req = None /\ \A d \in Conns \ {c} : h'[d] = h[d]
      BY <1>0, <1>2 DEF Manage, Observe, Idle
  <2> QED BY <1>2, <2>1, UnresolvedKept DEF Manage, Observe
\* Steps to a point at which nothing is owed.
<1>3. ASSUME NEW c \in Conns,
             CheckAcceptsWork(c) \/ CheckPrior(c) \/ Admit(c) \/ AppendDispatch(c) \/ PublishDispatch(c)
                \/ AppendResult(c) \/ PublishResult(c) \/ AppendOther(c)
      PROVE  Unresolved'
  <2>1. /\ h[c].pc # "idle" /\ h'[c].pc \notin {"idle", "manage", "running", "result"}
        /\ \A d \in Conns \ {c} : h'[d] = h[d]
      BY <1>0, <1>3 DEF CheckAcceptsWork, CheckPrior, Admit, AppendDispatch, PublishDispatch,
                        AppendResult, PublishResult, AppendOther, Step, Return, Handler
  <2>2. slots' = slots
      BY <1>3 DEF CheckAcceptsWork, CheckPrior, Admit, AppendDispatch, PublishDispatch,
                  AppendResult, PublishResult, AppendOther
  <2> QED BY <2>1, <2>2, UnresolvedKept
<1>4. ASSUME NEW c \in Conns, StartExecution(c)
      PROVE  Unresolved'
  <2>1. /\ h[c].pc = "execute" /\ h'[c].pc = "running" /\ h'[c].req = h[c].req
        /\ \A d \in Conns \ {c} : h'[d] = h[d]
      BY <1>0, <1>4 DEF StartExecution, Step, Handler
  <2>2. Serial => Positions("result", h[c].req) = {}
      BY <2>1 DEF SerialInv, HandlerInv, NoRun, ResultsInv, Positions
  <2>3. slots' = slots /\ ledger' = ledger
      BY <1>4 DEF StartExecution
  <2>4. Serial => Positions("result", h[c].req)' = {}
      BY <2>1, <2>2, <2>3 DEF Positions
  <2> QED BY <2>1, <2>3, <2>4, UnresolvedKept
<1>5. ASSUME NEW c \in Conns, FinishExecution(c)
      PROVE  Unresolved'
  <2>1. /\ h[c].pc = "running" /\ h'[c].pc = "result" /\ h'[c].req = h[c].req
        /\ \A d \in Conns \ {c} : h'[d] = h[d]
      BY <1>0, <1>5 DEF FinishExecution, Handler
  <2>2. slots' = slots /\ ledger' = ledger
      BY <1>5 DEF FinishExecution
  <2>3. Serial => Positions("result", h[c].req)' = {}
      BY <2>1, <2>2 DEF Positions, Unresolved
  <2> QED BY <2>1, <2>2, <2>3, UnresolvedKept
<1>6. ASSUME NEW c \in Conns, h' = [h EXCEPT ![c] = Idle], h[c].pc # "idle", slots' = slots
      PROVE  Unresolved'
  <2>1. h'[c].pc = "idle" /\ h'[c].req = None /\ \A d \in Conns \ {c} : h'[d] = h[d]
      BY <1>6, IdleFacts
  <2> QED BY <1>6, <2>1, UnresolvedKept
<1>7. ASSUME ProcessEnds
      PROVE  Unresolved'
    BY <1>7 DEF ProcessEnds, Unresolved, Idle
<1>8. ASSUME NEW c \in Conns, Respond(c) \/ Reject(c) \/ AppendFails(c) \/ HandlerRaises(c)
      PROVE  Unresolved'
    BY <1>6, <1>7, <1>8 DEF Respond, Reject, AppendFails, HandlerRaises
<1>9. CASE Crash \/ Restart \/ UNCHANGED vars
  <2>1. CASE Crash
      BY <1>7, <2>1 DEF Crash
  <2>2. CASE Restart \/ UNCHANGED vars
      BY <2>2 DEF Restart, vars, Unresolved, Serial, Positions
  <2> QED BY <1>9, <2>1, <2>2
<1> QED BY <1>1, <1>2, <1>3, <1>4, <1>5, <1>8, <1>9 DEF Next, Handle

\* The bar of a step in which no request begins, is recorded, lost or told.
LEMMA BarSame ==
    ASSUME slots' = slots, runs' = runs,
           Serial => \A p \in replies' : p \in replies \/ p.kind \notin ResultKinds,
           replies \subseteq replies',
           \A r \in Requests : Positions("result", r)' = Positions("result", r),
           Serial => \A r \in Requests : Interrupted(r)' <=> Interrupted(r)
    PROVE  UNCHANGED Bar
<1>1. Serial' <=> Serial
    BY DEF Serial
<1>2. BegunBar' = BegunBar
    BY <1>1 DEF BegunBar
<1>3. RecordedBar' = RecordedBar
    BY <1>1 DEF RecordedBar
<1>4. LostBar' = LostBar
    BY <1>1 DEF LostBar
<1>5. ToldBar' = ToldBar
  <2>1. {q \in replies' : Serial' /\ q.kind \in ResultKinds} = {q \in replies : Serial /\ q.kind \in ResultKinds}
      BY <1>1
  <2> QED BY <2>1 DEF ToldBar
<1> QED BY <1>2, <1>3, <1>4, <1>5 DEF Bar

\* A request that becomes interrupted was carried by the handler that stepped.
LEMMA NotNewlyLost ==
    ASSUME NEW c \in Conns, \A d \in Conns \ {c} : h'[d] = h[d], runs' = runs,
           NEW r \in Requests, Positions("result", r)' = Positions("result", r),
           h[c].req = r => h[c].pc \in Before, Interrupted(r)'
    PROVE  Interrupted(r)
BY DEF Interrupted, Before

\* The positions of results over a step that appends no result.
LEMMA ResultsStay ==
    ASSUME TypeInv, NEW e \in EntrySet, ledger' = Append(ledger, e), e.type # "result", NEW r
    PROVE  Positions("result", r)' = Positions("result", r)
<1>1. /\ LedgerKept
      /\ Len(ledger) \in Nat /\ DOMAIN ledger = 1..Len(ledger)
      /\ DOMAIN ledger' = 1..(Len(ledger) + 1)
      /\ ledger'[Len(ledger) + 1] = e
    BY AppendKeeps
<1>2. \A i \in DOMAIN ledger' : i \in DOMAIN ledger \/ i = Len(ledger) + 1
    BY <1>1
<1> QED BY <1>1, <1>2 DEF LedgerKept, Positions

\* ... and over one that appends a result.
LEMMA ResultsGrow ==
    ASSUME TypeInv, NEW e \in EntrySet, ledger' = Append(ledger, e), e.type = "result", NEW r
    PROVE  Positions("result", r)' # {} <=> (r = e.req \/ Positions("result", r) # {})
<1>1. /\ LedgerKept
      /\ Len(ledger) \in Nat /\ DOMAIN ledger = 1..Len(ledger)
      /\ DOMAIN ledger' = 1..(Len(ledger) + 1)
      /\ ledger'[Len(ledger) + 1] = e
    BY AppendKeeps
<1>2. \A i \in DOMAIN ledger' : i \in DOMAIN ledger \/ i = Len(ledger) + 1
    BY <1>1
<1>3. Len(ledger) + 1 \in DOMAIN ledger'
    BY <1>1
<1> QED BY <1>1, <1>2, <1>3 DEF LedgerKept, Positions

LEMMA BegunReqs ==
    ASSUME Serial, NEW r
    PROVE  r \in {BegunBar[i].req : i \in DOMAIN BegunBar} <=> ~NoRun(r)
BY DEF BegunBar, NoRun

\* A step of ExecuteOnce, in terms of the bars.
OnceStep ==
    \/ \E r \in Requests, b \in Bindings :
          /\ r \notin {BegunBar[i].req : i \in DOMAIN BegunBar}
          /\ BegunBar' = Append(BegunBar, [req |-> r, binding |-> b])
          /\ UNCHANGED <<RecordedBar, LostBar, ToldBar>>
    \/ \E r \in Requests :
          /\ r \in {BegunBar[i].req : i \in DOMAIN BegunBar} \ (RecordedBar \cup LostBar)
          /\ \/ RecordedBar' = RecordedBar \cup {r} /\ UNCHANGED <<BegunBar, LostBar, ToldBar>>
             \/ LostBar' = LostBar \cup {r} /\ UNCHANGED <<BegunBar, RecordedBar, ToldBar>>
    \/ \E i \in DOMAIN BegunBar :
          /\ BegunBar[i].req \in RecordedBar
          /\ ToldBar' = ToldBar \cup {BegunBar[i]}
          /\ UNCHANGED <<BegunBar, RecordedBar, LostBar>>

LEMMA OnceStepIs == OnceStep \/ UNCHANGED Bar => [Once!Next]_(Once!vars)
BY DEF OnceStep, Bar, BegunBar, RecordedBar, LostBar, ToldBar,
       Once!Next, Once!vars, Once!Begin, Once!Record, Once!Lose, Once!Tell, Once!Begun

\* A step of one handler that neither begins nor records nor tells anything,
\* and does not abandon a running workload.
LEMMA QuietStep ==
    ASSUME TypeInv, SerialInv, [Next]_vars, Serial, slots' = slots, runs' = runs,
           NEW c \in Conns, \A d \in Conns \ {c} : h'[d] = h[d],
           \A p \in replies' : p \in replies \/ p.kind \notin ResultKinds,
           replies \subseteq replies',
           \A r \in Requests : Positions("result", r)' = Positions("result", r),
           \A r \in Requests : h[c].req = r => h[c].pc \in Before \/ ~Interrupted(r)'
    PROVE  UNCHANGED Bar
<1>1. ASSUME NEW r \in Requests PROVE Interrupted(r)' <=> Interrupted(r)
    BY InterruptedStep, NotNewlyLost
<1> QED BY <1>1, BarSame

\* The request of a busy handler becomes recorded, and nothing else happens.
LEMMA RecordStep ==
    ASSUME TypeInv, SerialInv, Unresolved, [Next]_vars, Serial,
           slots' = slots, runs' = runs, replies' = replies,
           NEW c \in Conns, \A d \in Conns \ {c} : h'[d] = h[d],
           h[c].pc = "result", h'[c].req \in {h[c].req, None},
           ledger' = Append(ledger, Entry("result", h[c].req, h[c].binding, h[c].record))
    PROVE  OnceStep
<1>0. h \in [Conns -> Handler] /\ h[c].req \in Requests
    BY DEF TypeInv, TypeOK, HandlersOK, Carrying
<1> DEFINE q == h[c].req
           e == Entry("result", h[c].req, h[c].binding, h[c].record)
<1>1. e \in EntrySet /\ e.type = "result" /\ e.req = q
    BY <1>0 DEF Entry, EntrySet, Handler
<1>2. ASSUME NEW r \in Requests
      PROVE  Positions("result", r)' # {} <=> (r = q \/ Positions("result", r) # {})
  <2> HIDE DEF e
  <2> QED BY <1>1, ResultsGrow DEF e
<1>3. ~NoRun(q)
    BY DEF SerialInv, HandlerInv, RunOf, NoRun
<1>4. Positions("result", q) = {}
    BY DEF Unresolved
<1>5. ~Interrupted(q)
    BY DEF Interrupted
<1>6. ASSUME NEW r \in Requests PROVE Interrupted(r)' <=> Interrupted(r)
  <2>1. CASE r = q
    <3>1. Positions("result", r)' # {}
        BY <1>2, <2>1
    <3>2. ~Interrupted(r)'
        BY <3>1 DEF Interrupted
    <3> QED BY <1>5, <2>1, <3>2
  <2>2. CASE r # q
    <3>1. Interrupted(r)' => Interrupted(r)
      <4> SUFFICES ASSUME Interrupted(r)' PROVE Interrupted(r)
          OBVIOUS
      <4>1. Positions("result", r) = {}
          BY <1>2, <2>2 DEF Interrupted
      <4>2. \A d \in Conns : h[d].req = r => h[d].pc \in Before
          BY <2>2 DEF Interrupted, Before
      <4> QED BY <4>1, <4>2 DEF Interrupted, Before
    <3> QED BY <3>1, InterruptedStep
  <2> QED BY <2>1, <2>2
<1> HIDE DEF q, e
<1>7. Serial'
    BY DEF Serial
<1>8. RecordedBar' = RecordedBar \cup {q}
    BY <1>0, <1>2, <1>7 DEF RecordedBar, q
<1>9. BegunBar' = BegunBar /\ LostBar' = LostBar /\ ToldBar' = ToldBar
    BY <1>6, <1>7 DEF BegunBar, LostBar, ToldBar
<1>10. q \in {BegunBar[i].req : i \in DOMAIN BegunBar} \ (RecordedBar \cup LostBar)
    BY <1>3, <1>4, <1>5, BegunReqs DEF RecordedBar, LostBar
<1> QED BY <1>0, <1>8, <1>9, <1>10 DEF OnceStep, q

\* A handler whose workload began ends without its result in the ledger.
LEMMA LoseStep ==
    ASSUME TypeInv, SerialInv, Unresolved, [Next]_vars, Serial,
           slots' = slots, runs' = runs, replies' = replies, ledger' = ledger,
           NEW c \in Conns, h[c].pc \in {"running", "result"},
           \A d \in Conns : h'[d].req = None
    PROVE  OnceStep
<1>0. h \in [Conns -> Handler] /\ h[c].req \in Requests
    BY DEF TypeInv, TypeOK, HandlersOK, Carrying
<1>q. PICK q \in Requests : q = h[c].req
    BY <1>0
<1>1. \A r \in Requests : Positions("result", r)' = Positions("result", r)
    BY DEF Positions
<1>2. Positions("result", q) = {}
    BY <1>q DEF Unresolved
<1>3. ~NoRun(q)
    BY <1>q DEF SerialInv, HandlerInv, RunOf, NoRun
<1>4. ~Interrupted(q)
    BY <1>q DEF Interrupted
<1>5. Interrupted(q)'
    BY <1>1, <1>2, <1>3, NoneAssumption DEF Interrupted, NoRun
<1>6. \A d \in Conns \ {c} : h[d].pc = "idle"
  <2>1. c \in slots
      BY DEF TypeInv, HandlersOK
  <2> QED BY <2>1 DEF TypeInv, HandlersOK, Serial
<1>7. ASSUME NEW r \in Requests, r # q PROVE Interrupted(r)' <=> Interrupted(r)
  <2>1. \A d \in Conns : h[d].req # r
      BY <1>6, <1>7, <1>q, NoneAssumption DEF Unresolved
  <2>2. \A d \in Conns : h'[d].req # r
      BY NoneAssumption
  <2> QED BY <1>1, <2>1, <2>2 DEF Interrupted
<1>8. Serial'
    BY DEF Serial
<1>9. LostBar' = LostBar \cup {q}
    BY <1>5, <1>7, <1>8 DEF LostBar
<1>10. BegunBar' = BegunBar /\ RecordedBar' = RecordedBar /\ ToldBar' = ToldBar
    BY <1>1, <1>8 DEF BegunBar, RecordedBar, ToldBar
<1>11. q \in {BegunBar[i].req : i \in DOMAIN BegunBar} \ (RecordedBar \cup LostBar)
    BY <1>2, <1>3, <1>4, BegunReqs DEF RecordedBar, LostBar
<1> QED BY <1>9, <1>10, <1>11 DEF OnceStep

\* A reply with a record tells the request's recorded result.
LEMMA TellStep ==
    ASSUME TypeInv, SerialInv, Durable, [Next]_vars, Serial, NEW c \in Conns, Respond(c),
           h[c].kind \in ResultKinds
    PROVE  OnceStep
<1>0. h \in [Conns -> Handler]
    BY DEF TypeInv, TypeOK
<1> DEFINE p == [req |-> h[c].req, binding |-> h[c].binding, kind |-> h[c].kind, record |-> h[c].record]
           n == h[c].record
<1>1. /\ h[c].pc = "reply" /\ replies' = replies \cup {p} /\ p.kind \in ResultKinds
      /\ h'[c] = Idle /\ \A d \in Conns \ {c} : h'[d] = h[d]
      /\ UNCHANGED <<slots, runs, ledger>>
    BY <1>0 DEF Respond
<1>2. n \in DOMAIN runs /\ runs[n].req = h[c].req /\ runs[n].binding = h[c].binding
    BY <1>1 DEF SerialInv, HandlerInv, Answering, RunOf
<1>3. runs[n].req \in Requests /\ Positions("result", runs[n].req) # {}
    BY <1>1, <1>2, RunFields DEF Durable, Answering, HasResult
<1>4. Serial' /\ \A r \in Requests : Positions("result", r)' = Positions("result", r)
    BY <1>1 DEF Serial, Positions
<1>5. ASSUME NEW r \in Requests PROVE Interrupted(r)' <=> Interrupted(r)
    BY <1>1, <1>4, InterruptedStep, NotNewlyLost DEF Before
<1>6. BegunBar' = BegunBar /\ RecordedBar' = RecordedBar /\ LostBar' = LostBar
    BY <1>1, <1>4, <1>5 DEF BegunBar, RecordedBar, LostBar
<1>7. n \in DOMAIN BegunBar /\ BegunBar[n] = [req |-> h[c].req, binding |-> h[c].binding]
    BY <1>2 DEF BegunBar
<1>8. BegunBar[n].req \in RecordedBar
    BY <1>2, <1>3, <1>7 DEF RecordedBar
<1>9. ToldBar' = ToldBar \cup {BegunBar[n]}
  <2> DEFINE Told(P) == {[req |-> x.req, binding |-> x.binding] : x \in P}
             P == {x \in replies : Serial /\ x.kind \in ResultKinds}
             Q == {x \in replies' : Serial' /\ x.kind \in ResultKinds}
  <2>1. Q = P \cup {p}
      BY <1>1, <1>4
  <2>2. p.req = h[c].req /\ p.binding = h[c].binding
      OBVIOUS
  <2>3. ToldBar = Told(P) /\ ToldBar' = Told(Q)
      BY DEF ToldBar
  <2> HIDE DEF P, Q, p
  <2>4. Told(P \cup {p}) = Told(P) \cup {[req |-> p.req, binding |-> p.binding]}
      OBVIOUS
  <2> QED BY <1>7, <2>1, <2>2, <2>3, <2>4
<1> QED BY <1>6, <1>7, <1>8, <1>9 DEF OnceStep

\* A workload that starts begins its request.
LEMMA BeginStep ==
    ASSUME TypeInv, SerialInv, Unresolved, [Next]_vars, Serial, NEW c \in Conns, StartExecution(c)
    PROVE  OnceStep
<1>0. h \in [Conns -> Handler]
    BY DEF TypeInv, TypeOK
<1>1. /\ h[c].pc = "execute" /\ h'[c].pc = "running" /\ h'[c].req = h[c].req
      /\ \A d \in Conns \ {c} : h'[d] = h[d]
      /\ UNCHANGED <<slots, ledger, replies>>
    BY <1>0 DEF StartExecution, Step, Handler
<1>q. PICK q \in Requests, b \in Bindings : q = h[c].req /\ b = h[c].binding
    BY <1>1 DEF TypeInv, HandlersOK, Carrying
<1>2. NoRun(q)
    BY <1>1, <1>q DEF SerialInv, HandlerInv
<1> DEFINE R == [req : Requests, binding : Bindings, slot : Conns]
           x == [req |-> q, binding |-> b, slot |-> c]
<1>3. x \in R /\ runs \in Seq(R) /\ runs' = Append(runs, x) /\ x.req = q /\ x.binding = b
    BY <1>q DEF StartExecution, TypeInv, TypeOK
<1> HIDE DEF R, x
<1>4. /\ Len(runs) \in Nat /\ DOMAIN runs = 1..Len(runs)
      /\ DOMAIN runs' = 1..(Len(runs) + 1)
      /\ \A i \in 1..Len(runs) : runs'[i] = runs[i]
      /\ runs'[Len(runs) + 1] = x
    BY <1>3, AppendFacts
<1>5. Serial' /\ \A r \in Requests : Positions("result", r)' = Positions("result", r)
    BY <1>1 DEF Serial, Positions
<1>6. ASSUME NEW r \in Requests PROVE Interrupted(r)' <=> Interrupted(r)
  <2>1. CASE r = q
    <3>1. ~Interrupted(r)
        BY <1>2, <2>1 DEF Interrupted, NoRun
    <3>2. ~Interrupted(r)'
        BY <1>1, <1>q, <2>1 DEF Interrupted
    <3> QED BY <3>1, <3>2
  <2>2. CASE r # q
    <3>1. Interrupted(r)' => Interrupted(r)
      <4> SUFFICES ASSUME Interrupted(r)' PROVE Interrupted(r)
          OBVIOUS
      <4>1. PICK n \in DOMAIN runs' : runs'[n].req = r
          BY DEF Interrupted
      <4>2. n \in DOMAIN runs /\ runs[n].req = r
          BY <1>3, <1>4, <2>2, <4>1
      <4>3. \A d \in Conns : h[d].req = r => h[d].pc \in Before
          BY <1>1, <1>q, <2>2 DEF Interrupted, Before
      <4> QED BY <1>5, <4>2, <4>3 DEF Interrupted, Before
    <3> QED BY <3>1, InterruptedStep
  <2> QED BY <2>1, <2>2
<1>7. RecordedBar' = RecordedBar /\ LostBar' = LostBar /\ ToldBar' = ToldBar
    BY <1>1, <1>5, <1>6 DEF RecordedBar, LostBar, ToldBar
<1>8. BegunBar' = Append(BegunBar, [req |-> q, binding |-> b])
  <2> DEFINE y == [req |-> q, binding |-> b]
             T == [req : Requests, binding : Bindings]
             F == [n \in DOMAIN runs |-> [req |-> runs[n].req, binding |-> runs[n].binding]]
             G == [n \in DOMAIN runs' |-> [req |-> runs'[n].req, binding |-> runs'[n].binding]]
  <2>1. BegunBar = F /\ BegunBar' = G
      BY <1>5 DEF BegunBar
  <2>2. y \in T /\ DOMAIN F = 1..Len(runs) /\ DOMAIN G = 1..(Len(runs) + 1)
      BY <1>4
  <2>3. \A n \in DOMAIN runs : F[n] \in T
      BY RunFields
  <2>4. F \in Seq(T) /\ Len(F) = Len(runs)
      BY <1>4, <2>2, <2>3
  <2>5. \A n \in 1..Len(runs) : G[n] = F[n]
      BY <1>4
  <2>6. G[Len(runs) + 1] = y
      BY <1>3, <1>4
  <2>7. G = [n \in DOMAIN G |-> G[n]]
      OBVIOUS
  <2> HIDE DEF F, G, T, y
  <2>8. /\ DOMAIN Append(F, y) = 1..(Len(runs) + 1)
        /\ \A n \in 1..Len(runs) : Append(F, y)[n] = F[n]
        /\ Append(F, y)[Len(runs) + 1] = y
        /\ Append(F, y) \in Seq(T)
      BY <2>2, <2>4, AppendFacts
  <2>9. \A n \in 1..(Len(runs) + 1) : G[n] = Append(F, y)[n]
      BY <1>4, <2>5, <2>6, <2>8
  <2>10. G = Append(F, y)
      BY <2>2, <2>7, <2>8, <2>9
  <2> QED BY <2>1, <2>10 DEF y
<1>9. q \notin {BegunBar[i].req : i \in DOMAIN BegunBar}
    BY <1>2, BegunReqs
<1> QED BY <1>7, <1>8, <1>9 DEF OnceStep

\* Every step of a serial endpoint is a step of ExecuteOnce or leaves the bars.
LEMMA SerialRefines ==
    ASSUME TypeInv, SerialInv, Durable, Unresolved, [Next]_vars, Serial
    PROVE  OnceStep \/ UNCHANGED Bar
<1>0. h \in [Conns -> Handler]
    BY DEF TypeInv, TypeOK
<1>i. \A c \in Conns : HandlerInv(c)
    BY DEF SerialInv
<1>s. ledger' = ledger => \A r \in Requests : Positions("result", r)' = Positions("result", r)
    BY DEF Positions
\* Nothing is lost with a request that never began.
<1>n. ASSUME NEW r, NoRun(r), runs' = runs PROVE ~Interrupted(r)'
    BY <1>n DEF NoRun, Interrupted
<1>1. ASSUME NEW c \in Conns,
             \/ \E q \in Requests, b \in Bindings : Receive(c, q, b)
             \/ \E command \in Commands : Manage(c, command)
             \/ Observe(c)
      PROVE  UNCHANGED Bar
  <2>1. h[c].req = None /\ \A d \in Conns \ {c} : h'[d] = h[d]
      BY <1>0, <1>1 DEF Receive, Manage, Observe, Unresolved
  <2>2. UNCHANGED <<slots, runs, replies, ledger>>
      BY <1>1 DEF Receive, Manage, Observe
  <2> QED BY <1>s, <2>1, <2>2, NoneAssumption, QuietStep
<1>2. ASSUME NEW c \in Conns, CheckAcceptsWork(c) \/ CheckPrior(c) \/ Admit(c) \/ Reject(c)
      PROVE  UNCHANGED Bar
  <2>1. h[c].pc \in Before /\ \A d \in Conns \ {c} : h'[d] = h[d]
      BY <1>0, <1>2 DEF CheckAcceptsWork, CheckPrior, Admit, Reject, Step, Return, Before
  <2>2. UNCHANGED <<slots, runs, replies, ledger>>
      BY <1>2 DEF CheckAcceptsWork, CheckPrior, Admit, Reject
  <2> QED BY <1>s, <2>1, <2>2, QuietStep
<1>3. ASSUME NEW c \in Conns, AppendDispatch(c)
      PROVE  UNCHANGED Bar
  <2>1. /\ h[c].pc = "intent" /\ \A d \in Conns \ {c} : h'[d] = h[d]
        /\ UNCHANGED <<slots, runs, replies>>
      BY <1>0, <1>3 DEF AppendDispatch, Step
  <2> DEFINE e == Entry("dispatch", h[c].req, h[c].binding, 0)
  <2>2. e \in EntrySet /\ e.type # "result" /\ ledger' = Append(ledger, e)
      BY <1>0, <1>3 DEF AppendDispatch, Entry, EntrySet, Handler
  <2> HIDE DEF e
  <2>3. \A r \in Requests : Positions("result", r)' = Positions("result", r)
      BY <2>2, ResultsStay
  <2>4. NoRun(h[c].req)
      BY <1>i, <2>1 DEF HandlerInv
  <2> QED BY <1>n, <2>1, <2>3, <2>4, QuietStep
<1>4. ASSUME NEW c \in Conns, PublishDispatch(c)
      PROVE  UNCHANGED Bar
  <2>1. /\ h[c].pc = "publish" /\ \A d \in Conns \ {c} : h'[d] = h[d]
        /\ UNCHANGED <<slots, runs, replies, ledger>>
      BY <1>0, <1>4 DEF PublishDispatch, Step
  <2>2. NoRun(h[c].req)
      BY <1>i, <2>1 DEF HandlerInv
  <2> QED BY <1>n, <1>s, <2>1, <2>2, QuietStep
<1>5. ASSUME NEW c \in Conns, StartExecution(c)
      PROVE  OnceStep
    BY <1>5, BeginStep
<1>6. ASSUME NEW c \in Conns, FinishExecution(c)
      PROVE  UNCHANGED Bar
  <2>1. /\ h'[c].pc = "result" /\ h'[c].req = h[c].req /\ \A d \in Conns \ {c} : h'[d] = h[d]
        /\ UNCHANGED <<slots, runs, replies, ledger>>
      BY <1>0, <1>6 DEF FinishExecution, Handler
  <2>2. \A r \in Requests : h[c].req = r => ~Interrupted(r)'
      BY <2>1 DEF Interrupted
  <2> QED BY <1>s, <2>1, <2>2, QuietStep
<1>7. ASSUME NEW c \in Conns, AppendResult(c)
      PROVE  OnceStep
  <2>1. /\ h[c].pc = "result" /\ h'[c].req = h[c].req /\ \A d \in Conns \ {c} : h'[d] = h[d]
        /\ UNCHANGED <<slots, runs, replies>>
        /\ ledger' = Append(ledger, Entry("result", h[c].req, h[c].binding, h[c].record))
      BY <1>0, <1>7 DEF AppendResult, Step, Handler
  <2> QED BY <2>1, RecordStep
<1>8. ASSUME NEW c \in Conns, PublishResult(c)
      PROVE  UNCHANGED Bar
  <2>1. /\ h[c].pc = "publishResult" /\ \A d \in Conns \ {c} : h'[d] = h[d]
        /\ UNCHANGED <<slots, runs, replies, ledger>>
      BY <1>0, <1>8 DEF PublishResult, Return
  <2>2. Positions("result", h[c].req) # {}
      BY <2>1 DEF Durable, Answering, HasResult
  <2>3. \A r \in Requests : h[c].req = r => ~Interrupted(r)'
      BY <1>s, <2>1, <2>2 DEF Interrupted
  <2> QED BY <1>s, <2>1, <2>3, QuietStep
<1>9. ASSUME NEW c \in Conns, AppendOther(c)
      PROVE  UNCHANGED Bar
  <2>1. /\ h[c].pc = "manage" /\ \A d \in Conns \ {c} : h'[d] = h[d]
        /\ UNCHANGED <<slots, runs, replies>>
      BY <1>0, <1>9 DEF AppendOther, Return
  <2> DEFINE e == Entry("other", None, None, 0)
  <2>2. e \in EntrySet /\ e.type # "result" /\ ledger' = Append(ledger, e)
      BY <1>9 DEF AppendOther, Entry, EntrySet
  <2> HIDE DEF e
  <2>3. \A r \in Requests : Positions("result", r)' = Positions("result", r)
      BY <2>2, ResultsStay
  <2>4. h[c].req = None
      BY <2>1 DEF Unresolved
  <2> QED BY <2>1, <2>3, <2>4, NoneAssumption, QuietStep
<1>10. ASSUME NEW c \in Conns, Respond(c)
      PROVE  OnceStep \/ UNCHANGED Bar
  <2>1. CASE h[c].kind \in ResultKinds
      BY <1>10, <2>1, TellStep
  <2>2. CASE h[c].kind \notin ResultKinds
    <3>1. /\ h[c].pc = "reply" /\ \A d \in Conns \ {c} : h'[d] = h[d]
          /\ UNCHANGED <<slots, runs, ledger>>
          /\ replies \subseteq replies'
          /\ \A p \in replies' : p \in replies \/ p.kind \notin ResultKinds
        BY <1>0, <1>10, <2>2 DEF Respond
    <3> QED BY <1>s, <3>1, QuietStep DEF Before
  <2> QED BY <2>1, <2>2
<1>11. ASSUME NEW c \in Conns, AppendFails(c)
      PROVE  OnceStep \/ UNCHANGED Bar
  <2>1. /\ h'[c].req = None /\ \A d \in Conns \ {c} : h'[d] = h[d]
        /\ h[c].pc \in {"intent", "result", "manage"}
        /\ UNCHANGED <<slots, runs, replies>>
      BY <1>11, IdleFacts DEF AppendFails
  <2>2. CASE h[c].pc = "result"
    <3>1. CASE ledger' = ledger
      <4>1. \A d \in Conns \ {c} : h[d].pc = "idle"
          BY <2>1, <2>2, OthersIdle
      <4>2. \A d \in Conns : h'[d].req = None
          BY <2>1, <4>1 DEF Unresolved
      <4> QED BY <2>1, <2>2, <3>1, <4>2, LoseStep
    <3>2. CASE ledger' = Append(ledger, Pending(c))
      <4>1. ledger' = Append(ledger, Entry("result", h[c].req, h[c].binding, h[c].record))
          BY <2>2, <3>2 DEF Pending
      <4> QED BY <2>1, <2>2, <4>1, RecordStep
    <3> QED BY <1>11, <3>1, <3>2 DEF AppendFails
  <2>3. CASE h[c].pc \in {"intent", "manage"}
    <3> DEFINE e == Pending(c)
    <3>1. e \in EntrySet /\ e.type # "result"
        BY <1>0, <2>3 DEF Pending, Entry, EntrySet, Handler
    <3>2. ledger' = ledger \/ ledger' = Append(ledger, e)
        BY <1>11 DEF AppendFails
    <3> HIDE DEF e
    <3>3. \A r \in Requests : Positions("result", r)' = Positions("result", r)
        BY <1>s, <3>1, <3>2, ResultsStay
    <3>4. \A r \in Requests : h[c].req = r => ~Interrupted(r)'
        BY <1>i, <1>n, <2>1, <2>3, NoneAssumption DEF HandlerInv, Unresolved
    <3> QED BY <2>1, <3>3, <3>4, QuietStep
  <2> QED BY <2>1, <2>2, <2>3
<1>12. ASSUME ProcessEnds
      PROVE  OnceStep \/ UNCHANGED Bar
  <2>1. (\A c \in Conns : h'[c].req = None) /\ UNCHANGED <<slots, runs, replies, ledger>>
      BY <1>12 DEF ProcessEnds, Idle
  <2>2. CASE \E c \in Conns : h[c].pc \in {"running", "result"}
      BY <2>1, <2>2, LoseStep
  <2>3. CASE \A c \in Conns : h[c].pc \notin {"running", "result"}
    <3>1. ASSUME NEW r \in Requests, Interrupted(r)' PROVE Interrupted(r)
      <4>1. ~NoRun(r) /\ Positions("result", r) = {}
          BY <1>s, <2>1, <3>1 DEF Interrupted, NoRun
      <4>2. ASSUME NEW c \in Conns, h[c].req = r PROVE h[c].pc \in Before
        <5>1. h[c].pc \in Pcs
            BY <1>0 DEF Handler
        <5>2. h[c].pc \notin {"idle", "manage"}
            BY <4>2, NoneAssumption DEF Unresolved
        <5>3. h[c].pc \notin {"intent", "publish", "execute"}
            BY <1>i, <4>1, <4>2 DEF HandlerInv
        <5>4. h[c].pc # "publishResult"
            BY <4>1, <4>2 DEF Durable, Answering, HasResult
        <5> QED BY <2>3, <5>1, <5>2, <5>3, <5>4 DEF Pcs, Before
      <4> QED BY <4>1, <4>2 DEF Interrupted, NoRun, Before
    <3>2. \A r \in Requests : Interrupted(r)' <=> Interrupted(r)
        BY <3>1, InterruptedStep
    <3> QED BY <1>s, <2>1, <3>2, BarSame
  <2> QED BY <2>2, <2>3
<1>13. ASSUME NEW c \in Conns, HandlerRaises(c)
      PROVE  OnceStep \/ UNCHANGED Bar
    BY <1>12, <1>13 DEF HandlerRaises
<1>14. CASE Crash
    BY <1>12, <1>14 DEF Crash
<1>15. CASE Restart \/ UNCHANGED vars
  <2>1. UNCHANGED <<slots, h, runs, replies, ledger>>
      BY <1>15 DEF Restart, vars
  <2>2. \A r \in Requests : Interrupted(r)' <=> Interrupted(r)
      BY <1>s, <2>1 DEF Interrupted
  <2> QED BY <1>s, <2>1, <2>2, BarSame
<1> QED
    BY <1>1, <1>2, <1>3, <1>4, <1>5, <1>6, <1>7, <1>8, <1>9, <1>10, <1>11, <1>13, <1>14, <1>15
    DEF Next, Handle

\* An endpoint with several slots is mapped to a state that never changes.
LEMMA ConcurrentRefines ==
    ASSUME [Next]_vars, ~Serial
    PROVE  UNCHANGED Bar
<1>1. slots' = slots
    BY DEF Next, Handle, vars, Receive, Manage, Observe, CheckAcceptsWork, CheckPrior, Admit,
           AppendDispatch, PublishDispatch, StartExecution, FinishExecution, AppendResult,
           PublishResult, AppendOther, Respond, Reject, AppendFails, HandlerRaises, ProcessEnds,
           Crash, Restart
<1>2. ~Serial'
    BY <1>1 DEF Serial
<1> QED BY <1>2 DEF Bar, BegunBar, RecordedBar, LostBar, ToldBar

\* The worker implements ExecuteOnce: with one connection at a time, through any
\* duplicates, conflicting retries, failed appends, crashes and restarts, a
\* request begins once, ends recorded or lost, and only its recorded result is told.
THEOREM WorkerImplementsOnce == Spec => ImplementsOnce
<1>1. Init => Once!Init
  <2> SUFFICES ASSUME Init PROVE Once!Init
      OBVIOUS
  <2>1. BegunBar = <<>>
      BY DEF Init, BegunBar
  <2>2. RecordedBar = {} /\ LostBar = {} /\ ToldBar = {}
      BY DEF Init, RecordedBar, LostBar, ToldBar, Positions, Interrupted
  <2> QED BY <2>1, <2>2 DEF Once!Init, BegunBar, RecordedBar, LostBar, ToldBar
<1>2. TypeInv /\ SerialInv /\ Durable /\ Unresolved /\ [Next]_vars => [Once!Next]_(Once!vars)
    BY SerialRefines, ConcurrentRefines, OnceStepIs
<1>3. Init => TypeInv /\ SerialInv /\ Durable /\ Unresolved
    BY TypeInit, SerialInit, DurableInit, UnresolvedInit
<1>4. TypeInv /\ SerialInv /\ Durable /\ Unresolved /\ [Next]_vars
          => TypeInv' /\ SerialInv' /\ Durable' /\ Unresolved'
    BY TypeStep, SerialStep, DurableStep, UnresolvedStep
<1> QED BY <1>1, <1>2, <1>3, <1>4, PTL DEF Spec, ImplementsOnce, Once!Spec

-----------------------------------------------------------------------------
(***************************************************************************)
(* Controller and worker.                                                   *)
(***************************************************************************)
ThreadPcs == {"none", "start", "dispatch", "waiting", "terminal", "pop", "dead"}
ThreadSet(A) == [pc : ThreadPcs, work : Requests \cup {None}, attempt : A, outcome : D!Outcomes \cup {None}]
SubmissionSet(A) == [pc : {"idle", "project", "start"}, work : Requests \cup {None}, attempt : A]

\* Threads and submissions have their shape and their work; attempt numbers
\* play no part here.
ThreadTypes ==
    /\ \E A : th \in [Threads -> ThreadSet(A)]
    /\ \A t \in Threads : th[t].pc # "none" => th[t].work \in Requests

SubmissionTypes ==
    /\ \E A : sub \in [Clients -> SubmissionSet(A)]
    /\ \A c \in Clients : sub[c].pc # "idle" => sub[c].work \in Requests

ControllerTypes == (\E S : log \in Seq(S)) /\ ThreadTypes /\ SubmissionTypes

HasRun(w) == \E n \in DOMAIN runs : runs[n].req = w

\* The worker executed the work, and its ledger has the result.
Done(w) == HasRun(w) /\ \E j \in DOMAIN ledger : ledger[j].type = "result" /\ ledger[j].req = w

Executing == {"running", "result", "publishResult"}

\* A result in the ledger, or on its way there, is of an execution.
RanBefore ==
    /\ \A i \in DOMAIN ledger : ledger[i].type = "result" => HasRun(ledger[i].req)
    /\ \A c \in Conns : h[c].pc \in Executing => HasRun(h[c].req)

\* A connection carries the dispatch of the one thread that waits on it.
LinkOK ==
    /\ link \in [Threads -> Conns \cup {None, Broken}]
    /\ \A t \in Threads :
          link[t] \in Conns =>
             /\ th[t].pc = "waiting" /\ h[link[t]].pc # "idle" /\ h[link[t]].req = th[t].work
             /\ \A u \in Threads : link[u] = link[t] => u = t

\* A record a thread was given is of its work.
RecordsOK == \A t \in Threads : th[t].outcome = "record" => Done(th[t].work)

WorkerInv == TypeInv /\ Durable /\ SerialInv /\ RanBefore

\* The inductive invariant.
SystemInv == WorkerInv /\ ControllerTypes /\ LinkOK /\ RecordsOK /\ CompletedIsDurable

-----------------------------------------------------------------------------
(* The worker.                                                               *)

\* What the worker has begun or recorded stays.
WorkerKept ==
    /\ LedgerKept
    /\ \A n \in DOMAIN runs : n \in DOMAIN runs' /\ runs'[n] = runs[n]

LEMMA DoneKept == ASSUME WorkerKept PROVE \A w : (HasRun(w) => HasRun(w)') /\ (Done(w) => Done(w)')
<1>1. \A w : HasRun(w) => HasRun(w)'
    BY DEF WorkerKept, HasRun
<1> QED BY <1>1 DEF WorkerKept, LedgerKept, Done

\* A step that begins no execution and records only the result of one.
LEMMA RanBeforeKept ==
    ASSUME RanBefore, runs' = runs, LedgerKept,
           \A i \in DOMAIN ledger' :
               ledger'[i].type = "result" =>
                   i \in DOMAIN ledger \/ \E c \in Conns : h[c].pc = "result" /\ ledger'[i].req = h[c].req,
           \A c \in Conns : h'[c].pc \in Executing => h[c].pc \in Executing /\ h'[c].req = h[c].req
    PROVE  RanBefore' /\ WorkerKept
<1>1. WorkerKept
    BY DEF WorkerKept
<1>2. \A w : HasRun(w) => HasRun(w)'
    BY <1>1, DoneKept
<1>3. ASSUME NEW i \in DOMAIN ledger', ledger'[i].type = "result" PROVE HasRun(ledger[i].req)'
  <2>1. PICK w : ledger'[i].req = w
      OBVIOUS
  <2>2. HasRun(w)
    <3>1. CASE i \in DOMAIN ledger
        BY <1>3, <2>1, <3>1 DEF LedgerKept, RanBefore
    <3>2. CASE i \notin DOMAIN ledger
        BY <1>3, <2>1, <3>2 DEF RanBefore, Executing
    <3> QED BY <3>1, <3>2
  <2> QED BY <1>2, <2>1, <2>2 DEF HasRun
<1>4. ASSUME NEW c \in Conns, h'[c].pc \in Executing PROVE HasRun(h[c].req)'
  <2>1. PICK w : w = h[c].req
      OBVIOUS
  <2>2. HasRun(w) /\ h'[c].req = w
      BY <1>4, <2>1 DEF RanBefore
  <2> QED BY <1>2, <2>1, <2>2 DEF HasRun
<1> QED BY <1>1, <1>3, <1>4 DEF RanBefore

\* The handler of one connection moves and the ledger stays.
LEMMA RanBeforeMove ==
    ASSUME RanBefore, runs' = runs, ledger' = ledger, NEW c \in Conns,
           \A d \in Conns \ {c} : h'[d] = h[d],
           h'[c].pc \in Executing => h[c].pc \in Executing /\ h'[c].req = h[c].req
    PROVE  RanBefore' /\ WorkerKept
<1>1. \A d \in Conns : h'[d].pc \in Executing => h[d].pc \in Executing /\ h'[d].req = h[d].req
    OBVIOUS
<1> QED BY <1>1, SameKeeps, RanBeforeKept

\* ... or gets one entry.
LEMMA RanBeforeAppend ==
    ASSUME TypeInv, RanBefore, runs' = runs, NEW e \in EntrySet, ledger' = Append(ledger, e), NEW c \in Conns,
           \A d \in Conns \ {c} : h'[d] = h[d],
           h'[c].pc \in Executing => h[c].pc \in Executing /\ h'[c].req = h[c].req,
           e.type = "result" => h[c].pc = "result" /\ e.req = h[c].req
    PROVE  RanBefore' /\ WorkerKept
<1>1. \A d \in Conns : h'[d].pc \in Executing => h[d].pc \in Executing /\ h'[d].req = h[d].req
    OBVIOUS
<1>2. /\ LedgerKept
      /\ Len(ledger) \in Nat /\ DOMAIN ledger = 1..Len(ledger)
      /\ DOMAIN ledger' = 1..(Len(ledger) + 1)
      /\ ledger'[Len(ledger) + 1] = e
    BY AppendKeeps
<1>3. \A i \in DOMAIN ledger' : i \in DOMAIN ledger \/ ledger'[i] = e
    BY <1>2
<1> QED BY <1>1, <1>2, <1>3, RanBeforeKept

LEMMA RanBeforeEnds == ASSUME RanBefore, ProcessEnds PROVE RanBefore' /\ WorkerKept
<1>1. \A c \in Conns : h'[c].pc \notin Executing
    BY DEF ProcessEnds, Idle, Executing
<1> QED BY <1>1, SameKeeps, RanBeforeKept DEF ProcessEnds
\* Every step of the worker keeps what it began and recorded.
LEMMA RanStep == TypeInv /\ RanBefore /\ [Next]_vars => RanBefore' /\ WorkerKept
<1> SUFFICES ASSUME TypeInv, RanBefore, [Next]_vars PROVE RanBefore' /\ WorkerKept
    OBVIOUS
<1>0. h \in [Conns -> Handler]
    BY DEF TypeInv, TypeOK
<1>k. /\ {"UNKNOWN", "CONFLICTING_REPLAY", "DUPLICATE_IDEMPOTENT", "DUPLICATE_IN_PROGRESS", "EXECUTED", "OTHER"} \subseteq Kinds
      /\ {"prior", "admit", "intent", "publish", "execute", "running", "publishResult"} \subseteq Pcs
    BY DEF Kinds, Pcs
<1>n. 0 \in Nat
    OBVIOUS
<1>1. ASSUME NEW c \in Conns, NEW r \in Requests, NEW b \in Bindings, Receive(c, r, b)
      PROVE  RanBefore' /\ WorkerKept
  <2>1. h'[c].pc = "accepts" /\ \A d \in Conns \ {c} : h'[d] = h[d]
      BY <1>0, <1>1 DEF Receive, Idle
  <2> QED BY <1>1, <2>1, RanBeforeMove DEF Receive, Executing
<1>2. ASSUME NEW c \in Conns, NEW command \in Commands, Manage(c, command)
      PROVE  RanBefore' /\ WorkerKept
  <2>1. h'[c].pc = "manage" /\ \A d \in Conns \ {c} : h'[d] = h[d]
      BY <1>0, <1>2 DEF Manage, Idle
  <2> QED BY <1>2, <2>1, RanBeforeMove DEF Manage, Executing
<1>3. ASSUME NEW c \in Conns, Observe(c)
      PROVE  RanBefore' /\ WorkerKept
  <2>1. h'[c].pc = "manage" /\ \A d \in Conns \ {c} : h'[d] = h[d]
      BY <1>0, <1>3 DEF Observe, Idle
  <2> QED BY <1>3, <2>1, RanBeforeMove DEF Observe, Executing
<1>4. ASSUME NEW c \in Conns, CheckAcceptsWork(c) \/ Admit(c)
      PROVE  RanBefore' /\ WorkerKept
  <2>1. h'[c].pc \in {"prior", "intent", "reply"} /\ \A d \in Conns \ {c} : h'[d] = h[d]
    <3>1. CASE Step(c, "accepts", "prior") \/ Step(c, "admit", "intent")
        BY <1>0, <1>k, <3>1, StepFacts
    <3>2. CASE Return(c, "accepts", "UNKNOWN", 0) \/ Return(c, "admit", "UNKNOWN", 0)
        BY <1>0, <1>k, <1>n, <3>2, ReturnFacts
    <3> QED BY <1>4, <3>1, <3>2 DEF CheckAcceptsWork, Admit
  <2>2. runs' = runs /\ ledger' = ledger
      BY <1>4 DEF CheckAcceptsWork, Admit
  <2> QED BY <2>1, <2>2, RanBeforeMove DEF Executing
<1>5. ASSUME NEW c \in Conns, CheckPrior(c)
      PROVE  RanBefore' /\ WorkerKept
  <2>0. resultBy[h[c].req] \in Nat
      BY <1>5 DEF CheckPrior, TypeInv, TypeOK, HandlersOK, Carrying
  <2>1. h'[c].pc \in {"admit", "reply"} /\ \A d \in Conns \ {c} : h'[d] = h[d]
    <3>1. CASE Step(c, "prior", "admit")
        BY <1>0, <1>k, <3>1, StepFacts
    <3>2. ASSUME NEW kind \in Kinds, NEW k \in Nat, Return(c, "prior", kind, k)
          PROVE  h'[c].pc = "reply" /\ \A d \in Conns \ {c} : h'[d] = h[d]
        BY <1>0, <3>2, ReturnFacts
    <3> QED BY <1>5, <1>k, <1>n, <2>0, <3>1, <3>2 DEF CheckPrior
  <2>2. runs' = runs /\ ledger' = ledger
      BY <1>5 DEF CheckPrior
  <2> QED BY <2>1, <2>2, RanBeforeMove DEF Executing
<1>6. ASSUME NEW c \in Conns, AppendDispatch(c)
      PROVE  RanBefore' /\ WorkerKept
  <2>1. h'[c].pc = "publish" /\ \A d \in Conns \ {c} : h'[d] = h[d]
      BY <1>0, <1>6, <1>k, StepFacts DEF AppendDispatch
  <2>2. h[c] \in Handler
      BY <1>0
  <2> DEFINE e == Entry("dispatch", h[c].req, h[c].binding, 0)
  <2>3. e \in EntrySet /\ e.type = "dispatch"
      BY <2>2 DEF Entry, EntrySet, Handler
  <2>4. runs' = runs /\ ledger' = Append(ledger, e)
      BY <1>6 DEF AppendDispatch
  <2> HIDE DEF e
  <2> QED BY <2>1, <2>3, <2>4, RanBeforeAppend DEF Executing
<1>7. ASSUME NEW c \in Conns, PublishDispatch(c)
      PROVE  RanBefore' /\ WorkerKept
  <2>1. h'[c].pc = "execute" /\ \A d \in Conns \ {c} : h'[d] = h[d]
      BY <1>0, <1>7, <1>k, StepFacts DEF PublishDispatch
  <2> QED BY <1>7, <2>1, RanBeforeMove DEF PublishDispatch, Executing
<1>8. ASSUME NEW c \in Conns, StartExecution(c)
      PROVE  RanBefore' /\ WorkerKept
  <2>1. h'[c].req = h[c].req /\ h[c].pc = "execute" /\ \A d \in Conns \ {c} : h'[d] = h[d]
      BY <1>0, <1>8, <1>k, StepFacts DEF StartExecution
  <2> DEFINE R == [req : Requests, binding : Bindings, slot : Conns]
             x == [req |-> h[c].req, binding |-> h[c].binding, slot |-> c]
  <2>2. x \in R /\ runs \in Seq(R) /\ x.req = h[c].req
      BY <2>1 DEF TypeInv, TypeOK, HandlersOK, Carrying
  <2>3. runs' = Append(runs, x) /\ ledger' = ledger
      BY <1>8 DEF StartExecution
  <2> HIDE DEF R, x
  <2>4. /\ \A n \in DOMAIN runs : n \in DOMAIN runs' /\ runs'[n] = runs[n]
        /\ \E n \in DOMAIN runs' : runs'[n].req = h[c].req
    <3>1. /\ Len(runs) \in Nat /\ DOMAIN runs = 1..Len(runs)
          /\ DOMAIN runs' = 1..(Len(runs) + 1)
          /\ \A i \in 1..Len(runs) : runs'[i] = runs[i]
          /\ runs'[Len(runs) + 1] = x
        BY <2>2, <2>3, AppendFacts
    <3>2. 1..Len(runs) \subseteq 1..(Len(runs) + 1) /\ Len(runs) + 1 \in 1..(Len(runs) + 1)
        BY <3>1
    <3> QED BY <2>2, <3>1, <3>2
  <2>5. WorkerKept
      BY <2>3, <2>4, SameKeeps DEF WorkerKept
  <2>6. \A w : HasRun(w) => HasRun(w)'
      BY <2>5, DoneKept
  <2>7. ASSUME NEW d \in Conns, h'[d].pc \in Executing PROVE HasRun(h[d].req)'
    <3>1. CASE d = c
        BY <2>1, <2>4, <3>1 DEF HasRun
    <3>2. CASE d # c
      <4>1. PICK w : w = h[d].req
          OBVIOUS
      <4>2. HasRun(w) /\ h'[d].req = w
          BY <2>1, <2>7, <3>2, <4>1 DEF RanBefore
      <4> QED BY <2>6, <4>1, <4>2 DEF HasRun
    <3> QED BY <3>1, <3>2
  <2>8. ASSUME NEW i \in DOMAIN ledger', ledger'[i].type = "result" PROVE HasRun(ledger[i].req)'
    <3>1. PICK w : w = ledger[i].req
        OBVIOUS
    <3>2. HasRun(w) /\ ledger'[i].req = w
        BY <2>3, <2>8, <3>1 DEF RanBefore
    <3> QED BY <2>6, <3>1, <3>2 DEF HasRun
  <2> QED BY <2>5, <2>7, <2>8 DEF RanBefore
<1>9. ASSUME NEW c \in Conns, FinishExecution(c)
      PROVE  RanBefore' /\ WorkerKept
  <2>1. PICK n \in DOMAIN runs : h' = [h EXCEPT ![c].pc = "result", ![c].record = n]
      BY <1>9 DEF FinishExecution
  <2>2. h[c] \in Handler /\ h[c].pc = "running"
      BY <1>0, <1>9 DEF FinishExecution
  <2> DEFINE x == [h[c] EXCEPT !.pc = "result", !.record = n]
  <2>3. x.pc = "result" /\ x.req = h[c].req
      BY <2>2 DEF Handler
  <2>4. h' = [h EXCEPT ![c] = x]
      BY <2>1
  <2> HIDE DEF x
  <2>5. h'[c] = x /\ \A d \in Conns \ {c} : h'[d] = h[d]
      BY <1>0, <2>4
  <2> QED BY <1>9, <2>2, <2>3, <2>5, RanBeforeMove DEF FinishExecution, Executing
<1>10. ASSUME NEW c \in Conns, AppendResult(c)
      PROVE  RanBefore' /\ WorkerKept
  <2>1. h[c].pc = "result" /\ h'[c].req = h[c].req /\ \A d \in Conns \ {c} : h'[d] = h[d]
      BY <1>0, <1>10, <1>k, StepFacts DEF AppendResult
  <2>2. h[c] \in Handler
      BY <1>0
  <2> DEFINE e == Entry("result", h[c].req, h[c].binding, h[c].record)
  <2>3. e \in EntrySet /\ e.req = h[c].req
      BY <2>2 DEF Entry, EntrySet, Handler
  <2>4. runs' = runs /\ ledger' = Append(ledger, e)
      BY <1>10 DEF AppendResult
  <2> HIDE DEF e
  <2> QED BY <2>1, <2>3, <2>4, RanBeforeAppend DEF Executing
<1>11. ASSUME NEW c \in Conns, PublishResult(c)
      PROVE  RanBefore' /\ WorkerKept
  <2>0. h[c].record \in Nat
      BY <1>0 DEF Handler
  <2>1. h'[c].pc = "reply" /\ \A d \in Conns \ {c} : h'[d] = h[d]
      BY <1>0, <1>11, <1>k, <2>0, ReturnFacts DEF PublishResult
  <2> QED BY <1>11, <2>1, RanBeforeMove DEF PublishResult, Executing
<1>12. ASSUME NEW c \in Conns, AppendOther(c)
      PROVE  RanBefore' /\ WorkerKept
  <2>1. h'[c].pc = "reply" /\ \A d \in Conns \ {c} : h'[d] = h[d]
      BY <1>0, <1>12, <1>k, <1>n, ReturnFacts DEF AppendOther
  <2>2. Entry("other", None, None, 0) \in EntrySet /\ Entry("other", None, None, 0).type = "other"
      BY DEF Entry, EntrySet
  <2> QED BY <1>12, <2>1, <2>2, RanBeforeAppend DEF AppendOther, Executing
<1>13. ASSUME NEW c \in Conns, Respond(c) \/ Reject(c)
      PROVE  RanBefore' /\ WorkerKept
  <2>1. h' = [h EXCEPT ![c] = Idle] /\ runs' = runs /\ ledger' = ledger
      BY <1>13 DEF Respond, Reject
  <2> QED BY <2>1, IdleFacts, RanBeforeMove DEF Executing
<1>14. ASSUME NEW c \in Conns, AppendFails(c)
      PROVE  RanBefore' /\ WorkerKept
  <2>1. /\ h' = [h EXCEPT ![c] = Idle] /\ runs' = runs
        /\ h[c].pc \in {"intent", "result", "manage"}
        /\ ledger' = ledger \/ ledger' = Append(ledger, Pending(c))
      BY <1>14 DEF AppendFails
  <2>2. h[c] \in Handler
      BY <1>0
  <2>3. Pending(c) \in EntrySet /\ (Pending(c).type = "result" => h[c].pc = "result" /\ Pending(c).req = h[c].req)
    <3>1. CASE h[c].pc = "intent"
        BY <2>2, <3>1 DEF Pending, Entry, EntrySet, Handler
    <3>2. CASE h[c].pc = "result"
        BY <2>2, <3>2 DEF Pending, Entry, EntrySet, Handler
    <3>3. CASE h[c].pc = "manage"
        BY <3>3 DEF Pending, Entry, EntrySet
    <3> QED BY <2>1, <3>1, <3>2, <3>3
  <2>4. h'[c].pc = "idle" /\ \A d \in Conns \ {c} : h'[d] = h[d]
      BY <2>1, IdleFacts
  <2>5. CASE ledger' = ledger
      BY <2>1, <2>4, <2>5, RanBeforeMove DEF Executing
  <2>6. CASE ledger' = Append(ledger, Pending(c))
      BY <2>1, <2>3, <2>4, <2>6, RanBeforeAppend DEF Executing
  <2> QED BY <2>1, <2>5, <2>6
<1>15. ASSUME NEW c \in Conns, HandlerRaises(c)
      PROVE  RanBefore' /\ WorkerKept
  <2>1. CASE ProcessEnds
      BY <2>1, RanBeforeEnds
  <2>2. CASE ~ProcessEnds
    <3>1. h' = [h EXCEPT ![c] = Idle] /\ runs' = runs /\ ledger' = ledger
        BY <1>15, <2>2 DEF HandlerRaises
    <3> QED BY <3>1, IdleFacts, RanBeforeMove DEF Executing
  <2> QED BY <2>1, <2>2
<1>16. CASE Crash
    BY <1>16, RanBeforeEnds DEF Crash
<1>17. CASE Restart \/ UNCHANGED vars
  <2>1. h' = h /\ runs' = runs /\ ledger' = ledger
      BY <1>17 DEF Restart, vars
  <2> QED BY <2>1, SameKeeps, RanBeforeKept
<1> QED BY <1>1, <1>2, <1>3, <1>4, <1>5, <1>6, <1>7, <1>8, <1>9, <1>10, <1>11, <1>12, <1>13,
           <1>14, <1>15, <1>16, <1>17 DEF Next, Handle

\* So every step keeps the worker's part of the invariant.
LEMMA WorkerStepInv == WorkerInv /\ [Next]_vars => WorkerInv' /\ WorkerKept
BY TypeStep, DurableStep, SerialStep, RanStep DEF WorkerInv
\* A handler that goes on stays busy with its request.
LEMMA HandlerGoesOn ==
    ASSUME TypeInv, NEW c \in Conns, WorkerStep(c)
    PROVE  /\ h'[c].pc # "idle" /\ h'[c].req = h[c].req
           /\ \A d \in Conns \ {c} : h'[d] = h[d]
<1>0. h \in [Conns -> Handler] /\ h[c] \in Handler
    BY DEF TypeInv, TypeOK
<1> DEFINE Goal == /\ h'[c].pc # "idle" /\ h'[c].req = h[c].req
                   /\ \A d \in Conns \ {c} : h'[d] = h[d]
<1>1. ASSUME NEW from, NEW to \in Pcs \ {"idle"}, Step(c, from, to) PROVE Goal
    BY <1>0, <1>1, StepFacts
<1>2. ASSUME NEW from, NEW kind \in Kinds, NEW k \in Nat, Return(c, from, kind, k) PROVE Goal
    BY <1>0, <1>2, ReturnFacts
<1>3. /\ {"UNKNOWN", "CONFLICTING_REPLAY", "DUPLICATE_IDEMPOTENT", "DUPLICATE_IN_PROGRESS", "EXECUTED"} \subseteq Kinds
      /\ {"prior", "admit", "intent", "publish", "execute", "running", "publishResult"} \subseteq Pcs \ {"idle"}
      /\ 0 \in Nat /\ h[c].record \in Nat
    BY <1>0 DEF Kinds, Pcs, Handler
<1>4. CASE FinishExecution(c)
  <2>1. PICK n \in DOMAIN runs : h' = [h EXCEPT ![c].pc = "result", ![c].record = n]
      BY <1>4 DEF FinishExecution
  <2> DEFINE x == [h[c] EXCEPT !.pc = "result", !.record = n]
  <2>2. x.pc = "result" /\ x.req = h[c].req
      BY <1>0 DEF Handler
  <2>3. h' = [h EXCEPT ![c] = x]
      BY <2>1
  <2> HIDE DEF x
  <2> QED BY <1>0, <2>2, <2>3
<1>5. CASE CheckPrior(c)
  <2>1. resultBy[h[c].req] \in Nat
      BY <1>5 DEF CheckPrior, TypeInv, TypeOK, HandlersOK, Carrying
  <2> HIDE DEF Goal
  <2>2. Goal
      BY <1>1, <1>2, <1>3, <1>5, <2>1 DEF CheckPrior
  <2> QED BY <2>2 DEF Goal
<1> HIDE DEF Goal
<1>6. ASSUME CheckAcceptsWork(c) PROVE Goal
    BY <1>1, <1>2, <1>3, <1>6 DEF CheckAcceptsWork
<1>7. ASSUME Admit(c) PROVE Goal
    BY <1>1, <1>2, <1>3, <1>7 DEF Admit
<1>8. ASSUME AppendDispatch(c) \/ PublishDispatch(c) \/ StartExecution(c) \/ AppendResult(c) PROVE Goal
    BY <1>1, <1>3, <1>8 DEF AppendDispatch, PublishDispatch, StartExecution, AppendResult
<1>9. ASSUME PublishResult(c) PROVE Goal
    BY <1>2, <1>3, <1>9 DEF PublishResult
<1>10. Goal
    BY <1>4, <1>5, <1>6, <1>7, <1>8, <1>9 DEF WorkerStep, Goal
<1> QED BY <1>10 DEF Goal

\* A step of the worker that closes connections leaves the others alone.
LEMMA HandlersClose ==
    ASSUME TypeInv, NEW c \in Conns, Reject(c) \/ AppendFails(c) \/ HandlerRaises(c) \/ Crash
    PROVE  \A d \in Conns : h'[d] = h[d] \/ h'[d].pc = "idle"
<1>1. CASE ProcessEnds
    BY <1>1 DEF ProcessEnds, Idle
<1>2. CASE h' = [h EXCEPT ![c] = Idle]
    BY <1>2, IdleFacts
<1> QED BY <1>1, <1>2 DEF Reject, AppendFails, HandlerRaises, Crash

-----------------------------------------------------------------------------
(* The controller.                                                           *)

\* The log's promise, in the words of the invariant.
LEMMA CompletedAreDone ==
    CompletedIsDurable <=> \A i \in DOMAIN log : log[i].outcome = "record" => Done(log[i].work)
BY DEF CompletedIsDurable, Done, HasRun

LEMMA LogSame ==
    ASSUME CompletedIsDurable, WorkerKept, log' = log
    PROVE  CompletedIsDurable'
<1>1. ASSUME NEW i \in DOMAIN log', log'[i].outcome = "record" PROVE Done(log[i].work)'
  <2>1. PICK w : w = log[i].work
      OBVIOUS
  <2>2. Done(w) /\ log'[i].work = w
      BY <1>1, <2>1, CompletedAreDone
  <2>3. Done(w)'
      BY <2>2, DoneKept
  <2> QED BY <2>2, <2>3 DEF Done, HasRun
<1> QED BY <1>1 DEF CompletedIsDurable, Done, HasRun

\* An event with a record is appended only for work that is done.
LEMMA LogGrows ==
    ASSUME ControllerTypes, CompletedIsDurable, WorkerKept, NEW e, log' = Append(log, e),
           e.outcome = "record" => Done(e.work)
    PROVE  CompletedIsDurable' /\ \E S : log' \in Seq(S)
<1>1. PICK S : log \in Seq(S)
    BY DEF ControllerTypes
<1> DEFINE T == S \cup {e}
<1>2. log \in Seq(T) /\ e \in T
    BY <1>1
<1> HIDE DEF T
<1>3. /\ log' \in Seq(T)
      /\ Len(log) \in Nat /\ DOMAIN log = 1..Len(log)
      /\ DOMAIN log' = 1..(Len(log) + 1)
      /\ \A i \in 1..Len(log) : log'[i] = log[i]
      /\ log'[Len(log) + 1] = e
    BY <1>2, AppendFacts
<1>4. \A i \in DOMAIN log' : (i \in DOMAIN log /\ log'[i] = log[i]) \/ log'[i] = e
    BY <1>3
<1>5. ASSUME NEW i \in DOMAIN log', log'[i].outcome = "record" PROVE Done(log[i].work)'
  <2>1. PICK w : w = log'[i].work
      OBVIOUS
  <2>2. Done(w)
      BY <1>4, <1>5, <2>1, CompletedAreDone
  <2>3. Done(w)'
      BY <2>2, DoneKept
  <2> QED BY <2>1, <2>3 DEF Done, HasRun
<1>6. CompletedIsDurable'
    BY <1>5 DEF CompletedIsDurable, Done, HasRun
<1> QED BY <1>3, <1>6

LEMMA ThreadUpdate ==
    ASSUME ThreadTypes, NEW t \in Threads, NEW B, NEW x \in ThreadSet(B),
           x.pc # "none" => x.work \in Requests, th' = [th EXCEPT ![t] = x]
    PROVE  ThreadTypes' /\ th'[t] = x /\ \A u \in Threads \ {t} : th'[u] = th[u]
<1>1. PICK A : th \in [Threads -> ThreadSet(A)]
    BY DEF ThreadTypes
<1>2. th'[t] = x /\ \A u \in Threads \ {t} : th'[u] = th[u]
    BY <1>1
<1>3. ThreadSet(A) \subseteq ThreadSet(A \cup B) /\ x \in ThreadSet(A \cup B)
    BY DEF ThreadSet
<1>4. th' \in [Threads -> ThreadSet(A \cup B)]
    BY <1>1, <1>3
<1>5. \A u \in Threads : th'[u].pc # "none" => th'[u].work \in Requests
    BY <1>2 DEF ThreadTypes
<1>6. (\E E : th \in [Threads -> ThreadSet(E)])'
    BY <1>4 DEF ThreadSet
<1> QED BY <1>2, <1>5, <1>6 DEF ThreadTypes

LEMMA SubmissionUpdate ==
    ASSUME SubmissionTypes, NEW c \in Clients, NEW B, NEW x \in SubmissionSet(B),
           x.pc # "idle" => x.work \in Requests, sub' = [sub EXCEPT ![c] = x]
    PROVE  SubmissionTypes'
<1>1. PICK A : sub \in [Clients -> SubmissionSet(A)]
    BY DEF SubmissionTypes
<1>2. sub'[c] = x /\ \A u \in Clients \ {c} : sub'[u] = sub[u]
    BY <1>1
<1>3. SubmissionSet(A) \subseteq SubmissionSet(A \cup B) /\ x \in SubmissionSet(A \cup B)
    BY DEF SubmissionSet
<1>4. sub' \in [Clients -> SubmissionSet(A \cup B)]
    BY <1>1, <1>3
<1>5. \A u \in Clients : sub'[u].pc # "idle" => sub'[u].work \in Requests
    BY <1>2 DEF SubmissionTypes
<1>6. (\E E : sub \in [Clients -> SubmissionSet(E)])'
    BY <1>4 DEF SubmissionSet
<1> QED BY <1>5, <1>6 DEF SubmissionTypes
\* Links are cut, or kept with the thread waiting and the handler on its request.
LEMMA LinkKept ==
    ASSUME LinkOK, link' \in [Threads -> Conns \cup {None, Broken}],
           \A t \in Threads :
               link'[t] \in Conns =>
                   /\ link'[t] = link[t]
                   /\ th'[t].pc = "waiting" /\ th'[t].work = th[t].work
                   /\ h'[link[t]].pc # "idle" /\ h'[link[t]].req = h[link[t]].req
    PROVE  LinkOK'
<1>1. ASSUME NEW t \in Threads, link'[t] \in Conns
      PROVE  /\ th'[t].pc = "waiting" /\ h'[link'[t]].pc # "idle" /\ h'[link'[t]].req = th'[t].work
             /\ \A u \in Threads : link'[u] = link'[t] => u = t
    BY <1>1 DEF LinkOK
<1> QED BY <1>1 DEF LinkOK

LEMMA RecordsKept ==
    ASSUME RecordsOK, WorkerKept,
           \A t \in Threads : th'[t].outcome = "record" => th[t].outcome = "record" /\ th'[t].work = th[t].work
    PROVE  RecordsOK'
<1>1. ASSUME NEW t \in Threads, th'[t].outcome = "record" PROVE Done(th[t].work)'
  <2>1. PICK w : w = th[t].work
      OBVIOUS
  <2>2. Done(w) /\ th'[t].work = w
      BY <1>1, <2>1 DEF RecordsOK
  <2>3. Done(w)'
      BY <2>2, DoneKept
  <2> QED BY <2>2, <2>3 DEF Done, HasRun
<1> QED BY <1>1 DEF RecordsOK

\* The controller goes on, and no thread stops waiting or gets a record.
Quiet ==
    \A t \in Threads :
        /\ th[t].pc = "waiting" => th'[t].pc = "waiting" /\ th'[t].work = th[t].work
        /\ th'[t].outcome = "record" => th[t].outcome = "record" /\ th'[t].work = th[t].work

LEMMA QuietKeeps ==
    ASSUME SystemInv, UNCHANGED <<vars, link>>, Quiet, ControllerTypes', CompletedIsDurable'
    PROVE  SystemInv'
<1>1. WorkerInv' /\ WorkerKept
    BY WorkerStepInv DEF SystemInv
<1>2. LinkOK'
  <2>1. h' = h /\ link' = link
      BY DEF vars
  <2>2. link' \in [Threads -> Conns \cup {None, Broken}]
      BY <2>1 DEF SystemInv, LinkOK
  <2>3. \A t \in Threads :
            link'[t] \in Conns =>
                /\ link'[t] = link[t]
                /\ th'[t].pc = "waiting" /\ th'[t].work = th[t].work
                /\ h'[link[t]].pc # "idle" /\ h'[link[t]].req = h[link[t]].req
      BY <2>1 DEF SystemInv, LinkOK, Quiet
  <2> QED BY <2>2, <2>3, LinkKept DEF SystemInv
<1>3. RecordsOK'
    BY <1>1, RecordsKept DEF SystemInv, Quiet
<1> QED BY <1>1, <1>2, <1>3 DEF SystemInv

\* Nothing else of the controller changes than the threads, the submissions and
\* an event without a record.
LEMMA ControllerStep ==
    ASSUME SystemInv, UNCHANGED <<vars, link>>, Quiet, ThreadTypes', SubmissionTypes',
           log' = log \/ \E e : log' = Append(log, e) /\ (e.outcome = "record" => Done(e.work))
    PROVE  SystemInv'
<1>1. WorkerKept
    BY WorkerStepInv DEF SystemInv
<1>2. CompletedIsDurable' /\ \E S : log' \in Seq(S)
  <2>1. CASE log' = log
      BY <1>1, <2>1, LogSame DEF SystemInv, ControllerTypes
  <2>2. CASE \E e : log' = Append(log, e) /\ (e.outcome = "record" => Done(e.work))
      BY <1>1, <2>2, LogGrows DEF SystemInv
  <2> QED BY <2>1, <2>2
<1>3. ControllerTypes'
    BY <1>2 DEF ControllerTypes
<1> QED BY <1>2, <1>3, QuietKeeps

LEMMA ThreadTypesSame == ASSUME ThreadTypes, th' = th PROVE ThreadTypes' /\ Quiet
<1>1. (\E E : th \in [Threads -> ThreadSet(E)])'
    BY DEF ThreadTypes, ThreadSet
<1> QED BY <1>1 DEF ThreadTypes, Quiet

LEMMA SubmissionTypesSame == ASSUME SubmissionTypes, sub' = sub PROVE SubmissionTypes'
<1>1. (\E E : sub \in [Clients -> SubmissionSet(E)])'
    BY DEF SubmissionTypes, SubmissionSet
<1> QED BY <1>1 DEF SubmissionTypes

\* One thread that is not waiting moves on, and gets no record.
LEMMA QuietThread ==
    ASSUME ThreadTypes, NEW t \in Threads, th[t].pc # "waiting", NEW B, NEW x \in ThreadSet(B),
           x.pc # "none" => x.work \in Requests, th' = [th EXCEPT ![t] = x],
           x.outcome = "record" => th[t].outcome = "record" /\ x.work = th[t].work
    PROVE  ThreadTypes' /\ Quiet
<1>1. ThreadTypes' /\ th'[t] = x /\ \A u \in Threads \ {t} : th'[u] = th[u]
    BY ThreadUpdate
<1> QED BY <1>1 DEF Quiet

\* What is known of the fields of a thread and of a submission.
LEMMA ThreadFields ==
    ASSUME ThreadTypes, NEW t \in Threads
    PROVE  \E A : th \in [Threads -> ThreadSet(A)] /\ th[t] \in ThreadSet(A)
BY DEF ThreadTypes

LEMMA StartThreadQuiet ==
    ASSUME ThreadTypes, NEW w \in Requests, NEW attempt, D!StartThread(w, attempt)
    PROVE  ThreadTypes' /\ Quiet
<1>1. CASE th' = th
    BY <1>1, ThreadTypesSame
<1>2. CASE th' # th
  <2>1. PICK t \in Threads :
            /\ ~D!Alive(t)
            /\ th' = [th EXCEPT ![t] = [pc |-> "start", work |-> w, attempt |-> attempt, outcome |-> None]]
      BY <1>2 DEF D!StartThread
  <2> DEFINE x == [pc |-> "start", work |-> w, attempt |-> attempt, outcome |-> None]
             B == {attempt}
  <2>2. x \in ThreadSet(B) /\ x.work \in Requests
      BY DEF ThreadSet, ThreadPcs
  <2>3. x.outcome # "record"
      BY LinkAssumption DEF D!Outcomes
  <2>4. th[t].pc # "waiting"
      BY <2>1 DEF D!Alive
  <2>5. th' = [th EXCEPT ![t] = x]
      BY <2>1
  <2> HIDE DEF x, B
  <2> QED BY <2>2, <2>3, <2>4, <2>5, QuietThread
<1> QED BY <1>1, <1>2
-----------------------------------------------------------------------------
(* The controller's own steps.                                               *)

LEMMA SubmitInv ==
    ASSUME SystemInv, NEW c \in Clients, NEW w \in Requests, NEW v \in Variants, Submit(c, w, v)
    PROVE  SystemInv'
<1>0. ThreadTypes /\ SubmissionTypes
    BY DEF SystemInv, ControllerTypes
<1>1. UNCHANGED <<vars, link>> /\ th' = th
    BY DEF Submit, D!SubmitAppend
<1> DEFINE x == [pc |-> "project", work |-> w, attempt |-> 0]
           B == {0}
           e == D!Event(w, "QUEUED", 1, v, None)
<1>2. x \in SubmissionSet(B) /\ x.work \in Requests
    BY DEF SubmissionSet
<1>3. e.outcome # "record"
    BY LinkAssumption DEF D!Event, D!Outcomes
<1>4. /\ sub' = sub \/ sub' = [sub EXCEPT ![c] = x]
      /\ log' = log \/ log' = Append(log, e)
    BY DEF Submit, D!SubmitAppend, D!Record
<1> HIDE DEF x, e, B
<1>5. SubmissionTypes'
    BY <1>0, <1>2, <1>4, SubmissionTypesSame, SubmissionUpdate
<1>6. ThreadTypes' /\ Quiet
    BY <1>0, <1>1, ThreadTypesSame
<1> QED BY <1>1, <1>3, <1>4, <1>5, <1>6, ControllerStep

LEMMA SubmitFaultInv ==
    ASSUME SystemInv, NEW w \in Requests, NEW v \in Variants, SubmitFault(w, v)
    PROVE  SystemInv'
<1>0. ThreadTypes /\ SubmissionTypes
    BY DEF SystemInv, ControllerTypes
<1>1. UNCHANGED <<vars, link>> /\ th' = th /\ sub' = sub
    BY DEF SubmitFault, D!SubmitAppendFails
<1> DEFINE e == D!Event(w, "QUEUED", 1, v, None)
<1>2. e.outcome # "record"
    BY LinkAssumption DEF D!Event, D!Outcomes
<1>3. log' = Append(log, e)
    BY DEF SubmitFault, D!SubmitAppendFails, D!Record
<1> HIDE DEF e
<1>4. ThreadTypes' /\ Quiet /\ SubmissionTypes'
    BY <1>0, <1>1, ThreadTypesSame, SubmissionTypesSame
<1> QED BY <1>1, <1>2, <1>3, <1>4, ControllerStep

LEMMA SubmitStepInv ==
    ASSUME SystemInv, NEW c \in Clients, SubmitStep(c)
    PROVE  SystemInv'
<1>0. ThreadTypes /\ SubmissionTypes
    BY DEF SystemInv, ControllerTypes
<1>n. D!NoSubmission \in SubmissionSet({0}) /\ D!NoSubmission.pc = "idle"
    BY DEF D!NoSubmission, SubmissionSet
<1>1. CASE D!SubmitProject(c)
  <2>1. UNCHANGED <<vars, link>> /\ th' = th /\ log' = log /\ sub[c].pc = "project"
      BY <1>1 DEF SubmitStep, D!SubmitProject
  <2>2. PICK A : sub \in [Clients -> SubmissionSet(A)]
      BY <1>0 DEF SubmissionTypes
  <2>3. PICK a : sub' = [sub EXCEPT ![c] = [sub[c] EXCEPT !.pc = "start", !.attempt = a]]
                 \/ sub' = [sub EXCEPT ![c] = D!NoSubmission]
    <3> DEFINE s == D!Status(sub[c].work)
    <3>1. sub' = [sub EXCEPT ![c] = IF s.state \in {"QUEUED", "RETRYING"}
                                    THEN [sub[c] EXCEPT !.pc = "start", !.attempt = s.attempt]
                                    ELSE D!NoSubmission]
        BY <1>1, <2>2 DEF D!SubmitProject
    <3> HIDE DEF s
    <3> QED BY <3>1
  <2> DEFINE x == [sub[c] EXCEPT !.pc = "start", !.attempt = a]
             B == {a}
  <2>4. sub[c] \in SubmissionSet(A) /\ sub[c].work \in Requests
      BY <1>0, <2>1, <2>2 DEF SubmissionTypes
  <2>5. x \in SubmissionSet(B) /\ x.work \in Requests
      BY <2>4 DEF SubmissionSet
  <2>6. sub' = [sub EXCEPT ![c] = x] \/ sub' = [sub EXCEPT ![c] = D!NoSubmission]
      BY <2>3
  <2> HIDE DEF x, B
  <2>7. SubmissionTypes'
      BY <1>0, <1>n, <2>5, <2>6, SubmissionUpdate
  <2>8. ThreadTypes' /\ Quiet
      BY <1>0, <2>1, ThreadTypesSame
  <2> QED BY <2>1, <2>7, <2>8, ControllerStep
<1>2. CASE D!SubmitStart(c)
  <2>1. /\ UNCHANGED <<vars, link>> /\ log' = log /\ sub[c].pc = "start"
        /\ D!StartThread(sub[c].work, sub[c].attempt)
        /\ sub' = [sub EXCEPT ![c] = D!NoSubmission]
      BY <1>2 DEF SubmitStep, D!SubmitStart
  <2>2. sub[c].work \in Requests
      BY <1>0, <2>1 DEF SubmissionTypes
  <2>3. ThreadTypes' /\ Quiet
      BY <1>0, <2>1, <2>2, StartThreadQuiet
  <2>4. SubmissionTypes'
      BY <1>0, <1>n, <2>1, SubmissionUpdate
  <2> QED BY <2>1, <2>3, <2>4, ControllerStep
<1> QED BY <1>1, <1>2 DEF SubmitStep, D!SubmitStep

\* A thread that appends a terminal event with a record has it from a worker.
LEMMA ThreadEvents ==
    ASSUME SystemInv, NEW t \in Threads
    PROVE  /\ D!RunningEvent(t).outcome # "record"
           /\ D!TerminalEvent(t).outcome = "record" => Done(D!TerminalEvent(t).work)
<1>1. D!RunningEvent(t).outcome # "record"
    BY LinkAssumption DEF D!RunningEvent, D!Event, D!Outcomes
<1>2. D!TerminalEvent(t).outcome = th[t].outcome /\ D!TerminalEvent(t).work = th[t].work
    BY DEF D!TerminalEvent, D!Event
<1> QED BY <1>1, <1>2 DEF SystemInv, RecordsOK

\* A thread that is alive and not waiting, at its next point.
LEMMA ThreadMoves ==
    ASSUME ThreadTypes, NEW t \in Threads, th[t].pc \notin {"none", "waiting"}, NEW pc \in ThreadPcs,
           th' = [th EXCEPT ![t] = [th[t] EXCEPT !.pc = pc]]
    PROVE  ThreadTypes' /\ Quiet
<1>1. PICK A : th \in [Threads -> ThreadSet(A)]
    BY DEF ThreadTypes
<1>2. th[t] \in ThreadSet(A) /\ th[t].work \in Requests
    BY <1>1 DEF ThreadTypes
<1> DEFINE x == [th[t] EXCEPT !.pc = pc]
<1>3. x \in ThreadSet(A) /\ x.work = th[t].work /\ x.outcome = th[t].outcome
    BY <1>2 DEF ThreadSet
<1>4. th' = [th EXCEPT ![t] = x]
    OBVIOUS
<1> HIDE DEF x
<1> QED BY <1>2, <1>3, <1>4, QuietThread

LEMMA ThreadStepInv ==
    ASSUME SystemInv, NEW t \in Threads, ThreadStep(t) \/ ThreadFault(t)
    PROVE  SystemInv'
<1>0. ThreadTypes /\ SubmissionTypes
    BY DEF SystemInv, ControllerTypes
<1>u. UNCHANGED <<vars, link>>
    BY DEF ThreadStep, ThreadFault
<1>p. PICK A : th \in [Threads -> ThreadSet(A)]
    BY <1>0 DEF ThreadTypes
<1>q. {"dispatch", "dead", "pop", "waiting"} \subseteq ThreadPcs
    BY DEF ThreadPcs
<1>1. CASE D!ThreadRunning(t) \/ D!ThreadRunningFails(t)
  <2>1. /\ sub' = sub /\ th[t].pc = "start"
        /\ log' = log \/ log' = Append(log, D!RunningEvent(t))
        /\ \E pc \in {"dispatch", "dead"} : th' = [th EXCEPT ![t] = [th[t] EXCEPT !.pc = pc]]
      BY <1>1, <1>p DEF D!ThreadRunning, D!ThreadRunningFails, D!Record
  <2>2. ThreadTypes' /\ Quiet
      BY <1>0, <1>q, <2>1, ThreadMoves
  <2>3. SubmissionTypes'
      BY <1>0, <2>1, SubmissionTypesSame
  <2> QED BY <1>u, <2>1, <2>2, <2>3, ThreadEvents, ControllerStep
<1>2. CASE D!ThreadTerminal(t) \/ D!ThreadTerminalFails(t)
  <2>1. /\ sub' = sub /\ th[t].pc = "terminal"
        /\ log' = log \/ log' = Append(log, D!TerminalEvent(t))
        /\ th' = [th EXCEPT ![t] = [th[t] EXCEPT !.pc = "pop"]]
      BY <1>2, <1>p DEF D!ThreadTerminal, D!ThreadTerminalFails, D!Record
  <2>2. ThreadTypes' /\ Quiet
      BY <1>0, <1>q, <2>1, ThreadMoves
  <2>3. SubmissionTypes'
      BY <1>0, <2>1, SubmissionTypesSame
  <2> QED BY <1>u, <2>1, <2>2, <2>3, ThreadEvents, ControllerStep
<1>3. CASE D!ThreadDispatch(t)
  <2>1. /\ sub' = sub /\ log' = log /\ th[t].pc = "dispatch"
        /\ \/ th' = [th EXCEPT ![t] = [th[t] EXCEPT !.pc = "waiting"]]
           \/ th' = [th EXCEPT ![t] = [th[t] EXCEPT !.pc = "terminal", !.outcome = "unconfigured"]]
      BY <1>3, <1>p DEF D!ThreadDispatch
  <2>2. ThreadTypes' /\ Quiet
    <3>1. CASE th' = [th EXCEPT ![t] = [th[t] EXCEPT !.pc = "waiting"]]
        BY <1>0, <1>q, <2>1, <3>1, ThreadMoves
    <3>2. CASE th' = [th EXCEPT ![t] = [th[t] EXCEPT !.pc = "terminal", !.outcome = "unconfigured"]]
      <4> DEFINE x == [th[t] EXCEPT !.pc = "terminal", !.outcome = "unconfigured"]
      <4>1. th[t] \in ThreadSet(A) /\ th[t].work \in Requests
          BY <1>0, <1>p, <2>1 DEF ThreadTypes
      <4>2. x \in ThreadSet(A) /\ x.work = th[t].work /\ x.outcome # "record"
          BY <4>1 DEF ThreadSet, ThreadPcs, D!Outcomes
      <4>3. th' = [th EXCEPT ![t] = x]
          BY <3>2
      <4> HIDE DEF x
      <4> QED BY <1>0, <2>1, <4>1, <4>2, <4>3, QuietThread
    <3> QED BY <2>1, <3>1, <3>2
  <2>3. SubmissionTypes'
      BY <1>0, <2>1, SubmissionTypesSame
  <2> QED BY <1>u, <2>1, <2>2, <2>3, ControllerStep
<1>4. CASE D!ThreadPop(t)
  <2>1. /\ sub' = sub /\ log' = log /\ th[t].pc = "pop"
        /\ th' = [th EXCEPT ![t] = D!NoThread]
      BY <1>4 DEF D!ThreadPop
  <2>2. D!NoThread \in ThreadSet({0}) /\ D!NoThread.pc = "none" /\ D!NoThread.outcome # "record"
      BY LinkAssumption DEF D!NoThread, ThreadSet, ThreadPcs, D!Outcomes
  <2>3. ThreadTypes' /\ Quiet
      BY <1>0, <2>1, <2>2, QuietThread
  <2>4. SubmissionTypes'
      BY <1>0, <2>1, SubmissionTypesSame
  <2> QED BY <1>u, <2>1, <2>3, <2>4, ControllerStep
<1> QED BY <1>1, <1>2, <1>3, <1>4 DEF ThreadStep, ThreadFault, D!ThreadStep

LEMMA RunStepInv == ASSUME SystemInv, RunStep PROVE SystemInv'
<1>0. ThreadTypes /\ SubmissionTypes
    BY DEF SystemInv, ControllerTypes
<1>u. UNCHANGED <<vars, link>>
    BY DEF RunStep
<1>1. CASE D!Listen \/ D!RecoverSnapshot \/ D!Serve
  <2>1. th' = th /\ sub' = sub /\ log' = log
      BY <1>1 DEF D!Listen, D!RecoverSnapshot, D!Serve
  <2> QED BY <1>0, <1>u, <2>1, ThreadTypesSame, SubmissionTypesSame, ControllerStep
<1>2. ASSUME NEW w \in Requests, D!RecoverRetrying(w) PROVE SystemInv'
  <2> DEFINE e == D!Event(w, "RETRYING", todo[w].attempt, None, None)
  <2>1. th' = th /\ sub' = sub /\ log' = Append(log, e)
      BY <1>2 DEF D!RecoverRetrying, D!Record
  <2>2. e.outcome # "record"
      BY LinkAssumption DEF D!Event, D!Outcomes
  <2> HIDE DEF e
  <2>3. ThreadTypes' /\ Quiet /\ SubmissionTypes'
      BY <1>0, <2>1, ThreadTypesSame, SubmissionTypesSame
  <2> QED BY <1>u, <2>1, <2>2, <2>3, ControllerStep
<1>3. ASSUME NEW w \in Requests, D!RecoverStart(w) PROVE SystemInv'
  <2>1. D!StartThread(w, todo[w].attempt) /\ sub' = sub /\ log' = log
      BY <1>3 DEF D!RecoverStart
  <2>2. ThreadTypes' /\ Quiet
      BY <1>0, <2>1, StartThreadQuiet
  <2>3. SubmissionTypes'
      BY <1>0, <2>1, SubmissionTypesSame
  <2> QED BY <1>u, <2>1, <2>2, <2>3, ControllerStep
<1> QED BY <1>1, <1>2, <1>3 DEF RunStep, D!RunStep
LEMMA ControllerCrashInv == ASSUME SystemInv, ControllerCrash PROVE SystemInv'
<1>1. /\ UNCHANGED vars /\ link' = [t \in Threads |-> None] /\ log' = log
      /\ th' = [t \in Threads |-> D!NoThread] /\ sub' = [c \in Clients |-> D!NoSubmission]
    BY DEF ControllerCrash, D!Crash
<1>2. WorkerInv' /\ WorkerKept
    BY <1>1, WorkerStepInv DEF SystemInv
<1>3. ThreadTypes'
  <2>1. D!NoThread \in ThreadSet({0}) /\ D!NoThread.pc = "none"
      BY DEF D!NoThread, ThreadSet, ThreadPcs
  <2>2. (\E A : th \in [Threads -> ThreadSet(A)])'
      BY <1>1, <2>1 DEF ThreadSet
  <2> QED BY <1>1, <2>1, <2>2 DEF ThreadTypes
<1>4. SubmissionTypes'
  <2>1. D!NoSubmission \in SubmissionSet({0}) /\ D!NoSubmission.pc = "idle"
      BY DEF D!NoSubmission, SubmissionSet
  <2>2. (\E A : sub \in [Clients -> SubmissionSet(A)])'
      BY <1>1, <2>1 DEF SubmissionSet
  <2> QED BY <1>1, <2>1, <2>2 DEF SubmissionTypes
<1>5. ControllerTypes'
    BY <1>1, <1>3, <1>4 DEF SystemInv, ControllerTypes
<1>6. LinkOK'
    BY <1>1, LinkAssumption DEF LinkOK
<1>7. RecordsOK'
    BY <1>1, LinkAssumption DEF RecordsOK, D!NoThread, D!Outcomes
<1>8. CompletedIsDurable'
    BY <1>1, <1>2, LogSame DEF SystemInv
<1> QED BY <1>2, <1>5, <1>6, <1>7, <1>8 DEF SystemInv

-----------------------------------------------------------------------------
(* Dispatches.                                                               *)

\* The controller does not move.
LEMMA ControllerIdle ==
    ASSUME SystemInv, UNCHANGED dvars, [Next]_vars, LinkOK'
    PROVE  SystemInv'
<1>1. WorkerInv' /\ WorkerKept
    BY WorkerStepInv DEF SystemInv
<1>2. th' = th /\ sub' = sub /\ log' = log
    BY DEF dvars
<1>3. ControllerTypes'
    BY <1>2, ThreadTypesSame, SubmissionTypesSame DEF SystemInv, ControllerTypes
<1>4. RecordsOK'
    BY <1>1, <1>2, RecordsKept DEF SystemInv
<1>5. CompletedIsDurable'
    BY <1>1, <1>2, LogSame DEF SystemInv
<1> QED BY <1>1, <1>3, <1>4, <1>5 DEF SystemInv

LEMMA SendInv ==
    ASSUME SystemInv, NEW t \in Threads, NEW c \in Conns, NEW b \in Bindings, Send(t, c, b)
    PROVE  SystemInv'
<1>1. /\ th[t].pc = "waiting" /\ link[t] = None /\ UNCHANGED dvars
      /\ link' = [link EXCEPT ![t] = c] /\ h[c].pc = "idle"
      /\ Receive(c, th[t].work, b)
    BY DEF Send, Receive
<1>2. th[t].work \in Requests
    BY <1>1 DEF SystemInv, ControllerTypes, ThreadTypes
<1>3. Next
    BY <1>1, <1>2 DEF Next
<1>4. /\ h'[c].pc = "accepts" /\ h'[c].req = th[t].work
      /\ \A d \in Conns \ {c} : h'[d] = h[d]
    BY <1>1 DEF Receive, Idle, SystemInv, WorkerInv, TypeInv, TypeOK
<1>5. th' = th
    BY <1>1 DEF dvars
<1>6. link \in [Threads -> Conns \cup {None, Broken}] /\ \A u \in Threads : link[u] # c
    BY <1>1 DEF SystemInv, LinkOK
<1>7. /\ link' \in [Threads -> Conns \cup {None, Broken}] /\ link'[t] = c
      /\ \A u \in Threads \ {t} : link'[u] = link[u]
    BY <1>1, <1>6
<1>8. ASSUME NEW u \in Threads, link'[u] \in Conns
      PROVE  /\ th'[u].pc = "waiting" /\ h'[link'[u]].pc # "idle" /\ h'[link'[u]].req = th'[u].work
             /\ \A v \in Threads : link'[v] = link'[u] => v = u
  <2>1. CASE u = t
      BY <1>1, <1>4, <1>5, <1>6, <1>7, <2>1
  <2>2. CASE u # t
    <3>1. link'[u] = link[u] /\ link[u] # c
        BY <1>6, <1>7, <2>2
    <3>2. /\ th[u].pc = "waiting" /\ h[link[u]].pc # "idle" /\ h[link[u]].req = th[u].work
          /\ \A v \in Threads : link[v] = link[u] => v = u
        BY <1>8, <3>1 DEF SystemInv, LinkOK
    <3> QED BY <1>4, <1>5, <1>7, <1>8, <3>1, <3>2
  <2> QED BY <2>1, <2>2
<1>9. LinkOK'
    BY <1>7, <1>8 DEF LinkOK
<1> QED BY <1>1, <1>3, <1>9, ControllerIdle

\* A thread's dispatch returns: with a record only if the work is done.
LEMMA Returned ==
    ASSUME SystemInv, [Next]_vars, NEW t \in Threads, NEW o \in D!Outcomes, D!ThreadReturn(t, o),
           o = "record" => Done(th[t].work),
           link' = [link EXCEPT ![t] = None], \A d \in Conns : d = link[t] \/ h'[d] = h[d]
    PROVE  SystemInv'
<1>0. ThreadTypes /\ SubmissionTypes
    BY DEF SystemInv, ControllerTypes
<1>1. WorkerInv' /\ WorkerKept
    BY WorkerStepInv DEF SystemInv
<1>2. PICK A : th \in [Threads -> ThreadSet(A)]
    BY <1>0 DEF ThreadTypes
<1>3. /\ sub' = sub /\ log' = log /\ th[t].pc = "waiting"
      /\ th' = [th EXCEPT ![t] = [th[t] EXCEPT !.pc = "terminal", !.outcome = o]]
    BY <1>2 DEF D!ThreadReturn
<1> DEFINE x == [th[t] EXCEPT !.pc = "terminal", !.outcome = o]
<1>4. th[t] \in ThreadSet(A) /\ th[t].work \in Requests
    BY <1>0, <1>2, <1>3 DEF ThreadTypes
<1>5. x \in ThreadSet(A) /\ x.work = th[t].work /\ x.outcome = o
    BY <1>4 DEF ThreadSet, ThreadPcs
<1>6. th' = [th EXCEPT ![t] = x]
    BY <1>3
<1> HIDE DEF x
<1>7. ThreadTypes' /\ th'[t] = x /\ \A u \in Threads \ {t} : th'[u] = th[u]
    BY <1>0, <1>4, <1>5, <1>6, ThreadUpdate
<1>8. ControllerTypes'
    BY <1>3, <1>7, SubmissionTypesSame DEF SystemInv, ControllerTypes
<1>9. CompletedIsDurable'
    BY <1>1, <1>3, LogSame DEF SystemInv
<1>10. RecordsOK'
  <2>1. ASSUME NEW u \in Threads, th'[u].outcome = "record" PROVE Done(th[u].work)'
    <3>1. PICK w : w = th[u].work
        OBVIOUS
    <3>2. Done(w) /\ th'[u].work = w
        BY <1>5, <1>7, <2>1, <3>1 DEF SystemInv, RecordsOK
    <3>3. Done(w)'
        BY <1>1, <3>2, DoneKept
    <3> QED BY <3>2, <3>3 DEF Done, HasRun
  <2> QED BY <2>1 DEF RecordsOK
<1>11. LinkOK'
  <2>1. /\ link \in [Threads -> Conns \cup {None, Broken}]
        /\ link' \in [Threads -> Conns \cup {None, Broken}] /\ link'[t] = None
        /\ \A u \in Threads \ {t} : link'[u] = link[u]
      BY DEF SystemInv, LinkOK
  <2>2. ASSUME NEW u \in Threads, link'[u] \in Conns
        PROVE  /\ link'[u] = link[u]
               /\ th'[u].pc = "waiting" /\ th'[u].work = th[u].work
               /\ h'[link[u]].pc # "idle" /\ h'[link[u]].req = h[link[u]].req
    <3>1. u # t /\ link'[u] = link[u]
        BY <2>1, <2>2, LinkAssumption
    <3>2. th[u].pc = "waiting" /\ h[link[u]].pc # "idle" /\ link[u] # link[t]
        BY <2>2, <3>1 DEF SystemInv, LinkOK
    <3>3. h'[link[u]] = h[link[u]] /\ th'[u] = th[u]
        BY <1>7, <2>2, <3>1, <3>2
    <3> QED BY <3>1, <3>2, <3>3
  <2> QED BY <2>1, <2>2, LinkKept DEF SystemInv
<1> QED BY <1>1, <1>8, <1>9, <1>10, <1>11 DEF SystemInv

\* The response a thread gets is to its own dispatch, and a record in it is in
\* the worker's ledger.
LEMMA DeliverInv ==
    ASSUME SystemInv, NEW t \in Threads, NEW c \in Conns, Deliver(t, c)
    PROVE  SystemInv'
<1>1. /\ link[t] = c /\ Respond(c) /\ h[c].pc = "reply" /\ h' = [h EXCEPT ![c] = Idle]
      /\ link' = [link EXCEPT ![t] = None]
    BY DEF Deliver, Respond
<1>2. Next
    BY <1>1 DEF Next, Handle
<1>3. \A d \in Conns : d = link[t] \/ h'[d] = h[d]
    BY <1>1, IdleFacts DEF SystemInv, WorkerInv
<1>4. PICK w : w = th[t].work
    OBVIOUS
<1>5. h[c].req = w
    BY <1>1, <1>4 DEF SystemInv, LinkOK
<1>6. ASSUME h[c].kind \in ResultKinds PROVE Done(w)
  <2>1. HasResult(h[c].req, h[c].record)
      BY <1>1, <1>6 DEF SystemInv, WorkerInv, Durable, Answering
  <2>2. PICK i \in DOMAIN ledger : ledger[i].type = "result" /\ ledger[i].req = w
      BY <1>5, <2>1 DEF HasResult, Positions
  <2>3. HasRun(w)
      BY <2>2 DEF SystemInv, WorkerInv, RanBefore
  <2> QED BY <2>2, <2>3 DEF Done
<1> DEFINE o == IF h[c].kind \in ResultKinds THEN "record" ELSE "norecord"
<1>7. D!ThreadReturn(t, o)
    BY DEF Deliver
<1>8. o \in D!Outcomes /\ (o = "record" => Done(th[t].work))
    BY <1>4, <1>6 DEF D!Outcomes
<1> HIDE DEF o
<1> QED BY <1>1, <1>2, <1>3, <1>7, <1>8, Returned

LEMMA UnreachableInv ==
    ASSUME SystemInv, NEW t \in Threads, NEW outcome \in {"norecord", "raised"}, Unreachable(t, outcome)
    PROVE  SystemInv'
<1>1. outcome \in D!Outcomes /\ outcome # "record"
    BY DEF D!Outcomes
<1>2. D!ThreadReturn(t, outcome) /\ link' = [link EXCEPT ![t] = None] /\ UNCHANGED vars
    BY DEF Unreachable
<1>3. h' = h
    BY <1>2 DEF vars
<1> QED BY <1>1, <1>2, <1>3, Returned

-----------------------------------------------------------------------------
(* The worker's steps.                                                       *)

LEMMA WorkerGoesOnInv ==
    ASSUME SystemInv, NEW c \in Conns, WorkerStep(c)
    PROVE  SystemInv'
<1>1. Next /\ UNCHANGED dvars /\ link' = link
    BY DEF WorkerStep, Next, Handle
<1>2. /\ h'[c].pc # "idle" /\ h'[c].req = h[c].req
      /\ \A d \in Conns \ {c} : h'[d] = h[d]
    BY HandlerGoesOn DEF SystemInv, WorkerInv
<1>3. th' = th
    BY <1>1 DEF dvars
<1>4. link' \in [Threads -> Conns \cup {None, Broken}]
    BY <1>1 DEF SystemInv, LinkOK
<1>5. ASSUME NEW u \in Threads, link'[u] \in Conns
      PROVE  /\ link'[u] = link[u]
             /\ th'[u].pc = "waiting" /\ th'[u].work = th[u].work
             /\ h'[link[u]].pc # "idle" /\ h'[link[u]].req = h[link[u]].req
    BY <1>1, <1>2, <1>3, <1>5 DEF SystemInv, LinkOK
<1>6. LinkOK'
    BY <1>4, <1>5, LinkKept DEF SystemInv
<1> QED BY <1>1, <1>6, ControllerIdle

LEMMA UnheardInv ==
    ASSUME SystemInv, NEW c \in Conns, RespondUnheard(c)
    PROVE  SystemInv'
<1>1. Next /\ UNCHANGED dvars /\ link' = link /\ Unlinked(c) /\ h' = [h EXCEPT ![c] = Idle]
    BY DEF RespondUnheard, Respond, Next, Handle
<1>2. \A d \in Conns \ {c} : h'[d] = h[d]
    BY <1>1, IdleFacts DEF SystemInv, WorkerInv
<1>3. th' = th
    BY <1>1 DEF dvars
<1>4. link' \in [Threads -> Conns \cup {None, Broken}]
    BY <1>1 DEF SystemInv, LinkOK
<1>5. ASSUME NEW u \in Threads, link'[u] \in Conns
      PROVE  /\ link'[u] = link[u]
             /\ th'[u].pc = "waiting" /\ th'[u].work = th[u].work
             /\ h'[link[u]].pc # "idle" /\ h'[link[u]].req = h[link[u]].req
    BY <1>1, <1>2, <1>3, <1>5 DEF SystemInv, LinkOK, Unlinked
<1>6. LinkOK'
    BY <1>4, <1>5, LinkKept DEF SystemInv
<1> QED BY <1>1, <1>6, ControllerIdle

LEMMA ClosedInv ==
    ASSUME SystemInv, Next, UNCHANGED dvars, Closed,
           \A d \in Conns : h'[d] = h[d] \/ h'[d].pc = "idle"
    PROVE  SystemInv'
<1>1. th' = th
    BY DEF dvars
<1>2. link' \in [Threads -> Conns \cup {None, Broken}]
    BY DEF Closed, SystemInv, LinkOK
<1>3. ASSUME NEW u \in Threads, link'[u] \in Conns
      PROVE  /\ link'[u] = link[u]
             /\ th'[u].pc = "waiting" /\ th'[u].work = th[u].work
             /\ h'[link[u]].pc # "idle" /\ h'[link[u]].req = h[link[u]].req
  <2>1. link'[u] = link[u] /\ h'[link[u]].pc # "idle"
      BY <1>3, LinkAssumption DEF Closed
  <2> QED BY <1>1, <1>3, <2>1 DEF SystemInv, LinkOK
<1>4. LinkOK'
    BY <1>2, <1>3, LinkKept DEF SystemInv
<1> QED BY <1>4, ControllerIdle

LEMMA WorkerRaisesInv ==
    ASSUME SystemInv, NEW c \in Conns, WorkerRaises(c)
    PROVE  SystemInv'
<1>1. Next /\ UNCHANGED dvars /\ Closed /\ (Reject(c) \/ AppendFails(c) \/ HandlerRaises(c))
    BY DEF WorkerRaises, Next
<1>2. \A d \in Conns : h'[d] = h[d] \/ h'[d].pc = "idle"
    BY <1>1, HandlersClose DEF SystemInv, WorkerInv
<1> QED BY <1>1, <1>2, ClosedInv

LEMMA WorkerCrashInv == ASSUME SystemInv, WorkerCrash PROVE SystemInv'
<1>1. Next /\ UNCHANGED dvars /\ Closed /\ ProcessEnds
    BY DEF WorkerCrash, Crash, Next
<1>2. \A d \in Conns : h'[d].pc = "idle"
    BY <1>1 DEF ProcessEnds, Idle
<1> QED BY <1>1, <1>2, ClosedInv

LEMMA RestartInv == ASSUME SystemInv, WorkerRestart \/ UNCHANGED evars PROVE SystemInv'
<1>1. [Next]_vars /\ UNCHANGED dvars /\ link' = link /\ h' = h
    BY DEF WorkerRestart, Restart, Next, evars, vars
<1>2. th' = th
    BY <1>1 DEF dvars
<1>3. LinkOK'
    BY <1>1, <1>2 DEF SystemInv, LinkOK
<1> QED BY <1>1, <1>3, ControllerIdle

-----------------------------------------------------------------------------
LEMMA SystemInitInv == SystemInit => SystemInv
<1> SUFFICES ASSUME SystemInit PROVE SystemInv
    OBVIOUS
<1>1. Init /\ D!Init /\ link = [t \in Threads |-> None]
    BY DEF SystemInit
<1>2. RanBefore
    BY <1>1 DEF Init, RanBefore, Executing, Idle
<1>3. WorkerInv
    BY <1>1, <1>2, TypeInit, DurableInit, SerialInit DEF WorkerInv
<1>4. log \in Seq({}) /\ CompletedIsDurable
    BY <1>1 DEF D!Init, CompletedIsDurable
<1>5. ThreadTypes /\ RecordsOK
  <2>1. D!NoThread \in ThreadSet({0}) /\ D!NoThread.pc = "none" /\ D!NoThread.outcome # "record"
      BY LinkAssumption DEF D!NoThread, ThreadSet, ThreadPcs, D!Outcomes
  <2>2. th = [t \in Threads |-> D!NoThread]
      BY <1>1 DEF D!Init
  <2> QED BY <2>1, <2>2 DEF ThreadTypes, RecordsOK
<1>6. SubmissionTypes
  <2>1. D!NoSubmission \in SubmissionSet({0}) /\ D!NoSubmission.pc = "idle"
      BY DEF D!NoSubmission, SubmissionSet
  <2>2. sub = [c \in Clients |-> D!NoSubmission]
      BY <1>1 DEF D!Init
  <2> QED BY <2>1, <2>2 DEF SubmissionTypes
<1>7. LinkOK
    BY <1>1, LinkAssumption DEF LinkOK
<1> QED BY <1>3, <1>4, <1>5, <1>6, <1>7 DEF SystemInv, ControllerTypes

LEMMA SystemStep == SystemInv /\ [SystemNext]_evars => SystemInv'
BY SubmitInv, SubmitFaultInv, SubmitStepInv, ThreadStepInv, RunStepInv, ControllerCrashInv,
   SendInv, DeliverInv, UnreachableInv, WorkerGoesOnInv, UnheardInv, WorkerRaisesInv,
   WorkerCrashInv, RestartInv DEF SystemNext

LEMMA SystemInvAlways == SystemSpec => []SystemInv
BY SystemInitInv, SystemStep, PTL DEF SystemSpec

\* Work the controller holds as COMPLETED with a record was executed and its
\* result is in the worker's ledger, for any number of connection slots, work
\* items and threads (worker.py:354-357, controller_service.py:690-727).
THEOREM CompletedWorkDurable == SystemSpec => []CompletedIsDurable
<1>1. SystemInv => CompletedIsDurable
    BY DEF SystemInv
<1> QED BY <1>1, SystemInvAlways, PTL
=============================================================================
