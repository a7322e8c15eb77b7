---------------------------- MODULE ExecuteOnce -----------------------------
(***************************************************************************)
(* What a worker promises a controller about dispatches: a request begins  *)
(* at most once, with one binding; its result is recorded or it is lost    *)
(* for good; and what is told of it is the recorded result, to those who   *)
(* asked with that binding.  A controller may read a silent or unresolved  *)
(* request as "not yet", never as "not run".                               *)
(***************************************************************************)
EXTENDS Naturals, Sequences

CONSTANTS Requests, Bindings

VARIABLES
    begun,      \* the executions begun, in order: [req, binding]
    recorded,   \* requests with a durable result
    lost,       \* requests whose execution will never have one
    told        \* [req, binding] that were answered with a result

vars == <<begun, recorded, lost, told>>

Begun == {begun[i].req : i \in DOMAIN begun}

Init == begun = <<>> /\ recorded = {} /\ lost = {} /\ told = {}

Begin(r, b) ==
    /\ r \notin Begun
    /\ begun' = Append(begun, [req |-> r, binding |-> b])
    /\ UNCHANGED <<recorded, lost, told>>

Record(r) ==
    /\ r \in Begun \ (recorded \cup lost)
    /\ recorded' = recorded \cup {r}
    /\ UNCHANGED <<begun, lost, told>>

Lose(r) ==
    /\ r \in Begun \ (recorded \cup lost)
    /\ lost' = lost \cup {r}
    /\ UNCHANGED <<begun, recorded, told>>

Tell(i) ==
    /\ begun[i].req \in recorded
    /\ told' = told \cup {begun[i]}
    /\ UNCHANGED <<begun, recorded, lost>>

Next ==
    \/ \E r \in Requests : (\E b \in Bindings : Begin(r, b)) \/ Record(r) \/ Lose(r)
    \/ \E i \in DOMAIN begun : Tell(i)

Spec == Init /\ [][Next]_vars
=============================================================================
