-------------------------- MODULE Rendezvous_proofs --------------------------
(***************************************************************************)
(* Theorems of Rendezvous, for any workers, requests, dispatchers and       *)
(* bounds, and, below, of the client of remote workers (Fleet, here G).     *)
(***************************************************************************)
EXTENDS Rendezvous, LedgerFacts, FiniteSetTheorems, SequenceTheorems

EventSet == [event : {"connected", "revoked", "disconnected"}, worker : Workers, gen : Nat]
SessionSet == [worker : Workers, gen : Nat, closed : BOOLEAN, listed : BOOLEAN,
               pend : Requests \cup {None}, resp : Requests \cup {None},
               srv : {"recv", "check", "act", "raised", "delisted", "ended"},
               allowed : BOOLEAN, cl : {"ready", "beat", "got", "answer", "gone"},
               cmd : Requests \cup {None}, late : BOOLEAN]
DispatchSet == [pc : {"idle", "submit", "wait"}, s : Nat, req : Requests \cup {None}]

\* A dispatch holds a session; while it waits, its command is the session's
\* pending one, so no two dispatches wait in one session.
WaitersOK ==
    /\ \A k \in Dispatchers :
          /\ disp[k].pc # "idle" => disp[k].s \in Sessions /\ disp[k].req \in Requests
          /\ disp[k].pc = "wait" => sess[disp[k].s].pend = disp[k].req
    /\ \A k, l \in Dispatchers :
          disp[k].pc = "wait" /\ disp[l].pc = "wait" /\ disp[k].s = disp[l].s => k = l

\* A session holds no response but the one to its pending command.
ResponsesOK == \A s \in Sessions : sess[s].resp \in {None, sess[s].pend}

\* The inductive invariant.
Inv ==
    /\ TypeOK /\ SessionsInOrder /\ NoGhost
    /\ CommandHasOwner /\ WaitersOK /\ ResponsesOK

-----------------------------------------------------------------------------
LEMMA TypeParts ==
    TypeOK <=>
    /\ events \in Seq(EventSet) /\ sess \in Seq(SessionSet)
    /\ member \in [Workers -> BOOLEAN] /\ revoker \in Workers \cup {None}
    /\ disp \in [Dispatchers -> DispatchSet]
    /\ crashes \in 0..MaxCrashes /\ revokes \in 0..MaxRevokes /\ faults \in 0..MaxFaults
BY DEF TypeOK, EventSet, SessionSet, DispatchSet

LEMMA TypeNext ==
    ASSUME events' \in Seq(EventSet), sess' \in Seq(SessionSet),
           member' \in [Workers -> BOOLEAN], revoker' \in Workers \cup {None},
           disp' \in [Dispatchers -> DispatchSet],
           crashes' \in 0..MaxCrashes, revokes' \in 0..MaxRevokes, faults' \in 0..MaxFaults
    PROVE  TypeOK'
BY DEF TypeOK, EventSet, SessionSet, DispatchSet

LEMMA InitInv == Init => Inv
<1> SUFFICES ASSUME Init PROVE Inv
    OBVIOUS
<1>1. NoDispatch \in DispatchSet /\ NoDispatch.pc = "idle"
    BY DEF NoDispatch, DispatchSet
<1>2. TypeOK
    BY <1>1, RendezvousBounds, TypeParts DEF Init
<1>3. Sessions = {} /\ DOMAIN events = {}
    BY DEF Init, Sessions
<1>4. WaitersOK
    BY <1>1 DEF Init, WaitersOK
<1>5. SessionsInOrder /\ NoGhost /\ CommandHasOwner /\ ResponsesOK
    BY <1>3 DEF SessionsInOrder, OneActiveSession, GenerationsIncrease, NoGhost,
                CommandHasOwner, ResponsesOK
<1> QED BY <1>2, <1>4, <1>5 DEF Inv

-----------------------------------------------------------------------------
(* The ledger.                                                               *)

LEMMA GenerationsSame == ASSUME GenerationsIncrease, events' = events PROVE GenerationsIncrease'
BY DEF GenerationsIncrease

\* Only a "connected" event has to be above the worker's earlier generations.
LEMMA GenerationsAppend ==
    ASSUME TypeOK, GenerationsIncrease, NEW e \in EventSet, events' = Append(events, e),
           e.event = "connected" =>
               \A i \in DOMAIN events : events[i].worker = e.worker => events[i].gen < e.gen
    PROVE  events' \in Seq(EventSet) /\ GenerationsIncrease'
<1>1. events \in Seq(EventSet)
    BY TypeParts
<1>2. /\ events' \in Seq(EventSet)
      /\ Len(events) \in Nat /\ DOMAIN events = 1..Len(events)
      /\ DOMAIN events' = 1..(Len(events) + 1)
      /\ \A i \in 1..Len(events) : events'[i] = events[i]
      /\ events'[Len(events) + 1] = e
    BY <1>1, AppendFacts
<1>3. ASSUME NEW i \in DOMAIN events', NEW j \in DOMAIN events', i < j,
             events'[i].event = "connected", events'[j].event = "connected",
             events'[i].worker = events'[j].worker
      PROVE  events'[i].gen < events'[j].gen
  <2>1. i \in DOMAIN events /\ events'[i] = events[i]
      BY <1>2, <1>3
  <2>2. CASE j \in DOMAIN events
      BY <1>2, <1>3, <2>1, <2>2 DEF GenerationsIncrease
  <2>3. CASE j = Len(events) + 1
      BY <1>2, <1>3, <2>1, <2>3
  <2> QED BY <1>2, <2>2, <2>3
<1> QED BY <1>2, <1>3 DEF GenerationsIncrease

LEMMA SessionType == ASSUME TypeOK, NEW s \in Sessions PROVE sess[s] \in SessionSet
BY TypeParts DEF Sessions

\* The record of what became of a session.
LEMMA RecordedType ==
    ASSUME TypeOK, NEW s \in Sessions, NEW kind \in {"revoked", "disconnected"}
    PROVE  Recorded(kind, s) \in EventSet /\ Recorded(kind, s).event = kind
<1>1. sess[s].worker \in Workers /\ sess[s].gen \in Nat
  <2>1. sess[s] \in SessionSet
      BY SessionType
  <2> QED BY <2>1 DEF SessionSet
<1> QED BY <1>1 DEF Recorded, EventSet

-----------------------------------------------------------------------------
(* One session changes.                                                      *)

\* A step of a session's listener, of its worker's client, or of a revocation:
\* the session keeps its worker, its generation and its pending command, is not
\* reopened, and takes no response but the one it waits for.
LEMMA SessionMoves ==
    ASSUME Inv, NEW s \in Sessions, NEW x \in SessionSet, sess' = [sess EXCEPT ![s] = x],
           x.worker = sess[s].worker, x.gen = sess[s].gen, x.pend = sess[s].pend,
           x.resp \in {None, x.pend},
           x.listed /\ ~x.closed => sess[s].listed /\ ~sess[s].closed,
           x.srv = "ended" => x.closed \/ sess[s].srv = "ended",
           \/ events' = events
           \/ \E kind \in {"revoked", "disconnected"} : events' = Append(events, Recorded(kind, s)),
           UNCHANGED <<member, revoker, disp, crashes, revokes, faults>>
    PROVE  Inv'
<1> USE DEF Inv
<1>1. sess \in Seq(SessionSet) /\ s \in DOMAIN sess
    BY TypeParts DEF Sessions
<1>2. /\ sess' \in Seq(SessionSet) /\ DOMAIN sess' = DOMAIN sess
      /\ sess'[s] = x /\ \A t \in DOMAIN sess \ {s} : sess'[t] = sess[t]
    BY <1>1, ExceptFacts
<1>3. events' \in Seq(EventSet) /\ GenerationsIncrease'
  <2>1. CASE events' = events
      BY <2>1, GenerationsSame, TypeParts DEF SessionsInOrder
  <2>2. ASSUME NEW kind \in {"revoked", "disconnected"}, events' = Append(events, Recorded(kind, s))
        PROVE  events' \in Seq(EventSet) /\ GenerationsIncrease'
      BY <2>2, RecordedType, GenerationsAppend DEF SessionsInOrder
  <2> QED BY <2>1, <2>2
<1>4. Sessions' = Sessions
    BY <1>2 DEF Sessions
<1>5. \A t \in Sessions : Active(t)' => Active(t)
    BY <1>2 DEF Active, Sessions
<1>6. \A t \in Sessions : sess'[t].worker = sess[t].worker /\ sess'[t].pend = sess[t].pend
    BY <1>2 DEF Sessions
<1>7. TypeOK'
    BY <1>2, <1>3, TypeParts, TypeNext
<1>8. SessionsInOrder'
    BY <1>3, <1>4, <1>5, <1>6 DEF SessionsInOrder, OneActiveSession
<1>9. NoGhost'
  <2>1. ASSUME NEW t \in Sessions, Active(t)', faults = 0 PROVE sess'[t].srv # "ended"
    <3>1. CASE t = s
        BY <1>2, <1>5, <2>1, <3>1 DEF NoGhost, Active
    <3>2. CASE t # s
        BY <1>2, <1>5, <2>1, <3>2 DEF NoGhost, Sessions
    <3> QED BY <3>1, <3>2
  <2> QED BY <1>4, <2>1 DEF NoGhost
<1>10. CommandHasOwner' /\ WaitersOK'
    BY <1>4, <1>6 DEF CommandHasOwner, WaitersOK
<1>11. ResponsesOK'
    BY <1>2, <1>4 DEF ResponsesOK, Sessions
<1> QED BY <1>7, <1>8, <1>9, <1>10, <1>11
LEMMA BeatInv == ASSUME Inv, NEW s \in Sessions, Beat(s) PROVE Inv'
<1> DEFINE x == [sess[s] EXCEPT !.cl = "beat"]
<1>0. sess \in Seq(SessionSet) /\ sess[s] \in SessionSet /\ sess[s].resp \in {None, sess[s].pend}
    BY SessionType, TypeParts DEF Inv, ResponsesOK
<1>1. /\ sess' = [sess EXCEPT ![s] = x] /\ events' = events
      /\ UNCHANGED <<member, revoker, disp, crashes, revokes, faults>>
    BY <1>0 DEF Beat
<1>2. /\ x \in SessionSet /\ x.worker = sess[s].worker /\ x.gen = sess[s].gen
      /\ x.pend = sess[s].pend /\ x.resp \in {None, x.pend}
      /\ x.listed /\ ~x.closed => sess[s].listed /\ ~sess[s].closed
      /\ x.srv = "ended" => x.closed \/ sess[s].srv = "ended"
    BY <1>0, ZenonT(60) DEF SessionSet
<1> HIDE DEF x
<1> QED BY <1>1, <1>2, SessionMoves

LEMMA HandleCommandInv == ASSUME Inv, NEW s \in Sessions, HandleCommand(s) PROVE Inv'
<1> DEFINE x == [sess[s] EXCEPT !.cl = "answer"]
<1>0. sess \in Seq(SessionSet) /\ sess[s] \in SessionSet /\ sess[s].resp \in {None, sess[s].pend}
    BY SessionType, TypeParts DEF Inv, ResponsesOK
<1>1. /\ sess' = [sess EXCEPT ![s] = x] /\ events' = events
      /\ UNCHANGED <<member, revoker, disp, crashes, revokes, faults>>
    BY <1>0 DEF HandleCommand
<1>2. /\ x \in SessionSet /\ x.worker = sess[s].worker /\ x.gen = sess[s].gen
      /\ x.pend = sess[s].pend /\ x.resp \in {None, x.pend}
      /\ x.listed /\ ~x.closed => sess[s].listed /\ ~sess[s].closed
      /\ x.srv = "ended" => x.closed \/ sess[s].srv = "ended"
    BY <1>0, ZenonT(60) DEF SessionSet
<1> HIDE DEF x
<1> QED BY <1>1, <1>2, SessionMoves

LEMMA ClientEndsInv == ASSUME Inv, NEW s \in Sessions, ClientEnds(s) PROVE Inv'
<1> DEFINE x == Gone(sess[s])
<1>0. sess \in Seq(SessionSet) /\ sess[s] \in SessionSet /\ sess[s].resp \in {None, sess[s].pend}
    BY SessionType, TypeParts DEF Inv, ResponsesOK
<1>1. /\ sess' = [sess EXCEPT ![s] = x] /\ events' = events
      /\ UNCHANGED <<member, revoker, disp, crashes, revokes, faults>>
    BY <1>0 DEF ClientEnds
<1>2. /\ x \in SessionSet /\ x.worker = sess[s].worker /\ x.gen = sess[s].gen
      /\ x.pend = sess[s].pend /\ x.resp \in {None, x.pend}
      /\ x.listed /\ ~x.closed => sess[s].listed /\ ~sess[s].closed
      /\ x.srv = "ended" => x.closed \/ sess[s].srv = "ended"
    BY <1>0, ZenonT(60) DEF SessionSet, Gone
<1> HIDE DEF x
<1> QED BY <1>1, <1>2, SessionMoves

LEMMA LookupInv == ASSUME Inv, NEW s \in Sessions, Lookup(s) PROVE Inv'
<1> DEFINE x == [sess[s] EXCEPT !.srv = "check", !.allowed = member[sess[s].worker]]
<1>0. sess \in Seq(SessionSet) /\ sess[s] \in SessionSet /\ sess[s].resp \in {None, sess[s].pend}
    BY SessionType, TypeParts DEF Inv, ResponsesOK
<1>m. member[sess[s].worker] \in BOOLEAN
  <2>1. sess[s].worker \in Workers
      BY <1>0 DEF SessionSet
  <2> QED BY <2>1, TypeParts DEF Inv
<1>1. /\ sess' = [sess EXCEPT ![s] = x] /\ events' = events
      /\ UNCHANGED <<member, revoker, disp, crashes, revokes, faults>>
    BY <1>0 DEF Lookup
<1>2. /\ x \in SessionSet /\ x.worker = sess[s].worker /\ x.gen = sess[s].gen
      /\ x.pend = sess[s].pend /\ x.resp \in {None, x.pend}
      /\ x.listed /\ ~x.closed => sess[s].listed /\ ~sess[s].closed
      /\ x.srv = "ended" => x.closed \/ sess[s].srv = "ended"
    BY <1>0, <1>m DEF SessionSet
<1> HIDE DEF x
<1> QED BY <1>1, <1>2, SessionMoves

LEMMA ReceiveFailsInv == ASSUME Inv, NEW s \in Sessions, ReceiveFails(s) PROVE Inv'
<1> DEFINE x == [sess[s] EXCEPT !.srv = "raised"]
<1>0. sess \in Seq(SessionSet) /\ sess[s] \in SessionSet /\ sess[s].resp \in {None, sess[s].pend}
    BY SessionType, TypeParts DEF Inv, ResponsesOK
<1>1. /\ sess' = [sess EXCEPT ![s] = x] /\ events' = events
      /\ UNCHANGED <<member, revoker, disp, crashes, revokes, faults>>
    BY <1>0 DEF ReceiveFails
<1>2. /\ x \in SessionSet /\ x.worker = sess[s].worker /\ x.gen = sess[s].gen
      /\ x.pend = sess[s].pend /\ x.resp \in {None, x.pend}
      /\ x.listed /\ ~x.closed => sess[s].listed /\ ~sess[s].closed
      /\ x.srv = "ended" => x.closed \/ sess[s].srv = "ended"
    BY <1>0 DEF SessionSet
<1> HIDE DEF x
<1> QED BY <1>1, <1>2, SessionMoves

LEMMA ReadStatesInv == ASSUME Inv, NEW s \in Sessions, ReadStates(s) PROVE Inv'
<1> DEFINE x == [sess[s] EXCEPT !.closed = TRUE]
<1>0. sess \in Seq(SessionSet) /\ sess[s] \in SessionSet /\ sess[s].resp \in {None, sess[s].pend}
    BY SessionType, TypeParts DEF Inv, ResponsesOK
<1>1. /\ sess' = [sess EXCEPT ![s] = x] /\ events' = events
      /\ UNCHANGED <<member, revoker, disp, crashes, revokes, faults>>
    BY <1>0 DEF ReadStates
<1>2. /\ x \in SessionSet /\ x.worker = sess[s].worker /\ x.gen = sess[s].gen
      /\ x.pend = sess[s].pend /\ x.resp \in {None, x.pend}
      /\ x.listed /\ ~x.closed => sess[s].listed /\ ~sess[s].closed
      /\ x.srv = "ended" => x.closed \/ sess[s].srv = "ended"
    BY <1>0, ZenonT(60) DEF SessionSet
<1> HIDE DEF x
<1> QED BY <1>1, <1>2, SessionMoves

LEMMA DelistInv == ASSUME Inv, NEW s \in Sessions, Delist(s) PROVE Inv'
<1> DEFINE x == [Dropped(sess[s]) EXCEPT !.srv = "delisted", !.listed = FALSE]
<1>0. sess \in Seq(SessionSet) /\ sess[s] \in SessionSet /\ sess[s].resp \in {None, sess[s].pend}
    BY SessionType, TypeParts DEF Inv, ResponsesOK
<1>1. /\ sess' = [sess EXCEPT ![s] = x] /\ events' = events
      /\ UNCHANGED <<member, revoker, disp, crashes, revokes, faults>>
    BY <1>0 DEF Delist
<1>2. /\ x \in SessionSet /\ x.worker = sess[s].worker /\ x.gen = sess[s].gen
      /\ x.pend = sess[s].pend /\ x.resp \in {None, x.pend}
      /\ x.listed /\ ~x.closed => sess[s].listed /\ ~sess[s].closed
      /\ x.srv = "ended" => x.closed \/ sess[s].srv = "ended"
    BY <1>0, ZenonT(60) DEF SessionSet, Dropped, Gone
<1> HIDE DEF x
<1> QED BY <1>1, <1>2, SessionMoves

LEMMA DisconnectInv == ASSUME Inv, NEW s \in Sessions, Disconnect(s) PROVE Inv'
<1> DEFINE x == [sess[s] EXCEPT !.srv = "ended", !.closed = TRUE]
<1>0. sess \in Seq(SessionSet) /\ sess[s] \in SessionSet /\ sess[s].resp \in {None, sess[s].pend}
    BY SessionType, TypeParts DEF Inv, ResponsesOK
<1>1. /\ sess' = [sess EXCEPT ![s] = x] /\ events' = Append(events, Recorded("disconnected", s))
      /\ UNCHANGED <<member, revoker, disp, crashes, revokes, faults>>
    BY <1>0 DEF Disconnect
<1>2. /\ x \in SessionSet /\ x.worker = sess[s].worker /\ x.gen = sess[s].gen
      /\ x.pend = sess[s].pend /\ x.resp \in {None, x.pend}
      /\ x.listed /\ ~x.closed => sess[s].listed /\ ~sess[s].closed
      /\ x.srv = "ended" => x.closed \/ sess[s].srv = "ended"
    BY <1>0 DEF SessionSet
<1> HIDE DEF x
<1> QED BY <1>1, <1>2, SessionMoves
LEMMA CheckInv == ASSUME Inv, NEW s \in Sessions, Check(s) PROVE Inv'
<1>0. sess \in Seq(SessionSet) /\ sess[s] \in SessionSet /\ sess[s].resp \in {None, sess[s].pend}
    BY SessionType, TypeParts DEF Inv, ResponsesOK
<1>u. UNCHANGED <<member, revoker, disp, crashes, revokes, faults>>
    BY DEF Check
<1>1. CASE sess' = [sess EXCEPT ![s] = [sess[s] EXCEPT !.srv = "raised", !.allowed = FALSE]] /\ events' = events
  <2> DEFINE x == [sess[s] EXCEPT !.srv = "raised", !.allowed = FALSE]
  <2>1. /\ x \in SessionSet /\ x.worker = sess[s].worker /\ x.gen = sess[s].gen
        /\ x.pend = sess[s].pend /\ x.resp \in {None, x.pend}
        /\ x.listed /\ ~x.closed => sess[s].listed /\ ~sess[s].closed
        /\ x.srv = "ended" => x.closed \/ sess[s].srv = "ended"
      BY <1>0 DEF SessionSet
  <2>2. sess' = [sess EXCEPT ![s] = x]
      BY <1>1
  <2> HIDE DEF x
  <2> QED BY <1>1, <1>u, <2>1, <2>2, SessionMoves
<1>2. CASE sess' = [sess EXCEPT ![s] = [sess[s] EXCEPT !.srv = "raised", !.closed = TRUE]] /\ events' = Append(events, Recorded("revoked", s))
  <2> DEFINE x == [sess[s] EXCEPT !.srv = "raised", !.closed = TRUE]
  <2>1. /\ x \in SessionSet /\ x.worker = sess[s].worker /\ x.gen = sess[s].gen
        /\ x.pend = sess[s].pend /\ x.resp \in {None, x.pend}
        /\ x.listed /\ ~x.closed => sess[s].listed /\ ~sess[s].closed
        /\ x.srv = "ended" => x.closed \/ sess[s].srv = "ended"
      BY <1>0 DEF SessionSet
  <2>2. sess' = [sess EXCEPT ![s] = x]
      BY <1>2
  <2> HIDE DEF x
  <2> QED BY <1>2, <1>u, <2>1, <2>2, SessionMoves
<1>3. CASE sess' = [sess EXCEPT ![s] = [sess[s] EXCEPT !.srv = "act", !.allowed = FALSE]] /\ events' = events
  <2> DEFINE x == [sess[s] EXCEPT !.srv = "act", !.allowed = FALSE]
  <2>1. /\ x \in SessionSet /\ x.worker = sess[s].worker /\ x.gen = sess[s].gen
        /\ x.pend = sess[s].pend /\ x.resp \in {None, x.pend}
        /\ x.listed /\ ~x.closed => sess[s].listed /\ ~sess[s].closed
        /\ x.srv = "ended" => x.closed \/ sess[s].srv = "ended"
      BY <1>0 DEF SessionSet
  <2>2. sess' = [sess EXCEPT ![s] = x]
      BY <1>3
  <2> HIDE DEF x
  <2> QED BY <1>3, <1>u, <2>1, <2>2, SessionMoves
<1> QED BY <1>0, <1>1, <1>2, <1>3 DEF Check

LEMMA ActHeartbeatInv == ASSUME Inv, NEW s \in Sessions, ActHeartbeat(s) PROVE Inv'
<1>0. sess \in Seq(SessionSet) /\ sess[s] \in SessionSet /\ sess[s].resp \in {None, sess[s].pend}
    BY SessionType, TypeParts DEF Inv, ResponsesOK
<1> DEFINE cl == IF sess[s].cl = "gone" THEN "gone" ELSE IF sess[s].pend = None THEN "ready" ELSE "got"
           cmd == IF sess[s].cl = "gone" THEN None ELSE sess[s].pend
           late == sess[s].late \/ (sess[s].closed /\ sess[s].pend # None /\ Revoked(sess[s].worker))
           x == [sess[s] EXCEPT !.srv = "recv", !.cl = cl, !.cmd = cmd, !.late = late]
<1>1. /\ sess' = [sess EXCEPT ![s] = x] /\ events' = events
      /\ UNCHANGED <<member, revoker, disp, crashes, revokes, faults>>
    BY <1>0 DEF ActHeartbeat
<1>2. cl \in {"ready", "got", "gone"} /\ cmd \in Requests \cup {None}
    BY <1>0 DEF SessionSet
<1>3. late \in BOOLEAN
    BY <1>0 DEF SessionSet
<1> HIDE DEF cl, cmd, late
<1>4. x \in SessionSet
    BY <1>0, <1>2, <1>3 DEF SessionSet
<1>5. /\ x.worker = sess[s].worker /\ x.gen = sess[s].gen
      /\ x.pend = sess[s].pend /\ x.resp = sess[s].resp /\ x.srv = "recv"
      /\ x.listed = sess[s].listed /\ x.closed = sess[s].closed
    BY <1>0 DEF SessionSet
<1> HIDE DEF x
<1> QED BY <1>0, <1>1, <1>4, <1>5, SessionMoves

\* A response is taken only when it answers the pending command.
LEMMA ActResponseInv == ASSUME Inv, NEW s \in Sessions, ActResponse(s) PROVE Inv'
<1>0. sess \in Seq(SessionSet) /\ sess[s] \in SessionSet /\ sess[s].resp \in {None, sess[s].pend}
    BY SessionType, TypeParts DEF Inv, ResponsesOK
<1> DEFINE x == IF sess[s].pend # None /\ sess[s].cmd = sess[s].pend
                THEN [sess[s] EXCEPT !.resp = sess[s].cmd, !.srv = "recv", !.cl = "ready", !.cmd = None]
                ELSE [sess[s] EXCEPT !.srv = "raised"]
<1>1. /\ sess' = [sess EXCEPT ![s] = x] /\ events' = events
      /\ UNCHANGED <<member, revoker, disp, crashes, revokes, faults>>
    BY <1>0 DEF ActResponse
<1>2. /\ x \in SessionSet /\ x.worker = sess[s].worker /\ x.gen = sess[s].gen
      /\ x.pend = sess[s].pend /\ x.resp \in {None, x.pend}
      /\ x.listed /\ ~x.closed => sess[s].listed /\ ~sess[s].closed
      /\ x.srv = "ended" => x.closed \/ sess[s].srv = "ended"
    BY <1>0 DEF SessionSet
<1> HIDE DEF x
<1> QED BY <1>1, <1>2, SessionMoves
-----------------------------------------------------------------------------
(* A session opens.                                                          *)

LEMMA NewSessionType ==
    ASSUME NEW w \in Workers, NEW g \in Nat, NEW thread \in {"recv", "ended"}
    PROVE  /\ NewSession(w, g, thread) \in SessionSet
           /\ NewSession(w, g, thread).worker = w /\ NewSession(w, g, thread).srv = thread
           /\ NewSession(w, g, thread).pend = None /\ NewSession(w, g, thread).resp = None
BY DEF NewSession, SessionSet

LEMMA SessionOpens ==
    ASSUME Inv, NEW w \in Workers, NEW x \in SessionSet, sess' = Append(sess, x),
           x.worker = w, x.pend = None, x.resp = None,
           \A s \in Sessions : sess[s].worker = w => ~Active(s),
           disp' = disp, faults' = 0 => faults = 0 /\ x.srv # "ended"
    PROVE  /\ sess' \in Seq(SessionSet) /\ OneActiveSession' /\ NoGhost'
           /\ CommandHasOwner' /\ WaitersOK' /\ ResponsesOK'
<1> USE DEF Inv
<1>1. sess \in Seq(SessionSet)
    BY TypeParts
<1> DEFINE n == Len(sess) + 1
<1>2. /\ sess' \in Seq(SessionSet)
      /\ Len(sess) \in Nat /\ DOMAIN sess = 1..Len(sess) /\ DOMAIN sess' = 1..n
      /\ \A s \in 1..Len(sess) : sess'[s] = sess[s]
      /\ sess'[n] = x
    BY <1>1, AppendFacts
<1>3. /\ \A s \in Sessions : s \in Sessions' /\ sess'[s] = sess[s] /\ s # n
      /\ \A s \in Sessions' : s \in Sessions \/ s = n
    BY <1>2 DEF Sessions
<1> HIDE DEF n
<1>4. \A s \in Sessions : Active(s)' <=> Active(s)
    BY <1>3 DEF Active
<1>5. OneActiveSession'
  <2>1. ASSUME NEW s \in Sessions', NEW t \in Sessions', Active(s)', Active(t)',
               sess'[s].worker = sess'[t].worker
        PROVE  s = t
    <3>1. CASE s \in Sessions /\ t \in Sessions
        BY <1>3, <1>4, <2>1, <3>1 DEF SessionsInOrder, OneActiveSession
    <3>2. CASE s = n /\ t \in Sessions
        BY <1>2, <1>3, <1>4, <2>1, <3>2
    <3>3. CASE s \in Sessions /\ t = n
        BY <1>2, <1>3, <1>4, <2>1, <3>3
    <3> QED BY <1>3, <3>1, <3>2, <3>3
  <2> QED BY <2>1 DEF OneActiveSession
<1>6. NoGhost'
    BY <1>2, <1>3, <1>4 DEF NoGhost
<1>7. CommandHasOwner'
  <2>1. ASSUME NEW s \in Sessions', sess'[s].pend # None
        PROVE  \E k \in Dispatchers : disp[k].pc = "wait" /\ disp[k].s = s /\ disp[k].req = sess'[s].pend
    <3>1. s \in Sessions /\ sess'[s] = sess[s]
        BY <1>2, <1>3, <2>1
    <3> QED BY <2>1, <3>1 DEF CommandHasOwner
  <2> QED BY <2>1 DEF CommandHasOwner
<1>8. WaitersOK'
    BY <1>3 DEF WaitersOK
<1>9. ResponsesOK'
    BY <1>2, <1>3 DEF ResponsesOK
<1> QED BY <1>2, <1>5, <1>6, <1>7, <1>8, <1>9

LEMMA OpenInv ==
    ASSUME Inv, NEW w \in Workers, NEW g \in Generations, Open(w, g) PROVE Inv'
<1> USE DEF Inv
<1> DEFINE x == NewSession(w, g, "recv")
           e == [event |-> "connected", worker |-> w, gen |-> g]
<1>1. /\ Admissible(w) /\ IsNextGeneration(w, g)
      /\ sess' = Append(sess, x) /\ events' = Append(events, e)
      /\ UNCHANGED <<member, revoker, disp, crashes, revokes, faults>>
    BY DEF Open
<1>2. g \in Nat
    BY RendezvousBounds DEF Generations
<1>3. /\ x \in SessionSet /\ x.worker = w /\ x.srv = "recv" /\ x.pend = None /\ x.resp = None
    BY <1>2, NewSessionType
<1>4. e \in EventSet /\ e.event = "connected" /\ e.worker = w /\ e.gen = g
    BY <1>2 DEF EventSet
<1>5. \A i \in DOMAIN events : events[i].worker = w => events[i].gen < g
    BY <1>1 DEF IsNextGeneration
<1>6. \A s \in Sessions : sess[s].worker = w => ~Active(s)
    BY <1>1 DEF Admissible
<1> HIDE DEF x, e
<1>7. events' \in Seq(EventSet) /\ GenerationsIncrease'
    BY <1>1, <1>4, <1>5, GenerationsAppend DEF SessionsInOrder
<1>8. /\ sess' \in Seq(SessionSet) /\ OneActiveSession' /\ NoGhost'
      /\ CommandHasOwner' /\ WaitersOK' /\ ResponsesOK'
    BY <1>1, <1>3, <1>6, SessionOpens
<1>9. TypeOK'
    BY <1>1, <1>7, <1>8, TypeParts, TypeNext
<1> QED BY <1>7, <1>8, <1>9 DEF SessionsInOrder

LEMMA OpenFailsInv ==
    ASSUME Inv, NEW w \in Workers, NEW g \in Generations, OpenFails(w, g) PROVE Inv'
<1> USE DEF Inv
<1> DEFINE x == NewSession(w, g, "ended")
<1>1. /\ Admissible(w) /\ sess' = Append(sess, x) /\ events' = events
      /\ UNCHANGED <<member, revoker, disp, crashes, revokes>>
    BY DEF OpenFails
<1>2. faults' \in 0..MaxFaults /\ faults' # 0
    BY RendezvousBounds DEF OpenFails, TypeOK
<1>3. g \in Nat
    BY RendezvousBounds DEF Generations
<1>4. /\ x \in SessionSet /\ x.worker = w /\ x.pend = None /\ x.resp = None
    BY <1>3, NewSessionType
<1>5. \A s \in Sessions : sess[s].worker = w => ~Active(s)
    BY <1>1 DEF Admissible
<1> HIDE DEF x
<1>6. GenerationsIncrease'
    BY <1>1, GenerationsSame DEF SessionsInOrder
<1>7. /\ sess' \in Seq(SessionSet) /\ OneActiveSession' /\ NoGhost'
      /\ CommandHasOwner' /\ WaitersOK' /\ ResponsesOK'
    BY <1>1, <1>2, <1>4, <1>5, SessionOpens
<1>8. TypeOK'
    BY <1>1, <1>2, <1>7, TypeParts, TypeNext
<1> QED BY <1>6, <1>7, <1>8 DEF SessionsInOrder

-----------------------------------------------------------------------------
(* Dispatches.                                                               *)

\* A step that changes no session and no event.
LEMMA SessionsSame ==
    ASSUME Inv, UNCHANGED <<events, sess, faults>>
    PROVE  SessionsInOrder' /\ NoGhost' /\ ResponsesOK' /\ Sessions' = Sessions
BY DEF Inv, SessionsInOrder, OneActiveSession, GenerationsIncrease, NoGhost, ResponsesOK,
       Sessions, Active

LEMMA SelectInv ==
    ASSUME Inv, NEW k \in Dispatchers, NEW s \in Sessions, NEW r \in Requests, Select(k, s, r)
    PROVE  Inv'
<1> USE DEF Inv
<1> DEFINE d == [pc |-> "submit", s |-> s, req |-> r]
<1>1. /\ disp[k].pc = "idle" /\ disp' = [disp EXCEPT ![k] = d]
      /\ UNCHANGED <<events, sess, member, revoker, crashes, revokes, faults>>
    BY DEF Select
<1>2. s \in Nat
  <2>1. sess \in Seq(SessionSet)
      BY TypeParts
  <2> QED BY <2>1 DEF Sessions
<1>3. d \in DispatchSet /\ d.pc = "submit" /\ d.s = s /\ d.req = r
    BY <1>2 DEF DispatchSet
<1> HIDE DEF d
<1>4. disp \in [Dispatchers -> DispatchSet]
    BY TypeParts
<1>5. disp' \in [Dispatchers -> DispatchSet] /\ disp'[k] = d /\ \A l \in Dispatchers \ {k} : disp'[l] = disp[l]
    BY <1>1, <1>3, <1>4
<1>6. SessionsInOrder' /\ NoGhost' /\ ResponsesOK' /\ Sessions' = Sessions
    BY <1>1, SessionsSame
<1>7. TypeOK'
    BY <1>1, <1>5, TypeParts, TypeNext
<1>8. CommandHasOwner'
    BY <1>1, <1>5, <1>6 DEF CommandHasOwner
<1>9. WaitersOK'
    BY <1>1, <1>3, <1>5, <1>6 DEF WaitersOK
<1> QED BY <1>6, <1>7, <1>8, <1>9

\* A dispatch sets or clears the pending command of its session.
LEMMA SessionPends ==
    ASSUME Inv, NEW s \in Sessions, NEW p \in Requests \cup {None},
           NEW x, x = [sess[s] EXCEPT !.pend = p, !.resp = None],
           sess' = [sess EXCEPT ![s] = x], UNCHANGED <<events, faults>>
    PROVE  /\ sess' \in Seq(SessionSet) /\ Sessions' = Sessions
           /\ sess'[s].pend = p /\ \A t \in Sessions \ {s} : sess'[t] = sess[t]
           /\ SessionsInOrder' /\ NoGhost' /\ ResponsesOK'
<1> USE DEF Inv
<1>1. sess \in Seq(SessionSet) /\ s \in DOMAIN sess /\ sess[s] \in SessionSet
    BY TypeParts, SessionType DEF Sessions
<1>2. /\ x \in SessionSet /\ x.pend = p /\ x.resp = None
      /\ x.worker = sess[s].worker /\ x.listed = sess[s].listed /\ x.closed = sess[s].closed
      /\ x.srv = sess[s].srv
    BY <1>1 DEF SessionSet
<1>3. /\ sess' \in Seq(SessionSet) /\ DOMAIN sess' = DOMAIN sess
      /\ sess'[s] = x /\ \A t \in DOMAIN sess \ {s} : sess'[t] = sess[t]
    BY <1>1, <1>2, ExceptFacts
<1>4. Sessions' = Sessions
    BY <1>3 DEF Sessions
<1>5. \A t \in Sessions : /\ Active(t)' <=> Active(t)
                          /\ sess'[t].worker = sess[t].worker /\ sess'[t].srv = sess[t].srv
    BY <1>2, <1>3 DEF Active, Sessions
<1>6. SessionsInOrder'
    BY <1>4, <1>5 DEF SessionsInOrder, OneActiveSession, GenerationsIncrease
<1>7. NoGhost'
    BY <1>4, <1>5 DEF NoGhost
<1>8. ResponsesOK'
    BY <1>2, <1>3, <1>4 DEF ResponsesOK, Sessions
<1> QED BY <1>2, <1>3, <1>4, <1>6, <1>7, <1>8 DEF Sessions
\* The dispatch returns or gives up: nobody else waits in its session.
LEMMA WaitEnds ==
    ASSUME Inv, NEW k \in Dispatchers, disp[k].pc = "wait",
           NEW s, s = disp[k].s, NEW x, x = [sess[s] EXCEPT !.pend = None, !.resp = None],
           sess' = [sess EXCEPT ![s] = x], disp' = [disp EXCEPT ![k] = NoDispatch],
           UNCHANGED <<events, member, revoker, crashes, revokes, faults>>
    PROVE  Inv'
<1> USE DEF Inv
<1>1. s \in Sessions
    BY DEF WaitersOK
<1>2. /\ sess' \in Seq(SessionSet) /\ Sessions' = Sessions
      /\ sess'[s].pend = None /\ \A t \in Sessions \ {s} : sess'[t] = sess[t]
      /\ SessionsInOrder' /\ NoGhost' /\ ResponsesOK'
    BY <1>1, SessionPends
<1>3. NoDispatch \in DispatchSet /\ NoDispatch.pc = "idle"
    BY DEF NoDispatch, DispatchSet
<1>4. /\ disp' \in [Dispatchers -> DispatchSet] /\ disp'[k] = NoDispatch
      /\ \A l \in Dispatchers \ {k} : disp'[l] = disp[l]
    BY <1>3, TypeParts
<1>5. TypeOK'
    BY <1>2, <1>4, TypeParts, TypeNext
<1>6. CommandHasOwner'
  <2>1. ASSUME NEW t \in Sessions, sess'[t].pend # None
        PROVE  \E l \in Dispatchers : disp'[l].pc = "wait" /\ disp'[l].s = t /\ disp'[l].req = sess'[t].pend
    <3>1. t # s /\ sess'[t] = sess[t]
        BY <1>2, <2>1
    <3>2. PICK l \in Dispatchers : disp[l].pc = "wait" /\ disp[l].s = t /\ disp[l].req = sess[t].pend
        BY <2>1, <3>1 DEF CommandHasOwner
    <3> QED BY <1>4, <3>1, <3>2
  <2> QED BY <1>2, <2>1 DEF CommandHasOwner
<1>7. WaitersOK'
  <2>1. \A l \in Dispatchers : disp'[l].pc # "idle" => l # k /\ disp'[l] = disp[l]
      BY <1>3, <1>4
  <2>2. \A l \in Dispatchers : disp'[l].pc = "wait" => disp[l].s # s /\ disp[l].s \in Sessions
      BY <2>1 DEF WaitersOK
  <2> QED BY <1>2, <2>1, <2>2 DEF WaitersOK
<1> QED BY <1>2, <1>5, <1>6, <1>7

LEMMA SubmitReturnsInv == ASSUME Inv, NEW k \in Dispatchers, SubmitReturns(k) PROVE Inv'
<1>1. PICK s, x : s = disp[k].s /\ x = [sess[s] EXCEPT !.pend = None, !.resp = None]
    OBVIOUS
<1>2. sess \in Seq(SessionSet) /\ s \in DOMAIN sess
    BY <1>1, TypeParts DEF Inv, WaitersOK, SubmitReturns, Sessions
<1>3. /\ sess' = [sess EXCEPT ![s] = x] /\ disp' = [disp EXCEPT ![k] = NoDispatch]
      /\ disp[k].pc = "wait" /\ UNCHANGED <<events, member, revoker, crashes, revokes, faults>>
    BY <1>1, <1>2 DEF SubmitReturns
<1> QED BY <1>1, <1>3, WaitEnds

LEMMA SubmitTimesOutInv == ASSUME Inv, NEW k \in Dispatchers, SubmitTimesOut(k) PROVE Inv'
<1>1. PICK s, x : s = disp[k].s /\ x = [sess[s] EXCEPT !.pend = None, !.resp = None]
    OBVIOUS
<1>2. sess \in Seq(SessionSet) /\ s \in DOMAIN sess /\ sess[s] \in SessionSet /\ sess[s].resp = None
    BY <1>1, TypeParts DEF Inv, WaitersOK, SubmitTimesOut, Sessions
<1>3. x = [sess[s] EXCEPT !.pend = None]
    BY <1>1, <1>2 DEF SessionSet
<1>4. /\ sess' = [sess EXCEPT ![s] = x] /\ disp' = [disp EXCEPT ![k] = NoDispatch]
      /\ disp[k].pc = "wait" /\ UNCHANGED <<events, member, revoker, crashes, revokes, faults>>
    BY <1>1, <1>2, <1>3 DEF SubmitTimesOut
<1> QED BY <1>1, <1>4, WaitEnds

LEMMA SubmitInv == ASSUME Inv, NEW k \in Dispatchers, Submit(k) PROVE Inv'
<1> USE DEF Inv
<1>0. disp \in [Dispatchers -> DispatchSet] /\ disp[k] \in DispatchSet /\ sess \in Seq(SessionSet)
    BY TypeParts
<1>1. PICK s, r : s = disp[k].s /\ r = disp[k].req
    OBVIOUS
<1>2. s \in Sessions /\ r \in Requests /\ disp[k].pc = "submit" /\ s \in DOMAIN sess
    BY <1>1 DEF WaitersOK, Submit, Sessions
<1>u. UNCHANGED <<events, member, revoker, crashes, revokes, faults>>
    BY DEF Submit
<1>3. CASE disp' = [disp EXCEPT ![k] = NoDispatch] /\ sess' = sess
  <2>1. NoDispatch \in DispatchSet /\ NoDispatch.pc = "idle"
      BY DEF NoDispatch, DispatchSet
  <2>2. /\ disp' \in [Dispatchers -> DispatchSet] /\ disp'[k] = NoDispatch
        /\ \A l \in Dispatchers \ {k} : disp'[l] = disp[l]
      BY <1>0, <1>3, <2>1
  <2>3. SessionsInOrder' /\ NoGhost' /\ ResponsesOK' /\ Sessions' = Sessions
      BY <1>3, <1>u, SessionsSame
  <2>4. TypeOK'
      BY <1>3, <1>u, <2>2, TypeParts, TypeNext
  <2>5. CommandHasOwner'
      BY <1>2, <1>3, <2>2, <2>3 DEF CommandHasOwner
  <2>6. WaitersOK'
      BY <1>3, <2>1, <2>2, <2>3 DEF WaitersOK
  <2> QED BY <2>3, <2>4, <2>5, <2>6
<1>4. CASE /\ ~sess[s].closed /\ sess[s].pend = None
           /\ disp' = [disp EXCEPT ![k].pc = "wait"]
           /\ sess' = [sess EXCEPT ![s].pend = r, ![s].resp = None]
  <2>0. PICK x : x = [sess[s] EXCEPT !.pend = r, !.resp = None]
      OBVIOUS
  <2>s. sess' = [sess EXCEPT ![s] = x]
      BY <1>0, <1>2, <1>4, <2>0
  <2>1. /\ sess' \in Seq(SessionSet) /\ Sessions' = Sessions
        /\ sess'[s].pend = r /\ \A t \in Sessions \ {s} : sess'[t] = sess[t]
        /\ SessionsInOrder' /\ NoGhost' /\ ResponsesOK'
      BY <1>2, <1>u, <2>0, <2>s, SessionPends
  <2> DEFINE d == [disp[k] EXCEPT !.pc = "wait"]
  <2>2. d \in DispatchSet /\ d.pc = "wait" /\ d.s = s /\ d.req = r
      BY <1>0, <1>1 DEF DispatchSet
  <2>3. disp' = [disp EXCEPT ![k] = d]
      BY <1>0, <1>4
  <2> HIDE DEF d
  <2>4. /\ disp' \in [Dispatchers -> DispatchSet] /\ disp'[k] = d
        /\ \A l \in Dispatchers \ {k} : disp'[l] = disp[l]
      BY <1>0, <2>2, <2>3
  <2>5. TypeOK'
      BY <1>u, <2>1, <2>4, TypeParts, TypeNext
  <2>6. CommandHasOwner'
    <3>1. ASSUME NEW t \in Sessions, sess'[t].pend # None
          PROVE  \E l \in Dispatchers : disp'[l].pc = "wait" /\ disp'[l].s = t /\ disp'[l].req = sess'[t].pend
      <4>1. CASE t = s
          BY <2>1, <2>2, <2>4, <4>1
      <4>2. CASE t # s
        <5>1. PICK l \in Dispatchers : disp[l].pc = "wait" /\ disp[l].s = t /\ disp[l].req = sess[t].pend
            BY <2>1, <3>1, <4>2 DEF CommandHasOwner
        <5>2. l # k
            BY <1>2, <5>1
        <5> QED BY <2>1, <2>4, <4>2, <5>1, <5>2
      <4> QED BY <4>1, <4>2
    <3> QED BY <2>1, <3>1 DEF CommandHasOwner
  \* A waiting dispatch's command is not None, so none waits in s.
  <2>7. \A l \in Dispatchers : disp[l].pc = "wait" => disp[l].s # s /\ disp[l].s \in Sessions
      BY <1>4, RendezvousNone DEF WaitersOK
  <2>8. WaitersOK'
    <3>1. \A l \in Dispatchers : l = k \/ disp'[l] = disp[l]
        BY <2>4
    <3>2. ASSUME NEW l \in Dispatchers
          PROVE  /\ disp'[l].pc # "idle" => disp'[l].s \in Sessions /\ disp'[l].req \in Requests
                 /\ disp'[l].pc = "wait" => sess'[disp'[l].s].pend = disp'[l].req
      <4>1. CASE l = k
          BY <1>2, <2>1, <2>2, <2>4, <4>1
      <4>2. CASE l # k
          BY <2>1, <2>4, <2>7, <4>2 DEF WaitersOK
      <4> QED BY <4>1, <4>2
    <3>3. ASSUME NEW l \in Dispatchers, NEW m \in Dispatchers,
                 disp'[l].pc = "wait", disp'[m].pc = "wait", disp'[l].s = disp'[m].s
          PROVE  l = m
        BY <2>2, <2>4, <2>7, <3>1, <3>3 DEF WaitersOK
    <3> QED BY <2>1, <3>2, <3>3 DEF WaitersOK
  <2> QED BY <2>1, <2>5, <2>6, <2>8
<1> QED BY <1>1, <1>3, <1>4 DEF Submit

-----------------------------------------------------------------------------
(* Membership, and the end of the process.                                   *)

\* A step that changes neither a session nor a dispatch.
LEMMA MembershipKeeps ==
    ASSUME Inv, UNCHANGED <<events, sess, disp, faults, crashes>>,
           member' \in [Workers -> BOOLEAN], revoker' \in Workers \cup {None},
           revokes' \in 0..MaxRevokes
    PROVE  Inv'
<1> USE DEF Inv
<1>1. SessionsInOrder' /\ NoGhost' /\ ResponsesOK' /\ Sessions' = Sessions
    BY SessionsSame
<1>2. TypeOK'
    BY TypeParts, TypeNext
<1>3. CommandHasOwner' /\ WaitersOK'
    BY <1>1 DEF CommandHasOwner, WaitersOK
<1> QED BY <1>1, <1>2, <1>3

LEMMA RevokeMembershipInv == ASSUME Inv, NEW w \in Workers, RevokeMembership(w) PROVE Inv'
<1>1. member' \in [Workers -> BOOLEAN] /\ revokes' \in 0..MaxRevokes
    BY RendezvousBounds DEF Inv, TypeOK, RevokeMembership
<1> QED BY <1>1, MembershipKeeps DEF RevokeMembership

LEMMA EnrollInv == ASSUME Inv, NEW w \in Workers, Enroll(w) PROVE Inv'
<1>1. member' \in [Workers -> BOOLEAN] /\ revokes' \in 0..MaxRevokes /\ revoker' \in Workers \cup {None}
    BY DEF Inv, TypeOK, Enroll
<1> QED BY <1>1, MembershipKeeps DEF Enroll

LEMMA RevokeSessionsInv == ASSUME Inv, RevokeSessions PROVE Inv'
<1>1. ASSUME NEW s \in Sessions, sess' = [sess EXCEPT ![s].closed = TRUE],
             events' = Append(events, Recorded("revoked", s)), UNCHANGED revoker,
             UNCHANGED <<member, disp, crashes, revokes, faults>>
      PROVE  Inv'
  <2> DEFINE x == [sess[s] EXCEPT !.closed = TRUE]
  <2>0. sess \in Seq(SessionSet) /\ sess[s] \in SessionSet /\ sess[s].resp \in {None, sess[s].pend}
      BY SessionType, TypeParts DEF Inv, ResponsesOK
  <2>1. sess' = [sess EXCEPT ![s] = x]
      BY <1>1, <2>0
  <2>2. /\ x \in SessionSet /\ x.worker = sess[s].worker /\ x.gen = sess[s].gen
        /\ x.pend = sess[s].pend /\ x.resp \in {None, x.pend}
        /\ x.listed /\ ~x.closed => sess[s].listed /\ ~sess[s].closed
        /\ x.srv = "ended" => x.closed \/ sess[s].srv = "ended"
      BY <2>0, ZenonT(60) DEF SessionSet
  <2> HIDE DEF x
  <2> QED BY <1>1, <2>1, <2>2, SessionMoves
<1>2. CASE revoker' = None /\ UNCHANGED <<sess, events>> /\ UNCHANGED <<member, disp, crashes, revokes, faults>>
  <2>1. member' \in [Workers -> BOOLEAN] /\ revokes' \in 0..MaxRevokes
      BY <1>2 DEF Inv, TypeOK
  <2> QED BY <1>2, <2>1, MembershipKeeps
<1> QED BY <1>1, <1>2 DEF RevokeSessions

LEMMA CrashInv == ASSUME Inv, Crash PROVE Inv'
<1> USE DEF Inv
<1> DEFINE x(s) == [Dropped(sess[s]) EXCEPT !.listed = FALSE, !.closed = TRUE, !.srv = "ended",
                                            !.allowed = FALSE, !.pend = None, !.resp = None]
<1>1. /\ sess' = [s \in Sessions |-> x(s)] /\ disp' = [k \in Dispatchers |-> NoDispatch]
      /\ revoker' = None /\ UNCHANGED <<events, member, revokes, faults>>
    BY DEF Crash
<1>c. crashes' \in 0..MaxCrashes
  <2>1. crashes' = crashes + 1 /\ crashes < MaxCrashes
      BY DEF Crash
  <2>2. crashes \in 0..MaxCrashes
      BY TypeParts
  <2> QED BY <2>1, <2>2, RendezvousBounds
<1>2. ASSUME NEW s \in Sessions
      PROVE  /\ x(s) \in SessionSet /\ x(s).listed = FALSE
             /\ x(s).pend = None /\ x(s).resp = None
  <2>1. sess[s] \in SessionSet
      BY SessionType
  <2>2. Dropped(sess[s]) \in SessionSet
      BY <2>1, ZenonT(60) DEF Dropped, Gone, SessionSet
  <2> HIDE DEF Dropped
  <2> QED BY <2>2 DEF SessionSet
<1> HIDE DEF x
<1>3. sess' \in Seq(SessionSet) /\ Sessions' = Sessions
  <2>1. sess \in Seq(SessionSet)
      BY TypeParts
  <2>2. Len(sess) \in Nat /\ Sessions = 1..Len(sess)
      BY <2>1 DEF Sessions
  <2>3. sess' \in [1..Len(sess) -> SessionSet]
      BY <1>1, <1>2, <2>2
  <2> QED BY <2>2, <2>3 DEF Sessions
<1>4. \A s \in Sessions : sess'[s].listed = FALSE /\ sess'[s].pend = None /\ sess'[s].resp = None
    BY <1>1, <1>2
<1>5. NoDispatch \in DispatchSet /\ NoDispatch.pc = "idle"
    BY DEF NoDispatch, DispatchSet
<1>6. TypeOK'
    BY <1>1, <1>3, <1>5, <1>c, TypeParts, TypeNext
<1>7. SessionsInOrder' /\ NoGhost'
    BY <1>1, <1>3, <1>4 DEF SessionsInOrder, OneActiveSession, GenerationsIncrease, NoGhost, Active
<1>8. CommandHasOwner' /\ ResponsesOK'
    BY <1>3, <1>4 DEF CommandHasOwner, ResponsesOK
<1>9. WaitersOK'
    BY <1>1, <1>5 DEF WaitersOK
<1> QED BY <1>6, <1>7, <1>8, <1>9

-----------------------------------------------------------------------------
(* The theorems.                                                             *)

LEMMA InvStep == Inv /\ [Next]_vars => Inv'
<1> SUFFICES ASSUME Inv, [Next]_vars PROVE Inv'
    OBVIOUS
<1>1. ASSUME NEW w \in Workers, NEW g \in Generations, Open(w, g) \/ OpenFails(w, g) PROVE Inv'
    BY <1>1, OpenInv, OpenFailsInv
<1>2. ASSUME NEW s \in Sessions, Serve(s) PROVE Inv'
    BY <1>2, LookupInv, CheckInv, ActHeartbeatInv, ActResponseInv, DelistInv, DisconnectInv DEF Serve
<1>3. ASSUME NEW s \in Sessions, ReceiveFails(s) \/ Client(s) \/ ClientEnds(s) \/ ReadStates(s)
      PROVE  Inv'
    BY <1>3, ReceiveFailsInv, BeatInv, HandleCommandInv, ClientEndsInv, ReadStatesInv DEF Client
<1>4. ASSUME NEW k \in Dispatchers, NEW s \in Sessions, NEW r \in Requests, Select(k, s, r)
      PROVE  Inv'
    BY <1>4, SelectInv
<1>5. ASSUME NEW k \in Dispatchers, Wait(k) PROVE Inv'
    BY <1>5, SubmitInv, SubmitReturnsInv, SubmitTimesOutInv DEF Wait
<1>6. ASSUME NEW w \in Workers, RevokeMembership(w) \/ Enroll(w) PROVE Inv'
    BY <1>6, RevokeMembershipInv, EnrollInv
<1>7. CASE RevokeSessions
    BY <1>7, RevokeSessionsInv
<1>8. CASE Crash
    BY <1>8, CrashInv
<1>9. CASE UNCHANGED vars
  <2>1. member' \in [Workers -> BOOLEAN] /\ revokes' \in 0..MaxRevokes /\ revoker' \in Workers \cup {None}
      BY <1>9 DEF Inv, TypeOK, vars
  <2> QED BY <1>9, <2>1, MembershipKeeps DEF vars
<1> QED BY <1>1, <1>2, <1>3, <1>4, <1>5, <1>6, <1>7, <1>8, <1>9 DEF Next

LEMMA InvAlways == Spec => []Inv
BY InitInv, InvStep, PTL DEF Spec

LEMMA InvBindsResponses == Inv => CommandBound
<1> SUFFICES ASSUME Inv PROVE CommandBound
    OBVIOUS
<1>1. ResponseBound
    BY DEF Inv, WaitersOK, ResponsesOK, ResponseBound
<1> QED BY <1>1 DEF Inv, CommandBound

\* The ledger, the session table and the dispatches keep their types.
THEOREM RendezvousTypes == Spec => []TypeOK
BY InvAlways, PTL DEF Inv

\* The sessions of a worker follow one another: at most one is active and the
\* generations in the ledger rise, over disconnects recorded late, failed
\* appends, revocations and restarts (RendezvousCoordinator.open, close).
THEOREM SessionsFollow == Spec => []SessionsInOrder
BY InvAlways, PTL DEF Inv

\* A command pending in a session has its waiting dispatch, and that dispatch
\* is given no response but its own, however late the answers come
\* (RendezvousSession.submit, complete).
THEOREM CommandsBound == Spec => []CommandBound
BY InvAlways, InvBindsResponses, PTL

\* While no "connected" append has failed, an active session has a listener
\* thread that will close it (TLSRendezvousServer._threaded_session).
THEOREM NoGhostSession == Spec => []NoGhost
BY InvAlways, PTL DEF Inv
-----------------------------------------------------------------------------
(***************************************************************************)
(* The client of remote workers (Fleet), for any workers, threads,          *)
(* requests, leases and machines.  It shares no variable with the above.    *)
(***************************************************************************)
CONSTANTS MaxAge, Limit, Facts, Policies, Probed, Vouched, Captured, Threads, MaxClock, MaxOperations
VARIABLES clock, spent, up, facts, heldBack, description, liveness, slot, observed, policy, stored,
          management, revoked, ledger, trusted, token, call, handling, was, raced, ran, answer

G == INSTANCE Fleet

\* The library's operators, as the instance has them.
LEMMA SameCount == \A S : G!IsFiniteSet(S) = IsFiniteSet(S) /\ G!Cardinality(S) = Cardinality(S)
BY DEF G!IsFiniteSet, IsFiniteSet, G!Cardinality, Cardinality

(* The order in which workers are chosen.  The place of a worker is the      *)
(* number of those before it: no induction is needed.                        *)

Ahead(S, key, a) == {b \in S : G!Before(key, b, a)}
Place(S, key, a) == Cardinality(Ahead(S, key, a)) + 1

LEMMA BeforeIsOrder ==
    ASSUME NEW S, S \subseteq Int, NEW key, \A a \in S : key[a] \in Int
    PROVE  \A a, b, c \in S :
              /\ ~G!Before(key, a, a)
              /\ a # b => G!Before(key, a, b) \/ G!Before(key, b, a)
              /\ G!Before(key, a, b) /\ G!Before(key, b, c) => G!Before(key, a, c)
BY DEF G!Before

LEMMA PlaceIs ==
    ASSUME NEW S, S \subseteq Int, IsFiniteSet(S), NEW key, \A a \in S : key[a] \in Int
    PROVE  /\ \A a \in S : Place(S, key, a) \in 1..Cardinality(S)
           /\ \A a, b \in S : G!Before(key, a, b) => Place(S, key, a) < Place(S, key, b)
<1>1. \A a \in S : IsFiniteSet(Ahead(S, key, a)) /\ Cardinality(Ahead(S, key, a)) \in Nat
  <2> SUFFICES ASSUME NEW a \in S PROVE IsFiniteSet(Ahead(S, key, a)) /\ Cardinality(Ahead(S, key, a)) \in Nat
      OBVIOUS
  <2>1. Ahead(S, key, a) \in SUBSET S
      BY DEF Ahead
  <2> QED BY <2>1, FS_Subset, FS_CardinalityType
<1>2. Cardinality(S) \in Nat
    BY FS_CardinalityType
<1>3. ASSUME NEW a \in S PROVE Cardinality(Ahead(S, key, a)) < Cardinality(S)
  <2>1. Ahead(S, key, a) \in SUBSET S /\ Ahead(S, key, a) # S
      BY BeforeIsOrder DEF Ahead
  <2>2. Cardinality(Ahead(S, key, a)) <= Cardinality(S) /\ Cardinality(Ahead(S, key, a)) # Cardinality(S)
      BY <2>1, FS_Subset
  <2> QED BY <1>1, <1>2, <2>2
<1>4. ASSUME NEW a \in S, NEW b \in S, G!Before(key, a, b)
      PROVE  Cardinality(Ahead(S, key, a)) < Cardinality(Ahead(S, key, b))
  <2>1. Ahead(S, key, a) \in SUBSET Ahead(S, key, b)
      BY <1>4, BeforeIsOrder DEF Ahead
  <2>2. a \in Ahead(S, key, b) /\ a \notin Ahead(S, key, a)
      BY <1>4, BeforeIsOrder DEF Ahead
  <2>3. /\ Cardinality(Ahead(S, key, a)) <= Cardinality(Ahead(S, key, b))
        /\ Cardinality(Ahead(S, key, a)) # Cardinality(Ahead(S, key, b))
      BY <1>1, <2>1, <2>2, FS_Subset
  <2> QED BY <1>1, <2>3
<1>5. ASSUME NEW a \in S PROVE Place(S, key, a) \in 1..Cardinality(S)
    BY <1>1, <1>2, <1>3 DEF Place
<1>6. ASSUME NEW a \in S, NEW b \in S, G!Before(key, a, b) PROVE Place(S, key, a) < Place(S, key, b)
    BY <1>1, <1>4, <1>6 DEF Place
<1> QED BY <1>5, <1>6

\* Every place is taken by one of the set, so that it can be sorted.
LEMMA SortedIs ==
    ASSUME NEW S, S \subseteq Int, IsFiniteSet(S), NEW key, \A a \in S : key[a] \in Int
    PROVE  G!Sorted(S, key) \in [1..Cardinality(S) -> S] /\ Cardinality(S) \in Nat
<1> DEFINE n == Cardinality(S)
           place == [a \in S |-> Place(S, key, a)]
           at == [i \in 1..n |-> CHOOSE a \in S : place[a] = i]
<1>0. /\ \A a \in S : Place(S, key, a) \in 1..n
      /\ \A a, b \in S : G!Before(key, a, b) => Place(S, key, a) < Place(S, key, b)
    BY PlaceIs, Zenon
<1>1. n \in Nat /\ IsFiniteSet(1..n) /\ Cardinality(1..n) = n
  <2>1. n \in Nat
      BY FS_CardinalityType
  <2> QED BY <2>1, FS_Interval
<1>2. place \in Injection(S, 1..n)
  <2>1. place \in [S -> 1..n]
      BY <1>0
  <2>2. \A a, b \in S : place[a] = place[b] => a = b
    <3> SUFFICES ASSUME NEW a \in S, NEW b \in S, a # b PROVE place[a] # place[b]
        OBVIOUS
    <3>1. Place(S, key, a) \in Int /\ Place(S, key, b) \in Int
        BY <1>0, <1>1
    <3>2. G!Before(key, a, b) \/ G!Before(key, b, a)
        BY BeforeIsOrder
    <3> QED BY <1>0, <3>1, <3>2
  <2> QED BY <2>1, <2>2, Zenon DEF Injection, IsInjective
<1>3. place \in Surjection(S, 1..n)
    BY <1>1, <1>2, FS_Injection
<1>4. \A i \in 1..n : at[i] \in S /\ place[at[i]] = i
    BY <1>3 DEF Surjection
<1>5. at \in [1..n -> S]
    BY <1>4
<1>6. at \in G!SetToSeqs(S)
    BY <1>4, <1>5, SameCount, ZenonT(60) DEF G!SetToSeqs
<1>7. \A i, j \in 1..n : i < j => G!Before(key, at[i], at[j])
  <2> SUFFICES ASSUME NEW i \in 1..n, NEW j \in 1..n, i < j PROVE G!Before(key, at[i], at[j])
      OBVIOUS
  <2>1. at[i] \in S /\ at[j] \in S /\ Place(S, key, at[i]) = i /\ Place(S, key, at[j]) = j
      BY <1>4
  <2>2. at[i] # at[j] /\ ~(Place(S, key, at[j]) < Place(S, key, at[i]))
      BY <1>1, <2>1
  <2> QED BY <1>0, <2>1, <2>2, BeforeIsOrder
<1>8. DOMAIN at = 1..n
    OBVIOUS
<1> HIDE DEF at
<1>9. \E s \in G!SetToSeqs(S) : \A i, j \in DOMAIN s : i < j => G!Before(key, s[i], s[j])
    BY <1>6, <1>7, <1>8
<1>10. G!Sorted(S, key) \in G!SetToSeqs(S)
    BY <1>9 DEF G!Sorted
<1> QED BY <1>1, <1>10, SameCount DEF G!SetToSeqs

(* What the operators promise: of the resolution of a worker, ...            *)

LEMMA LeastOf == ASSUME NEW T, T \subseteq Nat, T # {} PROVE G!Min(T) \in T
<1>1. PICK x \in T : \A y \in T : x <= y
    BY LeastExists
<1> QED BY <1>1 DEF G!Min

LEMMA GreatestOf == ASSUME NEW n \in Nat, NEW T, T \subseteq 1..n, T # {} PROVE G!Max(T) \in T
<1>1. PICK x \in T : \A y \in T : y <= x
  <2>1. T \subseteq 0..n
      OBVIOUS
  <2> QED BY <2>1, GreatestExists
<1>2. \A y \in T : x >= y
    BY <1>1
<1> QED BY <1>2 DEF G!Max

CodeMeans(code, a, b, d, e) ==
    /\ code = "ELIGIBLE" => a \notin {"UNAVAILABLE", "DISCONNECTED"} /\ b # "stale" /\ d /\ e
    /\ code \in {"ELIGIBLE", "WORKER_UNAVAILABLE", "WORKER_DISCONNECTED", "WORKER_STALE",
                 "PROVENANCE_UNVERIFIED", "CAPABILITY_UNSATISFIED", "POLICY_DENIED"}

LEMMA EligibleCode ==
    ASSUME NEW a, NEW b, NEW c \in BOOLEAN, NEW d \in BOOLEAN, NEW e \in BOOLEAN
    PROVE  CodeMeans(G!ResolveCode(a, b, c, d, e), a, b, d, e)
<1> DEFINE stages == << <<a # "UNAVAILABLE", "WORKER_UNAVAILABLE">>,
                        <<a # "DISCONNECTED", "WORKER_DISCONNECTED">>,
                        <<b # "stale", "WORKER_STALE">>,
                        <<c, "PROVENANCE_UNVERIFIED">>,
                        <<d, "CAPABILITY_UNSATISFIED">>,
                        <<e, "POLICY_DENIED">> >>
           failed == {i \in DOMAIN stages : ~stages[i][1]}
           code == G!ResolveCode(a, b, c, d, e)
<1>1. code = IF failed = {} THEN "ELIGIBLE" ELSE stages[G!Min(failed)][2]
    BY DEF G!ResolveCode
<1>2. failed \subseteq 1..6
    OBVIOUS
<1>3. CASE failed = {}
  <2>1. \A i \in 1..6 : stages[i][1]
      BY <1>3
  <2>2. stages[1][1] /\ stages[2][1] /\ stages[3][1] /\ stages[5][1] /\ stages[6][1]
      BY <2>1
  <2> QED BY <1>1, <1>3, <2>2 DEF CodeMeans
<1>4. CASE failed # {}
  <2>1. G!Min(failed) \in 1..6
      BY <1>2, <1>4, LeastOf
  <2>2. code = stages[G!Min(failed)][2]
      BY <1>1, <1>4
  <2> HIDE DEF failed, code
  <2>3. CodeMeans(code, a, b, d, e)
      BY <2>1, <2>2 DEF CodeMeans
  <2> QED BY <2>3 DEF code
<1> QED BY <1>3, <1>4

\* An eligible worker is there, was seen within the lease, has what is asked
\* for and may do it.
Serves(query, s) ==
    /\ s.liveness = "AVAILABLE" /\ G!FreshnessOf(s.age) = "fresh"
    /\ query.all \subseteq G!Tokens(s) /\ G!IntentAllowed(s.policy, query.intent)

LEMMA EligibleServes ==
    ASSUME NEW query, NEW s, s.liveness \in {"AVAILABLE", "UNAVAILABLE", "DISCONNECTED"},
           s.provenance = "worker-observed", G!ResolveWorker(query, s).eligible
    PROVE  Serves(query, s)
<1> DEFINE base == G!WorkerBaseInputs(query, s)
           code == G!ResolveCode(base.liveness, base.freshness, base.provenance_ok,
                                 base.missing = {}, base.intent_ok)
<1>1. base = [liveness |-> base.liveness, freshness |-> G!FreshnessOf(s.age), provenance_ok |-> TRUE,
              missing |-> base.missing, intent_ok |-> G!IntentAllowed(s.policy, query.intent)]
    BY DEF G!WorkerBaseInputs, G!ProvenanceTrusted
<1>2. /\ base.liveness \notin {"UNAVAILABLE", "DISCONNECTED"} => base.liveness = "AVAILABLE" /\ s.liveness = "AVAILABLE"
      /\ base.liveness = "AVAILABLE" /\ G!FreshnessOf(s.age) = "fresh" => base.missing = G!Missing(query, s)
    BY DEF G!WorkerBaseInputs, G!ProvenanceTrusted
<1>3. G!FreshnessOf(s.age) \in {"fresh", "stale"} /\ G!IntentAllowed(s.policy, query.intent) \in BOOLEAN
    BY DEF G!FreshnessOf, G!IntentAllowed
<1>4. G!FinishWorkerResolution(query, s, base, code).eligible
    BY DEF G!ResolveWorker
<1> HIDE DEF base
<1>5. base.freshness = G!FreshnessOf(s.age) /\ base.provenance_ok = TRUE
      /\ base.intent_ok = G!IntentAllowed(s.policy, query.intent)
    BY <1>1
<1>6. CodeMeans(code, base.liveness, base.freshness, base.missing = {}, base.intent_ok)
    BY <1>3, <1>5, EligibleCode, ZenonT(60)
<1> HIDE DEF code
<1>7. code = "ELIGIBLE"
    BY <1>4, <1>6 DEF CodeMeans, G!FinishWorkerResolution, G!MissingDetail
<1>8. G!Missing(query, s) = {}
    BY <1>2, <1>3, <1>5, <1>6, <1>7 DEF CodeMeans
<1>9. query.all \subseteq G!Tokens(s)
    BY <1>8 DEF G!Missing
<1> QED BY <1>2, <1>3, <1>5, <1>6, <1>7, <1>9 DEF CodeMeans, Serves

LEMMA HitsCounted ==
    ASSUME NEW query, NEW s, IsFiniteSet(query.prefer) PROVE G!ResolveWorker(query, s).hits \in Nat
<1>1. Cardinality(query.prefer \cap G!Tokens(s)) \in Nat
    BY FS_Intersection, FS_CardinalityType
<1> QED BY <1>1, SameCount DEF G!ResolveWorker, G!FinishWorkerResolution

\* A worker that is scheduled was admitted, serves the query and has a free slot.
Schedulable(query, slots, admitted) ==
    {v \in admitted : G!ResolveWorker(query, slots[v]).eligible /\ slots[v].active < slots[v].limit}

LEMMA ScheduledServes ==
    ASSUME NEW query, NEW slots, NEW replicas \in Nat, NEW admitted,
           DOMAIN slots \subseteq Int, IsFiniteSet(DOMAIN slots), admitted \subseteq DOMAIN slots,
           IsFiniteSet(query.prefer)
    PROVE  G!Schedule(query, slots, replicas, admitted) \in Seq(Schedulable(query, slots, admitted))
<1> DEFINE per == [v \in DOMAIN slots |-> G!ResolveWorker(query, slots[v])]
           able == {v \in admitted : /\ per[v].eligible
                                     /\ slots[v].active < slots[v].limit
                                     /\ G!ManagementAllowsWork(slots[v].management_state)}
           key == [v \in able |-> per[v].hits]
           order == G!Sorted(able, key)
           n == Cardinality(able)
<1>1. G!ResolveFleet(query, slots).per_worker = per
    BY DEF G!ResolveFleet
<1>2. /\ able \subseteq Int /\ IsFiniteSet(able) /\ able \subseteq DOMAIN slots
      /\ able \subseteq Schedulable(query, slots, admitted)
  <2>1. able \in SUBSET DOMAIN slots
      OBVIOUS
  <2>2. IsFiniteSet(able)
      BY <2>1, FS_Subset
  <2>3. able \subseteq Schedulable(query, slots, admitted)
      BY DEF Schedulable
  <2> QED BY <2>1, <2>2, <2>3
<1>3. \A v \in able : key[v] \in Int
    BY <1>2, HitsCounted
<1>4. G!Schedule(query, slots, replicas, admitted) =
          IF Len(order) < replicas THEN << >> ELSE SubSeq(order, 1, replicas)
    BY <1>1 DEF G!Schedule
<1> HIDE DEF able, key
<1>5. order \in [1..n -> able] /\ n \in Nat
    BY <1>2, <1>3, SortedIs
<1>6. Len(order) = n
    BY <1>5
<1>7. CASE Len(order) < replicas
    BY <1>4, <1>7
<1>8. CASE ~(Len(order) < replicas)
  <2>1. \A k \in 1..replicas : order[k] \in Schedulable(query, slots, admitted)
      BY <1>2, <1>5, <1>6, <1>8
  <2> HIDE DEF order
  <2>2. SubSeq(order, 1, replicas) \in Seq(Schedulable(query, slots, admitted))
      BY <2>1, SubSeqProperties
  <2> QED BY <1>4, <1>8, <2>2
<1> QED BY <1>7, <1>8

(* ... of the placement, ...                                                 *)

IsLarger(m, a, b) == m \in Int /\ m \in {a, b} /\ m >= a /\ m >= b
IsSmaller(m, a, b) == m \in Int /\ m \in {a, b} /\ m <= a /\ m <= b

LEMMA LargerOf ==
    ASSUME NEW a \in Int, NEW b \in Int
    PROVE  IsLarger(G!P!Max({a, b}), a, b) /\ IsSmaller(G!P!Min({a, b}), a, b)
<1>1. \E x \in {a, b} : \A y \in {a, b} : x >= y
    OBVIOUS
<1>2. \E x \in {a, b} : \A y \in {a, b} : x <= y
    OBVIOUS
<1>3. G!P!Max({a, b}) \in {a, b} /\ \A y \in {a, b} : G!P!Max({a, b}) >= y
    BY <1>1 DEF G!P!Max
<1>4. G!P!Min({a, b}) \in {a, b} /\ \A y \in {a, b} : G!P!Min({a, b}) <= y
    BY <1>2 DEF G!P!Min
<1> QED BY <1>3, <1>4 DEF IsLarger, IsSmaller

Modes == {"cpu", "full-accelerator", "sequential-cpu-offload"}

\* What is assumed of a request and of a snapshot of valid facts.
Measured(r, s) ==
    /\ G!P!PlacementRequestValid(r)
    /\ s.host \in Nat \cup {None}
    /\ s.gpu # None => s.gpu = [backend |-> s.gpu.backend, free |-> s.gpu.free,
                                probe |-> s.gpu.probe, precisions |-> s.gpu.precisions]
    /\ s.gpu # None => s.gpu.free \in Nat \cup {None}

\* An admission is for a mode in which the workload fits.
Suits(r, s, runtime, d) == d.disposition = "PASS" => d.mode \in Modes /\ G!P!Fits(r, s, runtime, d.mode)

LEMMA RequestNumbers ==
    ASSUME NEW r, G!P!PlacementRequestValid(r)
    PROVE  /\ r.model \in Nat /\ r.workspace \in Nat /\ r.reserve \in Nat
           /\ r.host # None => r.host \in Nat \ {0}
           /\ r.max_vram # None => r.max_vram \in Nat \ {0}
           /\ r.working # None => r.working \in Nat \ {0}
<1>1. /\ {r.model, r.workspace, r.reserve} \subseteq Nat
      /\ {r.host, r.max_vram, r.working} \ {None} \subseteq Nat \ {0}
    BY DEF G!P!PlacementRequestValid
<1> QED BY <1>1

LEMMA BudgetIs ==
    ASSUME NEW r, G!P!PlacementRequestValid(r), NEW gpu, gpu.free \in Nat
    PROVE  /\ G!P!EffectiveBudget(r, gpu) \in Int
           /\ G!P!EffectiveBudget(r, gpu) + r.reserve <= gpu.free \/ G!P!EffectiveBudget(r, gpu) = 0
           /\ r.max_vram # None => G!P!EffectiveBudget(r, gpu) <= r.max_vram
<1> DEFINE most == IF r.max_vram = None THEN gpu.free ELSE G!P!Min({gpu.free, r.max_vram})
           budget == G!P!Max({0, most - r.reserve})
<1>0. r.reserve \in Nat /\ (r.max_vram # None => r.max_vram \in Nat \ {0})
    BY RequestNumbers
<1>1. most \in Int /\ most <= gpu.free /\ (r.max_vram # None => most <= r.max_vram)
  <2>1. CASE r.max_vram = None
      BY <2>1
  <2>2. CASE r.max_vram # None
    <3>1. IsSmaller(G!P!Min({gpu.free, r.max_vram}), gpu.free, r.max_vram)
        BY <1>0, <2>2, LargerOf
    <3> QED BY <2>2, <3>1 DEF IsSmaller
  <2> QED BY <2>1, <2>2
<1>2. G!P!EffectiveBudget(r, gpu) = budget
    BY DEF G!P!EffectiveBudget
<1> HIDE DEF most
<1>3. most - r.reserve \in Int
    BY <1>0, <1>1
<1>4. IsLarger(budget, 0, most - r.reserve)
    BY <1>3, LargerOf
<1> HIDE DEF budget
<1>5. budget \in Int /\ (budget = 0 \/ budget = most - r.reserve)
    BY <1>4 DEF IsLarger
<1> QED BY <1>0, <1>1, <1>2, <1>5

LEMMA BudgetHolds ==
    ASSUME NEW r, G!P!PlacementRequestValid(r), NEW gpu, gpu.free \in Nat, NEW need \in Nat,
           need <= G!P!EffectiveBudget(r, gpu)
    PROVE  /\ need + r.reserve <= gpu.free \/ need = 0
           /\ r.max_vram # None => need <= r.max_vram
<1>1. r.reserve \in Nat /\ (r.max_vram # None => r.max_vram \in Nat \ {0})
    BY RequestNumbers
<1>2. /\ G!P!EffectiveBudget(r, gpu) \in Int
      /\ G!P!EffectiveBudget(r, gpu) + r.reserve <= gpu.free \/ G!P!EffectiveBudget(r, gpu) = 0
      /\ r.max_vram # None => G!P!EffectiveBudget(r, gpu) <= r.max_vram
    BY BudgetIs
<1> QED BY <1>1, <1>2

LEMMA CpuSuits ==
    ASSUME NEW r, NEW s, Measured(r, s), NEW runtime, NEW capabilities, r.device # "accelerator"
    PROVE  Suits(r, s, runtime, G!P!CpuDecision(r, s, capabilities))
<1> DEFINE d == G!P!CpuDecision(r, s, capabilities)
<1>0. r.host # None => r.host \in Nat \ {0}
    BY RequestNumbers DEF Measured
<1>1. G!P!HostRequirement(r, "cpu") = IF r.host = None THEN 0 ELSE r.host
    BY DEF G!P!HostRequirement
<1>2. d.disposition = "PASS" => d.mode = "cpu" /\ (r.host # None => s.host # None /\ ~(s.host < r.host))
    BY <1>0, <1>1 DEF G!P!CpuDecision, G!P!Denied, G!P!Admitted
<1>3. d.disposition = "PASS" => (r.host # None => s.host # None /\ s.host >= r.host)
    BY <1>0, <1>2 DEF Measured
<1> HIDE DEF d
<1>4. Suits(r, s, runtime, d)
    BY <1>2, <1>3 DEF Suits, Modes, G!P!Fits
<1> QED BY <1>4 DEF d

\* The accelerator as it was seen, or as the runtime observation has it.
Probes(s, runtime, gpu) ==
    /\ s.gpu # None /\ gpu.free = s.gpu.free
    /\ gpu.probe = IF runtime = None THEN s.gpu.probe ELSE runtime.probe

LEMMA OffloadSuits ==
    ASSUME NEW r, NEW s, Measured(r, s), NEW runtime, NEW capabilities, NEW gpu, NEW proof,
           Probes(s, runtime, gpu), gpu.probe = "PASS", gpu.free # None
    PROVE  Suits(r, s, runtime, G!P!OffloadDecision(r, s, capabilities, gpu, proof))
<1> DEFINE d == G!P!OffloadDecision(r, s, capabilities, gpu, proof)
           minimum == IF r.host = None THEN 0 ELSE r.host
           need == G!P!HostRequirement(r, "sequential-cpu-offload")
           working == IF r.working = None THEN r.workspace ELSE r.working
<1>0. /\ G!P!PlacementRequestValid(r) /\ r.model \in Nat /\ r.workspace \in Nat
      /\ r.host # None => r.host \in Nat \ {0}
      /\ r.working # None => r.working \in Nat \ {0}
    BY RequestNumbers DEF Measured
<1>1. gpu.free \in Nat
    BY DEF Probes, Measured
<1>2. CASE ~r.runtime_offload
  <2>1. CASE r.offload = "sequential-cpu" \/ r.device = "accelerator"
    <3>1. d.disposition = "UNKNOWN"
        BY <1>2, <2>1 DEF G!P!OffloadDecision, G!P!Denied
    <3> QED BY <3>1 DEF Suits
  <2>2. CASE ~(r.offload = "sequential-cpu" \/ r.device = "accelerator")
    <3>1. d = G!P!CpuDecision(r, s, capabilities)
        BY <1>2, <2>2 DEF G!P!OffloadDecision
    <3> QED BY <2>2, <3>1, CpuSuits
  <2> QED BY <2>1, <2>2
<1>3. CASE r.runtime_offload
  <2>1. need = G!P!Max({minimum, r.model})
      BY DEF G!P!HostRequirement
  <2>2. need \in Int /\ need >= minimum /\ need >= r.model
    <3>1. minimum \in Int
        BY <1>0
    <3> HIDE DEF minimum, need
    <3>2. IsLarger(G!P!Max({minimum, r.model}), minimum, r.model)
        BY <1>0, <3>1, LargerOf
    <3> QED BY <2>1, <3>2 DEF IsLarger
  <2>3. working \in Nat
      BY <1>0
  <2> SUFFICES ASSUME d.disposition = "PASS" PROVE d.mode \in Modes /\ G!P!Fits(r, s, runtime, d.mode)
      BY DEF Suits
  <2>4. /\ d.mode = "sequential-cpu-offload" /\ ~(working > G!P!EffectiveBudget(r, gpu))
        /\ need > 0 => s.host # None /\ ~(s.host < need)
      BY <1>3 DEF G!P!OffloadDecision, G!P!Denied, G!P!Admitted
  <2>5. r.host # None => s.host # None /\ s.host >= r.host
      BY <1>0, <2>2, <2>4 DEF Measured
  <2>6. r.model > 0 => s.host >= r.model
      BY <1>0, <2>2, <2>4 DEF Measured
  <2>7. /\ working + r.reserve <= gpu.free \/ working = 0
        /\ r.max_vram # None => working <= r.max_vram
    <3>1. G!P!EffectiveBudget(r, gpu) \in Int
        BY <1>0, <1>1, BudgetIs
    <3>2. working <= G!P!EffectiveBudget(r, gpu)
        BY <2>3, <2>4, <3>1
    <3> HIDE DEF working
    <3> QED BY <1>0, <1>1, <2>3, <3>2, BudgetHolds
  <2> HIDE DEF d, need
  <2> QED BY <1>3, <2>4, <2>5, <2>6, <2>7 DEF Modes, G!P!Fits, Probes
<1> QED BY <1>2, <1>3

\* The precision that was probed is the one that was asked for.
LEMMA PrecisionProbed ==
    ASSUME NEW gpu, NEW precision, precision = "float32"
    PROVE  G!P!PrecisionStatus(gpu, precision) \in {"unknown", "float32"}
<1> DEFINE order == <<"float32", "float16", "bfloat16">>
           probed == {i \in 1..3 : order[i] \in gpu.precisions /\ precision \in {"auto", order[i]}}
<1>1. G!P!PrecisionStatus(gpu, precision) = IF probed = {} THEN "unknown" ELSE order[G!P!Min(probed)]
    BY DEF G!P!PrecisionStatus
<1>2. probed \subseteq {1}
    OBVIOUS
<1>3. CASE probed = {}
    BY <1>1, <1>3
<1>4. CASE probed # {}
  <2>1. \E x \in probed : \A y \in probed : x <= y
      BY <1>2, <1>4
  <2> HIDE DEF probed
  <2>2. G!P!Min(probed) \in probed
      BY <2>1 DEF G!P!Min
  <2>3. G!P!Min(probed) = 1
      BY <1>2, <2>2
  <2> QED BY <1>1, <1>4, <2>3
<1> QED BY <1>3, <1>4

LEMMA AcceleratorSuits ==
    ASSUME NEW r, NEW s, Measured(r, s), NEW runtime, NEW capabilities, NEW gpu, NEW proof,
           Probes(s, runtime, gpu)
    PROVE  Suits(r, s, runtime, G!P!AcceleratorDecision(r, s, capabilities, gpu, proof))
<1> DEFINE d == G!P!AcceleratorDecision(r, s, capabilities, gpu, proof)
           precision == G!P!PrecisionStatus(gpu, r.precision)
           bytes == G!P!PrecisionBytes(r.model, precision)
           fits == bytes + r.workspace <= G!P!EffectiveBudget(r, gpu)
           need == r.workspace + (IF r.precision = "float32" THEN r.model ELSE (r.model + 1) \div 2)
<1>0. G!P!PlacementRequestValid(r) /\ r.model \in Nat /\ r.workspace \in Nat
    BY RequestNumbers DEF Measured
<1>1. CASE d.disposition # "PASS"
    BY <1>1 DEF Suits
<1>2. CASE d = G!P!CpuDecision(r, s, capabilities) /\ r.device # "accelerator"
    BY <1>2, CpuSuits
<1>3. CASE d = G!P!OffloadDecision(r, s, capabilities, gpu, proof) /\ gpu.probe = "PASS" /\ gpu.free # None
    BY <1>3, OffloadSuits
<1>4. CASE d = G!P!Admitted("full-accelerator") /\ fits /\ gpu.probe = "PASS" /\ gpu.free # None
           /\ precision # "unknown"
  <2>1. gpu.free \in Nat
      BY <1>4 DEF Probes, Measured
  <2>2. r.precision = "float32" => precision = "float32"
      BY <1>4, PrecisionProbed
  <2>3. bytes = IF precision \in {"float16", "bfloat16"} THEN (r.model + 1) \div 2 ELSE r.model
      BY DEF G!P!PrecisionBytes
  <2>4. G!P!EffectiveBudget(r, gpu) \in Int
      BY <1>0, <2>1, BudgetIs
  <2> HIDE DEF precision, bytes
  <2>5. need \in Nat /\ need <= bytes + r.workspace /\ bytes + r.workspace \in Int
      BY <1>0, <2>2, <2>3
  <2>6. need <= G!P!EffectiveBudget(r, gpu)
      BY <1>4, <2>4, <2>5
  <2> HIDE DEF need
  <2>7. /\ need + r.reserve <= gpu.free \/ need = 0
        /\ r.max_vram # None => need <= r.max_vram
      BY <1>0, <2>1, <2>5, <2>6, BudgetHolds
  <2>8. G!P!Admitted("full-accelerator").mode = "full-accelerator"
      BY DEF G!P!Admitted
  <2>9. G!P!Fits(r, s, runtime, "full-accelerator")
      BY <1>4, <2>7 DEF G!P!Fits, Probes, need
  <2>10. G!P!Admitted("full-accelerator").mode \in Modes
      BY <2>8 DEF Modes
  <2>11. Suits(r, s, runtime, G!P!Admitted("full-accelerator"))
      BY <2>8, <2>9, <2>10, Zenon DEF Suits
  <2> QED BY <1>4, <2>11, Zenon
<1> HIDE DEF precision, fits
<1>5. \/ d.disposition # "PASS"
      \/ d = G!P!CpuDecision(r, s, capabilities) /\ r.device # "accelerator"
      \/ d = G!P!OffloadDecision(r, s, capabilities, gpu, proof) /\ gpu.probe = "PASS" /\ gpu.free # None
      \/ d = G!P!Admitted("full-accelerator") /\ fits /\ gpu.probe = "PASS" /\ gpu.free # None
           /\ precision # "unknown"
    BY DEF G!P!AcceleratorDecision, G!P!Denied, precision, bytes, fits
<1> QED BY <1>1, <1>2, <1>3, <1>4, <1>5

LEMMA PlacementSuits ==
    ASSUME NEW r, NEW s, Measured(r, s), NEW runtime, NEW capabilities, NEW proof, NEW now
    PROVE  LET d == G!P!EvaluatePlacement(r, s, capabilities, runtime, proof, now)
           IN  Suits(r, s, runtime, d) /\ (d.disposition = "PASS" => now - s.at <= r.max_age)
<1> DEFINE d == G!P!EvaluatePlacement(r, s, capabilities, runtime, proof, now)
           gpu == IF s.gpu # None /\ runtime # None
                  THEN [s.gpu EXCEPT !.probe = runtime.probe, !.precisions = runtime.precisions]
                  ELSE s.gpu
<1>1. gpu # None => Probes(s, runtime, gpu)
  <2>1. CASE s.gpu # None /\ runtime # None
    <3> DEFINE g == [backend |-> s.gpu.backend, free |-> s.gpu.free,
                     probe |-> s.gpu.probe, precisions |-> s.gpu.precisions]
    <3>1. s.gpu = g
        BY <2>1 DEF Measured
    <3>2. gpu = [g EXCEPT !.probe = runtime.probe, !.precisions = runtime.precisions]
        BY <2>1, <3>1
    <3>3. gpu.free = s.gpu.free /\ gpu.probe = runtime.probe
        BY <3>2
    <3> QED BY <2>1, <3>3 DEF Probes
  <2>2. CASE ~(s.gpu # None /\ runtime # None)
      BY <2>2 DEF Probes
  <2> QED BY <2>1, <2>2
<1>2. ASSUME d.disposition # "PASS" PROVE Suits(r, s, runtime, d)
    BY <1>2 DEF Suits
<1>3. ASSUME d = G!P!CpuDecision(r, s, capabilities), r.device # "accelerator" PROVE Suits(r, s, runtime, d)
    BY <1>3, CpuSuits
<1>4. ASSUME d = G!P!AcceleratorDecision(r, s, capabilities, gpu, proof), gpu # None
      PROVE  Suits(r, s, runtime, d)
  <2> HIDE DEF d, gpu
  <2> QED BY <1>1, <1>4, AcceleratorSuits
<1>5. d.disposition = "PASS" => now - s.at <= r.max_age
    BY DEF G!P!EvaluatePlacement, G!P!Denied, G!P!FreshAt
<1>6. \/ d.disposition # "PASS"
      \/ d = G!P!CpuDecision(r, s, capabilities) /\ r.device # "accelerator"
      \/ d = G!P!AcceleratorDecision(r, s, capabilities, gpu, proof) /\ gpu # None
    BY DEF G!P!EvaluatePlacement, G!P!Denied
<1> HIDE DEF d, gpu
<1>7. Suits(r, s, runtime, d)
    BY <1>2, <1>3, <1>4, <1>6
<1> QED BY <1>5, <1>7 DEF d

(* ... and of the admission of an exact target.                              *)

LEMMA TargetAdmitted ==
    ASSUME NEW target, NEW state, NEW o, NEW now,
           G!T!EvaluateTargetAdmission(target, state, o, TRUE, TRUE, now).disposition = "PASS"
    PROVE  /\ state.membership = "ENROLLED" /\ o # None /\ G!T!AdmissionTrusted(o)
           /\ target.required \subseteq o.names /\ now - o.at <= target.capability_age
<1> DEFINE enrolled == state # None /\ state.membership = "ENROLLED"
           fresh == G!T!CapabilityFresh(target, o, now)
           checks ==
             << <<TRUE, "TARGET_CONTEXT_MISMATCH">>,
                <<TRUE, "TARGET_AUTHORIZATION_BINDING_INVALID">>,
                <<state # None, "TARGET_UNKNOWN">>,
                <<state # None => state.membership # "REVOKED", "TARGET_REVOKED">>,
                <<enrolled, "TARGET_UNKNOWN">>,
                <<enrolled => state.availability = "AVAILABLE" /\ state.present, "TARGET_DISCONNECTED">>,
                <<enrolled => G!T!Within(now - state.at, target.liveness_age), "TARGET_LIVENESS_STALE">>,
                <<fresh, "TARGET_CAPABILITIES_STALE">>,
                <<fresh => target.required \subseteq o.names, "TARGET_CAPABILITY_MISSING">>,
                <<fresh /\ target.tool # None => target.tool \in o.tools,
                  "TARGET_TOOL_CAPABILITY_MISMATCH">>,
                <<target.runtime # None => enrolled /\ state.profile = target.runtime,
                  "TARGET_RUNTIME_MISMATCH">> >>
           failed == {i \in DOMAIN checks : ~checks[i][1]}
           code == IF o # None /\ ~(o # None /\ G!T!AdmissionTrusted(o))
                   THEN "TARGET_CAPABILITY_UNVERIFIED"
                   ELSE IF failed = {} THEN "TARGET_ADMITTED" ELSE checks[G!T!Min(failed)][2]
<1>1. G!T!Dispositions[code] = "PASS"
    BY DEF G!T!EvaluateTargetAdmission
<1>0. DOMAIN checks = 1..11
    OBVIOUS
<1>2. failed \subseteq 1..11
  <2> HIDE DEF checks
  <2> QED BY <1>0
<1>3. failed # {} => G!T!Min(failed) \in 1..11
  <2> SUFFICES ASSUME failed # {} PROVE G!T!Min(failed) \in 1..11
      OBVIOUS
  <2> HIDE DEF failed
  <2>0. failed \subseteq Nat
      BY <1>2
  <2>1. PICK x \in failed : \A y \in failed : x <= y
      BY <2>0, LeastExists
  <2>2. G!T!Min(failed) \in failed
      BY <2>1 DEF G!T!Min
  <2> QED BY <1>2, <2>2
<1> DEFINE refusals == {"TARGET_UNKNOWN", "TARGET_REVOKED", "TARGET_DISCONNECTED",
               "TARGET_LIVENESS_STALE", "TARGET_CAPABILITIES_STALE", "TARGET_CAPABILITY_MISSING",
               "TARGET_RUNTIME_MISMATCH", "TARGET_CAPABILITY_UNVERIFIED",
               "TARGET_TOOL_CAPABILITY_MISMATCH", "TARGET_CONTEXT_MISMATCH",
               "TARGET_AUTHORIZATION_BINDING_INVALID"}
<1>4. \A i \in 1..11 : checks[i][2] \in refusals
    OBVIOUS
<1>5. \A c \in refusals : G!T!Dispositions[c] # "PASS"
    BY DEF G!T!Dispositions
<1>6. code \in refusals \/ (failed = {} /\ ~(o # None /\ ~(o # None /\ G!T!AdmissionTrusted(o))))
  <2> HIDE DEF checks, failed
  <2> QED BY <1>3, <1>4
<1>7. failed = {} /\ (o # None => G!T!AdmissionTrusted(o))
  <2> HIDE DEF failed, refusals, code
  <2> QED BY <1>1, <1>5, <1>6
<1>8. \A i \in 1..11 : checks[i][1]
  <2> HIDE DEF checks
  <2> QED BY <1>0, <1>7
<1>9. enrolled /\ fresh /\ (fresh => target.required \subseteq o.names)
  <2>1. checks[5][1] /\ checks[8][1] /\ checks[9][1]
      BY <1>8
  <2> QED BY <2>1
<1> QED BY <1>7, <1>9 DEF G!T!CapabilityFresh, G!T!Within
-----------------------------------------------------------------------------
(* The invariant.                                                            *)

\* What is absent is neither a description nor an age.
NoneIsNoDescription == None \notin Int /\ \A f, t : None # [facts |-> f, at |-> t]

DescriptionSet == [facts : Facts, at : Nat]
ReplySet == [kind : {"todo", "done", "timeout", "failed", "described"}, description : {None} \cup DescriptionSet]
ObservationSet ==
    {G!CapabilityObservation(w, role, asked, names, c - a) :
        w \in Workers, role \in {"admin", "consumer"}, asked \in {"operator-asserted", "worker-observed"},
        names \in Vouched, c \in Nat, a \in Captured}

SlotFields == {"active", "seen", "runtime", "offload"}
IsSlot(s) == s = [f \in SlotFields |-> s[f]]

\* What a thread can be doing.
IsProbing(c) ==
    \E r, p : /\ c = [op |-> "probing", request |-> r, probes |-> p]
              /\ r # None => r \in Requests /\ r.via # "target"
              /\ p \in [Workers -> ReplySet]
IsScheduling(c) == \E r \in Requests : r.via # "target" /\ c = [op |-> "schedule", request |-> r]
IsAdmitting(c) == \E r \in Requests : r.via = "target" /\ c = [op |-> "admit", request |-> r]
IsDispatching(c) ==
    \E r \in Requests : \E ws \in Seq(Workers) : \E n \in Nat \ {0} : \E nth, reply, executed, gate :
        /\ c = [op |-> "dispatching", request |-> r, workers |-> ws, next |-> n, nth |-> nth,
                reply |-> reply, executed |-> executed, gate |-> gate]
        /\ reply # None => n <= Len(ws)
IsObserving(c) ==
    \E w \in Workers : \E write, read :
        /\ c = [op |-> "observing", worker |-> w, write |-> write, read |-> read]
        /\ IsSlot(write) /\ write.active = read.active /\ write.seen = read.seen
IsIngested(c) == \E o \in ObservationSet : c = [op |-> "ingested", observation |-> o]
IsCall(c) ==
    \/ c = G!Idle \/ IsProbing(c) \/ IsScheduling(c) \/ IsAdmitting(c) \/ IsDispatching(c)
    \/ IsObserving(c) \/ IsIngested(c)

SlotsTyped(s) == s = [w \in Workers |-> s[w]] /\ \A w \in Workers : IsSlot(s[w])
CallsTyped(C) == C = [t \in Threads |-> C[t]] /\ \A t \in Threads : IsCall(C[t])
TypesOK ==
    /\ clock \in Nat /\ facts \in [Workers -> Facts]
    /\ SlotsTyped(slot) /\ CallsTyped(call) /\ ledger \in Seq(ObservationSet)

\* The history has what each worker is, and what it has been within the lease.
Lived(W, F, now) ==
    W = [w \in Workers |-> W[w]] /\ \A w \in Workers : [facts |-> F[w], at |-> now] \in W[w]

\* A description that was true of the worker when it was made.
Real(w, d, W, now) ==
    /\ d \in DescriptionSet /\ d.at <= now
    /\ now - d.at <= MaxAge => d \in W[w]

\* The records of a worker, in memory (d, l) and in the ledger (s): a worker
\* that was ever described stays so, and only one that was is AVAILABLE.
RecordsOK(w, d, l, s, W, now) ==
    /\ s = [f \in {"description", "liveness", "state"} |-> s[f]]
    /\ d # None => Real(w, d, W, now) /\ s.description # None
    /\ s.description # None => Real(w, s.description, W, now)
    /\ l.state = "AVAILABLE" => d # None
    /\ s.state # None /\ s.state.state = "AVAILABLE" => s.description # None
    /\ s.liveness # None /\ s.liveness.state = "AVAILABLE" => s.description # None
MemoryOK(D, L, S, W, now) ==
    /\ D = [w \in Workers |-> D[w]] /\ L = [w \in Workers |-> L[w]] /\ S = [w \in Workers |-> S[w]]
    /\ \A w \in Workers : RecordsOK(w, D[w], L[w], S[w], W, now)

\* So it is with the answers that are not applied yet.
ReplyOK(w, c, S, W, now) ==
    c.op = "probing" /\ c.probes[w].kind = "described" =>
        Real(w, c.probes[w].description, W, now) /\ c.probes[w].description # None /\ S[w].description # None
RepliesOK(C, S, W, now) == \A t \in Threads : \A w \in Workers : ReplyOK(w, C[t], S, W, now)

\* A slot is that of the description in memory, unless an observation was
\* written over it, and counts the dispatches that hold it.
Holds(c, w) == c.op = "dispatching" /\ c.request.via = "remote" /\ w \in G!ToSet(c.workers)
Holders(C, w) == {t \in Threads : Holds(C[t], w)}
Current(s, D, R) == \A w \in Workers \ R : s[w].seen = D[w]
Balanced(C, s, R) ==
    \A w \in Workers \ R : s[w].active = Cardinality(Holders(C, w)) /\ s[w].active <= Limit

\* The cache holds entries of the ledger that are trusted.
InLedger(o, l) == \E i \in DOMAIN l : l[i] = o
TrustedOK(T, l) ==
    /\ T = [w \in Workers |-> T[w]]
    /\ \A w \in Workers : T[w] # None => InLedger(T[w], l) /\ T[w].worker = w /\ G!T!AdmissionTrusted(T[w])
IngestOK(C, l) == \A t \in Threads : C[t].op = "ingested" => InLedger(C[t].observation, l)

ClientInv ==
    /\ TypesOK
    /\ Lived(was, facts, clock) /\ MemoryOK(description, liveness, stored, was, clock)
    /\ RepliesOK(call, stored, was, clock)
    /\ Current(slot, description, raced) /\ Balanced(call, slot, raced)
    /\ TrustedOK(trusted, ledger) /\ IngestOK(call, ledger)

(* What a step of one thread does to the calls.                              *)

LEMMA CallKinds ==
    ASSUME NEW c, IsCall(c)
    PROVE  /\ c = G!Idle => c.op = "idle"
           /\ c.op = "idle" => c = G!Idle
           /\ c.op = "probing" => IsProbing(c)
           /\ c.op = "schedule" => IsScheduling(c)
           /\ c.op = "admit" => IsAdmitting(c)
           /\ c.op = "dispatching" => IsDispatching(c)
           /\ c.op = "observing" => IsObserving(c)
           /\ c.op = "ingested" => IsIngested(c)
<1>1. G!Idle.op = "idle"
    BY DEF G!Idle
<1>2. IsProbing(c) => c.op = "probing"
    BY DEF IsProbing
<1>3. IsScheduling(c) => c.op = "schedule"
    BY DEF IsScheduling
<1>4. IsAdmitting(c) => c.op = "admit"
    BY DEF IsAdmitting
<1>5. IsDispatching(c) => c.op = "dispatching"
    BY DEF IsDispatching
<1>6. IsObserving(c) => c.op = "observing"
    BY DEF IsObserving
<1>7. IsIngested(c) => c.op = "ingested"
    BY DEF IsIngested
<1> QED BY <1>1, <1>2, <1>3, <1>4, <1>5, <1>6, <1>7 DEF IsCall

\* A dispatch that begins.
LEMMA DispatchingIs ==
    ASSUME NEW r \in Requests, NEW ws \in Seq(Workers), NEW nth, NEW gate, NEW c,
           c = [op |-> "dispatching", request |-> r, workers |-> ws, next |-> 1, nth |-> nth,
                reply |-> None, executed |-> FALSE, gate |-> gate]
    PROVE  /\ c.op = "dispatching" /\ c.request = r /\ c.workers = ws /\ IsCall(c)
<1>1. IsDispatching(c)
  <2>1. 1 \in Nat \ {0}
      OBVIOUS
  <2> QED BY <2>1 DEF IsDispatching
<1> QED BY <1>1 DEF IsCall

Turned(C, D, t, c) == D = [u \in Threads |-> D[u]] /\ D[t] = c /\ \A u \in Threads \ {t} : D[u] = C[u]

LEMMA TurnIs ==
    ASSUME NEW C, CallsTyped(C), NEW t \in Threads, NEW c
    PROVE  Turned(C, [C EXCEPT ![t] = c], t, c)
BY DEF Turned, CallsTyped

LEMMA TurnTyped ==
    ASSUME NEW C, CallsTyped(C), NEW D, NEW t \in Threads, NEW c, Turned(C, D, t, c), IsCall(c)
    PROVE  CallsTyped(D)
BY DEF Turned, CallsTyped

LEMMA TurnReplies ==
    ASSUME NEW C, NEW D, NEW t \in Threads, NEW c, Turned(C, D, t, c), NEW S, NEW W, NEW now,
           RepliesOK(C, S, W, now), \A w \in Workers : ReplyOK(w, c, S, W, now)
    PROVE  RepliesOK(D, S, W, now)
BY DEF Turned, RepliesOK

LEMMA TurnIngest ==
    ASSUME NEW C, NEW D, NEW t \in Threads, NEW c, Turned(C, D, t, c), NEW l,
           IngestOK(C, l), c.op = "ingested" => InLedger(c.observation, l)
    PROVE  IngestOK(D, l)
BY DEF Turned, IngestOK

LEMMA TurnHolders ==
    ASSUME NEW C, NEW D, NEW t \in Threads, NEW c, Turned(C, D, t, c), NEW w
    PROVE  /\ Holds(c, w) => Holders(D, w) = Holders(C, w) \cup {t}
           /\ ~Holds(c, w) => Holders(D, w) = Holders(C, w) \ {t}
           /\ t \in Holders(C, w) <=> Holds(C[t], w)
BY DEF Turned, Holders

LEMMA TurnKeeps ==
    ASSUME NEW C, NEW D, NEW t \in Threads, NEW c, Turned(C, D, t, c), NEW w, Holds(c, w) <=> Holds(C[t], w)
    PROVE  Holders(D, w) = Holders(C, w)
BY DEF Turned, Holders

LEMMA HoldersFinite ==
    ASSUME IsFiniteSet(Threads), NEW C, NEW w
    PROVE  IsFiniteSet(Holders(C, w)) /\ Cardinality(Holders(C, w)) \in Nat
<1>1. Holders(C, w) \in SUBSET Threads
    BY DEF Holders
<1>2. IsFiniteSet(Holders(C, w))
    BY <1>1, FS_Subset
<1> QED BY <1>2, FS_CardinalityType

\* A turn that takes and gives back nothing.
LEMMA TurnBalanced ==
    ASSUME NEW C, NEW D, NEW t \in Threads, NEW c, Turned(C, D, t, c), NEW s, NEW q, NEW R, NEW Q,
           Balanced(C, s, R), R \subseteq Q, \A w \in Workers : Holds(c, w) <=> Holds(C[t], w),
           \A w \in Workers \ Q : q[w].active = s[w].active
    PROVE  Balanced(D, q, Q)
<1> SUFFICES ASSUME NEW w \in Workers \ Q
             PROVE  q[w].active = Cardinality(Holders(D, w)) /\ q[w].active <= Limit
    BY DEF Balanced
<1>1. Holders(D, w) = Holders(C, w)
    BY TurnKeeps
<1> QED BY <1>1 DEF Balanced

(* What time, changes of the worker and records leave as it was.             *)

\* Going on: the history forgets only what is older than the lease.
Later(W, now, V, then) ==
    /\ now \in Nat /\ then \in Nat /\ now <= then
    /\ \A w \in Workers : \A d \in W[w] : d.at \in Nat /\ then - d.at <= MaxAge => d \in V[w]

LEMMA RealKept ==
    ASSUME NEW W, NEW V, NEW now, NEW then, Later(W, now, V, then), MaxAge \in Nat, NEW w \in Workers, NEW d,
           Real(w, d, W, now)
    PROVE  Real(w, d, V, then)
<1>1. d \in DescriptionSet /\ d.at \in Nat /\ d.at <= now /\ (now - d.at <= MaxAge => d \in W[w])
    BY DEF Real, DescriptionSet
<1>2. d.at <= then
    BY <1>1 DEF Later
<1>3. then - d.at <= MaxAge => now - d.at <= MaxAge
    BY <1>1 DEF Later
<1>4. then - d.at <= MaxAge => d \in V[w]
    BY <1>1, <1>3 DEF Later
<1> QED BY <1>1, <1>2, <1>4 DEF Real

LEMMA MemoryKept ==
    ASSUME NEW W, NEW V, NEW now, NEW then, Later(W, now, V, then), MaxAge \in Nat,
           NEW D, NEW L, NEW S, MemoryOK(D, L, S, W, now)
    PROVE  MemoryOK(D, L, S, V, then)
BY RealKept DEF MemoryOK, RecordsOK

LEMMA RepliesKept ==
    ASSUME NEW W, NEW V, NEW now, NEW then, Later(W, now, V, then), MaxAge \in Nat,
           NEW C, NEW S, RepliesOK(C, S, W, now)
    PROVE  RepliesOK(C, S, V, then)
BY RealKept DEF RepliesOK, ReplyOK

LEMMA RepliesStay ==
    ASSUME NEW C, NEW S, NEW P, NEW W, NEW now, RepliesOK(C, S, W, now),
           \A w \in Workers : S[w].description # None => P[w].description # None
    PROVE  RepliesOK(C, P, W, now)
BY DEF RepliesOK, ReplyOK

\* _set_remote_state, with a description that is real or without one.
LEMMA RemoteState ==
    ASSUME NEW w \in Workers, NEW d, NEW state, G!SetRemoteState(w, d, state), ClientInv,
           d = None => state # "AVAILABLE",
           d # None => Real(w, d, was, clock) /\ stored[w].description # None
    PROVE  /\ MemoryOK(description', liveness', stored', was, clock)
           /\ \A v \in Workers : stored[v].description # None => stored'[v].description # None
           /\ SlotsTyped(slot') /\ \A v \in Workers : slot'[v].active = slot[v].active
           /\ Current(slot', description', raced)
<1>0. /\ MemoryOK(description, liveness, stored, was, clock) /\ SlotsTyped(slot)
      /\ Current(slot, description, raced)
    BY DEF ClientInv, TypesOK
<1> DEFINE fresh == G!Liveness(state)
           runtime == G!StillValid(observed[w].runtime, d)
           offload == G!StillValid(observed[w].offload, d)
<1>1. fresh.state = state
    BY DEF G!Liveness
<1>2. liveness' = [liveness EXCEPT ![w] = fresh]
    BY DEF G!SetRemoteState
<1>3. stored' = [stored EXCEPT ![w].state = fresh] \/ stored' = [stored EXCEPT ![w].liveness = fresh]
    BY DEF G!SetRemoteState
<1>4. d # None => /\ description' = [description EXCEPT ![w] = d]
                  /\ slot' = [slot EXCEPT ![w] = [active |-> slot[w].active, seen |-> d,
                                                  runtime |-> runtime, offload |-> offload]]
    BY DEF G!SetRemoteState
<1>5. d = None => description' = description /\ slot' = slot
                  /\ stored' = [stored EXCEPT ![w].liveness = fresh]
    BY DEF G!SetRemoteState
<1> HIDE DEF fresh, runtime, offload
<1> DEFINE old == stored[w]
           new == stored'[w]
<1>6. /\ stored' = [v \in Workers |-> stored'[v]]
      /\ \A v \in Workers : stored'[v].description = stored[v].description
      /\ \A v \in Workers \ {w} : stored'[v] = stored[v]
      /\ new = [f \in {"description", "liveness", "state"} |-> new[f]]
      /\ new.state \in {old.state, fresh} /\ new.liveness \in {old.liveness, fresh}
  <2>1. stored = [v \in Workers |-> stored[v]] /\ old = [f \in {"description", "liveness", "state"} |-> old[f]]
      BY <1>0 DEF MemoryOK, RecordsOK
  <2>2. PICK g \in {"state", "liveness"} : stored' = [stored EXCEPT ![w] = [old EXCEPT ![g] = fresh]]
      BY <1>3
  <2>3. /\ stored' = [v \in Workers |-> stored'[v]] /\ new = [old EXCEPT ![g] = fresh]
        /\ \A v \in Workers \ {w} : stored'[v] = stored[v]
      BY <2>1, <2>2
  <2> HIDE DEF old, new
  <2>4. /\ new = [f \in {"description", "liveness", "state"} |-> new[f]]
        /\ new.description = old.description
        /\ new.state \in {old.state, fresh} /\ new.liveness \in {old.liveness, fresh}
      BY <2>1, <2>3
  <2> QED BY <2>3, <2>4 DEF old, new
<1>7. /\ description' = [v \in Workers |-> description'[v]] /\ liveness' = [v \in Workers |-> liveness'[v]]
      /\ \A v \in Workers \ {w} : description'[v] = description[v] /\ liveness'[v] = liveness[v]
      /\ liveness'[w] = fresh /\ description'[w] = IF d = None THEN description[w] ELSE d
    BY <1>0, <1>2, <1>4, <1>5 DEF MemoryOK
<1>8. ASSUME NEW v \in Workers PROVE RecordsOK(v, description'[v], liveness'[v], stored'[v], was, clock)
  <2>1. RecordsOK(v, description[v], liveness[v], stored[v], was, clock)
      BY <1>0 DEF MemoryOK
  <2>2. CASE v # w
      BY <1>6, <1>7, <2>1, <2>2
  <2>3. CASE v = w
    <3>1. fresh.state = "AVAILABLE" => description'[w] # None /\ stored[w].description # None
        BY <1>1, <1>7
    <3> QED BY <1>6, <1>7, <2>1, <2>3, <3>1 DEF RecordsOK
  <2> QED BY <2>2, <2>3
<1>9. MemoryOK(description', liveness', stored', was, clock)
    BY <1>6, <1>7, <1>8 DEF MemoryOK
<1>10. /\ SlotsTyped(slot') /\ \A v \in Workers : slot'[v].active = slot[v].active
       /\ Current(slot', description', raced)
  <2>1. CASE d = None
      BY <1>0, <1>5, <2>1
  <2>2. CASE d # None
      BY <1>0, <1>4, <1>7, <2>2 DEF SlotsTyped, IsSlot, SlotFields, Current
  <2> QED BY <2>1, <2>2
<1> QED BY <1>6, <1>9, <1>10
-----------------------------------------------------------------------------
(* Every step keeps the invariant.                                           *)

\* A turn to a call that holds nothing, from one that holds nothing.
LEMMA QuietTurn ==
    ASSUME ClientInv, NEW t \in Threads, NEW c, call' = [call EXCEPT ![t] = c], IsCall(c),
           \A w \in Workers : ReplyOK(w, c, stored, was, clock),
           c.op \notin {"ingested", "dispatching"}, call[t].op # "dispatching",
           UNCHANGED <<clock, facts, slot, ledger, was, description, liveness, stored, raced, trusted>>
    PROVE  ClientInv'
<1>0. CallsTyped(call)
    BY DEF ClientInv, TypesOK
<1>1. Turned(call, call', t, c)
    BY <1>0, TurnIs
<1>2. CallsTyped(call')
    BY <1>0, <1>1, TurnTyped
<1>3. RepliesOK(call', stored, was, clock)
    BY <1>1, TurnReplies DEF ClientInv
<1>4. IngestOK(call', ledger)
    BY <1>1, TurnIngest DEF ClientInv
<1>5. \A w \in Workers : Holds(c, w) <=> Holds(call[t], w)
    BY DEF Holds
<1>6. Balanced(call, slot, raced)
    BY DEF ClientInv
<1>7. Balanced(call', slot, raced)
    BY <1>1, <1>5, <1>6, TurnBalanced
<1> QED BY <1>2, <1>3, <1>4, <1>7 DEF ClientInv, TypesOK

LEMMA ProbingIs ==
    ASSUME NEW r, r # None => r \in Requests /\ r.via # "target"
    PROVE  /\ IsProbing(G!Probing(r)) /\ G!Probing(r).op = "probing"
           /\ \A w \in Workers : G!Probing(r).probes[w].kind = "todo"
<1> DEFINE p == [w \in Workers |-> G!Reply("todo", None)]
<1>1. p \in [Workers -> ReplySet] /\ \A w \in Workers : p[w].kind = "todo"
    BY DEF G!Reply, ReplySet
<1>2. G!Probing(r) = [op |-> "probing", request |-> r, probes |-> p]
    BY DEF G!Probing
<1> HIDE DEF p
<1>3. IsProbing(G!Probing(r))
    BY <1>1, <1>2, Zenon DEF IsProbing
<1>4. G!Probing(r).op = "probing" /\ G!Probing(r).probes = p
    BY <1>2
<1> QED BY <1>1, <1>3, <1>4

LEMMA StartRefreshOK == ASSUME ClientInv, NEW t \in Threads, G!StartRefresh(t) PROVE ClientInv'
<1> DEFINE c == G!Probing(None)
<1>1. /\ call' = [call EXCEPT ![t] = c] /\ call[t] = G!Idle
      /\ UNCHANGED <<clock, facts, slot, ledger, was, description, liveness, stored, raced, trusted>>
    BY DEF G!StartRefresh, G!Become, G!worker, G!memory, G!service
<1>2. IsProbing(c) /\ c.op = "probing" /\ \A w \in Workers : c.probes[w].kind = "todo"
    BY ProbingIs
<1>3. \A w \in Workers : ReplyOK(w, c, stored, was, clock)
    BY <1>2 DEF ReplyOK
<1> HIDE DEF c
<1>4. call[t].op = "idle"
    BY <1>1 DEF G!Idle
<1> QED BY <1>1, <1>2, <1>3, <1>4, QuietTurn DEF IsCall

LEMMA StartDispatchOK ==
    ASSUME ClientInv, NEW t \in Threads, NEW r \in Requests, G!StartDispatch(t, r) PROVE ClientInv'
<1> DEFINE c == IF r.via = "target" THEN [op |-> "admit", request |-> r]
                ELSE IF r.placement # None THEN G!Probing(r)
                ELSE [op |-> "schedule", request |-> r]
<1>1. /\ call' = [call EXCEPT ![t] = c] /\ call[t] = G!Idle
      /\ UNCHANGED <<clock, facts, slot, ledger, was, description, liveness, stored, raced, trusted>>
    BY DEF G!StartDispatch, G!Become, G!worker, G!memory, G!service
<1>2. IsCall(c) /\ c.op \in {"admit", "schedule", "probing"}
      /\ (c.op = "probing" => \A w \in Workers : c.probes[w].kind = "todo")
  <2>1. CASE r.via = "target"
      BY <2>1 DEF IsCall, IsAdmitting
  <2>2. CASE r.via # "target" /\ r.placement # None
    <3>1. c = G!Probing(r)
        BY <2>2
    <3>2. IsProbing(G!Probing(r)) /\ \A w \in Workers : G!Probing(r).probes[w].kind = "todo"
        BY <2>2, ProbingIs
    <3>3. G!Probing(r).op = "probing"
        BY DEF G!Probing
    <3> QED BY <3>1, <3>2, <3>3 DEF IsCall
  <2>3. CASE r.via # "target" /\ r.placement = None
      BY <2>3 DEF IsCall, IsScheduling
  <2> QED BY <2>1, <2>2, <2>3
<1> HIDE DEF c
<1>3. \A w \in Workers : ReplyOK(w, c, stored, was, clock)
    BY <1>2 DEF ReplyOK
<1>4. call[t].op = "idle"
    BY <1>1 DEF G!Idle
<1> QED BY <1>1, <1>2, <1>3, <1>4, QuietTurn

LEMMA EndProbingOK == ASSUME ClientInv, NEW t \in Threads, G!EndProbing(t) PROVE ClientInv'
<1> DEFINE c == IF call[t].request = None THEN G!Idle ELSE [op |-> "schedule", request |-> call[t].request]
<1>1. /\ call' = [call EXCEPT ![t] = c] /\ call[t].op = "probing"
      /\ UNCHANGED <<clock, facts, slot, ledger, was, description, liveness, stored, raced, trusted>>
    BY DEF G!EndProbing, G!Become, G!worker, G!memory, G!service
<1>2. IsProbing(call[t])
    BY <1>1, CallKinds DEF ClientInv, TypesOK, CallsTyped
<1>3. IsCall(c) /\ c.op \in {"idle", "schedule"}
  <2>1. call[t].request # None => call[t].request \in Requests /\ call[t].request.via # "target"
      BY <1>2 DEF IsProbing
  <2>2. CASE call[t].request = None
      BY <2>2 DEF IsCall, G!Idle
  <2>3. CASE call[t].request # None
      BY <2>1, <2>3 DEF IsCall, IsScheduling
  <2> QED BY <2>2, <2>3
<1> HIDE DEF c
<1>4. \A w \in Workers : ReplyOK(w, c, stored, was, clock)
    BY <1>3 DEF ReplyOK
<1> QED BY <1>1, <1>3, <1>4, QuietTurn

LEMMA AskOK ==
    ASSUME ClientInv, NoneIsNoDescription, MaxAge \in Nat, NEW t \in Threads, NEW w \in Workers, G!Ask(t, w)
    PROVE  ClientInv'
<1>0. /\ CallsTyped(call) /\ call[t].op = "probing" /\ clock \in Nat /\ facts \in [Workers -> Facts]
      /\ MemoryOK(description, liveness, stored, was, clock)
    BY DEF ClientInv, TypesOK, G!Ask
<1>1. UNCHANGED <<clock, facts, slot, ledger, was, description, liveness, raced, trusted>>
    BY DEF G!Ask, G!worker, G!service
<1>2. PICK reply :
        /\ reply \in {G!Reply("timeout", None), G!Reply("failed", None)} \/ reply = G!Reply("described", G!Description(w))
        /\ call' = [call EXCEPT ![t].probes[w] = reply]
        /\ stored' = IF reply.kind = "described" /\ reply.description # description[w]
                     THEN [stored EXCEPT ![w].description = reply.description] ELSE stored
    BY DEF G!Ask
<1>3. Real(w, G!Description(w), was, clock) /\ G!Description(w) # None /\ G!Description(w) \in DescriptionSet
    BY <1>0 DEF ClientInv, Lived, Real, G!Description, DescriptionSet, NoneIsNoDescription
<1>4. reply \in ReplySet /\ (reply.kind = "described" => reply.description = G!Description(w))
    BY <1>2, <1>3 DEF G!Reply, ReplySet
<1>5. IsProbing(call[t])
    BY <1>0, CallKinds DEF CallsTyped
<1>6. PICK r, p : /\ call[t] = [op |-> "probing", request |-> r, probes |-> p]
                  /\ r # None => r \in Requests /\ r.via # "target"
                  /\ p \in [Workers -> ReplySet]
    BY <1>5 DEF IsProbing
<1> DEFINE q == [p EXCEPT ![w] = reply]
           c == [op |-> "probing", request |-> r, probes |-> q]
<1>7. q \in [Workers -> ReplySet] /\ q[w] = reply /\ \A v \in Workers \ {w} : q[v] = p[v]
    BY <1>4, <1>6
<1>8. call' = [call EXCEPT ![t] = c]
  <2>1. call' = [call EXCEPT ![t] = [call[t] EXCEPT !.probes = [call[t].probes EXCEPT ![w] = reply]]]
      BY <1>2
  <2>2. [call[t] EXCEPT !.probes = [call[t].probes EXCEPT ![w] = reply]] = c
    <3>1. call[t].probes = p
        BY <1>6
    <3> HIDE DEF q
    <3>2. [call[t] EXCEPT !.probes = q] = c
        BY <1>6
    <3> QED BY <3>1, <3>2 DEF q
  <2> HIDE DEF c
  <2> QED BY <2>1, <2>2
<1>9. c.op = "probing" /\ c.probes = q /\ IsCall(c)
    BY <1>6, <1>7 DEF IsCall, IsProbing
<1> HIDE DEF c, q
<1>10. Turned(call, call', t, c)
    BY <1>0, <1>8, TurnIs
<1>11. CallsTyped(call')
    BY <1>0, <1>9, <1>10, TurnTyped
<1>12. /\ MemoryOK(description, liveness, stored', was, clock)
       /\ \A v \in Workers : stored[v].description # None => stored'[v].description # None
       /\ reply.kind = "described" => stored'[w].description # None
  <2>1. CASE reply.kind = "described" /\ reply.description # description[w]
    <3>1. stored' = [stored EXCEPT ![w] = [stored[w] EXCEPT !.description = G!Description(w)]]
        BY <1>2, <1>4, <2>1
    <3>2. stored = [v \in Workers |-> stored[v]]
          /\ \A v \in Workers : RecordsOK(v, description[v], liveness[v], stored[v], was, clock)
        BY <1>0 DEF MemoryOK
    <3>3. stored' = [v \in Workers |-> stored'[v]] /\ \A v \in Workers \ {w} : stored'[v] = stored[v]
        BY <3>1, <3>2
    <3> DEFINE old == stored[w]
               new == stored'[w]
    <3>4. old = [f \in {"description", "liveness", "state"} |-> old[f]] /\ new = [old EXCEPT !.description = G!Description(w)]
        BY <3>1, <3>2 DEF RecordsOK
    <3> HIDE DEF old, new
    <3>5. /\ new = [f \in {"description", "liveness", "state"} |-> new[f]]
          /\ new.description = G!Description(w) /\ new.state = old.state /\ new.liveness = old.liveness
        BY <3>4
    <3>6. RecordsOK(w, description[w], liveness[w], stored'[w], was, clock)
        BY <1>3, <3>2, <3>5 DEF RecordsOK, old, new
    <3> QED BY <1>0, <1>3, <3>2, <3>3, <3>5, <3>6 DEF MemoryOK, new
  <2>2. CASE reply.kind = "described" /\ reply.description = description[w]
      BY <1>0, <1>2, <1>3, <1>4, <2>2 DEF MemoryOK, RecordsOK
  <2>3. CASE reply.kind # "described"
      BY <1>0, <1>2, <2>3
  <2> QED BY <2>1, <2>2, <2>3
<1>13. RepliesOK(call, stored', was, clock) /\ RepliesOK(call, stored, was, clock)
    BY <1>12, RepliesStay DEF ClientInv
<1>14. ASSUME NEW v \in Workers PROVE ReplyOK(v, c, stored', was, clock)
  <2>1. CASE v = w
      BY <1>3, <1>4, <1>7, <1>9, <1>12, <2>1 DEF ReplyOK
  <2>2. CASE v # w
    <3>1. ReplyOK(v, call[t], stored', was, clock) /\ call[t].op = "probing" /\ call[t].probes = p
        BY <1>6, <1>13 DEF RepliesOK
    <3> QED BY <1>7, <1>9, <2>2, <3>1 DEF ReplyOK
  <2> QED BY <2>1, <2>2
<1>15. RepliesOK(call', stored', was, clock)
    BY <1>10, <1>13, <1>14, TurnReplies
<1>16. IngestOK(call', ledger)
    BY <1>9, <1>10, TurnIngest DEF ClientInv
<1>17. \A v \in Workers : Holds(c, v) <=> Holds(call[t], v)
    BY <1>0, <1>9 DEF Holds
<1>18. Balanced(call, slot, raced)
    BY DEF ClientInv
<1>19. Balanced(call', slot, raced)
    BY <1>10, <1>17, <1>18, TurnBalanced
<1> QED BY <1>1, <1>11, <1>12, <1>15, <1>16, <1>19 DEF ClientInv, TypesOK

\* A turn that keeps the requests and the workers of the call and may write
\* the records of a worker.
LEMMA RecordingTurn ==
    ASSUME ClientInv, NEW t \in Threads, NEW c, call' = [call EXCEPT ![t] = c], IsCall(c),
           c.op # "ingested", \A w \in Workers : Holds(c, w) <=> Holds(call[t], w),
           \A w \in Workers : ReplyOK(w, c, stored', was, clock),
           UNCHANGED <<clock, facts, ledger, was, raced, trusted>>,
           MemoryOK(description', liveness', stored', was, clock),
           \A v \in Workers : stored[v].description # None => stored'[v].description # None,
           SlotsTyped(slot'), \A v \in Workers : slot'[v].active = slot[v].active,
           Current(slot', description', raced)
    PROVE  ClientInv'
<1>0. CallsTyped(call)
    BY DEF ClientInv, TypesOK
<1>1. Turned(call, call', t, c)
    BY <1>0, TurnIs
<1>2. CallsTyped(call')
    BY <1>0, <1>1, TurnTyped
<1>3. RepliesOK(call, stored', was, clock)
    BY RepliesStay DEF ClientInv
<1>4. RepliesOK(call', stored', was, clock)
    BY <1>1, <1>3, TurnReplies
<1>5. IngestOK(call', ledger)
    BY <1>1, TurnIngest DEF ClientInv
<1>6. Balanced(call, slot, raced)
    BY DEF ClientInv
<1>7. Balanced(call', slot', raced)
    BY <1>1, <1>6, TurnBalanced
<1> QED BY <1>2, <1>4, <1>5, <1>7 DEF ClientInv, TypesOK

\* The memory, left alone.
LEMMA MemoryAlone ==
    ASSUME ClientInv, UNCHANGED <<description, liveness, slot, stored>>
    PROVE  /\ MemoryOK(description', liveness', stored', was, clock)
           /\ \A v \in Workers : stored[v].description # None => stored'[v].description # None
           /\ SlotsTyped(slot') /\ \A v \in Workers : slot'[v].active = slot[v].active
           /\ Current(slot', description', raced)
BY DEF ClientInv, TypesOK

LEMMA ProbeOK == ASSUME ClientInv, NEW t \in Threads, NEW w \in Workers, G!Probe(t, w) PROVE ClientInv'
<1>0. /\ CallsTyped(call) /\ call[t].op = "probing" /\ call[t].probes[w].kind \notin {"todo", "done"}
      /\ call' = [call EXCEPT ![t].probes[w] = G!Reply("done", None)]
      /\ UNCHANGED <<clock, facts, ledger, was, raced, trusted>>
    BY DEF ClientInv, TypesOK, G!Probe, G!worker, G!service
<1>1. IsProbing(call[t])
    BY <1>0, CallKinds DEF CallsTyped
<1>2. PICK r, p : /\ call[t] = [op |-> "probing", request |-> r, probes |-> p]
                  /\ r # None => r \in Requests /\ r.via # "target"
                  /\ p \in [Workers -> ReplySet]
    BY <1>1 DEF IsProbing
<1> DEFINE done == G!Reply("done", None)
           q == [p EXCEPT ![w] = done]
           c == [op |-> "probing", request |-> r, probes |-> q]
           reply == call[t].probes[w]
<1>3. done \in ReplySet /\ done.kind = "done"
    BY DEF G!Reply, ReplySet
<1> HIDE DEF done
<1>4. q \in [Workers -> ReplySet] /\ q[w] = done /\ \A v \in Workers \ {w} : q[v] = p[v]
    BY <1>2, <1>3
<1>5. call' = [call EXCEPT ![t] = c]
  <2>1. call' = [call EXCEPT ![t] = [call[t] EXCEPT !.probes = [call[t].probes EXCEPT ![w] = done]]]
      BY <1>0 DEF done
  <2>2. [call[t] EXCEPT !.probes = [call[t].probes EXCEPT ![w] = done]] = c
    <3>1. call[t].probes = p
        BY <1>2
    <3> HIDE DEF q
    <3>2. [call[t] EXCEPT !.probes = q] = c
        BY <1>2
    <3> QED BY <3>1, <3>2 DEF q
  <2> HIDE DEF c
  <2> QED BY <2>1, <2>2
<1>6. c.op = "probing" /\ c.probes = q /\ IsCall(c)
    BY <1>2, <1>4 DEF IsCall, IsProbing
<1> HIDE DEF c, q
<1>7. reply \in ReplySet /\ reply.kind \in {"timeout", "failed", "described"}
    BY <1>0, <1>2 DEF ReplySet
<1>8. ReplyOK(w, call[t], stored, was, clock)
    BY DEF ClientInv, RepliesOK
<1>9. /\ MemoryOK(description', liveness', stored', was, clock)
      /\ \A v \in Workers : stored[v].description # None => stored'[v].description # None
      /\ SlotsTyped(slot') /\ \A v \in Workers : slot'[v].active = slot[v].active
      /\ Current(slot', description', raced)
  <2>1. CASE reply.kind = "timeout"
    <3>1. UNCHANGED <<description, liveness, slot, stored>>
        BY <2>1 DEF G!Probe, G!memory
    <3> QED BY <3>1, MemoryAlone
  <2>2. CASE reply.kind = "failed"
    <3>1. G!SetRemoteState(w, None, "UNAVAILABLE")
        BY <2>2 DEF G!Probe
    <3> QED BY <3>1, RemoteState
  <2>3. CASE reply.kind = "described"
    <3>1. \/ G!SetRemoteState(w, reply.description, "AVAILABLE")
          \/ G!SetRemoteState(w, None, "UNKNOWN")
        BY <2>3 DEF G!Probe
    <3>2. CASE G!SetRemoteState(w, None, "UNKNOWN")
        BY <3>2, RemoteState
    <3>3. CASE G!SetRemoteState(w, reply.description, "AVAILABLE")
      <4>1. Real(w, reply.description, was, clock) /\ reply.description # None /\ stored[w].description # None
          BY <1>0, <1>8, <2>3 DEF ReplyOK
      <4> QED BY <3>3, <4>1, RemoteState
    <3> QED BY <3>1, <3>2, <3>3
  <2> QED BY <1>7, <2>1, <2>2, <2>3
<1>10. ASSUME NEW v \in Workers PROVE ReplyOK(v, c, stored', was, clock)
  <2>1. CASE v = w
      BY <1>3, <1>4, <1>6, <2>1 DEF ReplyOK
  <2>2. CASE v # w
    <3>1. ReplyOK(v, call[t], stored, was, clock) /\ call[t].op = "probing" /\ call[t].probes = p
        BY <1>2 DEF RepliesOK, ClientInv
    <3> QED BY <1>4, <1>6, <1>9, <2>2, <3>1 DEF ReplyOK
  <2> QED BY <2>1, <2>2
<1>11. \A v \in Workers : Holds(c, v) <=> Holds(call[t], v)
    BY <1>0, <1>6 DEF Holds
<1> QED BY <1>0, <1>5, <1>6, <1>9, <1>10, <1>11, RecordingTurn

\* What is known of a worker that is chosen.
Fitting(r, w) ==
    /\ w \in Workers /\ slot[w].active < Limit /\ Serves(r.query, G!ScheduleSlot(w))
    /\ r.placement # None =>
          /\ slot[w].seen # None
          /\ G!P!EvaluatePlacement(r.placement, G!Snapshot(slot[w].seen), slot[w].seen.facts.tokens,
                                   slot[w].runtime, slot[w].offload, clock).disposition = "PASS"

LEMMA ChosenFits ==
    ASSUME G!ClientAssumption, NEW r \in Requests, r.via # "target"
    PROVE  G!Chosen(r) \in Seq(Workers) /\ \A w \in G!ToSet(G!Chosen(r)) : Fitting(r, w)
<1> DEFINE Admits(v) ==
             r.placement = None \/
             (slot[v].seen # None /\
              G!P!EvaluatePlacement(r.placement, G!Snapshot(slot[v].seen), slot[v].seen.facts.tokens,
                                    slot[v].runtime, slot[v].offload, clock).disposition = "PASS")
           slots == [v \in G!Considered(r) |-> G!ScheduleSlot(v)]
           admitted == {v \in G!Considered(r) : Admits(v)}
<1>1. G!Chosen(r) = G!Schedule(r.query, slots, r.replicas, admitted)
    BY DEF G!Chosen
<1>2. G!Considered(r) \in SUBSET Workers
    BY DEF G!Considered
<1>3. /\ Workers \subseteq Int /\ IsFiniteSet(Workers) /\ r.replicas \in Nat /\ IsFiniteSet(r.query.prefer)
    BY SameCount DEF G!ClientAssumption, G!RequestValid
<1>4. G!Considered(r) \subseteq Int /\ IsFiniteSet(G!Considered(r))
    BY <1>2, <1>3, FS_Subset
<1>5. DOMAIN slots = G!Considered(r) /\ admitted \subseteq G!Considered(r)
    OBVIOUS
<1>6. \A v \in G!Considered(r) : slots[v] = G!ScheduleSlot(v)
    OBVIOUS
<1> HIDE DEF slots, admitted
<1>7. G!Chosen(r) \in Seq(Schedulable(r.query, slots, admitted))
    BY <1>1, <1>3, <1>4, <1>5, ScheduledServes
<1>8. ASSUME NEW w \in Schedulable(r.query, slots, admitted) PROVE Fitting(r, w)
  <2>1. /\ w \in admitted /\ G!ResolveWorker(r.query, slots[w]).eligible /\ slots[w].active < slots[w].limit
      BY DEF Schedulable
  <2>2. w \in G!Considered(r) /\ Admits(w)
      BY <2>1 DEF admitted
  <2>3. /\ G!ScheduleSlot(w).liveness \in {"AVAILABLE", "UNAVAILABLE", "DISCONNECTED"}
        /\ G!ScheduleSlot(w).provenance = "worker-observed"
        /\ G!ScheduleSlot(w).active = slot[w].active /\ G!ScheduleSlot(w).limit = Limit
      BY DEF G!ScheduleSlot, G!LivenessClass
  <2>4. Serves(r.query, G!ScheduleSlot(w))
      BY <1>6, <2>1, <2>2, <2>3, EligibleServes
  <2> QED BY <1>2, <1>6, <2>1, <2>2, <2>3, <2>4 DEF Fitting
<1>9. \A w \in Schedulable(r.query, slots, admitted) : w \in Workers
    BY <1>8 DEF Fitting
<1> QED BY <1>7, <1>8, <1>9 DEF G!ToSet

\* A dispatch takes the slots of the workers it chose.
LEMMA TakenBalanced ==
    ASSUME IsFiniteSet(Threads), Limit \in Nat, NEW t \in Threads, NEW c,
           Turned(call, call', t, c), call[t].op # "dispatching",
           Balanced(call, slot, raced), NEW q,
           \A w \in Workers : q[w].active = IF Holds(c, w) THEN slot[w].active + 1 ELSE slot[w].active,
           \A w \in Workers : Holds(c, w) => slot[w].active < Limit
    PROVE  Balanced(call', q, raced)
<1> SUFFICES ASSUME NEW w \in Workers \ raced
             PROVE  q[w].active = Cardinality(Holders(call', w)) /\ q[w].active <= Limit
    BY DEF Balanced
<1>1. slot[w].active = Cardinality(Holders(call, w)) /\ slot[w].active <= Limit
    BY DEF Balanced
<1>2. IsFiniteSet(Holders(call, w)) /\ Cardinality(Holders(call, w)) \in Nat
    BY HoldersFinite
<1>3. t \notin Holders(call, w)
    BY DEF Holders, Holds
<1>4. CASE Holds(c, w)
  <2>1. Holders(call', w) = Holders(call, w) \cup {t}
      BY <1>4, TurnHolders
  <2>2. Cardinality(Holders(call, w) \cup {t}) = Cardinality(Holders(call, w)) + 1
      BY <1>2, <1>3, FS_AddElement
  <2> QED BY <1>1, <1>2, <1>4, <2>1, <2>2
<1>5. CASE ~Holds(c, w)
  <2>1. Holds(c, w) <=> Holds(call[t], w)
      BY <1>5 DEF Holds
  <2>2. Holders(call', w) = Holders(call, w)
      BY <2>1, TurnKeeps
  <2> QED BY <1>1, <1>5, <2>2
<1> QED BY <1>4, <1>5

LEMMA ChooseOK == ASSUME ClientInv, G!ClientAssumption, NEW t \in Threads, G!Choose(t) PROVE ClientInv'
<1> DEFINE r == call[t].request
           workers == G!Chosen(r)
           c == G!Dispatching(r, workers)
<1>0. /\ CallsTyped(call) /\ call[t].op = "schedule" /\ SlotsTyped(slot)
      /\ UNCHANGED <<clock, facts, ledger, was, description, liveness, stored, raced, trusted>>
    BY DEF ClientInv, TypesOK, G!Choose, G!worker, G!service
<1>1. IsScheduling(call[t])
    BY <1>0, CallKinds DEF CallsTyped
<1>2. r \in Requests /\ r.via # "target"
    BY <1>1 DEF IsScheduling
<1>3. CASE workers = << >>
  <2>1. call' = [call EXCEPT ![t] = G!Idle] /\ slot' = slot
      BY <1>3 DEF G!Choose, G!Become
  <2>2. IsCall(G!Idle) /\ G!Idle.op = "idle"
      BY DEF IsCall, G!Idle
  <2>3. \A w \in Workers : ReplyOK(w, G!Idle, stored, was, clock)
      BY <2>2 DEF ReplyOK
  <2> QED BY <1>0, <2>1, <2>2, <2>3, QuietTurn
<1>4. CASE workers # << >>
  <2>1. /\ call' = [call EXCEPT ![t] = c]
        /\ slot' = IF r.via # "remote" THEN slot
                   ELSE [w \in Workers |-> IF w \in G!ToSet(workers)
                                           THEN [slot[w] EXCEPT !.active = @ + 1] ELSE slot[w]]
      BY <1>4 DEF G!Choose, G!Become
  <2>2. /\ c.op = "dispatching" /\ c.request = r /\ c.workers = workers /\ IsCall(c)
    <3>1. workers \in Seq(Workers)
        BY <1>2, ChosenFits
    <3> HIDE DEF workers
    <3>2. c = [op |-> "dispatching", request |-> r, workers |-> workers, next |-> 1, nth |-> spent, reply |-> None,
               executed |-> FALSE, gate |-> [w \in Workers |-> management[w]]]
        BY DEF G!Dispatching
    <3> QED BY <1>2, <3>1, <3>2, DispatchingIs
  <2> HIDE DEF c
  <2>3. Turned(call, call', t, c)
      BY <1>0, <2>1, TurnIs
  <2>4. CallsTyped(call')
      BY <1>0, <2>2, <2>3, TurnTyped
  <2>5. \A w \in Workers : ReplyOK(w, c, stored, was, clock)
      BY <2>2 DEF ReplyOK
  <2>6. RepliesOK(call', stored, was, clock)
      BY <2>3, <2>5, TurnReplies DEF ClientInv
  <2>7. IngestOK(call', ledger)
      BY <2>2, <2>3, TurnIngest DEF ClientInv
  <2>8. \A w \in Workers : Holds(c, w) <=> r.via = "remote" /\ w \in G!ToSet(workers)
      BY <2>2 DEF Holds
  <2>9. \A w \in Workers : Holds(c, w) => slot[w].active < Limit
      BY <1>2, <2>8, ChosenFits DEF Fitting
  <2> HIDE DEF workers
  <2>10. /\ SlotsTyped(slot')
         /\ \A w \in Workers : slot'[w].active = IF Holds(c, w) THEN slot[w].active + 1 ELSE slot[w].active
         /\ \A w \in Workers : slot'[w].seen = slot[w].seen
      BY <1>0, <2>1, <2>8 DEF SlotsTyped, IsSlot, SlotFields
  <2>11. IsFiniteSet(Threads) /\ Limit \in Nat
      BY SameCount DEF G!ClientAssumption
  <2>12. Balanced(call', slot', raced)
      BY <1>0, <2>3, <2>9, <2>10, <2>11, TakenBalanced DEF ClientInv
  <2>13. Current(slot', description, raced)
      BY <2>10 DEF ClientInv, Current
  <2> QED BY <1>0, <2>4, <2>6, <2>7, <2>10, <2>12, <2>13 DEF ClientInv, TypesOK
<1> QED BY <1>3, <1>4

\* The cache, as it is used, holds trusted entries of the ledger.
LEMMA CacheOK == ASSUME ClientInv PROVE TrustedOK(G!LoadedCache(ledger), ledger)
<1>0. ledger \in Seq(ObservationSet) /\ TrustedOK(trusted, ledger)
    BY DEF ClientInv, TypesOK
<1>1. ASSUME NEW w \in Workers, G!NewestTrusted(ledger, w) # None
      PROVE  LET o == G!NewestTrusted(ledger, w) IN InLedger(o, ledger) /\ o.worker = w /\ G!T!AdmissionTrusted(o)
  <2> DEFINE ok == {i \in DOMAIN ledger : ledger[i].worker = w /\ G!T!AdmissionTrusted(ledger[i])}
  <2>1. ok # {} /\ G!NewestTrusted(ledger, w) = ledger[G!Max(ok)]
      BY <1>1 DEF G!NewestTrusted
  <2>2. ok \subseteq 1..Len(ledger) /\ Len(ledger) \in Nat
      BY <1>0
  <2> HIDE DEF ok
  <2>3. G!Max(ok) \in ok
      BY <2>1, <2>2, GreatestOf
  <2> QED BY <2>1, <2>3 DEF ok, InLedger
<1>2. CASE token = Len(ledger)
    BY <1>0, <1>2 DEF G!LoadedCache
<1>3. CASE token # Len(ledger)
  <2>1. G!LoadedCache(ledger) = [w \in Workers |-> G!NewestTrusted(ledger, w)]
      BY <1>3 DEF G!LoadedCache
  <2> QED BY <1>1, <2>1 DEF TrustedOK
<1> QED BY <1>2, <1>3

\* A turn from a call that holds nothing to one that takes nothing, with the
\* records and the slots as they are.
LEMMA ServiceTurn ==
    ASSUME ClientInv, NEW t \in Threads, NEW c, call' = [call EXCEPT ![t] = c], IsCall(c),
           c.op # "probing", \A w \in Workers : ~Holds(c, w), call[t].op # "dispatching",
           c.op = "ingested" => InLedger(c.observation, ledger'),
           \A o : InLedger(o, ledger) => InLedger(o, ledger'),
           ledger' \in Seq(ObservationSet), TrustedOK(trusted', ledger'),
           UNCHANGED <<clock, facts, slot, was, description, liveness, stored, raced>>
    PROVE  ClientInv'
<1>0. CallsTyped(call)
    BY DEF ClientInv, TypesOK
<1>1. Turned(call, call', t, c)
    BY <1>0, TurnIs
<1>2. CallsTyped(call')
    BY <1>0, <1>1, TurnTyped
<1>3. \A w \in Workers : ReplyOK(w, c, stored, was, clock)
    BY DEF ReplyOK
<1>4. RepliesOK(call', stored, was, clock)
    BY <1>1, <1>3, TurnReplies DEF ClientInv
<1>5. IngestOK(call, ledger')
    BY DEF ClientInv, IngestOK
<1>6. IngestOK(call', ledger')
    BY <1>1, <1>5, TurnIngest
<1>7. \A w \in Workers : Holds(c, w) <=> Holds(call[t], w)
    BY DEF Holds
<1>8. Balanced(call, slot, raced)
    BY DEF ClientInv
<1>9. Balanced(call', slot, raced)
    BY <1>1, <1>7, <1>8, TurnBalanced
<1> QED BY <1>2, <1>4, <1>6, <1>9 DEF ClientInv, TypesOK

LEMMA IdleIs == IsCall(G!Idle) /\ G!Idle.op = "idle" /\ \A w : ~Holds(G!Idle, w)
BY DEF IsCall, G!Idle, Holds

LEMMA AdmitOK == ASSUME ClientInv, G!ClientAssumption, NEW t \in Threads, G!Admit(t) PROVE ClientInv'
<1> DEFINE r == call[t].request
           w == r.target.worker
           c == G!Dispatching(r, <<w>>)
<1>0. /\ CallsTyped(call) /\ call[t].op = "admit" /\ ledger \in Seq(ObservationSet)
      /\ trusted' = G!LoadedCache(ledger)
      /\ UNCHANGED <<clock, facts, slot, ledger, was, description, liveness, stored, raced>>
      /\ call' = [call EXCEPT ![t] = c] \/ call' = [call EXCEPT ![t] = G!Idle]
    BY DEF ClientInv, TypesOK, G!Admit, G!worker, G!memory, G!Become
<1>1. IsAdmitting(call[t])
    BY <1>0, CallKinds DEF CallsTyped
<1>2. r \in Requests /\ r.via = "target"
    BY <1>1 DEF IsAdmitting
<1>3. w \in Workers
    BY <1>2 DEF G!ClientAssumption, G!RequestValid
<1>4. TrustedOK(trusted', ledger')
    BY <1>0, CacheOK
<1>5. c.op = "dispatching" /\ c.request = r /\ IsCall(c)
  <2> DEFINE ws == <<w>>
             gate == [v \in Workers |-> management[v]]
  <2>1. c = [op |-> "dispatching", request |-> r, workers |-> ws, next |-> 1, nth |-> spent, reply |-> None,
             executed |-> FALSE, gate |-> gate]
      BY DEF G!Dispatching
  <2>2. ws \in Seq(Workers)
      BY <1>3
  <2> HIDE DEF c, r, ws, gate
  <2> QED BY <1>2, <2>1, <2>2, DispatchingIs
<1>6. \A v \in Workers : ~Holds(c, v)
    BY <1>2, <1>5 DEF Holds
<1> HIDE DEF c
<1>7. CASE call' = [call EXCEPT ![t] = c]
    BY <1>0, <1>4, <1>5, <1>6, <1>7, ServiceTurn
<1>8. CASE call' = [call EXCEPT ![t] = G!Idle]
    BY <1>0, <1>4, <1>8, IdleIs, ServiceTurn
<1> QED BY <1>0, <1>7, <1>8

LEMMA IngestStepOK ==
    ASSUME ClientInv, NEW t \in Threads, NEW w \in Workers, NEW role \in {"admin", "consumer"},
           NEW asked \in {"operator-asserted", "worker-observed"}, NEW names \in Vouched, NEW at \in Captured,
           G!Ingest(t, w, role, asked, names, clock - at)
    PROVE  ClientInv'
<1> DEFINE o == G!CapabilityObservation(w, role, asked, names, clock - at)
           c == [op |-> "ingested", observation |-> o]
<1>0. /\ call[t] = G!Idle /\ ledger' = Append(ledger, o) /\ call' = [call EXCEPT ![t] = c]
      /\ UNCHANGED <<clock, facts, slot, trusted, was, description, liveness, stored, raced>>
    BY DEF G!Ingest, G!worker, G!memory, G!Become
<1>1. clock \in Nat /\ ledger \in Seq(ObservationSet) /\ TrustedOK(trusted, ledger)
    BY DEF ClientInv, TypesOK
<1>2. o \in ObservationSet
    BY <1>1 DEF ObservationSet
<1> HIDE DEF o
<1>3. /\ ledger' \in Seq(ObservationSet) /\ InLedger(o, ledger')
      /\ \A p : InLedger(p, ledger) => InLedger(p, ledger')
  <2>1. /\ ledger' \in Seq(ObservationSet) /\ Len(ledger') = Len(ledger) + 1 /\ ledger'[Len(ledger) + 1] = o
        /\ \A i \in 1..Len(ledger) : ledger'[i] = ledger[i]
      BY <1>0, <1>1, <1>2
  <2>2. DOMAIN ledger = 1..Len(ledger) /\ DOMAIN ledger' = 1..(Len(ledger) + 1) /\ Len(ledger) \in Nat
      BY <1>1, <2>1
  <2>3. Len(ledger) + 1 \in DOMAIN ledger' /\ \A i \in DOMAIN ledger : i \in DOMAIN ledger' /\ ledger'[i] = ledger[i]
      BY <2>1, <2>2
  <2> QED BY <2>1, <2>3 DEF InLedger
<1>4. TrustedOK(trusted', ledger')
    BY <1>0, <1>1, <1>3 DEF TrustedOK
<1>5. IsCall(c) /\ c.op = "ingested" /\ c.observation = o
    BY <1>2 DEF IsCall, IsIngested
<1>6. \A v \in Workers : ~Holds(c, v)
    BY <1>5 DEF Holds
<1> HIDE DEF c
<1>7. call[t].op = "idle"
    BY <1>0, IdleIs
<1> QED BY <1>0, <1>3, <1>4, <1>5, <1>6, <1>7, ServiceTurn

LEMMA IngestedOK == ASSUME ClientInv, NEW t \in Threads, G!Ingested(t) PROVE ClientInv'
<1> DEFINE o == call[t].observation
<1>0. /\ call[t].op = "ingested" /\ call' = [call EXCEPT ![t] = G!Idle]
      /\ trusted' = IF G!T!AdmissionTrusted(o) THEN [G!LoadedCache(ledger) EXCEPT ![o.worker] = o]
                    ELSE G!LoadedCache(ledger)
      /\ UNCHANGED <<clock, facts, slot, ledger, was, description, liveness, stored, raced>>
    BY DEF G!Ingested, G!worker, G!memory, G!Become
<1>1. ledger \in Seq(ObservationSet) /\ InLedger(o, ledger)
    BY <1>0 DEF ClientInv, TypesOK, IngestOK
<1>2. TrustedOK(G!LoadedCache(ledger), ledger)
    BY CacheOK
<1>3. TrustedOK(trusted', ledger)
  <2> DEFINE cache == G!LoadedCache(ledger)
  <2> HIDE DEF cache, o
  <2>1. TrustedOK(cache, ledger)
      BY <1>2 DEF cache
  <2>2. CASE trusted' = cache
      BY <2>1, <2>2
  <2>3. CASE G!T!AdmissionTrusted(o) /\ trusted' = [cache EXCEPT ![o.worker] = o]
    <3>1. /\ trusted' = [w \in Workers |-> trusted'[w]]
          /\ \A w \in Workers : trusted'[w] = cache[w] \/ (w = o.worker /\ trusted'[w] = o)
        BY <2>1, <2>3 DEF TrustedOK
    <3> QED BY <1>1, <2>1, <2>3, <3>1 DEF TrustedOK
  <2> QED BY <1>0, <2>2, <2>3 DEF cache
<1> QED BY <1>0, <1>1, <1>3, IdleIs, ServiceTurn

\* What is measured of a worker, now or earlier.
LEMMA DescriptionMeasured ==
    ASSUME G!ClientAssumption, NEW r \in Requests, r.placement # None, NEW d, d.facts \in Facts
    PROVE  Measured(r.placement, G!Snapshot(d))
<1>1. G!FactsValid(d.facts) /\ G!P!PlacementRequestValid(r.placement)
    BY DEF G!ClientAssumption, G!RequestValid
<1>2. G!Snapshot(d).host = d.facts.host /\ G!Snapshot(d).gpu = d.facts.gpu
    BY DEF G!Snapshot
<1> QED BY <1>1, <1>2 DEF Measured, G!FactsValid

\* A reply comes to a dispatch, or its end; the rest of the call stays.
Replied(C, D, t) ==
    \E c : /\ D = [C EXCEPT ![t] = c] /\ IsDispatching(c)
           /\ c.request = C[t].request /\ c.workers = C[t].workers

LEMMA DispatchingParts ==
    ASSUME NEW c, IsDispatching(c), c.next <= Len(c.workers)
    PROVE  \E q \in Requests : \E ws \in Seq(Workers) : \E n \in Nat \ {0} : \E nth, old, executed, gate :
              /\ c = [op |-> "dispatching", request |-> q, workers |-> ws, next |-> n, nth |-> nth,
                      reply |-> old, executed |-> executed, gate |-> gate]
              /\ n <= Len(ws) /\ c.request = q /\ c.workers = ws
<1>1. PICK q \in Requests : \E ws \in Seq(Workers) : \E n \in Nat \ {0} : \E nth, old, executed, gate :
         c = [op |-> "dispatching", request |-> q, workers |-> ws, next |-> n, nth |-> nth,
              reply |-> old, executed |-> executed, gate |-> gate]
    BY DEF IsDispatching
<1>2. PICK ws \in Seq(Workers), n \in Nat \ {0} : \E nth, old, executed, gate :
         c = [op |-> "dispatching", request |-> q, workers |-> ws, next |-> n, nth |-> nth,
              reply |-> old, executed |-> executed, gate |-> gate]
    BY <1>1
<1>3. PICK nth, old, executed, gate :
         c = [op |-> "dispatching", request |-> q, workers |-> ws, next |-> n, nth |-> nth,
              reply |-> old, executed |-> executed, gate |-> gate]
    BY <1>2
<1>4. n <= Len(ws) /\ c.request = q /\ c.workers = ws
    BY <1>3
<1> QED BY <1>3, <1>4

LEMMA RepliedIs ==
    ASSUME NEW C, CallsTyped(C), NEW t \in Threads, IsDispatching(C[t]), C[t].next <= Len(C[t].workers),
           NEW reply, NEW done, NEW D,
           D = [C EXCEPT ![t].reply = reply, ![t].executed = done] \/ D = [C EXCEPT ![t].reply = reply]
    PROVE  Replied(C, D, t)
<1>1. PICK q \in Requests : \E ws \in Seq(Workers) : \E n \in Nat \ {0} : \E nth, old, executed, gate :
         /\ C[t] = [op |-> "dispatching", request |-> q, workers |-> ws, next |-> n, nth |-> nth,
                    reply |-> old, executed |-> executed, gate |-> gate]
         /\ n <= Len(ws) /\ C[t].request = q /\ C[t].workers = ws
    BY DispatchingParts
<1>2. PICK ws \in Seq(Workers), n \in Nat \ {0} : \E nth, old, executed, gate :
         /\ C[t] = [op |-> "dispatching", request |-> q, workers |-> ws, next |-> n, nth |-> nth,
                    reply |-> old, executed |-> executed, gate |-> gate]
         /\ n <= Len(ws) /\ C[t].request = q /\ C[t].workers = ws
    BY <1>1
<1>3. PICK nth, old, executed, gate :
         /\ C[t] = [op |-> "dispatching", request |-> q, workers |-> ws, next |-> n, nth |-> nth,
                    reply |-> old, executed |-> executed, gate |-> gate]
         /\ n <= Len(ws) /\ C[t].request = q /\ C[t].workers = ws
    BY <1>2
<1>4. PICK x : x = [C[t] EXCEPT !.reply = reply]
    OBVIOUS
<1>5. x = [op |-> "dispatching", request |-> q, workers |-> ws, next |-> n, nth |-> nth,
           reply |-> reply, executed |-> executed, gate |-> gate]
    BY <1>3, <1>4
<1>6. PICK y : y = [x EXCEPT !.executed = done]
    OBVIOUS
<1>7. y = [op |-> "dispatching", request |-> q, workers |-> ws, next |-> n, nth |-> nth,
           reply |-> reply, executed |-> done, gate |-> gate]
    BY <1>5, <1>6
<1>8. IsDispatching(x) /\ IsDispatching(y) /\ x.request = q /\ y.request = q /\ x.workers = ws /\ y.workers = ws
    BY <1>3, <1>5, <1>7 DEF IsDispatching
<1>9. D = [C EXCEPT ![t] = y] \/ D = [C EXCEPT ![t] = x]
    BY <1>4, <1>6 DEF CallsTyped
<1> QED BY <1>3, <1>8, <1>9 DEF Replied

LEMMA RepliedTurn ==
    ASSUME ClientInv, NEW t \in Threads, call[t].op = "dispatching", Replied(call, call', t),
           UNCHANGED <<clock, facts, slot, ledger, was, description, liveness, stored, raced, trusted>>
    PROVE  ClientInv'
<1>1. PICK c : /\ call' = [call EXCEPT ![t] = c] /\ IsDispatching(c)
               /\ c.request = call[t].request /\ c.workers = call[t].workers
    BY DEF Replied
<1>2. IsCall(c) /\ c.op = "dispatching"
  <2>1. c.op = "dispatching"
      BY <1>1 DEF IsDispatching
  <2> QED BY <1>1, <2>1 DEF IsCall
<1>3. \A v \in Workers : ReplyOK(v, c, stored', was, clock)
    BY <1>2 DEF ReplyOK
<1>4. \A v \in Workers : Holds(c, v) <=> Holds(call[t], v)
    BY <1>1, <1>2 DEF Holds
<1>5. /\ MemoryOK(description', liveness', stored', was, clock)
      /\ \A v \in Workers : stored[v].description # None => stored'[v].description # None
      /\ SlotsTyped(slot') /\ \A v \in Workers : slot'[v].active = slot[v].active
      /\ Current(slot', description', raced)
    BY MemoryAlone
<1> QED BY <1>1, <1>2, <1>3, <1>4, <1>5, RecordingTurn

LEMMA DispatcherIs ==
    ASSUME ClientInv, NEW t \in Threads, call[t].op = "dispatching"
    PROVE  CallsTyped(call) /\ IsDispatching(call[t])
BY CallKinds DEF ClientInv, TypesOK, CallsTyped

LEMMA SendOK == ASSUME ClientInv, NEW t \in Threads, G!Send(t) PROVE ClientInv'
<1>1. /\ call[t].op = "dispatching" /\ call[t].next <= Len(call[t].workers)
      /\ call' = [call EXCEPT ![t].reply = "sent"]
      /\ UNCHANGED <<clock, facts, slot, ledger, was, description, liveness, stored, raced, trusted>>
    BY DEF G!Send, G!memory, G!service
<1>2. Replied(call, call', t)
    BY <1>1, DispatcherIs, RepliedIs
<1> QED BY <1>1, <1>2, RepliedTurn

LEMMA GiveUpOK == ASSUME ClientInv, NEW t \in Threads, G!GiveUp(t) PROVE ClientInv'
<1>1. /\ call[t].op = "dispatching" /\ call[t].next <= Len(call[t].workers)
      /\ call' = [call EXCEPT ![t].reply = "failed"]
      /\ UNCHANGED <<clock, facts, slot, ledger, was, description, liveness, stored, raced, trusted>>
    BY DEF G!GiveUp, G!worker, G!memory, G!service
<1>2. Replied(call, call', t)
    BY <1>1, DispatcherIs, RepliedIs
<1> QED BY <1>1, <1>2, RepliedTurn

LEMMA ReceiveOK == ASSUME ClientInv, NEW t \in Threads, G!Receive(t) PROVE ClientInv'
<1> DEFINE r == call[t].request
           w == call[t].workers[call[t].next]
<1>0. /\ CallsTyped(call) /\ call[t].op = "dispatching" /\ call[t].reply # None
      /\ call' = [call EXCEPT ![t].next = @ + 1, ![t].reply = None, ![t].executed = FALSE]
      /\ UNCHANGED <<clock, facts, ledger, was, raced, trusted>>
      /\ G!SetRemoteState(w, None, "UNAVAILABLE") \/ UNCHANGED <<description, liveness, slot, stored>>
    BY DEF ClientInv, TypesOK, G!Receive, G!worker, G!memory, G!service
<1>1. IsDispatching(call[t])
    BY <1>0, CallKinds DEF CallsTyped
<1>2. PICK q, ws, n, nth, reply, executed, gate :
        /\ q \in Requests /\ ws \in Seq(Workers) /\ n \in Nat \ {0}
        /\ call[t] = [op |-> "dispatching", request |-> q, workers |-> ws, next |-> n, nth |-> nth, reply |-> reply,
                      executed |-> executed, gate |-> gate]
        /\ reply # None => n <= Len(ws)
    BY <1>1 DEF IsDispatching
<1>3. call[t].request = q /\ call[t].workers = ws /\ call[t].next = n /\ call[t].reply = reply
    BY <1>2
<1>4. w \in Workers
  <2>1. n \in 1..Len(ws)
      BY <1>0, <1>2, <1>3
  <2> QED BY <1>2, <1>3, <2>1
<1> DEFINE no == FALSE
           c == [op |-> "dispatching", request |-> q, workers |-> ws, next |-> n + 1, nth |-> nth, reply |-> None,
                 executed |-> no, gate |-> gate]
<1>5. call' = [call EXCEPT ![t] = c]
  <2> DEFINE x == [call[t] EXCEPT !.next = call[t].next + 1]
             y == [x EXCEPT !.reply = None]
             z == [y EXCEPT !.executed = no]
  <2>1. x = [op |-> "dispatching", request |-> q, workers |-> ws, next |-> n + 1, nth |-> nth, reply |-> reply,
             executed |-> executed, gate |-> gate]
      BY <1>2, <1>3
  <2>2. call' = [call EXCEPT ![t] = z]
      BY <1>0 DEF CallsTyped
  <2> HIDE DEF x
  <2>3. y = [op |-> "dispatching", request |-> q, workers |-> ws, next |-> n + 1, nth |-> nth, reply |-> None,
             executed |-> executed, gate |-> gate]
      BY <2>1
  <2> HIDE DEF y, no
  <2>4. z = c
      BY <2>3
  <2> HIDE DEF c, z
  <2> QED BY <2>2, <2>4
<1>6. IsCall(c) /\ c.op = "dispatching" /\ c.request = q /\ c.workers = ws
  <2>1. n + 1 \in Nat \ {0}
      BY <1>2
  <2>2. IsDispatching(c)
      BY <1>2, <2>1 DEF IsDispatching
  <2> QED BY <2>2 DEF IsCall
<1> HIDE DEF c
<1>7. \A v \in Workers : ReplyOK(v, c, stored', was, clock)
    BY <1>6 DEF ReplyOK
<1>8. \A v \in Workers : Holds(c, v) <=> Holds(call[t], v)
    BY <1>0, <1>3, <1>6 DEF Holds
<1>9. /\ MemoryOK(description', liveness', stored', was, clock)
      /\ \A v \in Workers : stored[v].description # None => stored'[v].description # None
      /\ SlotsTyped(slot') /\ \A v \in Workers : slot'[v].active = slot[v].active
      /\ Current(slot', description', raced)
  <2>1. CASE G!SetRemoteState(w, None, "UNAVAILABLE")
    <3> HIDE DEF w
    <3> QED BY <1>4, <2>1, RemoteState
  <2>2. CASE UNCHANGED <<description, liveness, slot, stored>>
      BY <2>2, MemoryAlone
  <2> QED BY <1>0, <2>1, <2>2
<1> QED BY <1>0, <1>5, <1>6, <1>7, <1>8, <1>9, RecordingTurn

\* A dispatch gives back what it took.
LEMMA GivenBalanced ==
    ASSUME IsFiniteSet(Threads), Limit \in Nat, NEW t \in Threads, NEW c, \A w \in Workers : ~Holds(c, w),
           Turned(call, call', t, c), Balanced(call, slot, raced), NEW q,
           \A w \in Workers : q[w].active = IF Holds(call[t], w) THEN G!Max({0, slot[w].active - 1})
                                            ELSE slot[w].active
    PROVE  Balanced(call', q, raced)
<1> SUFFICES ASSUME NEW w \in Workers \ raced
             PROVE  q[w].active = Cardinality(Holders(call', w)) /\ q[w].active <= Limit
    BY DEF Balanced
<1>1. slot[w].active = Cardinality(Holders(call, w)) /\ slot[w].active <= Limit
    BY DEF Balanced
<1>2. IsFiniteSet(Holders(call, w)) /\ Cardinality(Holders(call, w)) \in Nat
    BY HoldersFinite
<1>3. CASE Holds(call[t], w)
  <2>1. t \in Holders(call, w)
      BY <1>3 DEF Holders
  <2>2. Holders(call', w) = Holders(call, w) \ {t}
      BY TurnHolders
  <2>3. /\ Cardinality(Holders(call, w) \ {t}) = Cardinality(Holders(call, w)) - 1
        /\ Cardinality(Holders(call, w) \ {t}) \in Nat
    <3>1. IsFiniteSet(Holders(call, w) \ {t})
          /\ Cardinality(Holders(call, w) \ {t}) = Cardinality(Holders(call, w)) - 1
        BY <1>2, <2>1, FS_RemoveElement
    <3> QED BY <3>1, FS_CardinalityType
  <2> DEFINE n == slot[w].active - 1
  <2>4. n \in Nat /\ n = Cardinality(Holders(call', w)) /\ n <= Limit
      BY <1>1, <1>2, <2>2, <2>3
  <2> HIDE DEF n
  <2>5. G!Max({0, n}) = n
      BY <2>4 DEF G!Max
  <2>6. q[w].active = G!Max({0, n})
      BY <1>3 DEF n
  <2> QED BY <2>4, <2>5, <2>6
<1>4. CASE ~Holds(call[t], w)
  <2>1. Holders(call', w) = Holders(call, w)
      BY <1>4, TurnKeeps
  <2> QED BY <1>1, <1>4, <2>1
<1> QED BY <1>3, <1>4

LEMMA ReleaseOK == ASSUME ClientInv, G!ClientAssumption, NEW t \in Threads, G!Release(t) PROVE ClientInv'
<1> DEFINE r == call[t].request
           workers == call[t].workers
<1>0. /\ CallsTyped(call) /\ call[t].op = "dispatching" /\ SlotsTyped(slot)
      /\ call' = [call EXCEPT ![t] = G!Idle]
      /\ slot' = IF r.via # "remote" THEN slot
                 ELSE [w \in Workers |-> IF w \in G!ToSet(workers)
                                         THEN [slot[w] EXCEPT !.active = G!Max({0, slot[w].active - 1})]
                                         ELSE slot[w]]
      /\ UNCHANGED <<clock, facts, ledger, was, description, liveness, stored, raced, trusted>>
    BY DEF ClientInv, TypesOK, G!Release, G!Become, G!worker, G!service
<1>1. Turned(call, call', t, G!Idle)
    BY <1>0, TurnIs
<1>2. CallsTyped(call')
    BY <1>0, <1>1, IdleIs, TurnTyped
<1>3. \A w \in Workers : ReplyOK(w, G!Idle, stored, was, clock)
    BY IdleIs DEF ReplyOK
<1>4. RepliesOK(call', stored, was, clock)
    BY <1>1, <1>3, TurnReplies DEF ClientInv
<1>5. IngestOK(call', ledger)
    BY <1>1, IdleIs, TurnIngest DEF ClientInv
<1>6. \A w \in Workers : Holds(call[t], w) <=> r.via = "remote" /\ w \in G!ToSet(workers)
    BY <1>0 DEF Holds
<1>7. /\ SlotsTyped(slot')
      /\ \A w \in Workers : slot'[w].active = IF Holds(call[t], w) THEN G!Max({0, slot[w].active - 1})
                                              ELSE slot[w].active
      /\ \A w \in Workers : slot'[w].seen = slot[w].seen
  <2> HIDE DEF r, workers
  <2> QED BY <1>0, <1>6 DEF SlotsTyped, IsSlot, SlotFields
<1>8. IsFiniteSet(Threads) /\ Limit \in Nat
    BY SameCount DEF G!ClientAssumption
<1>9. Balanced(call', slot', raced)
    BY <1>1, <1>7, <1>8, IdleIs, GivenBalanced DEF ClientInv
<1>10. Current(slot', description, raced)
    BY <1>7 DEF ClientInv, Current
<1> QED BY <1>0, <1>2, <1>4, <1>5, <1>7, <1>9, <1>10 DEF ClientInv, TypesOK

LEMMA ObserveOK ==
    ASSUME ClientInv, G!ClientAssumption, NEW t \in Threads, NEW w \in Workers, NEW measured \in Probed,
           G!Observe(t, w, measured.kind, measured)
    PROVE  ClientInv'
<1> DEFINE kind == measured.kind
           o == G!RuntimeObservation(w, measured)
           read == slot[w]
           write == [read EXCEPT ![kind] = o]
           c == [op |-> "observing", worker |-> w, write |-> write, read |-> read]
<1>0. /\ call[t] = G!Idle /\ call' = [call EXCEPT ![t] = c]
      /\ UNCHANGED <<clock, facts, slot, ledger, was, description, liveness, stored, raced, trusted>>
    BY DEF G!Observe, G!Become, G!worker, G!service
<1>1. kind \in {"runtime", "offload"} /\ IsSlot(read)
    BY DEF G!ClientAssumption, ClientInv, TypesOK, SlotsTyped
<1> HIDE DEF kind, o, read
<1>2. IsSlot(write) /\ write.active = read.active /\ write.seen = read.seen
    BY <1>1 DEF IsSlot, SlotFields
<1> HIDE DEF write
<1>3. IsCall(c) /\ c.op = "observing"
    BY <1>2 DEF IsCall, IsObserving
<1> HIDE DEF c
<1>4. \A v \in Workers : ReplyOK(v, c, stored, was, clock)
    BY <1>3 DEF ReplyOK
<1> QED BY <1>0, <1>3, <1>4, IdleIs, QuietTurn

LEMMA ObservedOK == ASSUME ClientInv, NEW t \in Threads, G!Observed(t) PROVE ClientInv'
<1> DEFINE w == call[t].worker
<1>0. /\ CallsTyped(call) /\ call[t].op = "observing" /\ SlotsTyped(slot)
      /\ call' = [call EXCEPT ![t] = G!Idle]
      /\ slot' = [slot EXCEPT ![w] = call[t].write]
      /\ raced' = IF slot[w] = call[t].read THEN raced ELSE raced \cup {w}
      /\ UNCHANGED <<clock, facts, ledger, was, description, liveness, stored, trusted>>
    BY DEF ClientInv, TypesOK, G!Observed, G!Become, G!worker, G!service
<1>1. IsObserving(call[t])
    BY <1>0, CallKinds DEF CallsTyped
<1>2. /\ w \in Workers /\ IsSlot(call[t].write)
      /\ call[t].write.active = call[t].read.active /\ call[t].write.seen = call[t].read.seen
    BY <1>1 DEF IsObserving
<1> HIDE DEF w
<1>3. Turned(call, call', t, G!Idle)
    BY <1>0, TurnIs
<1>4. CallsTyped(call')
    BY <1>0, <1>3, IdleIs, TurnTyped
<1>5. \A v \in Workers : ReplyOK(v, G!Idle, stored, was, clock)
    BY IdleIs DEF ReplyOK
<1>6. RepliesOK(call', stored, was, clock)
    BY <1>3, <1>5, TurnReplies DEF ClientInv
<1>7. IngestOK(call', ledger)
    BY <1>3, IdleIs, TurnIngest DEF ClientInv
<1>8. \A v \in Workers : Holds(G!Idle, v) <=> Holds(call[t], v)
    BY <1>0, IdleIs DEF Holds
<1>9. raced \subseteq raced' /\ (w \notin raced' => slot[w] = call[t].read)
    BY <1>0
<1>10. SlotsTyped(slot') /\ \A v \in Workers \ raced' : slot'[v].active = slot[v].active /\ slot'[v].seen = slot[v].seen
    BY <1>0, <1>2, <1>9 DEF SlotsTyped
<1>11. Balanced(call, slot, raced)
    BY DEF ClientInv
<1>12. Balanced(call', slot', raced')
    BY <1>3, <1>8, <1>9, <1>10, <1>11, TurnBalanced
<1>13. Current(slot', description, raced')
    BY <1>9, <1>10 DEF ClientInv, Current
<1> QED BY <1>0, <1>4, <1>6, <1>7, <1>10, <1>12, <1>13 DEF ClientInv, TypesOK

(* The world, time and restarts.                                             *)

LEMMA StillOK ==
    ASSUME ClientInv,
           UNCHANGED <<clock, facts, slot, call, ledger, was, description, liveness, stored, raced, trusted>>
    PROVE  ClientInv'
BY DEF ClientInv, TypesOK

\* A handler at a worker answers the dispatch that waits for it, if any.
LEMMA HandlerAnswers ==
    ASSUME CallsTyped(call), G!HandlerStep
    PROVE  /\ UNCHANGED <<clock, facts, up, slot, ledger, was, description, liveness, stored, raced, trusted>>
           /\ \/ call' = call
              \/ \E t \in Threads : /\ call[t].op = "dispatching" /\ call[t].next <= Len(call[t].workers)
                                    /\ \E reply, done : call' = [call EXCEPT ![t].reply = reply, ![t].executed = done]
<1>1. PICK hd \in handling : G!Accept(hd) \/ G!AdmitPlacement(hd) \/ G!AppendDispatch(hd) \/ G!Execute(hd)
    BY DEF G!HandlerStep
<1>2. /\ UNCHANGED <<clock, facts, up, slot, ledger, was, description, liveness, stored, raced, trusted>>
      /\ call' = call \/ \E reply : G!Leave(hd, reply)
    BY <1>1 DEF G!Accept, G!AdmitPlacement, G!AppendDispatch, G!Execute, G!Advance, G!memory, G!service
<1>3. ASSUME NEW reply, G!Leave(hd, reply), call' # call
      PROVE  \E t \in Threads : /\ call[t].op = "dispatching" /\ call[t].next <= Len(call[t].workers)
                                /\ \E r, done : call' = [call EXCEPT ![t].reply = r, ![t].executed = done]
  <2>1. /\ G!Waits(hd)
        /\ call' = [call EXCEPT ![hd.by].reply = reply, ![hd.by].executed = (reply = "executed")]
      BY <1>3 DEF G!Leave
  <2>2. hd.by \in Threads
      BY <1>3, <2>1 DEF CallsTyped
  <2> QED BY <2>1, <2>2 DEF G!Waits
<1> QED BY <1>2, <1>3

\* It never makes a call a dispatch, nor ends one.
LEMMA HandlerTurns ==
    ASSUME CallsTyped(call), G!HandlerStep, NEW t \in Threads
    PROVE  call'[t] = call[t] \/ call[t].op = "dispatching"
<1>1. ASSUME NEW u \in Threads, call[u].op = "dispatching", NEW reply, NEW done,
             call' = [call EXCEPT ![u].reply = reply, ![u].executed = done]
      PROVE  call'[t] = call[t] \/ call[t].op = "dispatching"
    BY <1>1 DEF CallsTyped
<1> QED BY <1>1, HandlerAnswers

LEMMA HandlerStepOK == ASSUME ClientInv, G!HandlerStep PROVE ClientInv'
<1>0. CallsTyped(call)
    BY DEF ClientInv, TypesOK
<1>1. UNCHANGED <<clock, facts, slot, ledger, was, description, liveness, stored, raced, trusted>>
    BY <1>0, HandlerAnswers
<1>2. CASE call' = call
    BY <1>1, <1>2, StillOK
<1>3. ASSUME NEW t \in Threads, call[t].op = "dispatching", call[t].next <= Len(call[t].workers),
             NEW reply, NEW done, call' = [call EXCEPT ![t].reply = reply, ![t].executed = done]
      PROVE  ClientInv'
  <2>1. Replied(call, call', t)
      BY <1>3, DispatcherIs, RepliedIs
  <2> QED BY <1>1, <1>3, <2>1, RepliedTurn
<1> QED BY <1>0, <1>2, <1>3, HandlerAnswers

LEMMA OperatorOK ==
    ASSUME ClientInv, NEW w \in Workers,
           \/ \E p \in Policies : G!SetWorkerPolicy(w, p)
           \/ G!Quarantine(w) \/ G!Resume(w) \/ G!Revoke(w) \/ G!Stop(w)
    PROVE  ClientInv'
<1>1. ASSUME NEW p \in Policies, G!SetWorkerPolicy(w, p) PROVE ClientInv'
    BY <1>1, StillOK DEF G!SetWorkerPolicy, G!worker, G!service
<1>2. ASSUME G!Quarantine(w) PROVE ClientInv'
    BY <1>2, StillOK DEF G!Quarantine, G!memory, G!service
<1>3. ASSUME G!Resume(w) PROVE ClientInv'
    BY <1>3, StillOK DEF G!Resume, G!memory, G!service
<1>4. ASSUME G!Revoke(w) PROVE ClientInv'
    BY <1>4, StillOK DEF G!Revoke, G!worker, G!memory, G!service
<1>5. ASSUME G!Stop(w) PROVE ClientInv'
    BY <1>5, StillOK DEF G!Stop, G!memory, G!service
<1> QED BY <1>1, <1>2, <1>3, <1>4, <1>5

LEMMA ChangeOK ==
    ASSUME ClientInv, G!ClientAssumption, NEW w \in Workers, NEW f \in Facts, G!Change(w, f) \/ G!Start(w, f)
    PROVE  ClientInv'
<1>0. /\ facts' = [facts EXCEPT ![w] = f]
      /\ was' = [was EXCEPT ![w] = was[w] \cup {[facts |-> f, at |-> clock]}]
      /\ UNCHANGED <<clock, slot, call, ledger, description, liveness, stored, raced, trusted>>
    BY DEF G!Change, G!Start, G!memory, G!service
<1>1. clock \in Nat /\ facts \in [Workers -> Facts] /\ Lived(was, facts, clock) /\ MaxAge \in Nat
    BY DEF ClientInv, TypesOK, G!ClientAssumption
<1>2. facts' \in [Workers -> Facts] /\ Lived(was', facts', clock) /\ \A v \in Workers : was[v] \subseteq was'[v]
    BY <1>0, <1>1 DEF Lived
<1>3. Later(was, clock, was', clock)
    BY <1>1, <1>2 DEF Later
<1>4. MemoryOK(description, liveness, stored, was', clock)
    BY <1>1, <1>3, MemoryKept DEF ClientInv
<1>5. RepliesOK(call, stored, was', clock)
    BY <1>1, <1>3, RepliesKept DEF ClientInv
<1> QED BY <1>0, <1>2, <1>4, <1>5 DEF ClientInv, TypesOK

LEMMA TickOK == ASSUME ClientInv, G!ClientAssumption, G!Tick PROVE ClientInv'
<1>0. /\ clock' = clock + 1
      /\ was' = [w \in Workers |-> {p \in was[w] : p.at >= clock + 1 - MaxAge}
                                   \cup {[facts |-> facts[w], at |-> clock + 1]}]
      /\ UNCHANGED <<facts, slot, call, ledger, description, liveness, stored, raced, trusted>>
    BY DEF G!Tick, G!worker, G!memory, G!service
<1>1. clock \in Nat /\ clock' \in Nat /\ Lived(was, facts, clock) /\ MaxAge \in Nat
    BY <1>0 DEF ClientInv, TypesOK, G!ClientAssumption
<1>2. Lived(was', facts', clock')
    BY <1>0, <1>1 DEF Lived
<1>3. Later(was, clock, was', clock')
  <2>1. ASSUME NEW w \in Workers, NEW d \in was[w], d.at \in Nat, clock' - d.at <= MaxAge PROVE d \in was'[w]
    <3>1. d.at >= clock + 1 - MaxAge
        BY <1>0, <1>1, <2>1
    <3> QED BY <1>0, <3>1
  <2> QED BY <1>0, <1>1, <2>1 DEF Later
<1>4. MemoryOK(description, liveness, stored, was', clock')
    BY <1>1, <1>3, MemoryKept DEF ClientInv
<1>5. RepliesOK(call, stored, was', clock')
    BY <1>1, <1>3, RepliesKept DEF ClientInv
<1> QED BY <1>0, <1>1, <1>2, <1>4, <1>5 DEF ClientInv, TypesOK

\* Nobody holds a slot while every thread is idle.
LEMMA AllIdle ==
    ASSUME NEW C, C = [t \in Threads |-> G!Idle], NEW s, \A w \in Workers : s[w].active = 0, Limit \in Nat, NEW R,
           NEW S, NEW W, NEW now, NEW l
    PROVE  CallsTyped(C) /\ RepliesOK(C, S, W, now) /\ Balanced(C, s, R) /\ IngestOK(C, l)
<1>1. \A t \in Threads : C[t] = G!Idle
    OBVIOUS
<1>2. CallsTyped(C)
    BY IdleIs DEF CallsTyped
<1>3. RepliesOK(C, S, W, now)
    BY <1>1, IdleIs DEF RepliesOK, ReplyOK
<1>4. IngestOK(C, l)
    BY <1>1, IdleIs DEF IngestOK
<1>5. \A w \in Workers : Holders(C, w) = {}
    BY <1>1, IdleIs DEF Holders
<1>6. Balanced(C, s, R)
    BY <1>5, FS_EmptySet DEF Balanced
<1> QED BY <1>2, <1>3, <1>4, <1>6

LEMMA RestartOK == ASSUME ClientInv, G!ClientAssumption, G!Restart PROVE ClientInv'
<1>0. /\ call' = [t \in Threads |-> G!Idle]
      /\ description' = [w \in Workers |-> stored[w].description]
      /\ liveness' = [w \in Workers |-> G!RestoredLiveness(w)]
      /\ slot' = [w \in Workers |-> [active |-> 0, seen |-> stored[w].description,
                                     runtime |-> None, offload |-> None]]
      /\ trusted' = [w \in Workers |-> None] /\ raced' = {}
      /\ UNCHANGED <<clock, facts, stored, ledger, was>>
    BY DEF G!Restart, G!worker
<1>1. Limit \in Nat
    BY DEF G!ClientAssumption
<1>2. SlotsTyped(slot') /\ Current(slot', description', raced') /\ \A w \in Workers : slot'[w].active = 0
    BY <1>0 DEF SlotsTyped, IsSlot, SlotFields, Current
<1>3. /\ CallsTyped(call') /\ RepliesOK(call', stored, was, clock) /\ Balanced(call', slot', raced')
      /\ IngestOK(call', ledger)
    BY <1>0, <1>1, <1>2, AllIdle
<1>4. MemoryOK(description', liveness', stored, was, clock)
  <2>1. MemoryOK(description, liveness, stored, was, clock)
      BY DEF ClientInv
  <2>2. ASSUME NEW w \in Workers PROVE RecordsOK(w, description'[w], liveness'[w], stored[w], was, clock)
    <3>1. description'[w] = stored[w].description /\ liveness'[w] = G!RestoredLiveness(w)
        BY <1>0
    <3>2. RecordsOK(w, description[w], liveness[w], stored[w], was, clock)
        BY <2>1 DEF MemoryOK
    <3>3. \/ stored[w].state # None /\ G!RestoredLiveness(w) = stored[w].state
          \/ stored[w].liveness # None /\ G!RestoredLiveness(w) = stored[w].liveness
          \/ G!RestoredLiveness(w).state = "UNKNOWN"
        BY DEF G!RestoredLiveness, G!Liveness
    <3> QED BY <3>1, <3>2, <3>3 DEF RecordsOK
  <2>3. description' = [w \in Workers |-> description'[w]] /\ liveness' = [w \in Workers |-> liveness'[w]]
      BY <1>0
  <2> QED BY <2>1, <2>2, <2>3 DEF MemoryOK
<1>5. TrustedOK(trusted', ledger)
    BY <1>0 DEF TrustedOK
<1> QED BY <1>0, <1>2, <1>3, <1>4, <1>5 DEF ClientInv, TypesOK

LEMMA ClientInit == ASSUME NoneIsNoDescription, G!ClientAssumption, G!Init PROVE ClientInv
<1>0. /\ clock = 0 /\ facts \in [Workers -> Facts] /\ ledger = << >> /\ trusted = [w \in Workers |-> None]
      /\ call = [t \in Threads |-> G!Idle] /\ was = [w \in Workers |-> {[facts |-> facts[w], at |-> 0]}]
      /\ raced = {} /\ ran = None
    BY DEF G!Init
<1>1. PICK known \in SUBSET Workers :
        LET seen == [w \in Workers |-> IF w \in known THEN G!Description(w) ELSE None] IN
        /\ description = seen
        /\ liveness = [w \in Workers |-> G!Liveness(IF w \in known THEN "AVAILABLE" ELSE "UNKNOWN")]
        /\ slot = [w \in Workers |-> [active |-> 0, seen |-> seen[w], runtime |-> None, offload |-> None]]
        /\ stored = [w \in Workers |->
                       [description |-> seen[w], liveness |-> None,
                        state |-> IF w \in known THEN G!Liveness("AVAILABLE") ELSE None]]
    BY DEF G!Init
<1> DEFINE seen == [w \in Workers |-> IF w \in known THEN G!Description(w) ELSE None]
<1>2. /\ description = seen
      /\ liveness = [w \in Workers |-> G!Liveness(IF w \in known THEN "AVAILABLE" ELSE "UNKNOWN")]
      /\ slot = [w \in Workers |-> [active |-> 0, seen |-> seen[w], runtime |-> None, offload |-> None]]
      /\ stored = [w \in Workers |->
                     [description |-> seen[w], liveness |-> None,
                      state |-> IF w \in known THEN G!Liveness("AVAILABLE") ELSE None]]
    BY <1>1
<1>3. Lived(was, facts, clock)
    BY <1>0 DEF Lived
<1>4. \A w \in known : G!Description(w) # None /\ Real(w, G!Description(w), was, clock)
    BY <1>0, <1>3 DEF G!Description, Real, DescriptionSet, NoneIsNoDescription, Lived
<1>5. \A w \in Workers : IF w \in known THEN seen[w] # None /\ Real(w, seen[w], was, clock) ELSE seen[w] = None
    BY <1>4
<1>6. seen = [w \in Workers |-> seen[w]]
    OBVIOUS
<1> HIDE DEF seen
<1>7. Limit \in Nat /\ ledger \in Seq(ObservationSet)
    BY <1>0 DEF G!ClientAssumption
<1>8. SlotsTyped(slot) /\ Current(slot, description, raced) /\ \A w \in Workers : slot[w].active = 0
    BY <1>2 DEF SlotsTyped, IsSlot, SlotFields, Current
<1>9. CallsTyped(call) /\ RepliesOK(call, stored, was, clock) /\ Balanced(call, slot, raced) /\ IngestOK(call, ledger)
    BY <1>0, <1>7, <1>8, AllIdle
<1>10. MemoryOK(description, liveness, stored, was, clock)
  <2>1. ASSUME NEW w \in Workers PROVE RecordsOK(w, description[w], liveness[w], stored[w], was, clock)
    <3>1. /\ stored[w].description = seen[w] /\ stored[w].liveness = None
          /\ w \notin known => stored[w].state = None
          /\ stored[w] = [f \in {"description", "liveness", "state"} |-> stored[w][f]]
          /\ description[w] = seen[w]
        BY <1>2
    <3>2. w \notin known => liveness[w].state = "UNKNOWN"
        BY <1>2 DEF G!Liveness
    <3> QED BY <1>5, <3>1, <3>2 DEF RecordsOK
  <2>2. description = [w \in Workers |-> description[w]] /\ liveness = [w \in Workers |-> liveness[w]]
        /\ stored = [w \in Workers |-> stored[w]]
      BY <1>2, <1>6
  <2> QED BY <2>1, <2>2 DEF MemoryOK
<1>11. TrustedOK(trusted, ledger)
    BY <1>0 DEF TrustedOK
<1> QED BY <1>0, <1>3, <1>7, <1>8, <1>9, <1>10, <1>11 DEF ClientInv, TypesOK
-----------------------------------------------------------------------------
(* The theorems.                                                             *)

LEMMA ClientStep ==
    ASSUME ClientInv, NoneIsNoDescription, G!ClientAssumption, [G!Next]_G!vars PROVE ClientInv'
<1>1. ASSUME UNCHANGED G!vars PROVE ClientInv'
    BY <1>1, StillOK DEF G!vars, G!worker, G!memory, G!service
<1>2. ASSUME NEW t \in Threads, G!ThreadStep(t) PROVE ClientInv'
  <2>1. MaxAge \in Nat
      BY DEF G!ClientAssumption
  <2> QED BY <1>2, <2>1, AskOK, ProbeOK, EndProbingOK, ChooseOK, AdmitOK, SendOK, GiveUpOK, ReceiveOK, ReleaseOK,
             ObservedOK, IngestedOK DEF G!ThreadStep
<1>3. ASSUME NEW t \in Threads, G!NewCall(t) PROVE ClientInv'
    BY <1>3, StartRefreshOK, StartDispatchOK, ObserveOK, IngestStepOK DEF G!NewCall
<1>4. ASSUME G!World PROVE ClientInv'
    BY <1>4, OperatorOK, ChangeOK DEF G!World
<1>5. ASSUME G!Tick PROVE ClientInv'
    BY <1>5, TickOK
<1>6. ASSUME G!Restart PROVE ClientInv'
    BY <1>6, RestartOK
<1>7. ASSUME G!HandlerStep PROVE ClientInv'
    BY <1>7, HandlerStepOK
<1> QED BY <1>1, <1>2, <1>3, <1>4, <1>5, <1>6, <1>7 DEF G!Next

LEMMA ClientInvariant == ASSUME NoneIsNoDescription, G!ClientAssumption PROVE G!Spec => []ClientInv
<1>1. G!Init => ClientInv
    BY ClientInit
<1>2. ClientInv /\ [G!Next]_G!vars => ClientInv'
    BY ClientStep
<1> QED BY <1>1, <1>2, PTL DEF G!Spec

\* For every client: dispatch_remote gives back every slot it took, on every
\* path, whatever other dispatches, probes, restarts and observations do, and
\* never takes more than the limit; unless an observation was written over the
\* slot in between, which the code does outside its lock (controller.py:559).
THEOREM SlotsGivenBack == NoneIsNoDescription /\ G!ClientAssumption => (G!Spec => []G!SlotsBalanced)
<1> SUFFICES ASSUME NoneIsNoDescription, G!ClientAssumption PROVE G!Spec => []G!SlotsBalanced
    OBVIOUS
<1>1. ClientInv => G!SlotsBalanced
  <2> SUFFICES ASSUME ClientInv PROVE G!SlotsBalanced
      OBVIOUS
  <2>1. \A w : Holders(call, w) = {t \in Threads : /\ call[t].op = "dispatching"
                                                   /\ call[t].request.via = "remote"
                                                   /\ w \in G!ToSet(call[t].workers)}
      BY DEF Holders, Holds
  <2> QED BY <2>1, SameCount DEF ClientInv, Balanced, G!SlotsBalanced
<1> QED BY <1>1, ClientInvariant, PTL

(* What a worker handles, from the admission to the execution.               *)

\* A handler lives in a running process, whose profile stays: from "accepted"
\* on its proofs are of that profile, from "admitted" on its placement fits
\* what the process had been when it was admitted.
HandlerFields == {"by", "nth", "request", "worker", "gate", "runtime", "offload", "stage", "mode", "upon"}
HandlerShape(hd) == hd = [f \in HandlerFields |-> hd[f]] /\ hd.request \in Requests /\ hd.worker \in Workers
Proved(hd, f) == \A o \in {hd.runtime, hd.offload} \ {None} : o.profile = f.profile
AdmittedOn(hd, f) ==
    hd.request.placement # None =>
        /\ G!P!Fits(hd.request.placement, G!Snapshot(hd.upon), hd.runtime, hd.mode)
        /\ hd.upon.facts.profile = f.profile
HandlerOK(hd, F, U) ==
    /\ HandlerShape(hd) /\ U[hd.worker]
    /\ hd.stage # "arrived" => Proved(hd, F[hd.worker])
    /\ hd.stage \in {"admitted", "recorded"} => AdmittedOn(hd, F[hd.worker])
HandlersOK(H, F, U) ==
    /\ U = [w \in Workers |-> U[w]] /\ F \in [Workers -> Facts]
    /\ \A hd \in H : HandlerOK(hd, F, U)
HandlingInv == HandlersOK(handling, facts, up) /\ G!RunsAsAdmitted

\* A worker's process that runs on keeps its profile.
Runs(F, U, E, V) ==
    \A w \in Workers : U[w] => V[w] /\ E[w].profile = F[w].profile

LEMMA HandlerRuns ==
    ASSUME NEW hd, NEW F, NEW U, NEW E, NEW V, HandlerOK(hd, F, U),
           U[hd.worker] => V[hd.worker] /\ E[hd.worker].profile = F[hd.worker].profile
    PROVE  HandlerOK(hd, E, V)
BY DEF HandlerOK, Proved, AdmittedOn

LEMMA NothingRan ==
    ASSUME G!RunsAsAdmitted, ran' = ran PROVE G!RunsAsAdmitted'
BY DEF G!RunsAsAdmitted, G!Snapshot

LEMMA HandlingStays ==
    ASSUME HandlingInv, UNCHANGED <<up, facts, handling, ran>> PROVE HandlingInv'
BY NothingRan DEF HandlingInv

\* A dispatch arrives.
LEMMA Arrives ==
    ASSUME ClientInv, HandlingInv, NEW t \in Threads, G!Send(t) PROVE HandlingInv'
<1> DEFINE hd == G!Arrival(t)
           w == call[t].workers[call[t].next]
<1>1. /\ UNCHANGED <<up, facts, ran>> /\ call[t].op = "dispatching" /\ call[t].next <= Len(call[t].workers)
      /\ handling' = handling \/ (handling' = handling \cup {hd} /\ up[w])
    BY DEF G!Send, G!Reachable
<1>2. call[t].request \in Requests /\ w \in Workers
  <2>1. IsDispatching(call[t])
      BY <1>1, DispatcherIs
  <2>2. PICK q \in Requests : \E ws \in Seq(Workers) : \E n \in Nat \ {0} : \E nth, old, executed, gate :
           /\ call[t] = [op |-> "dispatching", request |-> q, workers |-> ws, next |-> n, nth |-> nth,
                         reply |-> old, executed |-> executed, gate |-> gate]
           /\ n <= Len(ws) /\ call[t].request = q /\ call[t].workers = ws
      BY <1>1, <2>1, DispatchingParts
  <2>3. PICK ws \in Seq(Workers), n \in Nat \ {0} :
           call[t].next = n /\ n <= Len(ws) /\ call[t].request = q /\ call[t].workers = ws
      BY <2>2
  <2> QED BY <2>3
<1>3. /\ HandlerShape(hd) /\ hd.worker = w /\ hd.stage = "arrived"
  <2>1. PICK runtime, offload, nth, gate, mode :
          hd = [by |-> t, nth |-> nth, request |-> call[t].request, worker |-> w, gate |-> gate,
                runtime |-> runtime, offload |-> offload, stage |-> "arrived", mode |-> mode, upon |-> None]
      BY DEF G!Arrival
  <2> HIDE DEF hd, w
  <2> QED BY <1>2, <2>1 DEF HandlerShape, HandlerFields
<1> HIDE DEF hd, w
<1>4. handling' # handling => HandlerOK(hd, facts, up)
    BY <1>1, <1>3 DEF HandlerOK
<1>5. \A h \in handling' : HandlerOK(h, facts, up)
    BY <1>1, <1>4 DEF HandlingInv, HandlersOK
<1> QED BY <1>1, <1>5, NothingRan DEF HandlingInv, HandlersOK

LEMMA LeavesOK ==
    ASSUME HandlersOK(handling, facts, up), NEW hd, NEW reply, G!Leave(hd, reply), UNCHANGED <<up, facts>>
    PROVE  HandlersOK(handling, facts, up)'
BY DEF HandlersOK, G!Leave

LEMMA AdvancesOK ==
    ASSUME HandlersOK(handling, facts, up), NEW hd, NEW next, G!Advance(hd, next), HandlerOK(next, facts, up),
           UNCHANGED <<up, facts>>
    PROVE  HandlersOK(handling, facts, up)'
BY DEF HandlersOK, G!Advance

\* The next stage of a handler.
LEMMA StageIs ==
    ASSUME NEW hd, HandlerShape(hd), NEW stage, NEW next, next = [hd EXCEPT !.stage = stage]
    PROVE  /\ HandlerShape(next) /\ next.stage = stage /\ next.worker = hd.worker /\ next.request = hd.request
           /\ next.runtime = hd.runtime /\ next.offload = hd.offload /\ next.mode = hd.mode /\ next.upon = hd.upon
BY DEF HandlerShape, HandlerFields

LEMMA AcceptOK == ASSUME HandlingInv, NEW hd \in handling, G!Accept(hd) PROVE HandlingInv'
<1>1. UNCHANGED <<up, facts, ran>> /\ HandlerOK(hd, facts, up) /\ HandlersOK(handling, facts, up)
    BY DEF G!Accept, HandlingInv, HandlersOK
<1>2. \/ \E reply : G!Leave(hd, reply)
      \/ ~G!Raises(hd) /\ G!Advance(hd, [hd EXCEPT !.stage = "accepted"])
    BY DEF G!Accept
<1>3. ASSUME NEW reply, G!Leave(hd, reply) PROVE HandlersOK(handling, facts, up)'
    BY <1>1, <1>3, LeavesOK
<1>4. ASSUME ~G!Raises(hd), G!Advance(hd, [hd EXCEPT !.stage = "accepted"])
      PROVE  HandlersOK(handling, facts, up)'
  <2>1. PICK next : next = [hd EXCEPT !.stage = "accepted"]
      OBVIOUS
  <2>2. Proved(hd, facts[hd.worker])
      BY <1>4 DEF G!Raises, G!Proofs, Proved
  <2>3. HandlerOK(next, facts, up)
    <3>1. /\ HandlerShape(next) /\ next.stage = "accepted" /\ next.worker = hd.worker
          /\ next.runtime = hd.runtime /\ next.offload = hd.offload
        BY <1>1, <2>1, StageIs DEF HandlerOK
    <3> QED BY <1>1, <2>2, <3>1 DEF HandlerOK, Proved
  <2> QED BY <1>1, <1>4, <2>1, <2>3, AdvancesOK
<1> QED BY <1>1, <1>2, <1>3, <1>4, NothingRan DEF HandlingInv

\* An admission of the worker's own: the workload fits what it is then.
LEMMA AdmissionFits ==
    ASSUME G!ClientAssumption, facts \in [Workers -> Facts], NEW hd, HandlerShape(hd),
           hd.request.placement # None, G!WorkerAdmission(hd).disposition = "PASS"
    PROVE  /\ G!P!Fits(hd.request.placement, G!Snapshot(G!Description(hd.worker)), hd.runtime,
                       G!WorkerAdmission(hd).mode)
           /\ G!Description(hd.worker).facts = facts[hd.worker]
<1> DEFINE r == hd.request
           w == hd.worker
           s == G!Snapshot(G!Description(w))
           d == G!WorkerAdmission(hd)
<1>1. r \in Requests /\ w \in Workers
    BY DEF HandlerShape
<1>2. G!Description(w).facts = facts[w] /\ facts[w] \in Facts
    BY <1>1 DEF G!Description
<1>3. Measured(r.placement, s)
    BY <1>1, <1>2, DescriptionMeasured
<1>4. d = G!P!EvaluatePlacement(r.placement, s, facts[w].tokens, hd.runtime, hd.offload, clock)
    BY DEF G!WorkerAdmission
<1>5. d.disposition = "PASS"
    OBVIOUS
<1> HIDE DEF d, s
<1>6. Suits(r.placement, s, hd.runtime, d)
    BY <1>3, <1>4, PlacementSuits
<1>7. G!P!Fits(r.placement, s, hd.runtime, d.mode)
    BY <1>5, <1>6 DEF Suits
<1> QED BY <1>2, <1>7 DEF d, s

LEMMA AdmitPlacementOK ==
    ASSUME G!ClientAssumption, HandlingInv, NEW hd \in handling, G!AdmitPlacement(hd) PROVE HandlingInv'
<1>1. /\ UNCHANGED <<up, facts, ran>> /\ HandlerOK(hd, facts, up) /\ HandlersOK(handling, facts, up)
      /\ facts \in [Workers -> Facts] /\ hd.stage = "accepted"
    BY DEF G!AdmitPlacement, HandlingInv, HandlersOK
<1>2. \/ \E reply : G!Leave(hd, reply)
      \/ hd.request.placement = None /\ G!Advance(hd, [hd EXCEPT !.stage = "admitted"])
      \/ /\ hd.request.placement # None /\ G!WorkerAdmission(hd).disposition = "PASS"
         /\ G!Advance(hd, [hd EXCEPT !.stage = "admitted", !.mode = G!WorkerAdmission(hd).mode,
                                     !.upon = G!Description(hd.worker)])
    BY DEF G!AdmitPlacement
<1>3. ASSUME NEW reply, G!Leave(hd, reply) PROVE HandlersOK(handling, facts, up)'
    BY <1>1, <1>3, LeavesOK
<1>4. ASSUME hd.request.placement = None, G!Advance(hd, [hd EXCEPT !.stage = "admitted"])
      PROVE  HandlersOK(handling, facts, up)'
  <2>1. PICK next : next = [hd EXCEPT !.stage = "admitted"]
      OBVIOUS
  <2>2. HandlerOK(next, facts, up)
    <3>1. /\ HandlerShape(next) /\ next.stage = "admitted" /\ next.worker = hd.worker
          /\ next.runtime = hd.runtime /\ next.offload = hd.offload /\ next.request = hd.request
        BY <1>1, <2>1, StageIs DEF HandlerOK
    <3> QED BY <1>1, <1>4, <3>1 DEF HandlerOK, Proved, AdmittedOn
  <2> QED BY <1>1, <1>4, <2>1, <2>2, AdvancesOK
<1>5. ASSUME hd.request.placement # None, G!WorkerAdmission(hd).disposition = "PASS",
             G!Advance(hd, [hd EXCEPT !.stage = "admitted", !.mode = G!WorkerAdmission(hd).mode,
                                      !.upon = G!Description(hd.worker)])
      PROVE  HandlersOK(handling, facts, up)'
  <2>1. PICK mode, upon : mode = G!WorkerAdmission(hd).mode /\ upon = G!Description(hd.worker)
      OBVIOUS
  <2>2. PICK next : next = [hd EXCEPT !.stage = "admitted", !.mode = mode, !.upon = upon]
      OBVIOUS
  <2>3. /\ G!P!Fits(hd.request.placement, G!Snapshot(upon), hd.runtime, mode)
        /\ upon.facts = facts[hd.worker]
      BY <1>1, <1>5, <2>1, AdmissionFits DEF HandlerOK
  <2>4. HandlerOK(next, facts, up)
    <3>1. /\ HandlerShape(next) /\ next.stage = "admitted" /\ next.worker = hd.worker /\ next.request = hd.request
          /\ next.runtime = hd.runtime /\ next.offload = hd.offload /\ next.mode = mode /\ next.upon = upon
      <4>1. HandlerShape(hd)
          BY <1>1 DEF HandlerOK
      <4>2. PICK x : x = [hd EXCEPT !.stage = "admitted"]
          OBVIOUS
      <4>3. PICK y : y = [x EXCEPT !.mode = mode]
          OBVIOUS
      <4>4. next = [y EXCEPT !.upon = upon]
          BY <2>2, <4>2, <4>3
      <4>5. /\ HandlerShape(x) /\ x.stage = "admitted" /\ x.worker = hd.worker /\ x.request = hd.request
            /\ x.runtime = hd.runtime /\ x.offload = hd.offload
          BY <4>1, <4>2 DEF HandlerShape, HandlerFields
      <4>6. /\ HandlerShape(y) /\ y.stage = "admitted" /\ y.worker = hd.worker /\ y.request = hd.request
            /\ y.runtime = hd.runtime /\ y.offload = hd.offload /\ y.mode = mode
          BY <4>3, <4>5 DEF HandlerShape, HandlerFields
      <4> QED BY <4>4, <4>6 DEF HandlerShape, HandlerFields
    <3> QED BY <1>1, <2>3, <3>1 DEF HandlerOK, Proved, AdmittedOn
  <2> QED BY <1>1, <1>5, <2>1, <2>2, <2>4, AdvancesOK
<1> QED BY <1>1, <1>2, <1>3, <1>4, <1>5, NothingRan DEF HandlingInv

LEMMA AppendDispatchOK == ASSUME HandlingInv, NEW hd \in handling, G!AppendDispatch(hd) PROVE HandlingInv'
<1>1. /\ UNCHANGED <<up, facts, ran>> /\ HandlerOK(hd, facts, up) /\ HandlersOK(handling, facts, up)
      /\ hd.stage = "admitted"
    BY DEF G!AppendDispatch, HandlingInv, HandlersOK
<1>2. (\E reply : G!Leave(hd, reply)) \/ G!Advance(hd, [hd EXCEPT !.stage = "recorded"])
    BY DEF G!AppendDispatch
<1>3. ASSUME NEW reply, G!Leave(hd, reply) PROVE HandlersOK(handling, facts, up)'
    BY <1>1, <1>3, LeavesOK
<1>4. ASSUME G!Advance(hd, [hd EXCEPT !.stage = "recorded"]) PROVE HandlersOK(handling, facts, up)'
  <2>1. PICK next : next = [hd EXCEPT !.stage = "recorded"]
      OBVIOUS
  <2>2. HandlerOK(next, facts, up)
    <3>1. /\ HandlerShape(next) /\ next.stage = "recorded" /\ next.worker = hd.worker /\ next.request = hd.request
          /\ next.runtime = hd.runtime /\ next.offload = hd.offload /\ next.mode = hd.mode /\ next.upon = hd.upon
        BY <1>1, <2>1, StageIs DEF HandlerOK
    <3> QED BY <1>1, <3>1 DEF HandlerOK, Proved, AdmittedOn
  <2> QED BY <1>1, <1>4, <2>1, <2>2, AdvancesOK
<1> QED BY <1>1, <1>2, <1>3, <1>4, NothingRan DEF HandlingInv

LEMMA ExecuteOK == ASSUME HandlingInv, NEW hd \in handling, G!Execute(hd) PROVE HandlingInv'
<1>1. /\ UNCHANGED <<up, facts>> /\ HandlerOK(hd, facts, up) /\ HandlersOK(handling, facts, up)
      /\ hd.stage = "recorded" /\ ran' = G!Execution(hd) /\ G!Leave(hd, "executed")
    BY DEF G!Execute, HandlingInv, HandlersOK
<1>2. HandlersOK(handling, facts, up)'
    BY <1>1, LeavesOK
<1>3. /\ ran'.placement = hd.request.placement /\ ran'.mode = hd.mode /\ ran'.upon = hd.upon
      /\ ran'.runtime = hd.runtime /\ ran'.offload = hd.offload /\ ran'.facts = facts[hd.worker]
    BY <1>1 DEF G!Execution
<1>4. Proved(hd, facts[hd.worker]) /\ AdmittedOn(hd, facts[hd.worker])
    BY <1>1 DEF HandlerOK
<1>5. G!RunsAsAdmitted'
    BY <1>3, <1>4 DEF G!RunsAsAdmitted, G!Snapshot, Proved, AdmittedOn
<1> QED BY <1>2, <1>5 DEF HandlingInv

\* The worker changes, stops and starts.
LEMMA ChangesOK ==
    ASSUME HandlingInv, NEW w \in Workers, NEW f \in Facts, G!Change(w, f) \/ G!Start(w, f) PROVE HandlingInv'
<1>1. /\ facts' = [facts EXCEPT ![w] = f] /\ UNCHANGED <<handling, ran>>
      /\ up[w] => f.profile = facts[w].profile
      /\ up' = up \/ up' = [up EXCEPT ![w] = TRUE]
    BY DEF G!Change, G!Start
<1>2. /\ facts' \in [Workers -> Facts] /\ up' = [v \in Workers |-> up'[v]]
      /\ Runs(facts, up, facts', up')
    BY <1>1 DEF HandlingInv, HandlersOK, Runs
<1>3. ASSUME NEW hd \in handling PROVE HandlerOK(hd, facts', up')
  <2>1. HandlerOK(hd, facts, up) /\ hd.worker \in Workers
      BY DEF HandlingInv, HandlersOK, HandlerOK, HandlerShape
  <2> QED BY <1>2, <2>1, HandlerRuns DEF Runs
<1> QED BY <1>1, <1>2, <1>3, NothingRan DEF HandlingInv, HandlersOK

LEMMA StopsOK == ASSUME HandlingInv, NEW w \in Workers, G!Stop(w) PROVE HandlingInv'
<1>1. /\ UNCHANGED <<facts, ran>>
      /\ up' = [up EXCEPT ![w] = FALSE] /\ handling' = {hd \in handling : hd.worker # w}
    BY DEF G!Stop
<1>2. up' = [v \in Workers |-> up'[v]]
    BY <1>1 DEF HandlingInv, HandlersOK
<1>3. ASSUME NEW hd \in handling' PROVE HandlerOK(hd, facts, up')
  <2>1. hd \in handling /\ HandlerOK(hd, facts, up) /\ hd.worker \in Workers
      BY <1>1 DEF HandlingInv, HandlersOK, HandlerOK, HandlerShape
  <2>2. up[hd.worker] => up'[hd.worker]
      BY <1>1, <2>1 DEF HandlingInv, HandlersOK
  <2> QED BY <2>1, <2>2, HandlerRuns
<1> QED BY <1>1, <1>2, <1>3, NothingRan DEF HandlingInv, HandlersOK

LEMMA HandlingStep ==
    ASSUME ClientInv, HandlingInv, G!ClientAssumption, [G!Next]_G!vars PROVE HandlingInv'
<1>1. ASSUME UNCHANGED G!vars PROVE HandlingInv'
    BY <1>1, HandlingStays DEF G!vars, G!worker
<1>2. ASSUME NEW t \in Threads, G!ThreadStep(t) PROVE HandlingInv'
  <2>1. G!Send(t) \/ UNCHANGED <<up, facts, handling, ran>>
      BY <1>2 DEF G!ThreadStep, G!Ask, G!Probe, G!EndProbing, G!Choose, G!Admit, G!GiveUp, G!Receive, G!Release,
                  G!Observed, G!Ingested, G!worker
  <2> QED BY <2>1, Arrives, HandlingStays
<1>3. ASSUME NEW t \in Threads, G!NewCall(t) PROVE HandlingInv'
  <2>1. UNCHANGED <<up, facts, handling, ran>>
      BY <1>3 DEF G!NewCall, G!StartRefresh, G!StartDispatch, G!Observe, G!Ingest, G!worker
  <2> QED BY <2>1, HandlingStays
<1>4. ASSUME NEW w \in Workers, NEW p \in Policies,
             G!SetWorkerPolicy(w, p) \/ G!Quarantine(w) \/ G!Resume(w) \/ G!Revoke(w)
      PROVE  HandlingInv'
    BY <1>4, HandlingStays DEF G!SetWorkerPolicy, G!Quarantine, G!Resume, G!Revoke, G!worker
<1>5. ASSUME G!World PROVE HandlingInv'
  <2>1. ASSUME NEW w \in Workers, G!Quarantine(w) \/ G!Resume(w) \/ G!Revoke(w) PROVE HandlingInv'
      BY <2>1, HandlingStays DEF G!Quarantine, G!Resume, G!Revoke, G!worker
  <2> QED BY <1>4, <1>5, <2>1, ChangesOK, StopsOK DEF G!World
<1>6. ASSUME G!Tick \/ G!Restart PROVE HandlingInv'
    BY <1>6, HandlingStays DEF G!Tick, G!Restart, G!worker
<1>7. ASSUME G!HandlerStep PROVE HandlingInv'
    BY <1>7, AcceptOK, AdmitPlacementOK, AppendDispatchOK, ExecuteOK DEF G!HandlerStep
<1> QED BY <1>1, <1>2, <1>3, <1>5, <1>6, <1>7 DEF G!Next

LEMMA HandlingInit == ASSUME G!Init PROVE HandlingInv
<1>1. /\ up = [w \in Workers |-> TRUE] /\ facts \in [Workers -> Facts] /\ handling = {} /\ ran = None
    BY DEF G!Init
<1> QED BY <1>1 DEF HandlingInv, HandlersOK, G!RunsAsAdmitted

\* For every client: what runs at a worker was admitted there by the process
\* that runs it, on resources it then had, in a mode they allowed and with
\* proofs of its own runtime, although other dispatches, changes, restarts of
\* either side and late observations come between the admission, the durable
\* record and the start (LocalWorker.execute).
THEOREM RunsWhatItAdmitted == NoneIsNoDescription /\ G!ClientAssumption => (G!Spec => []G!RunsAsAdmitted)
<1> SUFFICES ASSUME NoneIsNoDescription, G!ClientAssumption PROVE G!Spec => []G!RunsAsAdmitted
    OBVIOUS
<1>1. G!Init => HandlingInv
    BY HandlingInit
<1>2. ClientInv /\ HandlingInv /\ [G!Next]_G!vars => HandlingInv'
    BY HandlingStep
<1>3. HandlingInv => G!RunsAsAdmitted
    BY DEF HandlingInv
<1> QED BY <1>1, <1>2, <1>3, ClientInvariant, PTL DEF G!Spec

\* Only the step that schedules a call, or admits it, makes it a dispatch.
LEMMA OtherTurn ==
    ASSUME CallsTyped(call), NEW t \in Threads, NEW u \in Threads, u # t, NEW c, call' = [call EXCEPT ![u] = c]
    PROVE  call'[t] = call[t]
BY DEF CallsTyped

Begins(t) == call[t].op \in {"schedule", "admit"} /\ call'[t].op = "dispatching"

LEMMA WhoBegins ==
    ASSUME CallsTyped(call), [G!Next]_G!vars, NEW t \in Threads, Begins(t)
    PROVE  \/ G!Choose(t) /\ call[t].op = "schedule"
           \/ G!Admit(t) /\ call[t].op = "admit"
<1>0. G!Idle.op = "idle"
    BY IdleIs
<1>1. ASSUME UNCHANGED call PROVE FALSE
    BY <1>1 DEF Begins
<1>2. ASSUME NEW u \in Threads, G!ThreadStep(u)
      PROVE  G!Choose(t) \/ G!Admit(t)
  <2>1. CASE u = t
      BY <1>2, <2>1 DEF Begins, G!ThreadStep, G!Ask, G!Probe, G!EndProbing, G!Send, G!GiveUp, G!Receive, G!Release,
                       G!Observed, G!Ingested
  <2>2. CASE u # t
    <3>1. call'[t] = call[t]
      <4>1. ASSUME NEW w \in Workers, G!Ask(u, w) \/ G!Probe(u, w) PROVE call'[t] = call[t]
          BY <2>2, <4>1 DEF G!Ask, G!Probe, CallsTyped
      <4>2. ASSUME G!EndProbing(u) \/ G!Release(u) \/ G!Observed(u) \/ G!Ingested(u) PROVE call'[t] = call[t]
          BY <2>2, <4>2, OtherTurn DEF G!EndProbing, G!Release, G!Observed, G!Ingested, G!Become
      <4>3. ASSUME G!Choose(u) PROVE call'[t] = call[t]
          BY <2>2, <4>3, OtherTurn DEF G!Choose, G!Become
      <4>4. ASSUME G!Admit(u) PROVE call'[t] = call[t]
          BY <2>2, <4>4, OtherTurn DEF G!Admit, G!Become
      <4>5. ASSUME G!Send(u) \/ G!GiveUp(u) PROVE call'[t] = call[t]
          BY <2>2, <4>5 DEF G!Send, G!GiveUp, CallsTyped
      <4>6. ASSUME G!Receive(u) PROVE call'[t] = call[t]
          BY <2>2, <4>6 DEF G!Receive, CallsTyped
      <4> QED BY <1>2, <4>1, <4>2, <4>3, <4>4, <4>5, <4>6 DEF G!ThreadStep
    <3> QED BY <3>1 DEF Begins
  <2> QED BY <2>1, <2>2
<1>3. ASSUME NEW u \in Threads, G!NewCall(u) PROVE FALSE
  <2>1. call[u] = G!Idle
      BY <1>3 DEF G!NewCall, G!StartRefresh, G!StartDispatch, G!Observe, G!Ingest
  <2>2. u # t
      BY <1>0, <2>1 DEF Begins
  <2>3. call'[t] = call[t]
    <3>1. ASSUME G!StartRefresh(u) PROVE call'[t] = call[t]
        BY <2>2, <3>1, OtherTurn DEF G!StartRefresh, G!Become
    <3>2. ASSUME NEW r \in Requests, G!StartDispatch(u, r) PROVE call'[t] = call[t]
        BY <2>2, <3>2, OtherTurn DEF G!StartDispatch, G!Become
    <3>3. ASSUME NEW w, NEW kind, NEW m, G!Observe(u, w, kind, m) PROVE call'[t] = call[t]
        BY <2>2, <3>3, OtherTurn DEF G!Observe, G!Become
    <3>4. ASSUME NEW w, NEW role, NEW asked, NEW names, NEW at, G!Ingest(u, w, role, asked, names, at)
          PROVE  call'[t] = call[t]
        BY <2>2, <3>4, OtherTurn DEF G!Ingest, G!Become
    <3> QED BY <1>3, <3>1, <3>2, <3>3, <3>4 DEF G!NewCall
  <2> QED BY <2>3 DEF Begins
<1>4. ASSUME G!World \/ G!Tick PROVE UNCHANGED call
    BY <1>4 DEF G!World, G!SetWorkerPolicy, G!Change, G!Quarantine, G!Resume, G!Revoke, G!Stop, G!Start, G!Tick
<1>5. ASSUME G!Restart PROVE FALSE
    BY <1>0, <1>5 DEF G!Restart, Begins
<1>6. UNCHANGED G!vars => UNCHANGED call
    BY DEF G!vars
<1>7. ASSUME G!HandlerStep PROVE FALSE
    BY <1>7, HandlerTurns DEF Begins
<1>8. G!Choose(t) \/ G!Admit(t)
    BY <1>1, <1>2, <1>3, <1>4, <1>5, <1>6, <1>7 DEF G!Next
<1> QED BY <1>8 DEF G!Choose, G!Admit

\* What is known of a worker that is chosen was true of it within the lease.
LEMMA FittingWasTrue ==
    ASSUME ClientInv, NoneIsNoDescription, G!ClientAssumption, NEW r \in Requests, r.via # "target",
           NEW w \in Workers \ raced, Fitting(r, w)
    PROVE  G!WasTrue(r, w)
<1> DEFINE s == G!ScheduleSlot(w)
           d == description[w]
<1>0. /\ RecordsOK(w, description[w], liveness[w], stored[w], was, clock) /\ slot[w].seen = d
      /\ clock \in Nat /\ MaxAge \in Nat
    BY DEF ClientInv, TypesOK, MemoryOK, Current, G!ClientAssumption
<1>1. Serves(r.query, s)
    BY DEF Fitting
<1>2. liveness[w].state = "AVAILABLE"
    BY <1>1 DEF Serves, G!ScheduleSlot, G!LivenessClass
<1>3. d # None /\ d \in DescriptionSet /\ (clock - d.at <= MaxAge => d \in was[w])
    BY <1>0, <1>2 DEF RecordsOK, Real
<1>4. d.at \in Nat /\ d.facts \in Facts
    BY <1>3 DEF DescriptionSet
<1>5. s.age = clock - d.at /\ s.capabilities = d.facts.tokens /\ s.env = d.facts.env /\ s.policy = policy[w]
    BY <1>0, <1>3 DEF G!ScheduleSlot
<1>6. clock - d.at <= MaxAge
  <2>1. clock - d.at \in Int
      BY <1>0, <1>4
  <2>2. s.age # None /\ s.age = clock - d.at
      BY <1>5, <2>1 DEF NoneIsNoDescription
  <2> HIDE DEF d, s
  <2> QED BY <1>0, <1>1, <2>1, <2>2 DEF Serves, G!FreshnessOf
<1>7. d \in was[w]
    BY <1>3, <1>6
<1>8. r.query.all \subseteq d.facts.tokens \cup G!EnvTokens(d.facts.env) \cup G!PolicyTokens(policy[w])
    BY <1>1, <1>5 DEF Serves, G!Tokens
<1>9. r.query.intent # "normal" =>
          {"experimental", IF r.query.intent = "mutating" THEN "allow_toolchain_install"
                           ELSE "allow_root_mutation"} \subseteq policy[w]
  <2>1. G!IntentAllowed(policy[w], r.query.intent)
      BY <1>1, <1>5 DEF Serves
  <2> QED BY <2>1 DEF G!IntentAllowed
<1>10. ASSUME r.placement # None
       PROVE  /\ clock - d.at <= r.placement.max_age
              /\ \E mode \in Modes : G!P!Fits(r.placement, G!Snapshot(d), slot[w].runtime, mode)
  <2> DEFINE e == G!P!EvaluatePlacement(r.placement, G!Snapshot(d), d.facts.tokens,
                                        slot[w].runtime, slot[w].offload, clock)
  <2>1. e.disposition = "PASS"
      BY <1>0, <1>10 DEF Fitting
  <2>2. Measured(r.placement, G!Snapshot(d))
      BY <1>4, <1>10, DescriptionMeasured
  <2>3. Suits(r.placement, G!Snapshot(d), slot[w].runtime, e) /\ clock - G!Snapshot(d).at <= r.placement.max_age
    <3> DEFINE snapshot == G!Snapshot(d)
               tokens == d.facts.tokens
    <3> HIDE DEF snapshot, tokens
    <3>1. Measured(r.placement, snapshot)
        BY <2>2 DEF snapshot
    <3>2. LET x == G!P!EvaluatePlacement(r.placement, snapshot, tokens, slot[w].runtime, slot[w].offload, clock)
          IN  /\ Suits(r.placement, snapshot, slot[w].runtime, x)
              /\ x.disposition = "PASS" => clock - snapshot.at <= r.placement.max_age
        BY <3>1, PlacementSuits
    <3> QED BY <2>1, <3>2 DEF snapshot, tokens
  <2>4. G!Snapshot(d).at = d.at
      BY DEF G!Snapshot
  <2> HIDE DEF e
  <2> QED BY <2>1, <2>3, <2>4 DEF Suits
<1> HIDE DEF d, s
<1> QED BY <1>7, <1>8, <1>9, <1>10 DEF G!WasTrue, Modes

\* For every client: a worker is scheduled on facts it really had within the
\* lease, although probes are applied late, workers change and a restart
\* replays the ledger.
THEOREM SelectedOnTruth == NoneIsNoDescription /\ G!ClientAssumption => (G!Spec => G!SelectedWasTrue)
<1> SUFFICES ASSUME NoneIsNoDescription, G!ClientAssumption PROVE G!Spec => G!SelectedWasTrue
    OBVIOUS
<1>1. ASSUME ClientInv, [G!Next]_G!vars, NEW t \in Threads, call[t].op = "schedule", call'[t].op = "dispatching",
             NEW w \in G!ToSet(call'[t].workers) \ raced
      PROVE  G!WasTrue(call[t].request, w)
  <2> DEFINE r == call[t].request
             workers == G!Chosen(r)
  <2>1. CallsTyped(call)
      BY <1>1 DEF ClientInv, TypesOK
  <2>2. G!Choose(t)
      BY <1>1, <2>1, WhoBegins DEF Begins
  <2>3. r \in Requests /\ r.via # "target"
    <3>1. IsScheduling(call[t])
        BY <1>1, <2>1, CallKinds DEF CallsTyped
    <3> QED BY <3>1 DEF IsScheduling
  <2>4. call'[t] = G!Dispatching(r, workers)
    <3>1. call' = [call EXCEPT ![t] = G!Idle] \/ call' = [call EXCEPT ![t] = G!Dispatching(r, workers)]
        BY <2>2 DEF G!Choose, G!Become
    <3>2. call'[t] = G!Idle \/ call'[t] = G!Dispatching(r, workers)
        BY <2>1, <3>1 DEF CallsTyped
    <3> QED BY <1>1, <3>2, IdleIs
  <2>5. w \in G!ToSet(workers)
    <3>1. G!Dispatching(r, workers).workers = workers
        BY DEF G!Dispatching
    <3> QED BY <2>4, <3>1
  <2> HIDE DEF workers
  <2>6. Fitting(r, w) /\ w \in Workers \ raced
      BY <1>1, <2>3, <2>5, ChosenFits DEF Fitting, workers
  <2> HIDE DEF r
  <2>7. G!WasTrue(r, w)
      BY <1>1, <2>3, <2>6, FittingWasTrue
  <2> QED BY <2>7 DEF r
<1>2. ClientInv /\ [G!Next]_G!vars =>
        [\A t \in Threads :
            call[t].op = "schedule" /\ call'[t].op = "dispatching" =>
               \A w \in G!ToSet(call'[t].workers) \ raced : G!WasTrue(call[t].request, w)]_G!vars
    BY <1>1
<1> QED BY <1>2, ClientInvariant, PTL DEF G!Spec, G!SelectedWasTrue

\* For every client: an exact target is dispatched to only on an
\* administrator's word that is still fresh, and never after its revocation.
THEOREM TargetsVouchedFor == NoneIsNoDescription /\ G!ClientAssumption => (G!Spec => G!TargetWasVouched)
<1> SUFFICES ASSUME NoneIsNoDescription, G!ClientAssumption PROVE G!Spec => G!TargetWasVouched
    OBVIOUS
<1>1. ASSUME ClientInv, [G!Next]_G!vars, NEW t \in Threads, call[t].op = "admit", call'[t].op = "dispatching"
      PROVE  LET target == call[t].request.target IN
             /\ target.worker \notin revoked
             /\ \E i \in DOMAIN ledger :
                   /\ ledger[i].worker = target.worker
                   /\ ledger[i].by = "admin"
                   /\ target.required \subseteq ledger[i].names
                   /\ clock - ledger[i].at <= target.capability_age
  <2> DEFINE target == call[t].request.target
             w == target.worker
             o == G!LoadedCache(ledger)[w]
             status == G!BackendStatus(w)
  <2>1. CallsTyped(call) /\ ledger \in Seq(ObservationSet)
      BY <1>1 DEF ClientInv, TypesOK
  <2>2. G!Admit(t)
      BY <1>1, <2>1, WhoBegins DEF Begins
  <2>3. w \in Workers
    <3>1. IsAdmitting(call[t])
        BY <1>1, <2>1, CallKinds DEF CallsTyped
    <3>2. call[t].request \in Requests /\ call[t].request.via = "target"
        BY <3>1 DEF IsAdmitting
    <3> QED BY <3>2 DEF G!ClientAssumption, G!RequestValid
  <2>4. G!T!EvaluateTargetAdmission(target, status, o, TRUE, TRUE, clock).disposition = "PASS"
    <3>1. ASSUME G!T!EvaluateTargetAdmission(target, status, o, TRUE, TRUE, clock).disposition # "PASS"
          PROVE  call' = [call EXCEPT ![t] = G!Idle]
        BY <2>2, <3>1 DEF G!Admit, G!Become
    <3>2. call' # [call EXCEPT ![t] = G!Idle]
        BY <1>1, <2>1, IdleIs DEF CallsTyped
    <3> QED BY <3>1, <3>2
  <2> HIDE DEF target, o, status
  <2>5. /\ status.membership = "ENROLLED" /\ o # None /\ G!T!AdmissionTrusted(o)
        /\ target.required \subseteq o.names /\ clock - o.at <= target.capability_age
      BY <2>4, TargetAdmitted
  <2>6. w \notin revoked
      BY <2>5 DEF status, G!BackendStatus
  <2>7. InLedger(o, ledger) /\ o.worker = w
    <3>1. TrustedOK(G!LoadedCache(ledger), ledger)
        BY <1>1, CacheOK
    <3> QED BY <2>3, <2>5, <3>1 DEF TrustedOK, o
  <2>8. PICK i \in DOMAIN ledger : ledger[i] = o
      BY <2>7 DEF InLedger
  <2>9. o \in ObservationSet
      BY <2>1, <2>8
  <2>10. o.by = "admin"
    <3>1. PICK v \in Workers, role \in {"admin", "consumer"}, asked \in {"operator-asserted", "worker-observed"},
              names \in Vouched, c \in Nat, a \in Captured :
            o = G!CapabilityObservation(v, role, asked, names, c - a)
        BY <2>9 DEF ObservationSet
    <3>2. o.by = role /\ o.class = G!ObservationClass(role, asked)
        BY <3>1 DEF G!CapabilityObservation
    <3> QED BY <2>5, <3>2 DEF G!ObservationClass, G!T!AdmissionTrusted
  <2>11. ledger[i].worker = w /\ ledger[i].by = "admin" /\ target.required \subseteq ledger[i].names
         /\ clock - ledger[i].at <= target.capability_age
      BY <2>5, <2>7, <2>8, <2>10
  <2> QED BY <2>6, <2>8, <2>11 DEF target
<1>2. ClientInv /\ [G!Next]_G!vars =>
        [\A t \in Threads :
            call[t].op = "admit" /\ call'[t].op = "dispatching" =>
               LET target == call[t].request.target IN
               /\ target.worker \notin revoked
               /\ \E i \in DOMAIN ledger :
                     /\ ledger[i].worker = target.worker
                     /\ ledger[i].by = "admin"
                     /\ target.required \subseteq ledger[i].names
                     /\ clock - ledger[i].at <= target.capability_age]_G!vars
    BY <1>1
<1> QED BY <1>2, ClientInvariant, PTL DEF G!Spec, G!TargetWasVouched
=============================================================================
