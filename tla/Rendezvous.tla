----------------------------- MODULE Rendezvous -----------------------------
(***************************************************************************)
(* Worker-initiated sessions: the coordinator and its sessions              *)
(* (rendezvous.py), the listener thread that serves each session and the    *)
(* worker's client loop (transport.py, TLSRendezvousServer and              *)
(* TLSRendezvousWorker), the dispatches that put a command into a session,  *)
(* and revocation (controller_service.py, _revoke_worker).                  *)
(*                                                                          *)
(* One session is one TLS connection on which the worker speaks and the     *)
(* controller answers, so at most one message is under way: it is in the    *)
(* listener's hands when cl says the worker awaits an answer.  Envelope     *)
(* checks and freshness (three heartbeats) are left out: a dispatch may     *)
(* find any open session of a member.  The worker sends one description for *)
(* a whole session, so no heartbeat records a changed one.  The trust store *)
(* is revoked last and is not consulted on an open session.                 *)
(***************************************************************************)
EXTENDS Integers, Sequences, FiniteSets

CONSTANTS
    Workers, Requests, Dispatchers, None,
    MaxSessions,    \* bound: sessions opened in a behaviour
    MaxCrashes,     \* bound: controller process ends
    MaxRevokes,     \* bound: revocations
    MaxFaults       \* bound: "connected" appends that raise

ASSUME RendezvousNone == None \notin Requests
ASSUME RendezvousBounds ==
    MaxSessions \in Nat /\ MaxCrashes \in Nat /\ MaxRevokes \in Nat /\ MaxFaults \in Nat

VARIABLES
    events,         \* the rendezvous ledger (durable)
    sess,           \* the sessions, in the order they were opened
    member,         \* the lifecycle ledger's membership_status = ENROLLED
    revoker,        \* the worker whose revocation is half done
    disp,           \* dispatches that submit to a session
    crashes, revokes, faults

vars == <<events, sess, member, revoker, disp, crashes, revokes, faults>>

-----------------------------------------------------------------------------
Sessions == DOMAIN sess

(* listed: in coordinator.sessions.  pend, resp: _pending's command and      *)
(* response.  srv, allowed: the listener thread and what it read under the   *)
(* lock.  cl, cmd: the worker's client and the command it was handed.        *)
(* late: a command was handed out after the worker's revocation returned.    *)
NewSession(w, g, thread) ==
    [worker |-> w, gen |-> g, closed |-> FALSE, listed |-> TRUE, pend |-> None, resp |-> None,
     srv |-> thread, allowed |-> FALSE, cl |-> IF thread = "recv" THEN "ready" ELSE "gone",
     cmd |-> None, late |-> FALSE]

\* The worker's end of the connection is gone, and what it held.
Gone(x) == [x EXCEPT !.cl = "gone", !.cmd = None]

\* The controller's end is gone: a worker at work on a command notices later.
Dropped(x) == IF x.cl = "got" THEN x ELSE Gone(x)

NoDispatch == [pc |-> "idle", s |-> 0, req |-> None]

Recorded(event, s) == [event |-> event, worker |-> sess[s].worker, gen |-> sess[s].gen]

Active(s) == sess[s].listed /\ ~sess[s].closed

\* A revocation of the worker has returned and stands.
Revoked(w) == ~member[w] /\ revoker # w

\* 1 + the maximum of the complete ledger's generations for the worker.
IsNextGeneration(w, g) ==
    LET gens == {events[i].gen : i \in {j \in DOMAIN events : events[j].worker = w}}
    IN  g \notin gens /\ g - 1 \in gens \cup {0} /\ \A n \in gens : n < g

Init ==
    /\ events = <<>>
    /\ sess = <<>>
    /\ member = [w \in Workers |-> TRUE]
    /\ revoker = None
    /\ disp = [k \in Dispatchers |-> NoDispatch]
    /\ crashes = 0 /\ revokes = 0 /\ faults = 0

-----------------------------------------------------------------------------
(* RendezvousCoordinator.open, under its lock.                               *)

\* Mutant: a worker may open a second session.
AdmissibleTwice(w) == Len(sess) < MaxSessions /\ member[w]

Admissible(w) ==
    /\ Len(sess) < MaxSessions
    /\ member[w]
    /\ \A s \in Sessions : sess[s].worker = w => ~Active(s)

Open(w, g) ==
    /\ Admissible(w) /\ IsNextGeneration(w, g)
    /\ sess' = Append(sess, NewSession(w, g, "recv"))
    /\ events' = Append(events, [event |-> "connected", worker |-> w, gen |-> g])
    /\ UNCHANGED <<member, revoker, disp, crashes, revokes, faults>>

\* The session is listed before it is recorded.  When the append raises, the
\* listener never learns the session id, so nobody closes the session.
OpenFails(w, g) ==
    /\ Admissible(w) /\ IsNextGeneration(w, g) /\ faults < MaxFaults
    /\ sess' = Append(sess, NewSession(w, g, "ended"))
    /\ faults' = faults + 1
    /\ UNCHANGED <<events, member, revoker, disp, crashes, revokes>>

-----------------------------------------------------------------------------
(* The worker's client: TLSRendezvousWorker.run.                             *)

Beat(s) ==
    /\ sess[s].cl = "ready"
    /\ sess' = [sess EXCEPT ![s].cl = "beat"]
    /\ UNCHANGED <<events, member, revoker, disp, crashes, revokes, faults>>

\* worker.handle(command), and its response is sent.
HandleCommand(s) ==
    /\ sess[s].cl = "got"
    /\ sess' = [sess EXCEPT ![s].cl = "answer"]
    /\ UNCHANGED <<events, member, revoker, disp, crashes, revokes, faults>>

\* The client ends: stopped, crashed, a broken connection, a missed deadline.
ClientEnds(s) ==
    /\ sess[s].cl # "gone"
    /\ sess' = [sess EXCEPT ![s] = Gone(@)]
    /\ UNCHANGED <<events, member, revoker, disp, crashes, revokes, faults>>

-----------------------------------------------------------------------------
(* The listener's thread: _threaded_session and RendezvousCoordinator.message *)

\* message(): the session and the membership, read under the lock.
Lookup(s) ==
    /\ sess[s].srv = "recv" /\ sess[s].cl \in {"beat", "answer"}
    /\ sess' = [sess EXCEPT ![s].srv = "check", ![s].allowed = member[sess[s].worker]]
    /\ UNCHANGED <<events, member, revoker, disp, crashes, revokes, faults>>

\* Mutant: only the membership is checked.
CheckIgnoresClosed(s) ==
    /\ sess[s].srv = "check"
    /\ \/ /\ ~sess[s].allowed
          /\ sess' = [sess EXCEPT ![s].srv = "raised", ![s].closed = TRUE]
          /\ events' = Append(events, Recorded("revoked", s))
       \/ /\ sess[s].allowed
          /\ sess' = [sess EXCEPT ![s].srv = "act", ![s].allowed = FALSE]
          /\ UNCHANGED events
    /\ UNCHANGED <<member, revoker, disp, crashes, revokes, faults>>

\* The checks on what was read; the lock is no longer held.
Check(s) ==
    /\ sess[s].srv = "check"
    /\ \/ /\ sess[s].closed
          /\ sess' = [sess EXCEPT ![s].srv = "raised", ![s].allowed = FALSE]
          /\ UNCHANGED events
       \/ /\ ~sess[s].closed /\ ~sess[s].allowed
          /\ sess' = [sess EXCEPT ![s].srv = "raised", ![s].closed = TRUE]
          /\ events' = Append(events, Recorded("revoked", s))
       \/ /\ ~sess[s].closed /\ sess[s].allowed
          /\ sess' = [sess EXCEPT ![s].srv = "act", ![s].allowed = FALSE]
          /\ UNCHANGED events
    /\ UNCHANGED <<member, revoker, disp, crashes, revokes, faults>>

\* session.heartbeat: the pending command, answered or not, goes out with the ack.
ActHeartbeat(s) ==
    /\ sess[s].srv = "act" /\ sess[s].cl # "answer"
    /\ sess' = [sess EXCEPT
          ![s].srv = "recv",
          ![s].cl = IF @ = "gone" THEN "gone" ELSE IF sess[s].pend = None THEN "ready" ELSE "got",
          ![s].cmd = IF sess[s].cl = "gone" THEN None ELSE sess[s].pend,
          ![s].late = @ \/ (sess[s].closed /\ sess[s].pend # None /\ Revoked(sess[s].worker))]
    /\ UNCHANGED <<events, member, revoker, disp, crashes, revokes, faults>>

\* Mutant: any response completes the pending command.
ActResponseUnbound(s) ==
    /\ sess[s].srv = "act" /\ sess[s].cl = "answer"
    /\ sess' = [sess EXCEPT ![s] =
          IF sess[s].pend # None
          THEN [@ EXCEPT !.resp = sess[s].cmd, !.srv = "recv", !.cl = "ready", !.cmd = None]
          ELSE [@ EXCEPT !.srv = "raised"]]
    /\ UNCHANGED <<events, member, revoker, disp, crashes, revokes, faults>>

\* session.complete: bound by request id to the pending command, or refused.
ActResponse(s) ==
    /\ sess[s].srv = "act" /\ sess[s].cl = "answer"
    /\ sess' = [sess EXCEPT ![s] =
          IF sess[s].pend # None /\ sess[s].cmd = sess[s].pend
          THEN [@ EXCEPT !.resp = sess[s].cmd, !.srv = "recv", !.cl = "ready", !.cmd = None]
          ELSE [@ EXCEPT !.srv = "raised"]]
    /\ UNCHANGED <<events, member, revoker, disp, crashes, revokes, faults>>

\* The connection is gone or its receive deadline passes.
ReceiveFails(s) ==
    /\ sess[s].srv = "recv" /\ sess[s].cl \notin {"beat", "answer"}
    /\ sess' = [sess EXCEPT ![s].srv = "raised"]
    /\ UNCHANGED <<events, member, revoker, disp, crashes, revokes, faults>>

\* Mutant: the thread ends without on_close.
DelistForgotten(s) ==
    /\ sess[s].srv = "raised"
    /\ sess' = [sess EXCEPT ![s] = [Dropped(@) EXCEPT !.srv = "ended"]]
    /\ UNCHANGED <<events, member, revoker, disp, crashes, revokes, faults>>

\* on_close: the session leaves the table under the lock, and the connection ends ...
Delist(s) ==
    /\ sess[s].srv = "raised"
    /\ sess' = [sess EXCEPT ![s] = [Dropped(@) EXCEPT !.srv = "delisted", !.listed = FALSE]]
    /\ UNCHANGED <<events, member, revoker, disp, crashes, revokes, faults>>

\* ... and is closed and recorded afterwards.
Disconnect(s) ==
    /\ sess[s].srv = "delisted"
    /\ sess' = [sess EXCEPT ![s].srv = "ended", ![s].closed = TRUE]
    /\ events' = Append(events, Recorded("disconnected", s))
    /\ UNCHANGED <<member, revoker, disp, crashes, revokes, faults>>

-----------------------------------------------------------------------------
(* A dispatch: RendezvousCoordinator.dispatch, then RendezvousSession.submit. *)

\* The snapshot of open sessions and of memberships, under the lock.
Select(k, s, r) ==
    /\ disp[k].pc = "idle" /\ Active(s) /\ member[sess[s].worker]
    /\ disp' = [disp EXCEPT ![k] = [pc |-> "submit", s |-> s, req |-> r]]
    /\ UNCHANGED <<events, sess, member, revoker, crashes, revokes, faults>>

\* Closed, or a command in flight: refused.  Otherwise the command is pending.
Submit(k) ==
    LET s == disp[k].s IN
    /\ disp[k].pc = "submit"
    /\ \/ /\ sess[s].closed \/ sess[s].pend # None
          /\ disp' = [disp EXCEPT ![k] = NoDispatch]
          /\ UNCHANGED sess
       \/ /\ ~sess[s].closed /\ sess[s].pend = None
          /\ disp' = [disp EXCEPT ![k].pc = "wait"]
          /\ sess' = [sess EXCEPT ![s].pend = disp[k].req, ![s].resp = None]
    /\ UNCHANGED <<events, member, revoker, crashes, revokes, faults>>

\* The wait ends with a response, which a closed session still throws away.
SubmitReturns(k) ==
    LET s == disp[k].s IN
    /\ disp[k].pc = "wait" /\ (sess[s].closed \/ sess[s].resp # None)
    /\ sess' = [sess EXCEPT ![s].pend = None, ![s].resp = None]
    /\ disp' = [disp EXCEPT ![k] = NoDispatch]
    /\ UNCHANGED <<events, member, revoker, crashes, revokes, faults>>

SubmitTimesOut(k) ==
    LET s == disp[k].s IN
    /\ disp[k].pc = "wait" /\ ~sess[s].closed /\ sess[s].resp = None
    /\ sess' = [sess EXCEPT ![s].pend = None]
    /\ disp' = [disp EXCEPT ![k] = NoDispatch]
    /\ UNCHANGED <<events, member, revoker, crashes, revokes, faults>>

-----------------------------------------------------------------------------
(* Membership.                                                               *)

\* _revoke_worker: the durable tombstone first ...
RevokeMembership(w) ==
    /\ revoker = None /\ member[w] /\ revokes < MaxRevokes
    /\ member' = [member EXCEPT ![w] = FALSE]
    /\ revoker' = w
    /\ revokes' = revokes + 1
    /\ UNCHANGED <<events, sess, disp, crashes, faults>>

\* ... then coordinator.revoke_worker closes and records the worker's active
\* sessions (at most one, see OneActiveSession) under the lock.
RevokeSessions ==
    /\ revoker # None
    /\ \/ \E s \in Sessions :
             /\ sess[s].worker = revoker /\ Active(s)
             /\ sess' = [sess EXCEPT ![s].closed = TRUE]
             /\ events' = Append(events, Recorded("revoked", s))
             /\ UNCHANGED revoker
       \/ /\ \A s \in Sessions : sess[s].worker = revoker => ~Active(s)
          /\ revoker' = None
          /\ UNCHANGED <<sess, events>>
    /\ UNCHANGED <<member, disp, crashes, revokes, faults>>

\* A later enrollment decision of the lifecycle ledger.
Enroll(w) ==
    /\ ~member[w] /\ revoker # w
    /\ member' = [member EXCEPT ![w] = TRUE]
    /\ UNCHANGED <<events, sess, revoker, disp, crashes, revokes, faults>>

\* states(): a status read closes a revoked worker's session, unrecorded.
ReadStates(s) ==
    /\ Active(s) /\ ~member[sess[s].worker]
    /\ sess' = [sess EXCEPT ![s].closed = TRUE]
    /\ UNCHANGED <<events, member, revoker, disp, crashes, revokes, faults>>

\* The controller ends and is started again with an empty session table.
Crash ==
    /\ crashes < MaxCrashes
    /\ sess' = [s \in Sessions |->
                  [Dropped(sess[s]) EXCEPT !.listed = FALSE, !.closed = TRUE, !.srv = "ended",
                                           !.allowed = FALSE, !.pend = None, !.resp = None]]
    /\ disp' = [k \in Dispatchers |-> NoDispatch]
    /\ revoker' = None
    /\ crashes' = crashes + 1
    /\ UNCHANGED <<events, member, revokes, faults>>

Serve(s) ==
    \/ Lookup(s) \/ Check(s) \/ ActHeartbeat(s) \/ ActResponse(s)
    \/ Delist(s) \/ Disconnect(s)

Client(s) == Beat(s) \/ HandleCommand(s)

Wait(k) == Submit(k) \/ SubmitReturns(k) \/ SubmitTimesOut(k)

Generations == 1..(MaxSessions + 1)

Next ==
    \/ \E w \in Workers, g \in Generations : Open(w, g) \/ OpenFails(w, g)
    \/ \E s \in Sessions : Serve(s) \/ ReceiveFails(s) \/ Client(s) \/ ClientEnds(s) \/ ReadStates(s)
    \/ \E k \in Dispatchers, s \in Sessions, r \in Requests : Select(k, s, r)
    \/ \E k \in Dispatchers : Wait(k)
    \/ \E w \in Workers : RevokeMembership(w) \/ Enroll(w)
    \/ RevokeSessions
    \/ Crash

\* Listener threads, clients and dispatches keep running; every receive and
\* every wait has a deadline.
Fairness ==
    /\ \A s \in 1..MaxSessions :
          /\ WF_vars(s \in Sessions /\ Serve(s))
          /\ WF_vars(s \in Sessions /\ Client(s))
          /\ WF_vars(s \in Sessions /\ sess[s].cl = "gone" /\ ReceiveFails(s))
    /\ \A k \in Dispatchers : WF_vars(Wait(k))

Spec == Init /\ [][Next]_vars /\ Fairness

-----------------------------------------------------------------------------
\* Types of the ledger, the session table and the dispatches.
TypeOK ==
    /\ events \in Seq([event : {"connected", "revoked", "disconnected"}, worker : Workers, gen : Nat])
    /\ sess \in Seq([worker : Workers, gen : Nat, closed : BOOLEAN, listed : BOOLEAN,
                     pend : Requests \cup {None}, resp : Requests \cup {None},
                     srv : {"recv", "check", "act", "raised", "delisted", "ended"},
                     allowed : BOOLEAN, cl : {"ready", "beat", "got", "answer", "gone"},
                     cmd : Requests \cup {None}, late : BOOLEAN])
    /\ member \in [Workers -> BOOLEAN]
    /\ revoker \in Workers \cup {None}
    /\ disp \in [Dispatchers -> [pc : {"idle", "submit", "wait"}, s : Nat, req : Requests \cup {None}]]
    /\ crashes \in 0..MaxCrashes /\ revokes \in 0..MaxRevokes /\ faults \in 0..MaxFaults

\* "Session generations must never regress" (rendezvous.py:318), over restarts
\* of the controller and disconnects recorded late.
GenerationsIncrease ==
    \A i, j \in DOMAIN events :
        i < j /\ events[i].event = "connected" /\ events[j].event = "connected"
              /\ events[i].worker = events[j].worker => events[i].gen < events[j].gen

\* A logical worker has at most one active session, although a session leaves
\* the table before it is closed (rendezvous.py:170, 211-216).
OneActiveSession ==
    \A s, t \in Sessions : Active(s) /\ Active(t) /\ sess[s].worker = sess[t].worker => s = t

\* A waiting dispatch is never given the response to another command, such as
\* the late one of a command that timed out before it (rendezvous.py:103-112).
ResponseBound ==
    \A k \in Dispatchers :
        disp[k].pc = "wait" => sess[disp[k].s].resp \in {None, disp[k].req}

\* An active session has a listener thread that will close it, so a worker
\* whose connection died can come back (transport.py:542-551).
NoGhost ==
    \A s \in Sessions : Active(s) /\ faults = 0 => sess[s].srv # "ended"

\* A command waits in a session only for a dispatch that waits for it: an
\* abandoned one never goes out to the worker or blocks the next.
CommandHasOwner ==
    \A s \in Sessions :
        sess[s].pend # None =>
            \E k \in Dispatchers : disp[k].pc = "wait" /\ disp[k].s = s /\ disp[k].req = sess[s].pend

\* The sessions of a worker follow one another: the next one is not active
\* before the last one is over, and has a higher generation, although the table,
\* the ledger and the disconnect record change at different moments
\* (rendezvous.py:151-216, 310-325).
SessionsInOrder == OneActiveSession /\ GenerationsIncrease

\* A command and its response belong to one dispatch, also when the dispatch
\* timed out and the worker answers late (rendezvous.py:86-145).
CommandBound == ResponseBound /\ CommandHasOwner

\* A closed session leaves the table: revocation reaches the connection.
ClosedEnds ==
    \A s \in 1..MaxSessions :
        (s \in Sessions /\ sess[s].closed) ~> (s \in Sessions /\ sess[s].srv = "ended")

\* What revoke_worker's docstring promises: a closed session is terminated at
\* once and hands out no command.
RevokedGetsNothing == \A s \in Sessions : ~sess[s].late
=============================================================================
