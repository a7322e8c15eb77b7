----------------------------- MODULE Artifacts ------------------------------
(***************************************************************************)
(* The Fabric package on one worker's disk: a controller sends a build in   *)
(* chunks (controller.py, worker.py), the worker stages it and retains the  *)
(* build staged before it (package_artifact.py), and an apply or a rollback *)
(* installs from what is on disk (providers.py, supervisor.py).             *)
(*                                                                          *)
(* The worker serves one connection at a time, so its requests do not       *)
(* overlap; but a client that gave up leaves its request behind, and the    *)
(* process may stop before or within any write.  Files that are replaced    *)
(* are whole; files that are written in place may be left torn.  Builds are *)
(* wheels, named on disk by their digest; the systemd upgrade unit runs the *)
(* same steps as the worker, which waits for it.  The second copy under     *)
(* objects/ is read by gc_package_artifacts alone, which has no caller.     *)
(***************************************************************************)
EXTENDS Integers, FiniteSets

CONSTANTS
    Builds,         \* package archives, told apart by their bytes
    Factory,        \* the build the worker came with, never staged
    Versions,
    VersionOf, SizeOf,  \* of each build and of Factory
    None, Torn,
    ChunkCount,     \* chunks of a build
    Transfers,      \* transfer identities
    MaxUpdates,     \* bound on the updates an operator makes
    MaxFaults       \* bound on faults and on requests out of turn

ASSUME ArtifactAssumption ==
    /\ Factory \notin Builds
    /\ VersionOf \in [Builds \cup {Factory} -> Versions]
    /\ SizeOf \in [Builds \cup {Factory} -> Nat \ {0}]
    /\ ChunkCount \in Nat \ {0}

VARIABLES
    stage,      \* the stage directory: artifact.json, the builds, their named copies
    previous,   \* stage/previous, likewise
    request,    \* the source of upgrade-request.json
    session,    \* the worker's _artifact_session
    expired,    \* transfers whose deadline has passed
    inbox,      \* requests that were sent and not yet handled
    job,        \* what the worker does
    installed,  \* the build in the Python environment
    running,    \* the build the process has loaded
    receipt,    \* what the last apply or rollback that passed answered
    operator,   \* who stages builds and applies them
    faults

disk == <<stage, previous, request>>
network == <<expired, inbox>>
python == <<installed, running, receipt>>
vars == <<disk, network, python, session, job, operator, faults>>

Empty == [desc |-> None, files |-> {}, torn |-> {}, copy |-> [v \in Versions |-> None]]
NoJob == [pc |-> "idle", op |-> None, build |-> None, honest |-> TRUE, transfer |-> None,
          named |-> None, current |-> FALSE, cover |-> "none", capability |-> None,
          prior |-> None]
Wanting(goal, updates) ==
    [pc |-> "describe", goal |-> goal, transfer |-> None, honest |-> TRUE, seq |-> 0,
     wait |-> FALSE, updates |-> updates]

Init ==
    /\ stage = Empty /\ previous = Empty /\ request = None
    /\ session = None /\ expired = {} /\ inbox = {}
    /\ job = NoJob
    /\ installed = Factory /\ running = Factory /\ receipt = None
    /\ operator \in {Wanting(b, 1) : b \in Builds}
    /\ faults = 0

Spend == faults < MaxFaults /\ faults' = faults + 1

-----------------------------------------------------------------------------
\* The controller: transfer_package_artifact, again from the start whenever it
\* fails.  A descriptor holds the time it was made, so each attempt offers an
\* identity of its own; InUse are those the worker may still meet.
InUse == {r.transfer : r \in inbox} \cup (IF session = None THEN {} ELSE {session.transfer})

Describe ==
    /\ operator.pc = "describe"
    /\ Transfers \ InUse # {}
    /\ LET t == CHOOSE t \in Transfers \ InUse : TRUE
       IN  /\ \/ /\ operator' = [operator EXCEPT !.pc = "offer", !.transfer = t, !.honest = TRUE]
                 /\ UNCHANGED faults
              \* the operator gives the build another version than its own
              \/ /\ operator' = [operator EXCEPT !.pc = "offer", !.transfer = t, !.honest = FALSE]
                 /\ Spend
           /\ expired' = (expired \cap InUse) \ {t}
    /\ UNCHANGED <<disk, inbox, python, session, job>>

OwnRequest == [kind |-> operator.pc, transfer |-> operator.transfer, build |-> operator.goal,
               honest |-> operator.honest, seq |-> operator.seq]

Send ==
    /\ operator.pc \in {"offer", "chunk", "commit"} /\ ~operator.wait
    /\ inbox' = inbox \cup {OwnRequest}
    /\ operator' = [operator EXCEPT !.wait = TRUE]
    /\ UNCHANGED <<disk, expired, python, session, job, faults>>

Restarted == Wanting(operator.goal, operator.updates)

\* The client's timeout: its request was lost, or is yet to be handled.
GiveUp ==
    /\ operator.wait /\ Spend
    /\ inbox' \in {inbox, inbox \ {OwnRequest}}
    /\ operator' = Restarted
    /\ UNCHANGED <<disk, expired, python, session, job>>

\* The answer reaches the operator if it still waits for this transfer.
Reply(t, ok) ==
    operator' =
        IF ~(operator.wait /\ operator.transfer = t) THEN operator
        ELSE IF ~ok THEN Restarted
        ELSE CASE operator.pc = "offer" -> [operator EXCEPT !.pc = "chunk", !.wait = FALSE]
               [] operator.pc = "chunk" /\ operator.seq + 1 < ChunkCount ->
                    [operator EXCEPT !.seq = @ + 1, !.wait = FALSE]
               [] operator.pc = "chunk" -> [operator EXCEPT !.pc = "commit", !.wait = FALSE]
               [] OTHER -> [Restarted EXCEPT !.pc = "apply"]

\* The deadline of 300 s passes, of a transfer that was given up or of one
\* that is too slow.
Expire(t) ==
    /\ t \in InUse \ expired
    /\ expired' = expired \cup {t}
    /\ UNCHANGED <<disk, inbox, python, session, job, operator>>

Abandoned(t) == operator.transfer # t /\ Expire(t) /\ UNCHANGED faults
TooSlow(t) == operator.transfer = t /\ Expire(t) /\ Spend

-----------------------------------------------------------------------------
\* The worker: _accept_package_artifact.  An exception ends the open session,
\* whoever's it is, unless the envelope itself was refused.
Handled(r, ok) ==
    /\ inbox' = inbox \ {r}
    /\ Reply(r.transfer, ok)
    /\ UNCHANGED <<disk, expired, python, job, faults>>

Refuse(r) == r.transfer \in expired /\ Handled(r, FALSE) /\ UNCHANGED session

\* Mutant: an open session is kept whatever its deadline.
ActiveForever == session # None

Active == session # None /\ session.transfer \notin expired

Session(r) == [transfer |-> r.transfer, build |-> r.build, honest |-> r.honest, got |-> {}]

Offer(r) ==
    /\ r.kind = "offer" /\ r.transfer \notin expired
    /\ IF Active
       THEN Handled(r, session.transfer = r.transfer) /\ UNCHANGED session
       ELSE session' = Session(r) /\ Handled(r, TRUE)

Open(r) == session # None /\ session.transfer = r.transfer

Chunk(r) ==
    /\ r.kind = "chunk" /\ r.transfer \notin expired
    /\ session' = IF Open(r) THEN [session EXCEPT !.got = @ \cup {r.seq}] ELSE None
    /\ Handled(r, Open(r))

Commit(r) ==
    /\ r.kind = "commit" /\ r.transfer \notin expired
    /\ IF Open(r) /\ session.got = 0..ChunkCount - 1
       THEN /\ job' = [NoJob EXCEPT !.pc = IF stage.desc = None THEN "stage" ELSE "retain",
                                    !.op = "stage", !.build = session.build,
                                    !.honest = session.honest, !.transfer = r.transfer]
            /\ inbox' = inbox \ {r}
            /\ UNCHANGED <<disk, expired, python, session, operator, faults>>
       ELSE session' = None /\ Handled(r, FALSE)

Receive(r) == job.pc = "idle" /\ (Refuse(r) \/ Offer(r) \/ Chunk(r) \/ Commit(r))

-----------------------------------------------------------------------------
\* verify_package_artifact: digest and size are those of one build only.
Matches(content, desc) == content = desc

\* retain_previous_artifact: bytes, then descriptor, both written in place.
Continue(state) == job' = state /\ UNCHANGED <<network, python, session, operator, faults>>
After(op) == IF op = "stage" THEN "stage" ELSE "request"

Retain ==
    /\ job.pc = "retain"
    /\ IF stage.desc \in stage.files
       THEN /\ previous' = [previous EXCEPT !.files = @ \cup {stage.desc}, !.torn = @ \ {stage.desc}]
            /\ Continue([job EXCEPT !.pc = "retain_desc"])
       ELSE /\ UNCHANGED previous
            /\ Continue([job EXCEPT !.pc = After(job.op), !.capability = "partial"])
    /\ UNCHANGED <<stage, request>>

RetainDescriptor ==
    /\ job.pc = "retain_desc"
    /\ previous' = [previous EXCEPT !.desc = stage.desc]
    /\ Continue([job EXCEPT !.pc = After(job.op), !.capability = "exact", !.prior = stage.desc])
    /\ UNCHANGED <<stage, request>>

\* write_verified_artifact: the .part file is verified and replaces, and the
\* descriptor is written in place after it.
StagingEnds(ok) ==
    /\ job' = NoJob /\ session' = None
    /\ Reply(job.transfer, ok)
    /\ UNCHANGED <<previous, request, network, python, faults>>

Stage ==
    /\ job.pc = "stage"
    /\ IF job.honest
       THEN /\ stage' = [stage EXCEPT !.files = @ \cup {job.build}]
            /\ Continue([job EXCEPT !.pc = "describe"])
            /\ UNCHANGED <<previous, request>>
       ELSE StagingEnds(FALSE) /\ UNCHANGED stage

StageDescriptor ==
    /\ job.pc = "describe"
    /\ stage' = [stage EXCEPT !.desc = job.build]
    /\ StagingEnds(TRUE)

-----------------------------------------------------------------------------
\* apply_update_fabric for a desired version.
ResolveSource(v) ==
    IF stage.desc # None /\ VersionOf[stage.desc] = v /\ stage.desc \in stage.files
    THEN stage.desc
    ELSE IF request \in stage.files THEN request ELSE None

Answered(ok) ==
    operator' = IF operator.pc # "applying" THEN operator
                ELSE IF ok THEN [operator EXCEPT !.pc = "done"] ELSE Restarted

\* The answers that leave the disk alone, and the start of an installation.
Applied(v) ==
    LET source == ResolveSource(v)
        matches == stage.desc # None => (Matches(source, stage.desc) /\ VersionOf[source] = v)
    IN  IF source # None /\ matches
        THEN [NoJob EXCEPT !.pc = "previous", !.op = "apply", !.build = source, !.named = stage.desc]
        ELSE [NoJob EXCEPT !.pc = "answer", !.op = "apply",
                           !.current = source = None /\ VersionOf[running] = v]

Apply ==
    /\ operator.pc = "apply" /\ job.pc = "idle"
    /\ job' = Applied(VersionOf[operator.goal])
    /\ operator' = [operator EXCEPT !.pc = "applying"]
    /\ UNCHANGED <<disk, network, python, session, faults>>

\* A reconciliation applies a version nobody has just staged.
ApplyOutOfTurn(v) ==
    /\ operator.pc # "apply" /\ job.pc = "idle" /\ Spend
    /\ job' = Applied(v)
    /\ UNCHANGED <<disk, network, python, session, operator>>

Answer ==
    /\ job.pc = "answer"
    /\ job' = NoJob
    /\ Answered(job.current)
    /\ UNCHANGED <<disk, network, python, session, faults>>

\* read_previous_artifact.  With nothing retained it retains what is staged.
ReadPrevious ==
    LET d == previous.desc
    IN  /\ job.pc = "previous"
        /\ Continue(IF d = None /\ stage.desc # None THEN [job EXCEPT !.pc = "retain"]
                    ELSE [job EXCEPT !.pc = "request",
                                     !.capability = IF d \in previous.files THEN "exact" ELSE "partial",
                                     !.prior = IF d \in previous.files \cup previous.torn THEN d ELSE None])
        /\ UNCHANGED disk

WriteRequest ==
    /\ job.pc = "request"
    /\ request' = job.build
    /\ Continue([job EXCEPT !.pc = "copy"])
    /\ UNCHANGED <<stage, previous>>

\* apply_staged_upgrade, from the stage directory or from previous/.
Dir == IF job.op = "rollback" THEN previous ELSE stage
Named == VersionOf[job.build]   \* the version in the wheel's file name
Content == Dir.copy[Named]

\* installable_upgrade_source: a copy of the same name and size is kept.
SameSize == Content \notin {None, Torn} /\ SizeOf[Content] = SizeOf[job.build]

Installable(c) ==
    IF job.op = "rollback"
    THEN previous' = [previous EXCEPT !.copy[Named] = c] /\ UNCHANGED stage
    ELSE stage' = [stage EXCEPT !.copy[Named] = c] /\ UNCHANGED previous

Copy ==
    /\ job.pc = "copy"
    /\ Installable(IF SameSize THEN Content
                   ELSE IF job.build \in Dir.files THEN job.build ELSE Torn)
    /\ Continue([job EXCEPT !.pc = "verify"])
    /\ UNCHANGED request

\* _verify_apply_provenance: the first descriptor that can be read decides,
\* beside the file or else in the stage directory.
Covering == IF Dir.desc # None THEN Dir.desc ELSE stage.desc
DescriptorDir == IF Dir.desc # None THEN "beside" ELSE IF stage.desc # None THEN "stage" ELSE "none"

Ends(ok) ==
    /\ job' = NoJob
    /\ IF job.op = "apply" THEN Answered(ok) ELSE UNCHANGED operator
    /\ UNCHANGED <<disk, network, session>>

\* Mutant: the staged file is verified, and not the copy that is installed.
VerifyStaged ==
    /\ job.pc = "verify"
    /\ IF Covering = None \/ Matches(job.build, Covering)
       THEN /\ Continue([job EXCEPT !.pc = "install", !.cover = DescriptorDir])
            /\ UNCHANGED disk
       ELSE Ends(FALSE) /\ UNCHANGED <<python, faults>>

Verify ==
    /\ job.pc = "verify"
    /\ IF Covering = None \/ Matches(Content, Covering)
       THEN /\ Continue([job EXCEPT !.pc = "install", !.cover = DescriptorDir])
            /\ UNCHANGED disk
       ELSE Ends(FALSE) /\ UNCHANGED <<python, faults>>

\* pip installs a whole archive, or fails.
Install ==
    /\ job.pc = "install"
    /\ \/ /\ Content # Torn
          /\ installed' = Content
          /\ receipt' = [op |-> job.op, named |-> job.named, cover |-> job.cover,
                         capability |-> job.capability, prior |-> job.prior,
                         before |-> installed, got |-> Content]
          /\ Ends(TRUE) /\ UNCHANGED <<running, faults>>
       \/ /\ IF Content = Torn THEN UNCHANGED faults ELSE Spend
          /\ Ends(FALSE) /\ UNCHANGED python

\* rollback_action with the receipt of an apply.  Without a path it would ask
\* the package index for the previous version, which is left out.
Rollback ==
    /\ job.pc = "idle" /\ Spend
    /\ receipt # None /\ receipt.op = "apply" /\ receipt.prior # None
    /\ previous.desc # None => (Matches(receipt.prior, previous.desc) /\ receipt.prior \in previous.files)
    /\ job' = [NoJob EXCEPT !.pc = "copy", !.op = "rollback", !.build = receipt.prior,
                            !.named = receipt.prior]
    /\ UNCHANGED <<disk, network, python, session, operator>>

WorkerStep ==
    \/ \E r \in inbox : Receive(r)
    \/ Retain \/ RetainDescriptor \/ Stage \/ StageDescriptor
    \/ Answer \/ ReadPrevious \/ WriteRequest \/ Copy \/ Verify \/ Install

-----------------------------------------------------------------------------
\* The process stops: by a fault, or to be restarted after an installation.
\* The write it was about to make may have been begun.
Interrupted ==
    \/ UNCHANGED disk
    \/ /\ job.pc = "retain" /\ stage.desc \in stage.files
       /\ previous' = [previous EXCEPT !.files = @ \ {stage.desc}, !.torn = @ \cup {stage.desc}]
       /\ UNCHANGED <<stage, request>>
    \/ /\ job.pc = "retain_desc"
       /\ previous' = [previous EXCEPT !.desc = None] /\ UNCHANGED <<stage, request>>
    \/ /\ job.pc = "describe"
       /\ stage' = [stage EXCEPT !.desc = None] /\ UNCHANGED <<previous, request>>
    \/ /\ job.pc = "request"
       /\ request' = None /\ UNCHANGED <<stage, previous>>
    \/ /\ job.pc = "copy" /\ ~SameSize
       /\ Installable(Torn) /\ UNCHANGED request

Crash ==
    /\ \/ Spend
       \/ running # installed /\ UNCHANGED faults
    /\ Interrupted
    /\ job' = NoJob /\ session' = None /\ inbox' = {}
    /\ running' = installed
    /\ operator' = IF operator.wait \/ operator.pc = "applying" THEN Restarted ELSE operator
    /\ UNCHANGED <<expired, installed, receipt>>

\* The operator turns to another build, before or after the last is applied.
NewGoal(b) ==
    /\ \/ operator.pc = "done" /\ UNCHANGED faults
       \/ operator.pc = "apply" /\ Spend
    /\ operator.updates < MaxUpdates
    /\ operator' = Wanting(b, operator.updates + 1)
    /\ UNCHANGED <<disk, network, python, session, job>>

Next ==
    \/ Describe \/ Send \/ GiveUp \/ Apply \/ WorkerStep \/ Rollback \/ Crash
    \/ \E t \in Transfers : Abandoned(t) \/ TooSlow(t)
    \/ \E v \in Versions : ApplyOutOfTurn(v)
    \/ \E b \in Builds : NewGoal(b)

\* The operator goes on, the worker serves, and time passes.
Fairness ==
    /\ WF_vars(Describe) /\ WF_vars(Send) /\ WF_vars(Apply) /\ WF_vars(WorkerStep)
    /\ \A t \in Transfers : WF_vars(Abandoned(t))

Spec == Init /\ [][Next]_vars /\ Fairness

-----------------------------------------------------------------------------
\* An installation whose provenance was VERIFIED by the descriptor beside the
\* file put exactly the build that the request names into the environment
\* (_verify_apply_provenance), whatever copies, torn files and descriptors
\* earlier attempts have left on the disk.  Every verified apply is one; a
\* rollback whose own descriptor is torn is verified by the staged build's.
VerifiedIsInstalled ==
    receipt # None /\ receipt.cover = "beside" => receipt.got = receipt.named

\* A copy of another build has the name and the size of the one to install:
\* installable_upgrade_source keeps it, and its digest is then refused.
StaleCopy ==
    LET c == stage.copy[VersionOf[operator.goal]]
    IN  c \notin {None, Torn, operator.goal} /\ SizeOf[c] = SizeOf[operator.goal]

Updated == operator.pc = "done"

\* An operator who keeps trying gets the build staged and applied, however many
\* transfers were given up, left open, ended by another's late request or cut
\* off by a crash, unless a stale copy blocks it for good
\* (_accept_package_artifact, installable_upgrade_source).
UpdateSettles == <>[]Updated \/ <>[]StaleCopy

\* "A mismatch fails closed so a substituted artifact can never be
\* pip-installed as a trusted update" (supervisor.py:442), of every
\* installation that a descriptor verified, wherever it lay.
VerifiedIsTrusted ==
    receipt # None /\ receipt.cover # "none" => receipt.got = receipt.named

\* An apply that claims an exact rollback has retained the build it replaced;
\* of a worker whose build was never staged, FLEET_MANAGEMENT.md says "rollback
\* capability = partial" (read_previous_artifact).
ExactIsPrevious ==
    receipt # None /\ receipt.op = "apply" /\ receipt.capability = "exact"
        => receipt.prior = receipt.before
=============================================================================
