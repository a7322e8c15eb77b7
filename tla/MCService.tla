----------------------------- MODULE MCService -----------------------------
EXTENDS Service, TLC

QueueRequest(k, w) == [kind |-> k, work |-> w]
TargetRequest(e, c) == [kind |-> "target", exec |-> e, client |-> c]

\* Two executions; the second is requested twice by a client, and by another.
MCOperation ==
    [enqueue |-> QueueRequest("enqueue", 1), again |-> QueueRequest("enqueue", 1),
     tick |-> QueueRequest("tick", 0), pause |-> QueueRequest("pause", 0), resume |-> QueueRequest("resume", 0),
     first |-> TargetRequest("e1", "c1"), second |-> TargetRequest("e2", "c1"),
     retick |-> QueueRequest("tick", 0), retry |-> TargetRequest("e2", "c1"), other |-> TargetRequest("e2", "c2")]
\* "first" and "pause" expire within MaxTime.
MCRequests == DOMAIN MCOperation \ {"retick"}
MCExpiry == [r \in MCRequests |-> IF r \in {"first", "pause"} THEN 1 ELSE 2]
\* Schedule operations only: a work and two ticks, one after the other or not
ScheduleRequests == {"enqueue", "tick", "retick"}
ScheduleExpiry == [r \in ScheduleRequests |-> 2]
Symmetry == Permutations(Threads)
=============================================================================
