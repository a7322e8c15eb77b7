------------------------------ MODULE MCUpdate ------------------------------
(***************************************************************************)
(* The fleet manager with one worker, two versions and a handful of        *)
(* machines, each the way one decision goes: no git and a service its      *)
(* manager has stopped, an upgrade that is staged, and one whose bytes are *)
(* damaged on a machine with a full disk whose git fails.                  *)
(***************************************************************************)
EXTENDS FleetManager

MCBeside == {<<"reconcile", "certify">>}

MCVersions == {"v1", "v2"}

Sound == [version |-> "v1", harness |-> FALSE, path |-> {"git", "gh"}, mute |-> {},
          ghAuth |-> TRUE, listening |-> {}, answers |-> FALSE, models |-> {},
          units |-> [s \in SERVICES |->
                       IF s = "fabric-worker" THEN {[manager |-> "systemd-user", state |-> "running"]}
                       ELSE {}],
          ram |-> 40, disk |-> 40, reboot |-> FALSE,
          staged |-> NoVersion, sound |-> TRUE, broken |-> {}]

MCHosts == [bare |-> [Sound EXCEPT !.path = {"gh"}, !.units["fabric-worker"] =
                         {[manager |-> "systemd-user", state |-> "stopped"]}],
            staged |-> [Sound EXCEPT !.staged = "v2"],
            damaged |-> [Sound EXCEPT !.disk = 97, !.staged = "v2", !.sound = FALSE,
                                      !.broken = {"git"}]]
=============================================================================
