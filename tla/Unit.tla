-------------------------------- MODULE Unit --------------------------------
(***************************************************************************)
(* What the operator is promised of the service as a unit (README.md,      *)
(* Command line; PLAN.md section 11; the systemd unit): it is active only  *)
(* while it can serve, its exit code tells why it ended, a refusal or a    *)
(* crash may be followed by another start, a deliberate stop is not.       *)
(***************************************************************************)
VARIABLES state,   \* "dead", "activating", "active" or "deactivating"
          code,    \* EXIT_OK, EXIT_CONFIG, EXIT_BIND, "error" or "killed":
                   \* why the last process ended, "none" while one runs
          wanted   \* does the operator want it to run

unitVars == <<state, code, wanted>>

UnitInit == state = "dead" /\ code = "none" /\ wanted = FALSE

\* systemctl start and stop, and systemd when it gives up after too many starts.
Wish ==
  /\ wanted' = ~wanted
  /\ UNCHANGED <<state, code>>

\* The first start, or Restart=on-failure: not after a clean stop nobody revoked.
Activate ==
  /\ wanted
  /\ state = "dead"
  /\ state' = "activating"
  /\ code' = "none"
  /\ UNCHANGED wanted

Ready ==
  /\ state = "activating"
  /\ state' = "active"
  /\ UNCHANGED <<code, wanted>>

Deactivate ==
  /\ ~wanted
  /\ state \in {"activating", "active"}
  /\ state' = "deactivating"
  /\ UNCHANGED <<code, wanted>>

\* Only a start refuses: what has served does not end with such a code.
Refuse ==
  /\ state = "activating"
  /\ state' = "dead"
  /\ code' \in {"config", "bind", "error"}
  /\ UNCHANGED wanted

\* Only a stop that was asked for ends clean.
EndClean ==
  /\ state = "deactivating"
  /\ state' = "dead"
  /\ code' = "ok"
  /\ UNCHANGED wanted

Die ==
  /\ state # "dead"
  /\ state' = "dead"
  /\ code' = "killed"
  /\ UNCHANGED wanted

UnitNext ==
  \/ Wish \/ Activate \/ Ready \/ Deactivate \/ Refuse \/ EndClean \/ Die

UnitSpec == UnitInit /\ [][UnitNext]_unitVars
=============================================================================
