----------------------------- MODULE MCScanUsers -----------------------------
(* ScanLifecycle for TLC's check of liveness, which the product of all user   *)
(* actions with two overlapping scan threads is too large for: three users,   *)
(* one of whom is there from the start.                                       *)
(*   "anyone"     does everything, but scans do not overlap;                  *)
(*   "bystander"  refreshes, stops and changes the Auto Scan preferences;     *)
(*   "quitter"    refreshes, stops and quits, with Auto Scan off.             *)
(* What a user does not do is not fair, so the fairness is ScanLifecycle's.   *)
EXTENDS ScanLifecycle

VARIABLE user

Users == {"anyone", "bystander", "quitter"}

\* What goes on whatever the user does.
SystemNext ==
    \/ UiStep
    \/ TimerFires
    \/ ui # "exited" /\ \E t \in Threads : ThreadStep(t)
    \/ Terminated

UserNext ==
    \/ SystemNext
    \/ UserRefreshes
    \/ user = "anyone" /\ UserStep
    \/ user = "bystander" /\ (ToggleAutoScan \/ ApplyDelay)
    \/ user = "quitter" /\ UserCloses

\* A scan begins after the thread of the one before has ended.
Alone == ui' \in {"begin", "create"} => \A t \in Threads : thread[t] = "free"

UsersNext ==
    /\ UserNext
    /\ user = "anyone" => Alone
    /\ UNCHANGED user

UsersSpec ==
    /\ Init
    /\ user \in Users
    /\ user = "quitter" => ~auto_scan
    /\ [][UsersNext]_<<vars, user>>
    /\ Fairness

\* Auto Scan is switched on and off, and nothing else comes in between.
BystanderSpec == user = "bystander" /\ UsersSpec
=============================================================================
