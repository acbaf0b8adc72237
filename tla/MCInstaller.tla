---------------------------- MODULE MCInstaller ----------------------------
(* Plans on which TLC runs the installer: an automatic system disk and an   *)
(* existing disk with a kept file system and a swap partition.              *)
EXTENDS Installer

(* Local mirror, Secure Boot and firmware entry: every step there is but    *)
(* swap, whose way through cleanup is that of LocalPlan.                    *)
SecurePlan ==
    [local |-> TRUE, secure |-> TRUE, efi |-> TRUE,
     mode |-> <<"auto", "existing">>, disk |-> <<1, 1, 2, 2>>,
     action |-> <<"format", "format", "keep", "format">>,
     usage |-> <<"root", "boot", "mount", "unused">>]

(* The local mirror, and network mirrors, without Secure Boot. *)
LocalPlan   == [SecurePlan EXCEPT !.secure = FALSE, !.efi = FALSE, !.usage[4] = "swap"]
NetworkPlan == [LocalPlan EXCEPT !.local = FALSE]

(* Secure Boot through the network mirrors. *)
SnapshotPlan == [SecurePlan EXCEPT !.local = FALSE]

(* A kept swap area beside the kept file system. *)
KeptSwapPlan == [NetworkPlan EXCEPT !.action[4] = "keep"]

FailurePlans == {SecurePlan, LocalPlan, NetworkPlan}
MountPlans   == {SnapshotPlan, LocalPlan}
NetworkPlans == {NetworkPlan}
LocalPlans   == {LocalPlan}
KeepPlans    == {NetworkPlan, KeptSwapPlan}
ActorPlans   == MountPlans \cup KeepPlans

(* Starts and outside actors of each plan. *)
FailureActors == [p \in FailurePlans |-> {"nginx"}]
ActorsOf      == [p \in ActorPlans |-> IF p \in MountPlans THEN {"mount"}
                                                           ELSE {"drift", "swapon"}]
ActorRuns     == [p \in ActorPlans |-> IF p \in MountPlans THEN 1 ELSE 2]
OneRun        == [p \in Plans |-> 1]
TwoRuns       == [p \in Plans |-> 2]
Undisturbed   == [p \in Plans |-> {}]
=============================================================================
