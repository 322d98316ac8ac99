----------------------------- MODULE MCMvpJobs -----------------------------
(***************************************************************************)
(* Instances of MvpJobs for TLC. Jobs share the lock, the restarts and the *)
(* failing writes only.                                                    *)
(***************************************************************************)
EXTENDS MvpJobs

TwoJobs == {"qa-1", "qa-2"}
OneJob == {"qa-1"}
DemoJob == {"dr-demo-1"}
NoJobs == {}

=============================================================================
