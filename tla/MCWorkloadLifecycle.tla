-------------------------- MODULE MCWorkloadLifecycle --------------------------
(* WorkloadLifecycle for TLC. *)
EXTENDS WorkloadLifecycle
================================================================================
