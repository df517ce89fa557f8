----------------------------- MODULE MCCpuPower -----------------------------
(***************************************************************************)
(* Instances of CpuPower for TLC: besides the one PSCI call that           *)
(* kernel_main_thread() makes on core 0, no core calls, or each of the     *)
(* secondary cores calls at will, on itself and on the others.             *)
(***************************************************************************)
EXTENDS CpuPower

NoCallers == {}
=============================================================================
