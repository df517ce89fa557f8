---------------------------- MODULE MCScheduler ----------------------------
(***************************************************************************)
(* Instances of Scheduler for TLC: the kernel services that the tasks of   *)
(* each instance use.                                                      *)
(***************************************************************************)
EXTENDS Scheduler

AllServices == Services

\* Those of the shipped task1, task2, kernel_main_thread and application.
ShippedServices == {"console", "exit", "launch", "syscall"}

\* Those of task1 and task2 alone.
ConsoleServices == {"console", "exit"}

\* What two cores can use without one of them waking a thread that the other
\* is still executing.
SmpServices == {"console", "create", "exit", "yield"}
=============================================================================
