---------------------------- MODULE MCScheduler ----------------------------
(* Instances of Scheduler for TLC.                                         *)
EXTENDS Scheduler

CONSTANTS idle, tty, worker, none

MCThreads == {idle, tty, worker}

(* The timer, the keyboard and two devices without a handler, one of them  *)
(* on the slave chip.                                                      *)
MCIrqs == {32, 33, 38, 46}
=============================================================================
