------------------------------ MODULE MCKernel ------------------------------
(* An instance of Kernel for TLC: the two threads the kernel really has,   *)
(* the timer, the keyboard and a device without a handler.                 *)
EXTENDS Kernel

CONSTANTS idle, tty, nothread, zero, key, nobyte

MCThreads == {idle, tty}
MCIrqs == {32, 33, 38}
MCBytes == {zero, key}
=============================================================================
