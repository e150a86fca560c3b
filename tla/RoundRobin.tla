----------------------------- MODULE RoundRobin -----------------------------
(***************************************************************************)
(* What the scheduler promises ("time slice round robin scheduling",       *)
(* kern/driver/clock.c:7): the CPU is handed round a ring, a new thread    *)
(* joins the ring at the end of the round that First begins, and the CPU   *)
(* is handed on again and again, until it is held by a thread whose        *)
(* function returns.                                                       *)
(***************************************************************************)
CONSTANTS Threads, First,
          Returning  \* the threads whose function may return

VARIABLES successor, \* the ring: a function from its members to its members
          holder,    \* the thread whose instructions run
          stopped    \* its function has returned, and with it the CPU stands still

vars == <<successor, holder, stopped>>

Init == /\ successor = [t \in {First} |-> First]
        /\ holder = First
        /\ stopped = FALSE

Admit(t) ==
  /\ t \notin DOMAIN successor
  /\ \E last \in DOMAIN successor :
       /\ successor[last] = First
       /\ successor' = [u \in DOMAIN successor \cup {t} |->
                          IF u = t THEN First
                          ELSE IF u = last THEN t ELSE successor[u]]
  /\ UNCHANGED <<holder, stopped>>

HandOn == /\ ~stopped
          /\ holder' = successor[holder]
          /\ UNCHANGED <<successor, stopped>>

Stop == /\ ~stopped /\ holder \in Returning
        /\ stopped' = TRUE
        /\ UNCHANGED <<successor, holder>>

Next == HandOn \/ Stop \/ \E t \in Threads : Admit(t)

Spec == Init /\ [][Next]_vars
FairSpec == Spec /\ WF_vars(HandOn)
=============================================================================
