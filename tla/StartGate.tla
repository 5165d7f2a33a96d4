----------------------------- MODULE StartGate -----------------------------
(***************************************************************************)
(* What Notification and ThreadWithParam of include/ctest_port.h promise   *)
(* together: a thread made with a gate runs its function only after the    *)
(* gate is opened, one made without runs it anyway; each runs it once, to  *)
(* its end; the object of a thread is discarded only after the thread has  *)
(* been collected.  It knows no mutex, no condition and no wake-ups.       *)
(***************************************************************************)
CONSTANTS
    Threads,
    Gated       \* those of Threads made with a gate

VARIABLES open, state, alive

vars == <<open, state, alive>>

Init ==
    /\ open = FALSE
    /\ state = [t \in Threads |-> "none"]
    /\ alive = TRUE

Moves(t, from, to) ==
    /\ alive
    /\ state[t] = from
    /\ state' = [state EXCEPT ![t] = to]
    /\ UNCHANGED <<open, alive>>

Start(t) == Moves(t, "none", "waiting")
Begin(t) == (t \in Gated => open) /\ Moves(t, "waiting", "running")
Finish(t) == Moves(t, "running", "finished")
Collect(t) == Moves(t, "finished", "collected")
Discard(t) == Moves(t, "collected", "gone")

Open ==
    /\ alive
    /\ open' = TRUE
    /\ UNCHANGED <<state, alive>>

(* A thread cannot be made: the process ends.                              *)
Die ==
    /\ alive
    /\ alive' = FALSE
    /\ UNCHANGED <<open, state>>

Next ==
    \/ \E t \in Threads :
          Start(t) \/ Begin(t) \/ Finish(t) \/ Collect(t) \/ Discard(t)
    \/ Open
    \/ Die

(* Whoever may run his function begins it and gets to its end.             *)
Spec ==
    /\ Init
    /\ [][Next]_vars
    /\ \A t \in Threads : WF_vars(Begin(t)) /\ WF_vars(Finish(t))
=============================================================================
