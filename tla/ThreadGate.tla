----------------------------- MODULE ThreadGate -----------------------------
(***************************************************************************)
(* Notification and ThreadWithParam of include/ctest_port.h: a controller  *)
(* makes threads, which wait for its notification if they were given one,  *)
(* notifies, joins and destroys them in any order.  The mutex, the         *)
(* condition variable and pthreads are modelled as POSIX has them: a lock  *)
(* is given to anybody who waits, a wait gives it up and sleeps in one     *)
(* step, and may end without a notification.                               *)
(***************************************************************************)
EXTENDS Naturals

CONSTANTS
    Threads,        \* the ThreadWithParam objects of the program
    Gated,          \* those whose thread_can_start is not NULL
    Controller, Nobody,
    \* bounds
    MaxNotify,      \* calls of Notify
    MaxWakeups      \* wake-ups without a notification

ASSUME ThreadGateAssumption ==
    /\ Gated \subseteq Threads
    /\ Controller \notin Threads
    /\ Nobody \notin Threads \cup {Controller}
    /\ {MaxNotify, MaxWakeups} \subseteq Nat

VARIABLES
    owner,          \* of mu_
    notified,       \* notified_
    object,         \* of each ThreadWithParam: none, live, destroyed
    finished,       \* its finished_
    place,          \* where the thread it made is
    doing, on,      \* what the controller is doing, and on which object
    notifies, wakeups       \* bounded counters

vars == <<owner, notified, object, finished, place, doing, on, notifies, wakeups>>

Init ==
    /\ owner = Nobody
    /\ notified = FALSE
    /\ object = [t \in Threads |-> "none"]
    /\ finished = [t \in Threads |-> FALSE]
    /\ place = [t \in Threads |-> "unborn"]
    /\ doing = "program"
    /\ on = Nobody
    /\ notifies = 0
    /\ wakeups = 0

(* The process goes on.                                                    *)
Running == doing \notin {"aborted", "undefined"}

-----------------------------------------------------------------------------
(* The controller.  Operators named Bad... are plausible mistakes; nothing *)
(* uses them.                                                              *)

Calls(what, t) ==
    /\ doing = "program"
    /\ doing' = what
    /\ on' = t

(* The constructor: every field but thread_, then the thread.              *)
ThreadWithParam(t) ==
    /\ Calls("create", t)
    /\ object[t] = "none"
    /\ object' = [object EXCEPT ![t] = "live"]
    /\ UNCHANGED <<owner, notified, finished, place, notifies, wakeups>>

PthreadCreate ==
    /\ doing = "create"
    /\ place' = [place EXCEPT ![on] = "start"]
    /\ doing' = "program"
    /\ UNCHANGED <<owner, notified, object, finished, on, notifies, wakeups>>

(* GTEST_CHECK_POSIX_SUCCESS_ ends the process.                            *)
PthreadCreateFails ==
    /\ doing = "create"
    /\ doing' = "aborted"
    /\ UNCHANGED <<owner, notified, object, finished, place, on, notifies, wakeups>>

Join(t) ==
    /\ Calls("join", t)
    /\ object[t] = "live"
    /\ UNCHANGED <<owner, notified, object, finished, place, notifies, wakeups>>

(* The destructor calls Join.                                              *)
Destroy(t) ==
    /\ Calls("destroy", t)
    /\ object[t] = "live"
    /\ UNCHANGED <<owner, notified, object, finished, place, notifies, wakeups>>

BadNeedsJoin(t) == ~ finished[t] /\ doing = "join"
BadNeedsJoinAgain(t) == doing \in {"join", "destroy"}
NeedsJoin(t) == ~ finished[t]

(* A thread is joined once it has returned; joining it again is undefined. *)
PthreadJoin ==
    /\ doing \in {"join", "destroy"}
    /\ NeedsJoin(on)
    /\ \/ /\ place[on] = "done"
          /\ place' = [place EXCEPT ![on] = "joined"]
          /\ finished' = [finished EXCEPT ![on] = TRUE]
          /\ UNCHANGED doing
       \/ /\ place[on] = "joined"
          /\ doing' = "undefined"
          /\ UNCHANGED <<place, finished>>
    /\ UNCHANGED <<owner, notified, object, on, notifies, wakeups>>

JoinReturns ==
    /\ doing \in {"join", "destroy"}
    /\ ~ NeedsJoin(on)
    /\ object' = IF doing = "destroy" THEN [object EXCEPT ![on] = "destroyed"]
                 ELSE object
    /\ doing' = "program"
    /\ UNCHANGED <<owner, notified, finished, place, on, notifies, wakeups>>

(* Notify: the lock_guard, the flag, notify_all, the lock_guard's end.     *)
Notify ==
    /\ Calls("notify", Nobody)
    /\ notifies < MaxNotify
    /\ notifies' = notifies + 1
    /\ UNCHANGED <<owner, notified, object, finished, place, wakeups>>

NotifyLock ==
    /\ doing = "notify"
    /\ owner = Nobody
    /\ owner' = Controller
    /\ doing' = "set"
    /\ UNCHANGED <<notified, object, finished, place, on, notifies, wakeups>>

NotifySet ==
    /\ doing = "set"
    /\ notified' = TRUE
    /\ doing' = "wake"
    /\ UNCHANGED <<owner, object, finished, place, on, notifies, wakeups>>

Asleep == {t \in Threads : place[t] = "asleep"}
BadWoken == IF Asleep = {} THEN {} ELSE {CHOOSE t \in Asleep : TRUE}
Woken == Asleep

NotifyAll ==
    /\ doing = "wake"
    /\ place' = [t \in Threads |-> IF t \in Woken THEN "lock" ELSE place[t]]
    /\ doing' = "unlock"
    /\ UNCHANGED <<owner, notified, object, finished, on, notifies, wakeups>>

NotifyUnlock ==
    /\ doing = "unlock"
    /\ owner' = Nobody
    /\ doing' = "program"
    /\ UNCHANGED <<notified, object, finished, place, on, notifies, wakeups>>

-----------------------------------------------------------------------------
(* A thread                                                                *)

Goes(t, from, to) ==
    /\ Running
    /\ place[t] = from
    /\ place' = [place EXCEPT ![t] = to]
    /\ UNCHANGED <<notified, object, finished, doing, on, notifies>>

(* ThreadFuncWithCLinkage calls Run, which looks at thread_can_start_.     *)
Run(t) ==
    /\ Goes(t, "start", IF t \in Gated THEN "lock" ELSE "func")
    /\ UNCHANGED <<owner, wakeups>>

Lock(t) ==
    /\ Goes(t, "lock", "check")
    /\ owner = Nobody
    /\ owner' = t
    /\ UNCHANGED wakeups

(* The predicate of WaitForNotification's wait, read under the lock.       *)
BadMayPass == notified \/ wakeups > 0
MayPass == notified

Pass(t) ==
    /\ Goes(t, "check", "func")
    /\ MayPass
    /\ owner' = Nobody
    /\ UNCHANGED wakeups

Left == Nobody

Sleep(t) ==
    /\ Goes(t, "check", "asleep")
    /\ ~ MayPass
    /\ owner' = Left
    /\ UNCHANGED wakeups

WakeUp(t) ==
    /\ Goes(t, "asleep", "lock")
    /\ wakeups < MaxWakeups
    /\ wakeups' = wakeups + 1
    /\ UNCHANGED owner

(* func_(param_) returns.                                                  *)
Func(t) ==
    /\ Goes(t, "func", "done")
    /\ UNCHANGED <<owner, wakeups>>

-----------------------------------------------------------------------------
(* The controller waits for a thread that waits for the controller.        *)
HungAtGate ==
    /\ doing \in {"join", "destroy"}
    /\ on \in Gated
    /\ ~ notified
    /\ place[on] \in {"start", "lock", "check", "asleep"}

(* The program may stop calling; nothing else stops but at the gate.       *)
Ended ==
    /\ doing = "program" \/ HungAtGate \/ ~ Running
    /\ UNCHANGED vars

ControllerStep ==
    \/ PthreadCreate \/ PthreadCreateFails
    \/ PthreadJoin \/ JoinReturns
    \/ NotifyLock \/ NotifySet \/ NotifyAll \/ NotifyUnlock

ThreadStep(t) == Run(t) \/ Lock(t) \/ Pass(t) \/ Sleep(t) \/ Func(t)

Next ==
    \/ \E t \in Threads : ThreadWithParam(t) \/ Join(t) \/ Destroy(t)
    \/ Notify
    \/ ControllerStep
    \/ \E t \in Threads : ThreadStep(t) \/ WakeUp(t)
    \/ Ended

(* Calls that have begun go on, threads run, and a mutex that is free is   *)
(* given to one of those who ask for it; nothing is assumed of the order,  *)
(* nor that the program calls anything.                                    *)
Spec ==
    /\ Init
    /\ [][Next]_vars
    /\ WF_vars(ControllerStep)
    /\ \A t \in Threads : WF_vars(ThreadStep(t))

-----------------------------------------------------------------------------
(* Properties                                                              *)

Places == {"unborn", "start", "lock", "check", "asleep", "func", "done", "joined"}

(* With the types: the mutex is held exactly where the code is inside it.  *)
TypeOK ==
    /\ owner \in Threads \cup {Controller, Nobody}
    /\ notified \in BOOLEAN
    /\ object \in [Threads -> {"none", "live", "destroyed"}]
    /\ finished \in [Threads -> BOOLEAN]
    /\ place \in [Threads -> Places]
    /\ doing \in {"program", "create", "join", "destroy", "notify", "set", "wake",
                  "unlock", "aborted", "undefined"}
    /\ on \in Threads \cup {Nobody}
    /\ notifies \in 0..MaxNotify
    /\ wakeups \in 0..MaxWakeups
    /\ owner = Controller <=> doing \in {"set", "wake", "unlock"}
    /\ \A t \in Threads : owner = t <=> place[t] = "check"

(* No thread sleeps through the notification: one that found the flag not  *)
(* set is asleep before it can be set, and those asleep when it is set are *)
(* about to be woken by the one who set it.                                *)
NoLostWakeup == notified /\ Asleep # {} => doing = "wake"

(* A thread reads func_, param_ and thread_can_start_ only while they are  *)
(* initialised and the object is there ("The thread can be created only    *)
(* after all fields except thread_ have been initialized").                *)
FieldsInPlace ==
    \A t \in Threads :
        place[t] \notin {"unborn", "done", "joined"} => object[t] = "live"

(* However often Join is called before the destructor calls it again, a    *)
(* thread is joined once.                                                  *)
JoinedOnce == doing # "undefined"

(* Every call of the controller returns, however locks are handed out, but *)
(* for a join of a thread at a gate that has not been opened.              *)
CallsReturn == (doing # "program") ~> (doing = "program" \/ HungAtGate \/ ~ Running)

(* Together they implement StartGate, its liveness included.               *)
StateFor(of_object, at) ==
    IF of_object = "destroyed" THEN "gone"
    ELSE CASE at = "unborn" -> "none"
           [] at \in {"start", "lock", "check", "asleep"} -> "waiting"
           [] at = "func" -> "running"
           [] at = "done" -> "finished"
           [] at = "joined" -> "collected"
StateOf(t) == StateFor(object[t], place[t])

Gate == INSTANCE StartGate WITH
            open <- notified,
            state <- [t \in Threads |-> StateOf(t)],
            alive <- Running
KeepsGate == Gate!Spec
=============================================================================
