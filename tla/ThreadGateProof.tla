--------------------------- MODULE ThreadGateProof ---------------------------
(***************************************************************************)
(* Proofs about ThreadGate: for any number of threads, gated or not, and   *)
(* any bounds, its safety properties, and that each of its steps is one of *)
(* StartGate's or changes nothing there.                                   *)
(***************************************************************************)
EXTENDS ThreadGate, TLAPS

(* Where the controller's call and the object it is about fit together,    *)
(* and an object with its thread: what makes the safety properties         *)
(* inductive.                                                              *)
CallFits ==
    /\ doing = "create" => on \in Threads /\ place[on] = "unborn" /\ object[on] = "live"
    /\ doing \in {"join", "destroy"} => on \in Threads /\ object[on] = "live"
    /\ \A t \in Threads :
          object[t] = "live" /\ place[t] = "unborn" =>
              doing \in {"create", "aborted"} /\ on = t

ObjectFits ==
    \A t \in Threads :
        /\ object[t] = "none" => place[t] = "unborn"
        /\ object[t] = "destroyed" => place[t] = "joined"
        /\ finished[t] <=> place[t] = "joined"

IInv == TypeOK /\ CallFits /\ ObjectFits /\ JoinedOnce /\ NoLostWakeup

(* At the start no object, no thread and no call is there.                 *)
LEMMA InitIInv == Init => IInv
  <1> SUFFICES ASSUME Init PROVE IInv
    OBVIOUS
  <1>1. TypeOK
    <2>1. \A t \in Threads : t # Nobody
      BY ThreadGateAssumption
    <2>2. /\ object \in [Threads -> {"none", "live", "destroyed"}]
          /\ finished \in [Threads -> BOOLEAN]
          /\ place \in [Threads -> Places]
      BY DEF Init, Places
    <2>3. notifies \in 0..MaxNotify /\ wakeups \in 0..MaxWakeups
      BY ThreadGateAssumption DEF Init
    <2> QED BY <2>1, <2>2, <2>3, ThreadGateAssumption DEF Init, TypeOK
  <1>2. CallFits /\ ObjectFits /\ JoinedOnce /\ NoLostWakeup
    BY DEF Init, CallFits, ObjectFits, JoinedOnce, NoLostWakeup
  <1> QED BY <1>1, <1>2 DEF IInv

-----------------------------------------------------------------------------
(* Steps of the controller                                                 *)

(* The program calls the constructor, Join or the destructor.              *)
LEMMA CallsKeepIInv ==
  ASSUME IInv, NEW t \in Threads,
         ThreadWithParam(t) \/ Join(t) \/ Destroy(t)
  PROVE  IInv'
  <1> USE ThreadGateAssumption DEF IInv, Calls
  <1>1. CASE ThreadWithParam(t)
    BY <1>1 DEF ThreadWithParam, TypeOK, CallFits, ObjectFits, JoinedOnce,
                NoLostWakeup, Asleep, Places
  <1>2. CASE Join(t) \/ Destroy(t)
    BY <1>2 DEF Join, Destroy, TypeOK, CallFits, ObjectFits, JoinedOnce,
                NoLostWakeup, Asleep, Places
  <1> QED BY <1>1, <1>2

(* pthread_create and pthread_join: no thread is joined twice.             *)
LEMMA ThreadsMadeAndJoinedKeepIInv ==
  ASSUME IInv, PthreadCreate \/ PthreadCreateFails \/ PthreadJoin \/ JoinReturns
  PROVE  IInv'
  <1> USE ThreadGateAssumption DEF IInv
  <1>1. CASE PthreadCreate
    BY <1>1 DEF PthreadCreate, TypeOK, CallFits, ObjectFits, JoinedOnce,
                NoLostWakeup, Asleep, Places
  <1>2. CASE PthreadCreateFails
    BY <1>2 DEF PthreadCreateFails, TypeOK, CallFits, ObjectFits, JoinedOnce,
                NoLostWakeup, Asleep, Places
  <1>3. CASE PthreadJoin
    <2>1. place[on] # "joined"
      BY <1>3 DEF PthreadJoin, NeedsJoin, CallFits, ObjectFits
    <2>2. /\ doing \in {"join", "destroy"} /\ doing' = doing
          /\ on \in Threads /\ place[on] = "done"
          /\ place' = [place EXCEPT ![on] = "joined"]
          /\ finished' = [finished EXCEPT ![on] = TRUE]
          /\ UNCHANGED <<owner, notified, object, on, notifies, wakeups>>
      BY <1>3, <2>1 DEF PthreadJoin, CallFits
    <2>3. TypeOK'
      BY <2>2 DEF TypeOK, Places
    <2>4. CallFits' /\ JoinedOnce'
      BY <2>2 DEF TypeOK, CallFits, JoinedOnce
    <2>5. ObjectFits'
      BY <2>2 DEF TypeOK, ObjectFits, CallFits
    <2>6. NoLostWakeup'
      BY <2>2 DEF TypeOK, NoLostWakeup, Asleep
    <2> QED BY <2>3, <2>4, <2>5, <2>6
  <1>4. CASE JoinReturns
    BY <1>4 DEF JoinReturns, NeedsJoin, TypeOK, CallFits, ObjectFits, JoinedOnce,
                NoLostWakeup, Asleep, Places
  <1> QED BY <1>1, <1>2, <1>3, <1>4

(* Notify: from the flag on, it is Notify that has to wake the sleepers.   *)
LEMMA NotifyingKeepsIInv ==
  ASSUME IInv, Notify \/ NotifyLock \/ NotifySet \/ NotifyAll \/ NotifyUnlock
  PROVE  IInv'
  <1> USE ThreadGateAssumption DEF IInv
  <1>0. CASE Notify
    BY <1>0 DEF Notify, Calls, TypeOK, CallFits, ObjectFits, JoinedOnce, NoLostWakeup,
                Asleep, Places
  <1>1. CASE NotifyLock
    BY <1>1 DEF NotifyLock, TypeOK, CallFits, ObjectFits, JoinedOnce, NoLostWakeup,
                Asleep, Places
  <1>2. CASE NotifySet
    BY <1>2 DEF NotifySet, TypeOK, CallFits, ObjectFits, JoinedOnce, NoLostWakeup,
                Asleep, Places
  <1>3. CASE NotifyAll
    <2>1. \A t \in Threads : place'[t] = IF place[t] = "asleep" THEN "lock" ELSE place[t]
      BY <1>3 DEF NotifyAll, Woken, Asleep
    <2> QED BY <1>3, <2>1 DEF NotifyAll, TypeOK, CallFits, ObjectFits, JoinedOnce,
                              NoLostWakeup, Asleep, Places
  <1>4. CASE NotifyUnlock
    BY <1>4 DEF NotifyUnlock, TypeOK, CallFits, ObjectFits, JoinedOnce, NoLostWakeup,
                Asleep, Places
  <1> QED BY <1>0, <1>1, <1>2, <1>3, <1>4

-----------------------------------------------------------------------------
(* Steps of the threads                                                    *)

(* A thread goes to sleep only while the flag is not set.                  *)
LEMMA ThreadsKeepIInv ==
  ASSUME IInv, NEW t \in Threads, ThreadStep(t) \/ WakeUp(t)
  PROVE  IInv'
  <1> USE ThreadGateAssumption DEF IInv, Goes, Running
  <1>1. CASE Run(t)
    BY <1>1 DEF Run, TypeOK, CallFits, ObjectFits, JoinedOnce, NoLostWakeup, Asleep,
                Places
  <1>2. CASE Lock(t)
    BY <1>2 DEF Lock, TypeOK, CallFits, ObjectFits, JoinedOnce, NoLostWakeup, Asleep,
                Places
  <1>3. CASE Pass(t)
    BY <1>3 DEF Pass, TypeOK, CallFits, ObjectFits, JoinedOnce, NoLostWakeup, Asleep,
                Places
  <1>4. CASE Sleep(t)
    BY <1>4 DEF Sleep, MayPass, Left, TypeOK, CallFits, ObjectFits, JoinedOnce,
                NoLostWakeup, Asleep, Places
  <1>5. CASE Func(t)
    BY <1>5 DEF Func, TypeOK, CallFits, ObjectFits, JoinedOnce, NoLostWakeup, Asleep,
                Places
  <1>6. CASE WakeUp(t)
    BY <1>6 DEF WakeUp, TypeOK, CallFits, ObjectFits, JoinedOnce, NoLostWakeup, Asleep,
                Places
  <1> QED BY <1>1, <1>2, <1>3, <1>4, <1>5, <1>6 DEF ThreadStep

(* Every step keeps the invariant.                                         *)
LEMMA NextIInv == IInv /\ [Next]_vars => IInv'
  <1> SUFFICES ASSUME IInv, [Next]_vars PROVE IInv'
    OBVIOUS
  <1>1. CASE \E t \in Threads : ThreadWithParam(t) \/ Join(t) \/ Destroy(t)
    BY <1>1, CallsKeepIInv
  <1>2. CASE Notify
    BY <1>2, NotifyingKeepsIInv
  <1>3. CASE ControllerStep
    BY <1>3, ThreadsMadeAndJoinedKeepIInv, NotifyingKeepsIInv DEF ControllerStep
  <1>4. CASE \E t \in Threads : ThreadStep(t) \/ WakeUp(t)
    BY <1>4, ThreadsKeepIInv
  <1>5. CASE UNCHANGED vars
    BY <1>5 DEF vars, IInv, TypeOK, CallFits, ObjectFits, JoinedOnce, NoLostWakeup,
                Asleep
  <1> QED BY <1>1, <1>2, <1>3, <1>4, <1>5 DEF Next, Ended

(* The invariant holds in every state the program reaches.                 *)
LEMMA Invariant == Spec => []IInv
  BY InitIInv, NextIInv, PTL DEF Spec

-----------------------------------------------------------------------------
(* Types, and the mutex is held exactly where the code is inside it.       *)
THEOREM TypeCorrect == Spec => []TypeOK
  <1>1. IInv => TypeOK
    BY DEF IInv
  <1> QED BY Invariant, <1>1, PTL

(* No number of threads and no order of their steps makes one of them      *)
(* sleep through Notify's notification.                                    *)
THEOREM NoWakeupIsLost == Spec => []NoLostWakeup
  <1>1. IInv => NoLostWakeup
    BY DEF IInv
  <1> QED BY Invariant, <1>1, PTL

(* A thread of ThreadWithParam reads its object's fields only while they   *)
(* are there.                                                              *)
THEOREM FieldsAreInPlace == Spec => []FieldsInPlace
  <1>1. IInv => FieldsInPlace
    BY DEF IInv, TypeOK, ObjectFits, FieldsInPlace
  <1> QED BY Invariant, <1>1, PTL

(* Join and the destructor never join a thread twice.                      *)
THEOREM ThreadsAreJoinedOnce == Spec => []JoinedOnce
  <1>1. IInv => JoinedOnce
    BY DEF IInv
  <1> QED BY Invariant, <1>1, PTL

-----------------------------------------------------------------------------
(* Refinement of StartGate                                                 *)

(* What StateFor says, by cases.                                           *)
LEMMA StateForCases ==
  ASSUME NEW o, NEW p
  PROVE  /\ o = "destroyed" => StateFor(o, p) = "gone"
         /\ o # "destroyed" =>
              /\ p = "unborn" => StateFor(o, p) = "none"
              /\ p \in {"start", "lock", "check", "asleep"} => StateFor(o, p) = "waiting"
              /\ p = "func" => StateFor(o, p) = "running"
              /\ p = "done" => StateFor(o, p) = "finished"
              /\ p = "joined" => StateFor(o, p) = "collected"
  BY DEF StateFor

(* What changes in the gate's eyes when StateOf changes for one thread.    *)
LEMMA MovesOfGate ==
  ASSUME NEW t \in Threads, Running, NEW from, NEW to,
         StateOf(t) = from, StateOf(t)' = to,
         \A u \in Threads \ {t} : StateOf(u)' = StateOf(u),
         UNCHANGED notified, Running'
  PROVE  Gate!Moves(t, from, to)
  BY DEF Gate!Moves, Running

(* A step that changes no StateOf, nor the flag, is not seen.              *)
LEMMA UnseenByGate ==
  ASSUME \A t \in Threads : StateOf(t)' = StateOf(t),
         UNCHANGED notified, Running' = Running
  PROVE  UNCHANGED Gate!vars
  BY DEF Gate!vars, Running

(* The gate starts as the program does.                                    *)
LEMMA InitImplementsGate == Init => Gate!Init
  BY StateForCases DEF Init, Gate!Init, StateOf, Running

(* Every step of the program is one of the gate's or is not seen by it.    *)
LEMMA NextImplementsGate == IInv /\ [Next]_vars => [Gate!Next]_Gate!vars
  <1> SUFFICES ASSUME IInv, [Next]_vars PROVE [Gate!Next]_Gate!vars
    OBVIOUS
  <1> USE StateForCases DEF IInv
  <1>1. CASE \E t \in Threads : ThreadWithParam(t) \/ Join(t) \/ Destroy(t)
    <2> PICK t \in Threads : ThreadWithParam(t) \/ Join(t) \/ Destroy(t)
      BY <1>1
    <2>1. \A u \in Threads : StateOf(u)' = StateOf(u)
      BY DEF ThreadWithParam, Join, Destroy, Calls, StateOf, TypeOK, ObjectFits
    <2> QED BY <2>1, UnseenByGate
               DEF ThreadWithParam, Join, Destroy, Calls, Running
  <1>2. CASE Notify \/ NotifyLock \/ NotifyUnlock
    <2>1. \A u \in Threads : StateOf(u)' = StateOf(u)
      BY <1>2 DEF Notify, NotifyLock, NotifyUnlock, Calls, StateOf
    <2> QED BY <1>2, <2>1, UnseenByGate
               DEF Notify, NotifyLock, NotifyUnlock, Calls, Running
  <1>3. CASE NotifyAll
    <2>1. \A u \in Threads : StateOf(u)' = StateOf(u)
      BY <1>3 DEF NotifyAll, Woken, Asleep, StateOf, TypeOK
    <2> QED BY <1>3, <2>1, UnseenByGate DEF NotifyAll, Running
  <1>4. CASE NotifySet
    <2>1. Gate!Open
      BY <1>4 DEF NotifySet, Gate!Open, StateOf, Running
    <2> QED BY <2>1 DEF Gate!Next
  <1>5. CASE PthreadCreate
    <2>1. Gate!Moves(on, "none", "waiting")
      BY <1>5, MovesOfGate DEF PthreadCreate, CallFits, TypeOK, StateOf, Running
    <2> QED BY <1>5, <2>1 DEF PthreadCreate, CallFits, Gate!Next, Gate!Start
  <1>6. CASE PthreadCreateFails
    <2>1. Gate!Die
      BY <1>6 DEF PthreadCreateFails, Gate!Die, StateOf, Running
    <2> QED BY <2>1 DEF Gate!Next
  <1>7. CASE PthreadJoin
    <2>1. /\ on \in Threads /\ object[on] = "live" /\ place[on] = "done"
          /\ place' = [place EXCEPT ![on] = "joined"]
          /\ doing \in {"join", "destroy"}
          /\ UNCHANGED <<notified, object, doing>>
      BY <1>7 DEF PthreadJoin, NeedsJoin, CallFits, ObjectFits
    <2>2. Gate!Moves(on, "finished", "collected")
      BY <2>1, MovesOfGate DEF TypeOK, StateOf, Running, Places
    <2> QED BY <2>1, <2>2 DEF Gate!Next, Gate!Collect
  <1>8. CASE JoinReturns
    <2>1. on \in Threads /\ object[on] = "live" /\ place[on] = "joined"
      BY <1>8 DEF JoinReturns, NeedsJoin, CallFits, ObjectFits
    <2>2. CASE doing = "join"
      <3>1. \A u \in Threads : StateOf(u)' = StateOf(u)
        BY <1>8, <2>2 DEF JoinReturns, StateOf
      <3> QED BY <1>8, <2>2, <3>1, UnseenByGate DEF JoinReturns, Running
    <2>3. CASE doing = "destroy"
      <3>1. Gate!Moves(on, "collected", "gone")
        BY <1>8, <2>1, <2>3, MovesOfGate DEF JoinReturns, TypeOK, StateOf, Running
      <3> QED BY <2>1, <3>1 DEF Gate!Next, Gate!Discard
    <2> QED BY <1>8, <2>2, <2>3 DEF JoinReturns
  <1>9. CASE \E t \in Threads : ThreadStep(t) \/ WakeUp(t)
    <2> PICK t \in Threads : ThreadStep(t) \/ WakeUp(t)
      BY <1>9
    <2>1. CASE (Run(t) /\ t \in Gated) \/ Lock(t) \/ Sleep(t) \/ WakeUp(t)
      <3>1. \A u \in Threads : StateOf(u)' = StateOf(u)
        BY <2>1 DEF Run, Lock, Sleep, WakeUp, Goes, StateOf, TypeOK
      <3> QED BY <2>1, <3>1, UnseenByGate DEF Run, Lock, Sleep, WakeUp, Goes, Running
    <2>2. CASE (Run(t) /\ t \notin Gated) \/ Pass(t)
      <3>1. Gate!Moves(t, "waiting", "running")
        BY <2>2, MovesOfGate
           DEF Run, Pass, Goes, StateOf, TypeOK, ObjectFits, Running
      <3>2. t \in Gated => notified
        BY <2>2 DEF Pass, MayPass
      <3> QED BY <3>1, <3>2 DEF Gate!Next, Gate!Begin
    <2>3. CASE Func(t)
      <3>1. Gate!Moves(t, "running", "finished")
        BY <2>3, MovesOfGate DEF Func, Goes, StateOf, TypeOK, ObjectFits, Running
      <3> QED BY <3>1 DEF Gate!Next, Gate!Finish
    <2> QED BY <2>1, <2>2, <2>3 DEF ThreadStep
  <1>10. CASE UNCHANGED vars
    BY <1>10 DEF vars, Gate!vars, StateOf, Running
  <1> QED BY <1>1, <1>2, <1>3, <1>4, <1>5, <1>6, <1>7, <1>8, <1>9, <1>10
             DEF Next, ControllerStep, Ended

(* The safety part of KeepsGate: mutex, condition variable and wake-ups    *)
(* make the gate, for any number of threads.                               *)
THEOREM ImplementsGate == Spec => Gate!Init /\ [][Gate!Next]_Gate!vars
  BY InitImplementsGate, NextImplementsGate, Invariant, PTL DEF Spec
=============================================================================
