---------------------------- MODULE TestSuiteProof ----------------------------
(***************************************************************************)
(* Proofs about TestSuite, for suites of any length and content: what a    *)
(* run says at its end is what happened.                                   *)
(***************************************************************************)
EXTENDS TestSuite, FiniteSetTheorems, TLAPS

(* Where the two threads stand with respect to each other.                 *)
ControlInv ==
    /\ main_pc \in {"spawn", "join"} =>
          /\ current_test >= 1
          /\ Test.function
          /\ Test.function_type \in {"TEST", "SETUP", "TEARDOWN"}
    /\ main_pc = "join" <=> thread_pc # "none"
    /\ main_pc = "reported" <=> process = "returned"
    /\ main_pc = "reported" => current_test = N

(* No counter runs ahead of the loop.                                      *)
CountInv ==
    /\ total_failed <= Handled
    /\ tests_executed <= Handled
    /\ setups + teardowns <= current_test
    /\ number_of_test_states = setups - teardowns

(* The count of failures against the verdicts of the functions handled.    *)
VerdictInv ==
    /\ \A i \in 1..N :
          i > Handled /\ ~ (i = current_test /\ thread_pc = "done")
              => verdict[i] = "none"
    /\ thread_pc = "done" => (failed = 1 <=> verdict[current_test] = "failed")
    /\ thread_pc \in {"start", "body", "leftover", "leaks", "catch_std",
                      "catch_any", "teardown"} => failed = 0
    /\ previous_test_failed = 1 => total_failed > 0
    /\ total_failed = 0 <=> \A i \in 1..Handled : verdict[i] # "failed"

(* The names recorded so far against the same verdicts.                    *)
NamesInv ==
    /\ \A i \in 1..total_failed :
          /\ failed_names[i] \in 1..Handled
          /\ verdict[failed_names[i]] = "failed"
    /\ \A i, j \in 1..total_failed : i < j => failed_names[i] < failed_names[j]
    /\ \A k \in 1..Handled :
          verdict[k] = "failed" /\ tests[k].function_type # "TEARDOWN"
              => \E i \in 1..total_failed : failed_names[i] = k

IInv == TypeOK /\ ControlInv /\ CountInv /\ VerdictInv /\ NamesInv

-----------------------------------------------------------------------------
(* The array is a sequence of unit tests, so its length is a number.       *)
LEMMA SuiteIsFinite ==
    ASSUME tests \in Suites
    PROVE  /\ N \in Nat
           /\ \A i \in 1..N : tests[i] \in UnitTest
  BY SuitesAssumption DEF N

(* Before the first function nothing has failed.                           *)
LEMMA InitInv == Init => IInv
<1> SUFFICES ASSUME Init PROVE IInv
    OBVIOUS
<1> USE DEF Init
<1>1. N \in Nat
    BY SuiteIsFinite
<1>2. TypeOK
    BY <1>1 DEF TypeOK, NullState, Slots, Signals, Leftovers
<1>3. ControlInv
    BY DEF ControlInv
<1>4. CountInv
    BY <1>1 DEF CountInv, Handled
<1>5. VerdictInv
    BY <1>1 DEF VerdictInv, Handled
<1>6. NamesInv
    BY <1>1 DEF NamesInv, Handled
<1>7. QED
    BY <1>2, <1>3, <1>4, <1>5, <1>6 DEF IInv

(* What the loop passes over without running it leaves the record of       *)
(* failures as good as it was.                                             *)
LEMMA RecordKept ==
    ASSUME IInv, N \in Nat,
           UNCHANGED <<tests, total_failed, failed_names, verdict>>,
           Handled' \in {Handled, Handled + 1},
           Handled' = Handled + 1 => verdict[Handled + 1] # "failed"
    PROVE  NamesInv'
<1> Handled \in Nat
    BY DEF IInv, TypeOK, ControlInv, Handled
<1>1. /\ total_failed \in Nat
      /\ 1..Handled \subseteq 1..Handled'
    BY DEF IInv, TypeOK
<1>5. \A k \in 1..Handled' : verdict[k] = "failed" => k \in 1..Handled
  <2>1. CASE Handled' = Handled
      BY <2>1
  <2>2. CASE Handled' = Handled + 1
      BY <2>2
  <2> QED
      BY <2>1, <2>2
<1>2. \A i \in 1..total_failed' :
          failed_names'[i] \in 1..Handled' /\ verdict'[failed_names'[i]] = "failed"
    BY <1>1 DEF IInv, NamesInv
<1>3. \A i, j \in 1..total_failed' : i < j => failed_names'[i] < failed_names'[j]
    BY DEF IInv, NamesInv
<1>4. \A k \in 1..Handled' :
          verdict'[k] = "failed" /\ tests'[k].function_type # "TEARDOWN"
              => \E i \in 1..total_failed' : failed_names'[i] = k
    BY <1>1, <1>5 DEF IInv, NamesInv
<1> QED
    BY <1>2, <1>3, <1>4 DEF NamesInv

(* A step of the loop of _run_tests, Join aside, keeps the invariant: it   *)
(* moves the counters of the loop and touches no verdict.                  *)
LEMMA LoopInv ==
    ASSUME IInv,
           \/ SkipNull \/ DispatchTest \/ DispatchSetup \/ DispatchTeardown
           \/ TeardownWithoutSetup \/ InvalidType \/ Spawn \/ Report
    PROVE  IInv'
<1> USE DEF suite_vars, signal_vars, DispatchKeeps, MainAt
<1>0. /\ N \in Nat
      /\ N' = N
      /\ tests' = tests
      /\ \A i \in 1..N : tests[i] \in UnitTest
    BY SuiteIsFinite DEF IInv, TypeOK, N, SkipNull, DispatchTest, DispatchSetup,
       DispatchTeardown, TeardownWithoutSetup, InvalidType, Spawn, Report
<1>1. CASE SkipNull
  <2>1. /\ current_test \in 0..N /\ current_test < N
        /\ current_test' = current_test + 1
        /\ current_test' \in 0..N
      BY <1>0, <1>1 DEF IInv, TypeOK, SkipNull, Skipped
  <2>2. TypeOK'
      BY <1>0, <1>1, <2>1, SMTT(60) DEF IInv, TypeOK, CountInv, SkipNull, Skipped, Slots
  <2>3. ControlInv'
      BY <1>0, <1>1 DEF IInv, TypeOK, ControlInv, SkipNull, Skipped, Test, N
  <2>4. CountInv'
      BY <1>0, <1>1 DEF IInv, TypeOK, ControlInv, CountInv, SkipNull, Skipped, Handled
  <2>5. VerdictInv'
      BY <1>0, <1>1 DEF IInv, TypeOK, ControlInv, VerdictInv, SkipNull, Skipped, Handled
  <2>6. NamesInv'
    <3>1. Handled' \in {Handled, Handled + 1}
        BY <1>0, <1>1, <2>1 DEF SkipNull, Skipped, Handled
    <3>2. Handled' = Handled + 1 => verdict[Handled + 1] = "none"
        BY <1>0, <1>1, <2>1 DEF IInv, ControlInv, VerdictInv, SkipNull, Skipped, Handled
    <3> QED
        BY <1>0, <1>1, <3>1, <3>2, RecordKept DEF SkipNull, Skipped
  <2> QED
      BY <2>2, <2>3, <2>4, <2>5, <2>6 DEF IInv
<1>2. CASE DispatchTest
  <2>1. /\ current_test \in 0..N /\ current_test < N
        /\ current_test' = current_test + 1
        /\ current_test' \in 0..N
      BY <1>0, <1>2 DEF IInv, TypeOK, DispatchTest, Take
  <2>2. TypeOK'
      BY <1>0, <1>2, <2>1, SMTT(60) DEF IInv, TypeOK, CountInv, DispatchTest, Take, Slots
  <2>3. ControlInv'
      BY <1>0, <1>2 DEF IInv, TypeOK, ControlInv, DispatchTest, Take, Test, N
  <2>4. CountInv'
      BY <1>0, <1>2 DEF IInv, TypeOK, ControlInv, CountInv, DispatchTest, Take, Handled
  <2>5. VerdictInv'
      BY <1>0, <1>2 DEF IInv, TypeOK, ControlInv, VerdictInv, DispatchTest, Take, Handled
  <2>6. NamesInv'
    <3>1. Handled' \in {Handled, Handled + 1}
        BY <1>0, <1>2, <2>1 DEF DispatchTest, Take, Handled
    <3>2. Handled' = Handled + 1 => verdict[Handled + 1] = "none"
        BY <1>0, <1>2, <2>1 DEF IInv, ControlInv, VerdictInv, DispatchTest, Take, Handled
    <3> QED
        BY <1>0, <1>2, <3>1, <3>2, RecordKept DEF DispatchTest, Take
  <2> QED
      BY <2>2, <2>3, <2>4, <2>5, <2>6 DEF IInv
<1>3. CASE DispatchSetup
  <2>1. /\ current_test \in 0..N /\ current_test < N
        /\ current_test' = current_test + 1
        /\ current_test' \in 0..N
      BY <1>0, <1>3 DEF IInv, TypeOK, DispatchSetup, Take, NullState
  <2>2. TypeOK'
    <3>1. number_of_test_states \in 0..current_test
        BY <1>0 DEF IInv, TypeOK, CountInv
    <3> DEFINE pushed == [check_point |-> current_test + 1, state |-> 0]
    <3>2. test_states' \in [1..N -> [check_point : 0..N, state : 0..N]]
      <4>1. pushed \in [check_point : 0..N, state : 0..N]
          BY <1>0, <2>1
      <4>2. test_states' = [test_states EXCEPT ![number_of_test_states + 1] = pushed]
          BY <1>3 DEF DispatchSetup, Take, NullState
      <4>3. test_states \in [1..N -> [check_point : 0..N, state : 0..N]]
          BY DEF IInv, TypeOK, Slots
      <4> HIDE DEF pushed
      <4> QED
          BY <4>1, <4>2, <4>3
    <3>3. setups + 1 \in 0..N
        BY <1>0, <2>1 DEF IInv, TypeOK, CountInv
    <3>4. number_of_test_states + 1 \in 0..N
        BY <1>0, <2>1, <3>1
    <3>5. /\ main_pc' = "spawn" /\ run_next_test' = 1
          /\ setups' \in 0..N /\ number_of_test_states' \in 0..N
          /\ current_state' \in 0..N /\ test_check_point' \in 0..N
          /\ UNCHANGED <<teardowns, process, ended_by, DispatchKeeps>>
        BY <1>3, <2>1, <3>3, <3>4 DEF DispatchSetup, Take, NullState
    <3> QED
        BY <1>0, <2>1, <3>2, <3>5 DEF IInv, TypeOK, Slots
  <2>3. ControlInv'
      BY <1>0, <1>3 DEF IInv, TypeOK, ControlInv, DispatchSetup, Take, NullState, Test, N
  <2>4. CountInv'
      BY <1>0, <1>3 DEF IInv, TypeOK, ControlInv, CountInv, DispatchSetup, Take, NullState, Handled
  <2>5. VerdictInv'
      BY <1>0, <1>3 DEF IInv, TypeOK, ControlInv, VerdictInv, DispatchSetup, Take, NullState, Handled
  <2>6. NamesInv'
    <3>1. Handled' \in {Handled, Handled + 1}
        BY <1>0, <1>3, <2>1 DEF DispatchSetup, Take, NullState, Handled
    <3>2. Handled' = Handled + 1 => verdict[Handled + 1] = "none"
        BY <1>0, <1>3, <2>1 DEF IInv, ControlInv, VerdictInv, DispatchSetup, Take, NullState, Handled
    <3> QED
        BY <1>0, <1>3, <3>1, <3>2, RecordKept DEF DispatchSetup, Take, NullState
  <2> QED
      BY <2>2, <2>3, <2>4, <2>5, <2>6 DEF IInv
<1>4. CASE DispatchTeardown
  <2>1. /\ current_test \in 0..N /\ current_test < N
        /\ current_test' = current_test + 1
        /\ current_test' \in 0..N
      BY <1>0, <1>4 DEF IInv, TypeOK, DispatchTeardown, Take, Pop, Top
  <2>2. TypeOK'
    <3>1. number_of_test_states \in 1..N
        BY <1>0, <1>4 DEF IInv, TypeOK, DispatchTeardown, Take, Pop, Top
    <3>2. test_states[number_of_test_states].check_point \in 0..N
        BY <3>1 DEF IInv, TypeOK, Slots
    <3>3. teardowns + 1 \in 0..N /\ number_of_test_states - 1 \in 0..N
        BY <1>0, <2>1, <3>1 DEF IInv, TypeOK, CountInv
    <3>4. /\ main_pc' \in {"spawn", "next"}
          /\ teardowns' \in 0..N /\ number_of_test_states' \in 0..N
          /\ current_state' \in 0..N /\ test_check_point' \in 0..N
          /\ UNCHANGED <<run_next_test, setups, test_states, process, ended_by,
                         DispatchKeeps>>
        BY <1>0, <1>4, <3>1, <3>2, <3>3 DEF DispatchTeardown, Take, Pop, Top
    <3> QED
        BY <1>0, <2>1, <3>4 DEF IInv, TypeOK, Slots
  <2>3. ControlInv'
      BY <1>0, <1>4 DEF IInv, TypeOK, ControlInv, DispatchTeardown, Take, Pop, Top, Test, N
  <2>4. CountInv'
      BY <1>0, <1>4 DEF IInv, TypeOK, ControlInv, CountInv, DispatchTeardown, Take, Pop, Top, Handled
  <2>5. VerdictInv'
      BY <1>0, <1>4 DEF IInv, TypeOK, ControlInv, VerdictInv, DispatchTeardown, Take, Pop, Top, Handled
  <2>6. NamesInv'
    <3>1. Handled' \in {Handled, Handled + 1}
        BY <1>0, <1>4, <2>1 DEF DispatchTeardown, Take, Pop, Top, Handled
    <3>2. Handled' = Handled + 1 => verdict[Handled + 1] = "none"
        BY <1>0, <1>4, <2>1 DEF IInv, ControlInv, VerdictInv, DispatchTeardown, Take, Pop, Top, Handled
    <3> QED
        BY <1>0, <1>4, <3>1, <3>2, RecordKept DEF DispatchTeardown, Take, Pop, Top
  <2> QED
      BY <2>2, <2>3, <2>4, <2>5, <2>6 DEF IInv
<1>5. CASE TeardownWithoutSetup
  <2>1. /\ current_test \in 0..N /\ current_test < N
        /\ current_test' = current_test + 1
        /\ current_test' \in 0..N
      BY <1>0, <1>5 DEF IInv, TypeOK, TeardownWithoutSetup, Take, End
  <2>2. TypeOK'
      BY <1>0, <1>5, <2>1, SMTT(60) DEF IInv, TypeOK, CountInv, TeardownWithoutSetup, Take, End, Slots
  <2>3. ControlInv'
      BY <1>0, <1>5 DEF IInv, TypeOK, ControlInv, TeardownWithoutSetup, Take, End, Test, N
  <2>4. CountInv'
      BY <1>0, <1>5 DEF IInv, TypeOK, ControlInv, CountInv, TeardownWithoutSetup, Take, End, Handled
  <2>5. VerdictInv'
      BY <1>0, <1>5 DEF IInv, TypeOK, ControlInv, VerdictInv, TeardownWithoutSetup, Take, End, Handled
  <2>6. NamesInv'
    <3>1. Handled' \in {Handled, Handled + 1}
        BY <1>0, <1>5, <2>1 DEF TeardownWithoutSetup, Take, End, Handled
    <3>2. Handled' = Handled + 1 => verdict[Handled + 1] = "none"
        BY <1>0, <1>5, <2>1 DEF IInv, ControlInv, VerdictInv, TeardownWithoutSetup, Take, End, Handled
    <3> QED
        BY <1>0, <1>5, <3>1, <3>2, RecordKept DEF TeardownWithoutSetup, Take, End
  <2> QED
      BY <2>2, <2>3, <2>4, <2>5, <2>6 DEF IInv
<1>6. CASE InvalidType
  <2>1. /\ current_test \in 0..N /\ current_test < N
        /\ current_test' = current_test + 1
        /\ current_test' \in 0..N
      BY <1>0, <1>6 DEF IInv, TypeOK, InvalidType, Take, exit_test, End
  <2>2. TypeOK'
      BY <1>0, <1>6, <2>1, SMTT(60) DEF IInv, TypeOK, CountInv, InvalidType, Take, exit_test, End, Slots
  <2>3. ControlInv'
      BY <1>0, <1>6 DEF IInv, TypeOK, ControlInv, InvalidType, Take, exit_test, End, Test, N
  <2>4. CountInv'
      BY <1>0, <1>6 DEF IInv, TypeOK, ControlInv, CountInv, InvalidType, Take, exit_test, End, Handled
  <2>5. VerdictInv'
      BY <1>0, <1>6 DEF IInv, TypeOK, ControlInv, VerdictInv, InvalidType, Take, exit_test, End, Handled
  <2>6. NamesInv'
    <3>1. Handled' \in {Handled, Handled + 1}
        BY <1>0, <1>6, <2>1 DEF InvalidType, Take, exit_test, End, Handled
    <3>2. Handled' = Handled + 1 => verdict[Handled + 1] = "none"
        BY <1>0, <1>6, <2>1 DEF IInv, ControlInv, VerdictInv, InvalidType, Take, exit_test, End, Handled
    <3> QED
        BY <1>0, <1>6, <3>1, <3>2, RecordKept DEF InvalidType, Take, exit_test, End
  <2> QED
      BY <2>2, <2>3, <2>4, <2>5, <2>6 DEF IInv
<1>7. CASE Spawn
  <2>1. current_test \in 0..N /\ current_test' = current_test
      BY <1>0, <1>7 DEF IInv, TypeOK, Spawn
  <2>2. TypeOK'
      BY <1>0, <1>7, <2>1, SMTT(60) DEF IInv, TypeOK, CountInv, Spawn, Slots
  <2>3. ControlInv'
      BY <1>0, <1>7 DEF IInv, TypeOK, ControlInv, Spawn, Test, N
  <2>4. CountInv'
      BY <1>0, <1>7 DEF IInv, TypeOK, ControlInv, CountInv, Spawn, Handled
  <2>5. VerdictInv'
      BY <1>0, <1>7 DEF IInv, TypeOK, ControlInv, VerdictInv, Spawn, Handled
  <2>6. NamesInv'
    <3>1. Handled' \in {Handled, Handled + 1}
        BY <1>0, <1>7, <2>1 DEF Spawn, Handled
    <3>2. Handled' = Handled + 1 => verdict[Handled + 1] = "none"
        BY <1>0, <1>7, <2>1 DEF IInv, ControlInv, VerdictInv, Spawn, Handled
    <3> QED
        BY <1>0, <1>7, <3>1, <3>2, RecordKept DEF Spawn
  <2> QED
      BY <2>2, <2>3, <2>4, <2>5, <2>6 DEF IInv
<1>8. CASE Report
  <2>1. current_test \in 0..N /\ current_test' = current_test
      BY <1>0, <1>8 DEF IInv, TypeOK, Report, End
  <2>2. TypeOK'
      BY <1>0, <1>8, <2>1, SMTT(60) DEF IInv, TypeOK, CountInv, Report, End, Slots
  <2>3. ControlInv'
      BY <1>0, <1>8 DEF IInv, TypeOK, ControlInv, Report, End, Test, N
  <2>4. CountInv'
      BY <1>0, <1>8 DEF IInv, TypeOK, ControlInv, CountInv, Report, End, Handled
  <2>5. VerdictInv'
      BY <1>0, <1>8 DEF IInv, TypeOK, ControlInv, VerdictInv, Report, End, Handled
  <2>6. NamesInv'
    <3>1. Handled' \in {Handled, Handled + 1}
        BY <1>0, <1>8, <2>1 DEF Report, End, Handled
    <3>2. Handled' = Handled + 1 => verdict[Handled + 1] = "none"
        BY <1>0, <1>8, <2>1 DEF IInv, ControlInv, VerdictInv, Report, End, Handled
    <3> QED
        BY <1>0, <1>8, <3>1, <3>2, RecordKept DEF Report, End
  <2> QED
      BY <2>2, <2>3, <2>4, <2>5, <2>6 DEF IInv
<1> QED
    BY <1>1, <1>2, <1>3, <1>4, <1>5, <1>6, <1>7, <1>8

(* While its thread is at work, a function touches nothing of the loop's.  *)
Working == {"start", "body", "leftover", "leaks", "catch_std", "catch_any",
            "teardown"}

LEMMA ThreadFrame ==
    ASSUME IInv, UNCHANGED ThreadKeeps, process = "running",
           thread_pc \in Working, thread_pc' \in Working, process' # "returned"
    PROVE  ControlInv' /\ CountInv' /\ VerdictInv' /\ NamesInv'
<1> USE DEF ThreadKeeps, suite_vars, Working, IInv
<1>1. ControlInv'
    BY DEF ControlInv, Test, N
<1>2. CountInv'
    BY DEF CountInv, Handled
<1>3. VerdictInv'
    BY DEF VerdictInv, Handled, N
<1>4. NamesInv'
    BY DEF NamesInv, Handled
<1> QED
    BY <1>1, <1>2, <1>3, <1>4

(* However a fault is taken, it leaves values of the right types.          *)
LEMMA FaultTyped ==
    ASSUME NEW signal \in Signals, NEW where, Fault(signal, where),
           thread_pc \in Working, blocked \in SUBSET Signals,
           process = "running"
    PROVE  /\ thread_pc' \in Working
           /\ blocked' \in SUBSET Signals
           /\ process' \in {"running", "exited", "aborted", "killed"}
           /\ ended_by' \in {where, ended_by}
  BY DEF Fault, End, Working

(* A step of the thread before its last one keeps the invariant.           *)
LEMMA ThreadInv ==
    ASSUME IInv,
           \/ StartTest \/ Body \/ BodyCatchesFault \/ CheckLeftovers
           \/ NothingLeaked \/ BlocksLeaked \/ CheckPointFreed
           \/ CatchStd \/ CatchAny
    PROVE  IInv'
<1> USE DEF ThreadAt
<1>0. N \in Nat
    BY SuiteIsFinite DEF IInv, TypeOK
<1>13. ASSUME BodyEffects, UNCHANGED ThreadKeeps
       PROVE  /\ expectations' \in SUBSET Leftovers
              /\ test_states' \in [Slots' -> [check_point : 0..N', state : 0..N']]
  <2> current_test \in 0..N
      BY DEF IInv, TypeOK
  <2>1. CASE UNCHANGED test_states
      BY <1>13, <2>1 DEF IInv, TypeOK, BodyEffects, ThreadKeeps, N, Slots
  <2>2. CASE test_states' =
                [test_states EXCEPT ![current_state].state = current_test]
      BY <1>13, <2>2 DEF IInv, TypeOK, BodyEffects, ThreadKeeps, N, Slots
  <2> QED
      BY <1>13, <2>1, <2>2 DEF BodyEffects
<1>1. CASE StartTest
  <2>1. TypeOK'
      BY <1>0, <1>1 DEF IInv, TypeOK, StartTest, ThreadKeeps, suite_vars,
         signal_vars, N, Slots
  <2>2. /\ UNCHANGED ThreadKeeps
        /\ process = "running"
        /\ process' # "returned"
        /\ {thread_pc, thread_pc'} \subseteq Working
      BY <1>1 DEF IInv, TypeOK, StartTest, Working
  <2> QED
      BY <2>1, <2>2, ThreadFrame DEF IInv
<1>2. CASE BodyReturns
  <2>1. TypeOK'
      BY <1>0, <1>2, <1>13 DEF IInv, TypeOK, BodyReturns, ThreadKeeps, suite_vars,
         signal_vars, N, Slots
  <2>2. /\ UNCHANGED ThreadKeeps
        /\ process = "running"
        /\ process' # "returned"
        /\ {thread_pc, thread_pc'} \subseteq Working
      BY <1>2 DEF IInv, TypeOK, BodyReturns, BodyEffects, Working
  <2> QED
      BY <2>1, <2>2, ThreadFrame DEF IInv
<1>3. CASE BodyThrows
  <2>1. TypeOK'
      BY <1>0, <1>3, <1>13 DEF IInv, TypeOK, BodyThrows, ThreadKeeps, suite_vars,
         signal_vars, N, Slots
  <2>2. /\ UNCHANGED ThreadKeeps
        /\ process = "running"
        /\ process' # "returned"
        /\ {thread_pc, thread_pc'} \subseteq Working
      BY <1>3 DEF IInv, TypeOK, BodyThrows, BodyEffects, Working
  <2> QED
      BY <2>1, <2>2, ThreadFrame DEF IInv
<1>4. CASE BodyFails
  <2>1. TypeOK'
      BY <1>0, <1>4, <1>13 DEF IInv, TypeOK, BodyFails, exit_test, End, ThreadKeeps, suite_vars,
         signal_vars, N, Slots
  <2>2. /\ UNCHANGED ThreadKeeps
        /\ process = "running"
        /\ process' # "returned"
        /\ {thread_pc, thread_pc'} \subseteq Working
      BY <1>4 DEF IInv, TypeOK, BodyFails, BodyEffects, exit_test, End, Working
  <2> QED
      BY <2>1, <2>2, ThreadFrame DEF IInv
<1>5. CASE BodyFaults
  <2>0. /\ thread_pc' \in Working
        /\ blocked' \in SUBSET Signals
        /\ process' \in {"running", "exited", "aborted", "killed"}
        /\ ended_by' \in {ended_by, "exception_handler", "fail_if_blocks_allocated"}
    <3>1. thread_pc \in Working /\ blocked \in SUBSET Signals /\ process = "running"
        BY <1>5 DEF IInv, TypeOK, BodyFaults, Working
    <3> QED
        BY <1>5, <3>1, FaultTyped DEF BodyFaults, Signals
  <2>1. TypeOK'
      BY <1>0, <1>5, <2>0, <1>13 DEF IInv, TypeOK, BodyFaults, ThreadKeeps, suite_vars,
         signal_vars, N, Slots, Working
  <2>2. /\ UNCHANGED ThreadKeeps
        /\ process = "running"
        /\ process' # "returned"
        /\ {thread_pc, thread_pc'} \subseteq Working
      BY <1>5, <2>0 DEF BodyFaults, Working
  <2> QED
      BY <2>1, <2>2, ThreadFrame DEF IInv
<1>6. CASE BodyCatchesFault
  <2>0. /\ thread_pc' \in Working
        /\ blocked' \in SUBSET Signals
        /\ process' \in {"running", "exited", "aborted", "killed"}
        /\ ended_by' \in {ended_by, "exception_handler", "fail_if_blocks_allocated"}
    <3>1. thread_pc \in Working /\ blocked \in SUBSET Signals /\ process = "running"
        BY <1>6 DEF IInv, TypeOK, BodyCatchesFault, Working
    <3> QED
        BY <1>6, <3>1, FaultTyped DEF BodyCatchesFault, Signals
  <2>1. TypeOK'
      BY <1>0, <1>6, <2>0 DEF IInv, TypeOK, BodyCatchesFault, ThreadKeeps, suite_vars,
         signal_vars, N, Slots, Working
  <2>2. /\ UNCHANGED ThreadKeeps
        /\ process = "running"
        /\ process' # "returned"
        /\ {thread_pc, thread_pc'} \subseteq Working
      BY <1>6, <2>0 DEF BodyCatchesFault, Working
  <2> QED
      BY <2>1, <2>2, ThreadFrame DEF IInv
<1>7. CASE CheckLeftovers
  <2>1. TypeOK'
      BY <1>0, <1>7 DEF IInv, TypeOK, CheckLeftovers, exit_test, End, ThreadKeeps, suite_vars,
         signal_vars, N, Slots
  <2>2. /\ UNCHANGED ThreadKeeps
        /\ process = "running"
        /\ process' # "returned"
        /\ {thread_pc, thread_pc'} \subseteq Working
      BY <1>7 DEF IInv, TypeOK, CheckLeftovers, exit_test, End, Working
  <2> QED
      BY <2>1, <2>2, ThreadFrame DEF IInv
<1>8. CASE NothingLeaked
  <2>1. TypeOK'
      BY <1>0, <1>8 DEF IInv, TypeOK, NothingLeaked, ThreadKeeps, suite_vars,
         signal_vars, N, Slots
  <2>2. /\ UNCHANGED ThreadKeeps
        /\ process = "running"
        /\ process' # "returned"
        /\ {thread_pc, thread_pc'} \subseteq Working
      BY <1>8 DEF IInv, TypeOK, NothingLeaked, Working
  <2> QED
      BY <2>1, <2>2, ThreadFrame DEF IInv
<1>9. CASE BlocksLeaked
  <2>1. TypeOK'
      BY <1>0, <1>9 DEF IInv, TypeOK, BlocksLeaked, ThreadKeeps, suite_vars,
         signal_vars, N, Slots
  <2>2. /\ UNCHANGED ThreadKeeps
        /\ process = "running"
        /\ process' # "returned"
        /\ {thread_pc, thread_pc'} \subseteq Working
      BY <1>9 DEF IInv, TypeOK, BlocksLeaked, Working
  <2> QED
      BY <2>1, <2>2, ThreadFrame DEF IInv
<1>10. CASE CheckPointFreed
  <2>0. /\ thread_pc' \in Working
        /\ blocked' \in SUBSET Signals
        /\ process' \in {"running", "exited", "aborted", "killed"}
        /\ ended_by' \in {ended_by, "exception_handler", "fail_if_blocks_allocated"}
    <3>1. thread_pc \in Working /\ blocked \in SUBSET Signals /\ process = "running"
        BY <1>10 DEF IInv, TypeOK, CheckPointFreed, Working
    <3> QED
        BY <1>10, <3>1, FaultTyped DEF CheckPointFreed, Signals
  <2>1. TypeOK'
      BY <1>0, <1>10, <2>0 DEF IInv, TypeOK, CheckPointFreed, ThreadKeeps, suite_vars,
         signal_vars, N, Slots, Working
  <2>2. /\ UNCHANGED ThreadKeeps
        /\ process = "running"
        /\ process' # "returned"
        /\ {thread_pc, thread_pc'} \subseteq Working
      BY <1>10, <2>0 DEF CheckPointFreed, Working
  <2> QED
      BY <2>1, <2>2, ThreadFrame DEF IInv
<1>11. CASE CatchStd
  <2>1. TypeOK'
      BY <1>0, <1>11 DEF IInv, TypeOK, CatchStd, End, ThreadKeeps, suite_vars,
         signal_vars, N, Slots
  <2>2. /\ UNCHANGED ThreadKeeps
        /\ process = "running"
        /\ process' # "returned"
        /\ {thread_pc, thread_pc'} \subseteq Working
      BY <1>11 DEF IInv, TypeOK, CatchStd, End, Working
  <2> QED
      BY <2>1, <2>2, ThreadFrame DEF IInv
<1>12. CASE CatchAny
  <2>1. TypeOK'
      BY <1>0, <1>12 DEF IInv, TypeOK, CatchAny, ThreadKeeps, suite_vars,
         signal_vars, N, Slots
  <2>2. /\ UNCHANGED ThreadKeeps
        /\ process = "running"
        /\ process' # "returned"
        /\ {thread_pc, thread_pc'} \subseteq Working
      BY <1>12 DEF IInv, TypeOK, CatchAny, Working
  <2> QED
      BY <2>1, <2>2, ThreadFrame DEF IInv
<1> QED
    BY <1>1, <1>2, <1>3, <1>4, <1>5, <1>6, <1>7, <1>8, <1>9, <1>10, <1>11, <1>12 DEF Body

(* The thread's last step either dies in teardown_testing or stores the    *)
(* verdict, in the history and in the loop's variable alike.               *)
LEMMA TeardownInv ==
    ASSUME IInv, Teardown
    PROVE  IInv'
<1> USE DEF suite_vars, signal_vars
<1>0. /\ N \in Nat /\ N' = N /\ tests' = tests
      /\ process = "running" /\ thread_pc = "teardown" /\ main_pc = "join"
      /\ current_test \in 1..N
    BY SuiteIsFinite DEF IInv, TypeOK, ControlInv, Teardown, ThreadAt, N
<1>1. CASE expectations \cap ParameterValues # {}
  <2>1. /\ thread_pc' \in Working
        /\ blocked' \in SUBSET Signals
        /\ process' \in {"running", "exited", "aborted", "killed"}
        /\ ended_by' \in {ended_by, "teardown_testing"}
    <3>1. thread_pc \in Working /\ blocked \in SUBSET Signals
        BY <1>0 DEF IInv, TypeOK, Working
    <3>2. Fault("SIGSEGV", "teardown_testing")
        BY <1>1 DEF Teardown
    <3> QED
        BY <1>0, <3>1, <3>2, FaultTyped DEF Signals
  <2>2. UNCHANGED <<ThreadKeeps, test_states, rc, expectations,
                    global_running_test, signal_vars>>
      BY <1>1 DEF Teardown, ThreadKeeps
  <2>3. TypeOK'
      BY <1>0, <2>1, <2>2 DEF IInv, TypeOK, ThreadKeeps, Working, Slots
  <2> QED
      BY <1>0, <2>1, <2>2, <2>3, ThreadFrame DEF IInv, Working
<1>2. CASE expectations \cap ParameterValues = {}
  <2>1. /\ expectations' = {} /\ thread_pc' = "done" /\ failed' = rc
        /\ verdict' = [verdict EXCEPT ![current_test] =
                          IF rc = 0 THEN "passed" ELSE "failed"]
        /\ UNCHANGED <<tests, main_pc, suite_vars, test_states, rc, blocked,
                       process, ended_by, global_running_test, signal_vars>>
      BY <1>2 DEF Teardown, Stored
  <2>2. TypeOK'
      BY <1>0, <2>1 DEF IInv, TypeOK, Slots
  <2>3. ControlInv'
      BY <1>0, <2>1 DEF IInv, ControlInv, Test, N
  <2>4. CountInv'
      BY <1>0, <2>1 DEF IInv, CountInv, Handled
  <2>5. Handled = current_test - 1 /\ Handled' = current_test - 1
      BY <1>0, <2>1 DEF Handled
  <2>6. VerdictInv'
      BY <1>0, <2>1, <2>5 DEF IInv, TypeOK, VerdictInv
  <2>7. NamesInv'
    <3>1. /\ Handled' = Handled
          /\ UNCHANGED <<tests, total_failed, failed_names>>
          /\ \A i \in 1..Handled : verdict'[i] = verdict[i]
        BY <1>0, <2>1, <2>5 DEF IInv, TypeOK
    <3>2. \A i \in 1..total_failed : failed_names[i] \in 1..Handled
        BY DEF IInv, NamesInv
    <3> QED
        BY <3>1, <3>2 DEF IInv, NamesInv
  <2> QED
      BY <2>2, <2>3, <2>4, <2>6, <2>7 DEF IInv
<1> QED
    BY <1>1, <1>2

(* Join brings the loop's account up to date with the verdict.             *)
LEMMA JoinInv ==
    ASSUME IInv, Join
    PROVE  IInv'
<1> USE DEF signal_vars
<1>0. /\ N \in Nat /\ N' = N /\ tests' = tests
      /\ process = "running" /\ main_pc = "join" /\ thread_pc = "done"
      /\ main_pc' = "next" /\ thread_pc' = "none"
      /\ current_test \in 1..N /\ current_test' = current_test
      /\ Handled = current_test - 1 /\ Handled' = current_test
      /\ verdict' = verdict
    BY SuiteIsFinite DEF IInv, TypeOK, ControlInv, Join, MainAt, N, Handled
<1>1. /\ total_failed \in 0..(current_test - 1)
      /\ tests_executed \in 0..(current_test - 1)
      /\ failed \in {0, 1}
      /\ previous_test_failed \in {0, 1}
      /\ previous_test_failed = 1 => total_failed > 0
      /\ failed = 1 <=> verdict[current_test] = "failed"
      /\ failed_names \in [1..N -> 0..N]
    BY <1>0 DEF IInv, TypeOK, CountInv, VerdictInv
<1>2. /\ total_failed' \in {total_failed, total_failed + 1}
      /\ total_failed' = total_failed + 1 => failed = 1
      /\ failed = 1 /\ total_failed' = total_failed =>
            Test.function_type = "TEARDOWN" /\ previous_test_failed = 1
      /\ tests_executed' \in {tests_executed, tests_executed + 1}
      /\ run_next_test' \in {0, 1}
      /\ previous_test_failed' \in {0, 1}
      /\ previous_test_failed' = 1 => total_failed' > 0
  <2>1. run_next_test \in {0, 1}
      BY DEF IInv, TypeOK
  <2>2. CASE /\ Test.function_type = "TEST"
             /\ previous_test_failed' = failed
             /\ total_failed' = total_failed + failed
             /\ tests_executed' = tests_executed + 1
             /\ UNCHANGED run_next_test
      BY <1>1, <2>1, <2>2
  <2>3. CASE /\ Test.function_type = "SETUP"
             /\ total_failed' = total_failed + failed
             /\ tests_executed' = tests_executed + failed
             /\ run_next_test' = RunAfterSetup
             /\ previous_test_failed' = 0
      BY <1>1, <2>1, <2>3 DEF RunAfterSetup
  <2>4. CASE /\ Test.function_type = "TEARDOWN"
             /\ total_failed' = IF TeardownCounts THEN total_failed + 1
                                ELSE total_failed
             /\ UNCHANGED <<previous_test_failed, tests_executed, run_next_test>>
      BY <1>1, <2>1, <2>4 DEF TeardownCounts
  <2> QED
      BY <2>2, <2>3, <2>4 DEF Join
<1>3. failed_names' = IF failed = 1
                      THEN [failed_names EXCEPT ![total_failed + 1] = current_test]
                      ELSE failed_names
    BY DEF Join, NameSlot
<1>4. TypeOK'
  <2>1. failed_names' \in [1..N -> 0..N]
      BY <1>0, <1>1, <1>3
  <2>2. total_failed' \in 0..N /\ tests_executed' \in 0..N
      BY <1>0, <1>1, <1>2
  <2> QED
      BY <1>0, <1>2, <2>1, <2>2 DEF IInv, TypeOK, Join, Slots
<1>5. ControlInv'
    BY <1>0 DEF IInv, ControlInv, Join
<1>6. CountInv'
    BY <1>0, <1>1, <1>2 DEF IInv, CountInv, Join
<1>7. VerdictInv'
  <2>1. \A i \in 1..N : i > Handled' => verdict'[i] = "none"
      BY <1>0 DEF IInv, VerdictInv
  <2>2. total_failed' = 0 <=> \A i \in 1..Handled' : verdict'[i] # "failed"
      BY <1>0, <1>1, <1>2 DEF IInv, VerdictInv
  <2> QED
      BY <1>0, <1>2, <2>1, <2>2 DEF VerdictInv
<1>8. NamesInv'
  <2>0. /\ \A i \in 1..total_failed : /\ failed_names[i] \in 1..(current_test - 1)
                                      /\ verdict[failed_names[i]] = "failed"
        /\ \A i, j \in 1..total_failed : i < j => failed_names[i] < failed_names[j]
        /\ \A k \in 1..(current_test - 1) :
              verdict[k] = "failed" /\ tests[k].function_type # "TEARDOWN"
                  => \E i \in 1..total_failed : failed_names[i] = k
      BY <1>0 DEF IInv, NamesInv
  <2>1. CASE failed = 0
    <3>1. UNCHANGED <<tests, total_failed, failed_names, verdict>>
        BY <1>0, <1>2, <1>3, <2>1
    <3>2. Handled' = Handled + 1 /\ verdict[Handled + 1] # "failed"
        BY <1>0, <1>1, <2>1
    <3> QED
        BY <1>0, <3>1, <3>2, RecordKept
  <2>2. CASE failed = 1 /\ total_failed' = total_failed + 1
    <3>1. /\ failed_names'[total_failed + 1] = current_test
          /\ \A i \in 1..total_failed : failed_names'[i] = failed_names[i]
        BY <1>0, <1>1, <1>3, <2>2
    <3>2. \A i \in 1..total_failed' :
              failed_names'[i] \in 1..Handled' /\ verdict'[failed_names'[i]] = "failed"
      <4> SUFFICES ASSUME NEW i \in 1..(total_failed + 1)
                   PROVE  /\ failed_names'[i] \in 1..current_test
                          /\ verdict[failed_names'[i]] = "failed"
          BY <1>0, <2>2
      <4>1. CASE i = total_failed + 1
          BY <1>0, <1>1, <2>2, <3>1, <4>1
      <4>2. CASE i \in 1..total_failed
          BY <1>0, <2>0, <3>1, <4>2
      <4> QED
          BY <1>1, <4>1, <4>2
    <3>3. \A i, j \in 1..total_failed' : i < j => failed_names'[i] < failed_names'[j]
      <4> SUFFICES ASSUME NEW i \in 1..(total_failed + 1),
                          NEW j \in 1..(total_failed + 1), i < j
                   PROVE  failed_names'[i] < failed_names'[j]
          BY <2>2
      <4>1. i \in 1..total_failed /\ failed_names'[i] = failed_names[i]
          BY <1>1, <3>1
      <4>2. CASE j = total_failed + 1
          BY <1>0, <2>0, <3>1, <4>1, <4>2
      <4>3. CASE j \in 1..total_failed
          BY <2>0, <3>1, <4>1, <4>3
      <4> QED
          BY <1>1, <4>2, <4>3
    <3>4. \A k \in 1..Handled' :
              verdict'[k] = "failed" /\ tests'[k].function_type # "TEARDOWN"
                  => \E i \in 1..total_failed' : failed_names'[i] = k
      <4> SUFFICES ASSUME NEW k \in 1..current_test, verdict[k] = "failed",
                          tests[k].function_type # "TEARDOWN"
                   PROVE  \E i \in 1..(total_failed + 1) : failed_names'[i] = k
          BY <1>0, <2>2
      <4>1. CASE k = current_test
        <5>1. total_failed + 1 \in 1..(total_failed + 1)
            BY <1>1
        <5> WITNESS total_failed + 1 \in 1..(total_failed + 1)
        <5> QED
            BY <3>1, <4>1
      <4>2. CASE k \in 1..(current_test - 1)
        <5>1. PICK i \in 1..total_failed : failed_names[i] = k
            BY <2>0, <4>2
        <5>2. i \in 1..(total_failed + 1)
            BY <1>1
        <5> QED
            BY <3>1, <5>1, <5>2
      <4> QED
          BY <1>0, <4>1, <4>2
    <3> QED
        BY <3>2, <3>3, <3>4 DEF NamesInv
  <2>3. CASE failed = 1 /\ total_failed' = total_failed
    <3>1. \A i \in 1..total_failed : failed_names'[i] = failed_names[i]
        BY <1>0, <1>1, <1>3, <2>3
    <3>2. tests[current_test].function_type = "TEARDOWN"
        BY <1>2, <2>3 DEF Test
    <3>3. \A k \in 1..Handled' :
              verdict'[k] = "failed" /\ tests'[k].function_type # "TEARDOWN"
                  => k \in 1..(current_test - 1)
        BY <1>0, <3>2
    <3> QED
        BY <1>0, <2>0, <2>3, <3>1, <3>3 DEF NamesInv
  <2> QED
      BY <1>1, <1>2, <2>1, <2>2, <2>3
<1> QED
    BY <1>4, <1>5, <1>6, <1>7, <1>8 DEF IInv

(* Every step keeps the invariant.                                         *)
LEMMA StepInv == IInv /\ [Next]_vars => IInv'
<1> SUFFICES ASSUME IInv, [Next]_vars PROVE IInv'
    OBVIOUS
<1>1. CASE _run_tests
    BY <1>1, LoopInv, JoinInv DEF _run_tests
<1>2. CASE _run_test
    BY <1>2, ThreadInv, TeardownInv DEF _run_test
<1>3. CASE UNCHANGED vars
    BY <1>3 DEF vars, suite_vars, signal_vars, IInv, TypeOK, ControlInv, CountInv,
       VerdictInv, NamesInv, Handled, Test, N, Slots
<1> QED
    BY <1>1, <1>2, <1>3 DEF Next, Ended

(* What the loop's and the thread's places say of each other, of the       *)
(* counters, the verdicts and the names, after every step.                 *)
THEOREM Invariance == Spec => []IInv
  BY InitInv, StepInv, PTL DEF Spec

-----------------------------------------------------------------------------
(* Every variable keeps to its type; in particular no counter of           *)
(* _run_tests and no index into its two arrays leaves the range that the   *)
(* length of the array of tests sets.                                      *)
THEOREM TypeCorrect == Spec => []TypeOK
<1>1. IInv => TypeOK
    BY DEF IInv
<1> QED
    BY <1>1, Invariance, PTL

(* The two unchecked stores of _run_tests, failed_names[total_failed] and  *)
(* test_states[number_of_test_states++], stay within their arrays.         *)
THEOREM StoresAreInBounds == Spec => []StoresInBounds
<1>1. IInv => StoresInBounds
  <2> SUFFICES ASSUME IInv PROVE StoresInBounds
      OBVIOUS
  <2>1. MainAt("join") => total_failed < N
      BY SuiteIsFinite DEF IInv, TypeOK, ControlInv, CountInv, MainAt, Handled
  <2>2. /\ number_of_test_states = setups - teardowns
        /\ number_of_test_states <= current_test
      BY SuiteIsFinite DEF IInv, TypeOK, CountInv
  <2> QED
      BY <2>1, <2>2 DEF StoresInBounds
<1> QED
    BY <1>1, Invariance, PTL

(* When _run_tests reaches its summary, the count of failures it returns   *)
(* is zero exactly when every function it ran passed, for every suite.     *)
THEOREM VerdictIsSound == Spec => []VerdictSound
<1>1. IInv => VerdictSound
    BY DEF IInv, VerdictInv, ControlInv, VerdictSound, Handled, Failures
<1> QED
    BY <1>1, Invariance, PTL

(* And the names under it are those of functions that failed, in order,    *)
(* without repetition, with every failed test and setup among them.        *)
THEOREM NamesAreExact == Spec => []NamesExact
<1>1. IInv => NamesExact
  <2> SUFFICES ASSUME IInv, process = "returned"
               PROVE  LET listed == {failed_names[i] : i \in 1..total_failed}
                      IN  /\ \A i, j \in 1..total_failed :
                                 i < j => failed_names[i] < failed_names[j]
                          /\ listed \subseteq Failures
                          /\ \A i \in Failures \ listed :
                                 tests[i].function_type = "TEARDOWN"
      BY DEF NamesExact
  <2>1. Handled = N
      BY DEF IInv, ControlInv, Handled
  <2> QED
      BY <2>1 DEF IInv, NamesInv, Failures
<1> QED
    BY <1>1, Invariance, PTL

-----------------------------------------------------------------------------
(* The runner implements TestReport, as far as safety goes.                *)

(* What the caller of the program can tell, and the functions known to     *)
(* have failed, as the mapping of Contract gives them.                     *)
Outcome ==
    IF process = "running" THEN "running"
    ELSE IF process # "returned" THEN "died"
    ELSE IF total_failed = 0 THEN "success" ELSE "failure"
Failing == Failures \cap 1..Handled

LEMMA ContractStep ==
    ASSUME IInv, [Next]_vars
    PROVE  [Contract!Next]_Contract!vars
<1> USE DEF suite_vars, signal_vars, DispatchKeeps, MainAt, ThreadAt
<1>0. /\ N \in Nat
      /\ current_test \in 0..N
      /\ process \in {"running", "returned", "exited", "aborted", "killed"}
      /\ total_failed \in Nat
      /\ main_pc = "join" => thread_pc # "none"
      /\ main_pc \in {"spawn", "join"} => current_test >= 1
      /\ \A i \in 1..N : i > Handled /\ ~ (i = current_test /\ thread_pc = "done")
             => verdict[i] = "none"
    BY SuiteIsFinite DEF IInv, TypeOK, ControlInv, VerdictInv
<1> DEFINE Unseen == /\ N' = N
                     /\ Handled' = Handled
                     /\ Failing' = Failing
                     /\ Outcome' = Outcome
           Handles == /\ Outcome = "running" /\ Outcome' = "running"
                      /\ N' = N
                      /\ Handled < N /\ Handled' = Handled + 1
                      /\ Failing' \in {Failing, Failing \cup {Handled + 1}}
           Dies == /\ Outcome = "running" /\ Outcome' = "died"
                   /\ N' = N
                   /\ Handled < N /\ Handled' \in {Handled, Handled + 1}
                   /\ Failing' = Failing
           Summarises == /\ Outcome = "running"
                         /\ Outcome' = IF Failing = {} THEN "success" ELSE "failure"
                         /\ N' = N
                         /\ Handled = N /\ Handled' = Handled
                         /\ Failing' = Failing
<1>1. Unseen \/ Handles \/ Dies \/ Summarises
  <2>1. CASE SkipNull
    <3>1. /\ Handled = current_test /\ Handled' = current_test + 1
          /\ N' = N /\ current_test < N /\ verdict' = verdict
          /\ Outcome = "running" /\ Outcome' = "running"
        BY <2>1 DEF SkipNull, Skipped, Handled, Outcome, N
    <3>2. verdict[current_test + 1] = "none"
        BY <1>0, <3>1
    <3>3. Failing' = Failing
        BY <1>0, <3>1, <3>2 DEF Failing, Failures
    <3> QED
        BY <3>1, <3>3
  <2>2. CASE DispatchTest \/ DispatchSetup
      BY <1>0, <2>2 DEF DispatchTest, DispatchSetup, Take, Handled, Outcome, Failing,
         Failures, N
  <2>3. CASE DispatchTeardown
    <3>1. /\ Handled = current_test /\ Handled' \in {current_test, current_test + 1}
          /\ N' = N /\ current_test < N /\ verdict' = verdict
          /\ Outcome = "running" /\ Outcome' = "running"
        BY <1>0, <2>3 DEF DispatchTeardown, Take, Handled, Outcome, N
    <3>2. verdict[current_test + 1] = "none"
        BY <1>0, <2>3, <3>1 DEF DispatchTeardown, Take
    <3>3. Failing' = Failing
        BY <1>0, <3>1, <3>2 DEF Failing, Failures
    <3> QED
        BY <3>1, <3>3
  <2>4. CASE TeardownWithoutSetup \/ InvalidType
    <3>1. /\ Handled = current_test /\ Handled' = current_test + 1
          /\ N' = N /\ current_test < N /\ verdict' = verdict
          /\ Outcome = "running" /\ Outcome' = "died"
        BY <1>0, <2>4 DEF TeardownWithoutSetup, InvalidType, exit_test, End, Take,
           Handled, Outcome, N
    <3>2. verdict[current_test + 1] = "none"
        BY <1>0, <2>4, <3>1 DEF TeardownWithoutSetup, InvalidType, Take
    <3>3. Failing' = Failing
        BY <1>0, <3>1, <3>2 DEF Failing, Failures
    <3> QED
        BY <3>1, <3>3
  <2>5. CASE Spawn
      BY <2>5 DEF Spawn, Handled, Outcome, Failing, Failures, N
  <2>6. CASE Join
    <3>1. /\ Handled = current_test - 1 /\ Handled' = current_test
          /\ N' = N /\ verdict' = verdict
          /\ Outcome = "running" /\ Outcome' = "running"
        BY <2>6 DEF Join, Handled, Outcome, N
    <3>2. current_test >= 1
        BY <1>0, <2>6 DEF Join
    <3>3. Failing' \in {Failing, Failing \cup {current_test}}
        BY <1>0, <3>1, <3>2 DEF Failing, Failures
    <3> QED
        BY <1>0, <3>1, <3>2, <3>3
  <2>7. CASE Report
    <3>1. total_failed = 0 <=> Failing = {}
        BY <1>0, <2>7 DEF IInv, VerdictInv, Failing, Failures, Report, Handled
    <3> QED
        BY <1>0, <2>7, <3>1 DEF Report, End, Handled, Outcome, Failing, Failures, N
  <2>8. CASE _run_test
    <3>1. /\ process = "running"
          /\ process' # "returned"
          /\ thread_pc \in Working
          /\ UNCHANGED <<tests, main_pc, current_test>>
          /\ \/ verdict' = verdict
             \/ verdict' = [verdict EXCEPT ![current_test] =
                               IF rc = 0 THEN "passed" ELSE "failed"]
        BY <2>8 DEF _run_test, StartTest, Body, BodyReturns, BodyThrows, BodyFails,
           BodyFaults, BodyCatchesFault, CheckLeftovers, NothingLeaked,
           BlocksLeaked, CheckPointFreed, CatchStd, CatchAny, Teardown, ThreadKeeps,
           Fault, exit_test, End, Working
    <3>2. main_pc = "join" /\ current_test \in 1..N
        BY <1>0, <3>1 DEF IInv, ControlInv, Working
    <3>3. Handled = current_test - 1 /\ Handled' = Handled /\ N' = N
        BY <3>1, <3>2 DEF Handled, N
    <3>4. \A i \in 1..Handled : verdict'[i] = verdict[i]
        BY <1>0, <3>1, <3>2, <3>3 DEF IInv, TypeOK
    <3>5. Failing' = Failing
        BY <1>0, <3>2, <3>3, <3>4 DEF Failing, Failures
    <3>6. Outcome = "running" /\ Outcome' \in {"running", "died"}
        BY <3>1 DEF Outcome
    <3> QED
        BY <1>0, <3>2, <3>3, <3>5, <3>6
  <2>9. CASE UNCHANGED vars
      BY <2>9 DEF vars, Handled, Outcome, Failing, Failures, N
  <2> QED
      BY <2>1, <2>2, <2>3, <2>4, <2>5, <2>6, <2>7, <2>8, <2>9
      DEF Next, _run_tests, Ended
<1> QED
    BY <1>1 DEF Contract!Next, Contract!Handle, Contract!Die, Contract!Summarise,
       Contract!vars, Outcome, Failing

(* Whatever the suite and whatever its functions do, each step of the two  *)
(* threads is a step TestReport allows or one it does not see: functions   *)
(* are handled once and in order, and no run that failed, or died, is      *)
(* summed up as a success.                                                 *)
THEOREM ImplementsReport == Spec => Contract!Init /\ [][Contract!Next]_Contract!vars
<1>1. Init => Contract!Init
  <2> SUFFICES ASSUME Init PROVE Contract!Init
      OBVIOUS
  <2>1. N \in Nat
      BY SuiteIsFinite DEF Init
  <2> QED
      BY <2>1 DEF Init, Contract!Init, Handled, Failures
<1> QED
    BY <1>1, ContractStep, Invariance, PTL DEF Spec

-----------------------------------------------------------------------------
(* Setups and teardowns that were run or passed over, as the loop counts   *)
(* them: one more unit test adds at most one to each.                      *)
LEMMA OneMore ==
    ASSUME NEW type, NEW n \in Nat
    PROVE  LET upto(i) == Cardinality({k \in 1..i : Is(k, type)})
           IN  /\ upto(n) \in Nat
               /\ upto(0) = 0
               /\ Is(n + 1, type) => upto(n + 1) = upto(n) + 1
               /\ ~ Is(n + 1, type) => upto(n + 1) = upto(n)
<1> DEFINE S(i) == {k \in 1..i : Is(k, type)}
<1>1. S(0) = {}
    OBVIOUS
<1>2. S(n + 1) = IF Is(n + 1, type) THEN S(n) \cup {n + 1} ELSE S(n)
    OBVIOUS
<1>3. IsFiniteSet(S(n)) /\ n + 1 \notin S(n)
  <2>1. IsFiniteSet(1..n)
      BY FS_Interval
  <2> QED
      BY <2>1, FS_Subset
<1> HIDE DEF S
<1>4. Cardinality(S(n)) \in Nat /\ Cardinality(S(0)) = 0
    BY <1>1, <1>3, FS_CardinalityType, FS_EmptySet
<1>5. Cardinality(S(n) \cup {n + 1}) = Cardinality(S(n)) + 1
    BY <1>3, FS_AddElement
<1> QED
    BY <1>2, <1>4, <1>5 DEF S

(* One more function opens a pair, closes one or does neither.             *)
LEMMA NestingStep ==
    ASSUME NEW n \in Nat
    PROVE  /\ Opened(n) \in Nat /\ Closed(n) \in Nat
           /\ Opened(0) = 0 /\ Closed(0) = 0
           /\ Is(n + 1, "SETUP") =>
                 Opened(n + 1) = Opened(n) + 1 /\ Closed(n + 1) = Closed(n)
           /\ Is(n + 1, "TEARDOWN") =>
                 Opened(n + 1) = Opened(n) /\ Closed(n + 1) = Closed(n) + 1
           /\ ~ Is(n + 1, "SETUP") /\ ~ Is(n + 1, "TEARDOWN") =>
                 Opened(n + 1) = Opened(n) /\ Closed(n + 1) = Closed(n)
  BY OneMore DEF Opened, Closed, Is

(* Nothing changes the array, nor what is counted in it.                   *)
LEMMA SameSuite ==
    ASSUME tests' = tests
    PROVE  /\ N' = N
           /\ \A i, type : Is(i, type)' <=> Is(i, type)
           /\ \A i : /\ Opened(i)' = Opened(i) /\ Closed(i)' = Closed(i)
                     /\ Broken(i)' <=> Broken(i)
  BY DEF N, Is, Opened, Closed, Broken

-----------------------------------------------------------------------------
(* A setup that failed, with no test or setup after it up to n.            *)
FailedOpen(n) ==
    \E s \in 1..n :
        /\ Is(s, "SETUP")
        /\ verdict[s] = "failed"
        /\ \A k \in (s + 1)..n : ~ Is(k, "TEST") /\ ~ Is(k, "SETUP")

(* What run_next_test stands for, and what it made the loop pass over.     *)
SkipInv ==
    /\ process = "running" /\ main_pc = "next" =>
          (run_next_test = 0 <=> FailedOpen(current_test))
    /\ main_pc \in {"spawn", "join"} =>
          /\ run_next_test = 1
          /\ Test.function_type = "TEARDOWN" => ~ FailedOpen(current_test - 1)
    /\ thread_pc = "done" => verdict[current_test] # "none"
    /\ process \in {"running", "returned"} =>
          \A i \in 1..Handled :
              verdict[i] = "none" <=> ~ tests[i].function \/ SkippedAfterFailedSetup(i)

(* The loop's counters against the array.                                  *)
NestingInv ==
    /\ setups = Opened(current_test)
    /\ ended_by # "_run_tests" =>
          /\ teardowns = Closed(current_test)
          /\ \A i \in 1..current_test : ~ Broken(i)
    /\ ended_by = "_run_tests" => Broken(current_test)
    /\ process \in {"running", "returned"} => ended_by # "_run_tests"

(* What is in slot j of test_states when its setup has been run and, of    *)
(* the functions up to n, none has closed it: that setup's check point,    *)
(* and a state assigned since.                                             *)
SlotHolds(j, n) ==
    LET s == test_states[j].check_point
    IN  /\ s \in 1..n
        /\ Is(s, "SETUP")
        /\ Depth(s) = j
        /\ \A k \in s..n : Depth(k) >= j
        /\ test_states[j].state \in {NullState} \cup s..current_test

StackInv ==
    process = "running" =>
        /\ \A j \in 1..number_of_test_states : SlotHolds(j, current_test)
        /\ main_pc \in {"spawn", "join"} /\ Test.function_type = "TEARDOWN" =>
              /\ current_state = number_of_test_states + 1
              /\ test_check_point = test_states[current_state].check_point
              /\ SlotHolds(current_state, current_test - 1)

(* A thread at its start is that of a run in progress.                     *)
PathInv ==
    /\ SkipInv /\ NestingInv /\ StackInv
    /\ thread_pc = "start" => process = "running"

(* What a step of the thread may do to what these invariants speak of.     *)
LEMMA ThreadMoves ==
    ASSUME IInv, PathInv, _run_test
    PROVE  /\ process = "running" /\ main_pc = "join" /\ current_test \in 1..N
           /\ thread_pc # "done" /\ thread_pc' # "start"
           /\ process' # "returned" /\ ended_by' # "_run_tests"
           /\ UNCHANGED <<tests, main_pc, suite_vars>>
           /\ \/ thread_pc' # "done" /\ verdict' = verdict
              \/ /\ thread_pc' = "done"
                 /\ \E v \in {"passed", "failed"} :
                       verdict' = [verdict EXCEPT ![current_test] = v]
           /\ \/ test_states' = test_states
              \/ /\ current_state # 0
                 /\ test_states' = [test_states EXCEPT ![current_state].state =
                                       current_test]
<1> USE DEF ThreadAt
<1>1. /\ process = "running" /\ thread_pc \in Working
      /\ UNCHANGED <<tests, main_pc, suite_vars>>
      /\ process' # "returned"
    BY DEF _run_test, StartTest, Body, BodyReturns, BodyThrows, BodyFails,
       BodyFaults, BodyCatchesFault, CheckLeftovers, NothingLeaked, BlocksLeaked,
       CheckPointFreed, CatchStd, CatchAny, Teardown, Fault, exit_test, End,
       ThreadKeeps, Working
<1>2. main_pc = "join" /\ current_test \in 1..N /\ thread_pc # "done"
    BY <1>1, SuiteIsFinite DEF IInv, TypeOK, ControlInv, Working
<1>3. ended_by # "_run_tests"
    BY <1>1 DEF PathInv, NestingInv
<1>4. thread_pc' # "start" /\ ended_by' # "_run_tests"
    BY <1>1, <1>3 DEF _run_test, StartTest, Body, BodyReturns, BodyThrows, BodyFails,
       BodyFaults, BodyCatchesFault, CheckLeftovers, NothingLeaked, BlocksLeaked,
       CheckPointFreed, CatchStd, CatchAny, Teardown, Fault, exit_test, End
<1>5. CASE Teardown
  <2>1. test_states' = test_states
      BY <1>5 DEF Teardown
  <2>2. \/ thread_pc' # "done" /\ verdict' = verdict
        \/ /\ thread_pc' = "done"
           /\ \E v \in {"passed", "failed"} :
                 verdict' = [verdict EXCEPT ![current_test] = v]
      BY <1>5 DEF Teardown, Fault, End
  <2> QED
      BY <1>1, <1>2, <1>4, <2>1, <2>2
<1>6. CASE ~ Teardown
  <2>1. thread_pc' # "done" /\ verdict' = verdict
      BY <1>1, <1>6 DEF _run_test, StartTest, Body, BodyReturns, BodyThrows, BodyFails,
         BodyFaults, BodyCatchesFault, CheckLeftovers, NothingLeaked, BlocksLeaked,
         CheckPointFreed, CatchStd, CatchAny, Fault, exit_test, End, ThreadKeeps,
         Working
  <2>2. \/ test_states' = test_states
        \/ /\ current_state # 0
           /\ test_states' = [test_states EXCEPT ![current_state].state = current_test]
      BY <1>6 DEF _run_test, StartTest, Body, BodyReturns, BodyThrows, BodyFails,
         BodyFaults, BodyCatchesFault, CheckLeftovers, NothingLeaked, BlocksLeaked,
         CheckPointFreed, CatchStd, CatchAny, BodyEffects
  <2> QED
      BY <1>1, <1>2, <1>4, <2>1, <2>2
<1> QED
    BY <1>5, <1>6

LEMMA ThreadPath ==
    ASSUME IInv, PathInv, _run_test
    PROVE  PathInv'
<1>0. /\ N \in Nat /\ N' = N /\ tests' = tests
      /\ \A i, type : Is(i, type)' <=> Is(i, type)
      /\ \A i : /\ Opened(i)' = Opened(i) /\ Closed(i)' = Closed(i)
                /\ Depth(i)' = Depth(i)
                /\ Broken(i)' <=> Broken(i)
    BY SuiteIsFinite, ThreadMoves, SameSuite DEF IInv, TypeOK, Depth
<1>1. /\ process = "running" /\ main_pc = "join" /\ main_pc' = "join"
      /\ current_test \in 1..N /\ current_test' = current_test
      /\ Test' = Test
      /\ Handled = current_test - 1 /\ Handled' = Handled
      /\ process' # "returned" /\ ended_by' # "_run_tests"
      /\ thread_pc # "done" /\ thread_pc' # "start"
      /\ UNCHANGED suite_vars
    BY <1>0, ThreadMoves DEF Handled, Test, suite_vars
<1>2. /\ thread_pc' = "done" => verdict'[current_test] # "none"
      /\ \A i \in 1..(current_test - 1) : verdict'[i] = verdict[i]
  <2>1. verdict \in [1..N -> {"none", "passed", "failed"}]
      BY DEF IInv, TypeOK
  <2> QED
      BY <1>0, <1>1, <2>1, ThreadMoves
<1>3. SkipInv'
  <2>1. \A n \in 0..(current_test - 1) : FailedOpen(n)' <=> FailedOpen(n)
    <3> SUFFICES ASSUME NEW n \in 0..(current_test - 1)
                 PROVE  FailedOpen(n)' <=> FailedOpen(n)
        OBVIOUS
    <3>1. \A s \in 1..n : verdict'[s] = verdict[s]
        BY <1>0, <1>1, <1>2
    <3> QED
        BY <1>0, <3>1 DEF FailedOpen
  <2>2. \A i \in 1..(current_test - 1) :
            SkippedAfterFailedSetup(i)' <=> SkippedAfterFailedSetup(i)
    <3> SUFFICES ASSUME NEW i \in 1..(current_test - 1)
                 PROVE  SkippedAfterFailedSetup(i)' <=> SkippedAfterFailedSetup(i)
        OBVIOUS
    <3>1. \A s \in 1..(i - 1) : verdict'[s] = verdict[s]
        BY <1>0, <1>1, <1>2
    <3> QED
        BY <1>0, <3>1 DEF SkippedAfterFailedSetup
  <2> QED
      BY <1>0, <1>1, <1>2, <2>1, <2>2 DEF PathInv, SkipInv, suite_vars
<1>4. NestingInv'
    BY <1>0, <1>1 DEF PathInv, NestingInv, suite_vars
<1>5. StackInv'
  <2>1. ASSUME NEW j \in 1..N
        PROVE  /\ test_states'[j].check_point = test_states[j].check_point
               /\ test_states'[j].state \in {test_states[j].state, current_test}
    <3>1. test_states \in [1..N -> [check_point : 0..N, state : 0..N]]
        BY DEF IInv, TypeOK, Slots
    <3>2. CASE test_states' = test_states
        BY <3>2
    <3>3. CASE test_states' =
                  [test_states EXCEPT ![current_state].state = current_test]
        BY <3>1, <3>3
    <3> QED
        BY <3>2, <3>3, ThreadMoves
  <2>2. ASSUME NEW j \in 1..N, NEW n \in 0..current_test, SlotHolds(j, n)
        PROVE  SlotHolds(j, n)'
    <3> DEFINE s == test_states[j].check_point
    <3>1. s \in 1..n /\ current_test \in s..current_test
        BY <1>1, <2>2 DEF SlotHolds
    <3> QED
        BY <1>0, <1>1, <2>1, <2>2, <3>1 DEF SlotHolds
  <2>3. /\ number_of_test_states' = number_of_test_states
        /\ current_state' = current_state
        /\ test_check_point' = test_check_point
      BY <1>1 DEF suite_vars
  <2>4. number_of_test_states \in 0..N /\ current_state \in 0..N
      BY DEF IInv, TypeOK
  <2>5. \A j \in 1..number_of_test_states : SlotHolds(j, current_test)
      BY <1>1 DEF PathInv, StackInv
  <2>6. \A j \in 1..number_of_test_states : SlotHolds(j, current_test)'
      BY <1>0, <1>1, <2>2, <2>4, <2>5
  <2>7. ASSUME Test.function_type = "TEARDOWN"
        PROVE  /\ current_state = number_of_test_states + 1
               /\ test_check_point' = test_states'[current_state].check_point
               /\ SlotHolds(current_state, current_test - 1)'
    <3>1. /\ current_state = number_of_test_states + 1
          /\ test_check_point = test_states[current_state].check_point
          /\ SlotHolds(current_state, current_test - 1)
        BY <1>1, <2>7 DEF PathInv, StackInv
    <3>2. current_state \in 1..N /\ current_test - 1 \in 0..current_test
        BY <1>0, <1>1, <2>4, <3>1
    <3> QED
        BY <1>1, <2>1, <2>2, <2>3, <3>1, <3>2
  <2> QED
      BY <1>1, <2>3, <2>6, <2>7 DEF StackInv, SlotHolds
<1> QED
    BY <1>1, <1>3, <1>4, <1>5 DEF PathInv

(* The head of the loop: what it knows of the unit test it comes to.       *)
LEMMA NextTest ==
    ASSUME IInv, PathInv, MainAt("next"), current_test < N,
           current_test' = current_test + 1, UNCHANGED <<tests, verdict>>
    PROVE  /\ N \in Nat /\ N' = N /\ current_test \in 0..N
           /\ Handled = current_test /\ thread_pc = "none"
           /\ tests[current_test + 1] \in UnitTest
           /\ verdict[current_test + 1] = "none"
           /\ \A i, type : Is(i, type)' <=> Is(i, type)
           /\ \A i : /\ Opened(i)' = Opened(i) /\ Closed(i)' = Closed(i)
                     /\ Depth(i)' = Depth(i) /\ Broken(i)' <=> Broken(i)
           /\ \A n : /\ FailedOpen(n)' <=> FailedOpen(n)
                     /\ SkippedAfterFailedSetup(n)' <=> SkippedAfterFailedSetup(n)
           /\ Opened(current_test) \in Nat /\ Closed(current_test) \in Nat
           /\ setups = Opened(current_test) /\ teardowns = Closed(current_test)
           /\ number_of_test_states = Depth(current_test)
           /\ number_of_test_states \in 0..N
           /\ run_next_test \in {0, 1}
           /\ run_next_test = 0 <=> FailedOpen(current_test)
           /\ \A i \in 1..current_test : ~ Broken(i)
           /\ \A j \in 1..number_of_test_states : SlotHolds(j, current_test)
<1> USE DEF MainAt
<1>1. /\ N \in Nat /\ N' = N /\ current_test \in 0..N
      /\ Handled = current_test /\ thread_pc = "none"
      /\ tests[current_test + 1] \in UnitTest
    BY SuiteIsFinite, SameSuite DEF IInv, TypeOK, ControlInv, Handled
<1>2. verdict[current_test + 1] = "none"
    BY <1>1 DEF IInv, VerdictInv
<1>3. /\ \A i, type : Is(i, type)' <=> Is(i, type)
      /\ \A i : /\ Opened(i)' = Opened(i) /\ Closed(i)' = Closed(i)
                /\ Depth(i)' = Depth(i) /\ Broken(i)' <=> Broken(i)
    BY SameSuite DEF Depth
<1>4. \A n : /\ FailedOpen(n)' <=> FailedOpen(n)
             /\ SkippedAfterFailedSetup(n)' <=> SkippedAfterFailedSetup(n)
    BY <1>3 DEF FailedOpen, SkippedAfterFailedSetup
<1>5. Opened(current_test) \in Nat /\ Closed(current_test) \in Nat
    BY <1>1, NestingStep
<1>6. /\ setups = Opened(current_test) /\ teardowns = Closed(current_test)
      /\ \A i \in 1..current_test : ~ Broken(i)
    BY DEF PathInv, NestingInv
<1>7. number_of_test_states = Depth(current_test) /\ number_of_test_states \in 0..N
    BY <1>6 DEF IInv, TypeOK, CountInv, Depth
<1>8. /\ run_next_test \in {0, 1}
      /\ run_next_test = 0 <=> FailedOpen(current_test)
    BY DEF IInv, TypeOK, PathInv, SkipInv
<1>9. \A j \in 1..number_of_test_states : SlotHolds(j, current_test)
    BY DEF PathInv, StackInv
<1> QED
    BY <1>1, <1>2, <1>3, <1>4, <1>5, <1>6, <1>7, <1>8, <1>9

(* A slot goes on holding its setup's for a test that leaves the functions *)
(* as deeply nested as the slot or deeper.                                 *)
LEMMA SlotKept ==
    ASSUME IInv, PathInv, MainAt("next"), current_test < N,
           current_test' = current_test + 1, UNCHANGED <<tests, verdict>>,
           NEW j \in 1..number_of_test_states, test_states'[j] = test_states[j]
    PROVE  /\ Depth(current_test + 1) >= j => SlotHolds(j, current_test)'
           /\ SlotHolds(j, current_test - 1)'
<1>1. SlotHolds(j, current_test) /\ current_test \in Nat
    BY NextTest
<1> DEFINE s == test_states[j].check_point
<1>2. /\ s \in 1..current_test /\ Is(s, "SETUP") /\ Depth(s) = j
      /\ \A k \in s..current_test : Depth(k) >= j
      /\ test_states[j].state \in {NullState} \cup s..current_test
    BY <1>1 DEF SlotHolds
<1>3. /\ \A i, type : Is(i, type)' <=> Is(i, type)
      /\ \A i : Depth(i)' = Depth(i)
    BY SameSuite DEF Depth
<1>4. test_states'[j].state \in {NullState} \cup s..current_test'
    BY <1>1, <1>2
<1>5. current_test' - 1 = current_test
    BY <1>1
<1>6. Depth(current_test + 1) >= j => \A k \in s..(current_test + 1) : Depth(k) >= j
    BY <1>1, <1>2
<1>7. s \in 1..(current_test + 1)
    BY <1>1, <1>2
<1> HIDE DEF s
<1>8. SlotHolds(j, current_test - 1)'
    BY <1>2, <1>3, <1>4, <1>5 DEF SlotHolds, s
<1>9. Depth(current_test + 1) >= j => SlotHolds(j, current_test)'
    BY <1>2, <1>3, <1>4, <1>6, <1>7 DEF SlotHolds, s
<1> QED
    BY <1>8, <1>9

(* The account of what ran, when the loop passes over one unit test more.  *)
LEMMA PassedOver ==
    ASSUME IInv, PathInv, MainAt("next"), current_test < N,
           current_test' = current_test + 1,
           UNCHANGED <<tests, verdict, process, main_pc, thread_pc, run_next_test>>,
           \/ ~ tests[current_test + 1].function
           \/ Is(current_test + 1, "TEARDOWN") /\ run_next_test = 0
    PROVE  SkipInv'
<1> USE NextTest DEF MainAt
<1> PICK n \in Nat : n = current_test + 1
    OBVIOUS
<1>1. Handled' = n /\ main_pc' = "next" /\ thread_pc' = "none"
    BY DEF Handled
<1>2. ~ Is(n, "TEST") /\ ~ Is(n, "SETUP")
    BY DEF Is
<1>3. FailedOpen(n) <=> FailedOpen(current_test)
  <2>1. ASSUME FailedOpen(n) PROVE FailedOpen(current_test)
    <3>1. PICK s \in 1..n : /\ Is(s, "SETUP") /\ verdict[s] = "failed"
                            /\ \A k \in (s + 1)..n : ~ Is(k, "TEST") /\ ~ Is(k, "SETUP")
        BY <2>1 DEF FailedOpen
    <3>2. s \in 1..current_test
        BY <1>2, <3>1
    <3> QED
        BY <3>1, <3>2 DEF FailedOpen
  <2>2. ASSUME FailedOpen(current_test) PROVE FailedOpen(n)
    <3>1. PICK s \in 1..current_test :
              /\ Is(s, "SETUP") /\ verdict[s] = "failed"
              /\ \A k \in (s + 1)..current_test : ~ Is(k, "TEST") /\ ~ Is(k, "SETUP")
        BY <2>2 DEF FailedOpen
    <3>2. s \in 1..n
        OBVIOUS
    <3>3. \A k \in (s + 1)..n : ~ Is(k, "TEST") /\ ~ Is(k, "SETUP")
        BY <1>2, <3>1
    <3> QED
        BY <3>1, <3>2, <3>3 DEF FailedOpen
  <2> QED
      BY <2>1, <2>2
<1>4. \A i \in 1..n :
          verdict[i] = "none" <=> ~ tests[i].function \/ SkippedAfterFailedSetup(i)
  <2>1. \A i \in 1..current_test :
            verdict[i] = "none" <=> ~ tests[i].function \/ SkippedAfterFailedSetup(i)
      BY DEF PathInv, SkipInv
  <2>2. ~ tests[n].function \/ SkippedAfterFailedSetup(n)
    <3> HIDE NextTest
    <3>1. CASE Is(n, "TEARDOWN") /\ run_next_test = 0
      <4>1. FailedOpen(current_test) /\ current_test = n - 1
          BY <3>1, NextTest
      <4> QED
          BY <3>1, <4>1 DEF FailedOpen, SkippedAfterFailedSetup
    <3> QED
        BY <3>1
  <2>3. verdict[n] = "none"
      OBVIOUS
  <2>4. \A i \in 1..n : i \in 1..current_test \/ i = n
      OBVIOUS
  <2> QED
      BY <2>1, <2>2, <2>3, <2>4
<1>5. /\ FailedOpen(n)' <=> FailedOpen(n)
      /\ \A i \in 1..n : SkippedAfterFailedSetup(i)' <=> SkippedAfterFailedSetup(i)
    OBVIOUS
<1>6. run_next_test' = 0 <=> FailedOpen(current_test)'
    BY <1>3, <1>5 DEF FailedOpen
<1>7. \A i \in 1..n : verdict'[i] = "none" <=>
          ~ tests'[i].function \/ SkippedAfterFailedSetup(i)'
    BY <1>4, <1>5
<1> QED
    BY <1>1, <1>6, <1>7 DEF SkipInv

(* And when it runs the next one: a setup or a test ends what a setup that *)
(* failed had passed over, and a teardown is run only after none did.      *)
LEMMA TakenUp ==
    ASSUME IInv, PathInv, MainAt("next"), current_test < N,
           current_test' = current_test + 1,
           UNCHANGED <<tests, verdict, process, thread_pc>>,
           main_pc' = "spawn", run_next_test' = 1,
           Is(current_test + 1, "TEARDOWN") => run_next_test = 1,
           tests[current_test + 1].function
    PROVE  SkipInv'
<1> USE DEF MainAt
<1> PICK n \in Nat : n = current_test + 1
    BY NextTest
<1>1. Handled' = current_test /\ Handled = current_test /\ thread_pc' = "none"
    BY NextTest DEF Handled
<1>2. \A i \in 1..current_test :
          verdict'[i] = "none" <=> ~ tests'[i].function \/ SkippedAfterFailedSetup(i)'
  <2>1. \A i \in 1..current_test :
            verdict[i] = "none" <=> ~ tests[i].function \/ SkippedAfterFailedSetup(i)
      BY <1>1 DEF PathInv, SkipInv
  <2> QED
      BY <2>1, NextTest
<1>3. Test'.function_type = "TEARDOWN" => ~ FailedOpen(current_test - 1)'
  <2>1. SUFFICES ASSUME tests[n].function_type = "TEARDOWN"
                 PROVE  ~ FailedOpen(current_test - 1)'
      BY DEF Test
  <2>2. ~ FailedOpen(current_test)
      BY <2>1, NextTest DEF Is
  <2>3. current_test' - 1 = current_test
      BY NextTest
  <2> QED
      BY <2>2, <2>3, NextTest DEF FailedOpen
<1> QED
    BY <1>1, <1>2, <1>3 DEF SkipInv

(* The slots, when neither they nor the loop's place changes.              *)
LEMMA StackKept ==
    ASSUME StackInv, process' = "running" => process = "running",
           main_pc' \in {"spawn", "join"} => main_pc \in {"spawn", "join"},
           UNCHANGED <<tests, test_states, number_of_test_states, current_state,
                       current_test, test_check_point>>
    PROVE  StackInv'
<1>1. /\ \A i, type : Is(i, type)' <=> Is(i, type)
      /\ \A i : Depth(i)' = Depth(i)
    BY SameSuite DEF Depth
<1>2. SlotHolds(current_state, current_test - 1)
          => SlotHolds(current_state, current_test - 1)'
    BY <1>1 DEF SlotHolds
<1>3. \A j : SlotHolds(j, current_test) => SlotHolds(j, current_test)'
    BY <1>1 DEF SlotHolds
<1> QED
    BY <1>2, <1>3 DEF StackInv, Test

(* The counters, when the loop goes on to the next unit test.              *)
LEMMA NestingGoesOn ==
    ASSUME IInv, PathInv, MainAt("next"), current_test < N,
           current_test' = current_test + 1, UNCHANGED <<tests, verdict, ended_by>>,
           ~ Is(current_test + 1, "TEST_EXPECT_FAILURE"),
           Depth(current_test + 1) >= 0,
           setups' = Opened(current_test + 1),
           teardowns' = Closed(current_test + 1)
    PROVE  NestingInv'
<1> PICK n \in Nat : n = current_test + 1
    BY NextTest
<1>1. Opened(n) \in Nat /\ Closed(n) \in Nat
    BY NestingStep
<1>2. \A i \in 1..n : ~ Broken(i)
  <2>1. ~ Broken(n)
      BY <1>1 DEF Broken, Depth
  <2> QED
      BY <2>1, NextTest
<1>3. \A i \in 1..n : ~ Broken(i)'
    BY <1>2, SameSuite
<1>4. ended_by' # "_run_tests"
    BY DEF PathInv, NestingInv, MainAt
<1>5. setups' = Opened(current_test)' /\ teardowns' = Closed(current_test)'
    BY NextTest DEF Opened, Closed, Is
<1> QED
    BY <1>3, <1>4, <1>5 DEF NestingInv

(* A step of the loop, Join aside, keeps the path invariant.               *)
LEMMA LoopPath ==
    ASSUME IInv, PathInv,
           \/ SkipNull \/ DispatchTest \/ DispatchSetup \/ DispatchTeardown
           \/ TeardownWithoutSetup \/ InvalidType \/ Spawn \/ Report
    PROVE  PathInv'
<1> USE DEF suite_vars, signal_vars, DispatchKeeps, MainAt
<1>1. CASE SkipNull
  <2>1. /\ process = "running" /\ main_pc = "next" /\ current_test < N
        /\ current_test' = current_test + 1
        /\ UNCHANGED <<tests, verdict, process, main_pc, thread_pc, run_next_test,
                       setups, teardowns, number_of_test_states, test_states,
                       ended_by>>
        /\ ~ tests[current_test + 1].function
      BY <1>1 DEF SkipNull, Skipped
  <2>2. SkipInv'
      BY <2>1, PassedOver
  <2>3. /\ Opened(current_test + 1) = Opened(current_test)
        /\ Closed(current_test + 1) = Closed(current_test)
        /\ Depth(current_test + 1) = number_of_test_states
      BY <2>1, NextTest, NestingStep DEF Is, Depth
  <2>4. NestingInv'
      BY <2>1, <2>3, NextTest, NestingGoesOn DEF Is
  <2>5. StackInv'
    <3>1. \A j \in 1..number_of_test_states : SlotHolds(j, current_test)'
        BY <2>1, <2>3, NextTest, SlotKept
    <3> QED
        BY <2>1, <3>1 DEF StackInv
  <2> QED
      BY <2>1, <2>2, <2>4, <2>5, NextTest DEF PathInv
<1>2. CASE DispatchTest
  <2>1. /\ process = "running" /\ main_pc = "next" /\ current_test < N
        /\ current_test' = current_test + 1
        /\ UNCHANGED <<tests, verdict, process, thread_pc, setups, teardowns,
                       number_of_test_states, test_states, ended_by>>
        /\ main_pc' = "spawn" /\ run_next_test' = 1
        /\ Is(current_test + 1, "TEST")
      BY <1>2 DEF DispatchTest, Take, Is
  <2>2. SkipInv'
      BY <2>1, TakenUp DEF Is
  <2>3. /\ Opened(current_test + 1) = Opened(current_test)
        /\ Closed(current_test + 1) = Closed(current_test)
        /\ Depth(current_test + 1) = number_of_test_states
      BY <2>1, NextTest, NestingStep DEF Is, Depth
  <2>4. NestingInv'
      BY <2>1, <2>3, NextTest, NestingGoesOn DEF Is
  <2>5. StackInv'
    <3>1. \A j \in 1..number_of_test_states : SlotHolds(j, current_test)'
        BY <2>1, <2>3, NextTest, SlotKept
    <3> QED
        BY <2>1, <3>1 DEF StackInv, Test, Is
  <2> QED
      BY <2>1, <2>2, <2>4, <2>5, NextTest DEF PathInv
<1>3. CASE DispatchSetup
  <2>1. /\ process = "running" /\ main_pc = "next" /\ current_test < N
        /\ current_test' = current_test + 1
        /\ UNCHANGED <<tests, verdict, process, thread_pc, teardowns, ended_by>>
        /\ main_pc' = "spawn" /\ run_next_test' = 1
        /\ Is(current_test + 1, "SETUP")
        /\ setups' = setups + 1
        /\ number_of_test_states' = number_of_test_states + 1
        /\ test_states' = [test_states EXCEPT ![number_of_test_states + 1] =
                              [check_point |-> current_test + 1, state |-> NullState]]
      BY <1>3 DEF DispatchSetup, Take, Is
  <2>2. SkipInv'
      BY <2>1, TakenUp DEF Is
  <2>3. /\ Opened(current_test + 1) = Opened(current_test) + 1
        /\ Closed(current_test + 1) = Closed(current_test)
        /\ Depth(current_test + 1) = number_of_test_states + 1
      BY <2>1, NextTest, NestingStep DEF Is, Depth
  <2>4. NestingInv'
      BY <2>1, <2>3, NextTest, NestingGoesOn DEF Is
  <2>5. StackInv'
    <3>1. /\ \A j \in 1..number_of_test_states : test_states'[j] = test_states[j]
          /\ test_states'[number_of_test_states + 1] =
                [check_point |-> current_test + 1, state |-> NullState]
      <4>1. test_states \in [1..N -> [check_point : 0..N, state : 0..N]]
          BY DEF IInv, TypeOK, Slots
      <4>2. number_of_test_states \in 0..current_test /\ current_test \in 0..N
          BY <2>1, NextTest DEF IInv, TypeOK, CountInv
      <4>3. number_of_test_states + 1 \in 1..N
          BY <2>1, <4>2, NextTest
      <4> QED
          BY <2>1, <4>1, <4>2, <4>3
    <3>2. \A j \in 1..number_of_test_states : SlotHolds(j, current_test)'
        BY <2>1, <2>3, <3>1, NextTest, SlotKept
    <3>3. PICK m \in Nat, n \in Nat : m = number_of_test_states + 1 /\ n = current_test + 1
        BY NextTest, <2>1
    <3>4. SlotHolds(m, n)'
      <4>1. /\ Depth(n) = m /\ Is(n, "SETUP")
            /\ Depth(n)' = m /\ Is(n, "SETUP")'
        <5>1. Depth(n) = m /\ Is(n, "SETUP")
            BY <2>1, <2>3, <3>3
        <5> QED
            BY <2>1, <5>1, SameSuite DEF Depth
      <4>2. test_states'[m] = [check_point |-> n, state |-> 0]
          BY <3>1, <3>3 DEF NullState
      <4>3. n \in 1..n /\ \A k \in n..n : k = n
          BY <3>3, <2>1, NextTest
      <4> QED
          BY <4>1, <4>2, <4>3 DEF SlotHolds, NullState
    <3>5. \A j \in 1..number_of_test_states' : SlotHolds(j, current_test)'
      <4>1. \A j \in 1..m : j \in 1..number_of_test_states \/ j = m
          BY <2>1, <3>3, NextTest
      <4>2. SlotHolds(m, current_test)'
          BY <2>1, <3>3, <3>4 DEF SlotHolds
      <4> QED
          BY <2>1, <3>2, <3>3, <4>1, <4>2
    <3> QED
        BY <2>1, <3>5 DEF StackInv, Test, Is
  <2> QED
      BY <2>1, <2>2, <2>4, <2>5, NextTest DEF PathInv
<1>4. CASE DispatchTeardown
  <2>1. /\ process = "running" /\ main_pc = "next" /\ current_test < N
        /\ current_test' = current_test + 1
        /\ UNCHANGED <<tests, verdict, process, thread_pc, run_next_test, setups,
                       test_states, ended_by>>
        /\ main_pc' = IF run_next_test = 1 THEN "spawn" ELSE "next"
        /\ Is(current_test + 1, "TEARDOWN")
        /\ number_of_test_states > 0
        /\ number_of_test_states' = number_of_test_states - 1
        /\ teardowns' = teardowns + 1
        /\ current_state' = number_of_test_states
        /\ test_check_point' = test_states[number_of_test_states].check_point
      BY <1>4 DEF DispatchTeardown, Take, Is, Pop, Top
  <2>2. SkipInv'
    <3>1. CASE run_next_test = 0
        BY <2>1, <3>1, PassedOver
    <3>2. CASE run_next_test = 1
        BY <2>1, <3>2, TakenUp DEF Is
    <3> QED
        BY <2>1, <3>1, <3>2, NextTest
  <2>3. /\ Opened(current_test + 1) = Opened(current_test)
        /\ Closed(current_test + 1) = Closed(current_test) + 1
        /\ Depth(current_test + 1) = number_of_test_states - 1
      BY <2>1, NextTest, NestingStep DEF Is, Depth
  <2>4. NestingInv'
      BY <2>1, <2>3, NextTest, NestingGoesOn DEF Is
  <2>5. StackInv'
    <3> PICK m \in Nat : m = number_of_test_states
        BY NextTest, <2>1
    <3>1. \A j \in 1..number_of_test_states' : SlotHolds(j, current_test)'
        BY <2>1, <2>3, NextTest, SlotKept
    <3>2. SlotHolds(m, current_test - 1)'
        BY <2>1, NextTest, SlotKept
    <3>3. SlotHolds(current_state, current_test - 1)'
        BY <2>1, <3>2 DEF SlotHolds
    <3> QED
        BY <2>1, <3>1, <3>3, NextTest DEF StackInv
  <2> QED
      BY <2>1, <2>2, <2>4, <2>5, NextTest DEF PathInv
<1>5. CASE TeardownWithoutSetup \/ InvalidType
  <2>1. /\ process = "running" /\ main_pc = "next" /\ current_test < N
        /\ current_test' = current_test + 1
        /\ UNCHANGED <<tests, verdict, thread_pc, main_pc, setups>>
        /\ process' \in {"aborted", "exited"} /\ ended_by' = "_run_tests"
        /\ \/ Is(current_test + 1, "TEST_EXPECT_FAILURE")
           \/ Is(current_test + 1, "TEARDOWN") /\ number_of_test_states = 0
      BY <1>5 DEF TeardownWithoutSetup, InvalidType, Take, Is, exit_test, End
  <2> PICK n \in Nat : n = current_test + 1
      BY <2>1, NextTest
  <2>2. Broken(n)
      BY <2>1, NextTest, NestingStep DEF Broken, Depth
  <2>3. Opened(n) = Opened(current_test)
      BY <2>1, NextTest, NestingStep DEF Is
  <2>4. NestingInv'
    <3>1. Broken(n)' /\ Opened(n)' = setups'
        BY <2>1, <2>2, <2>3, NextTest
    <3> QED
        BY <2>1, <3>1 DEF NestingInv, Broken, Opened
  <2> QED
      BY <2>1, <2>4, NextTest DEF PathInv, SkipInv, StackInv
<1>6. CASE Spawn \/ Report
  <2>1. /\ process = "running" /\ thread_pc' \in {"start", thread_pc}
        /\ UNCHANGED <<tests, verdict, suite_vars, test_states>>
        /\ \/ /\ main_pc = "spawn" /\ main_pc' = "join" /\ thread_pc' = "start"
              /\ UNCHANGED <<process, ended_by>>
           \/ /\ main_pc = "next" /\ current_test = N /\ UNCHANGED thread_pc
              /\ main_pc' = "reported" /\ process' = "returned" /\ ended_by' = "main"
      BY <1>6 DEF Spawn, Report, End
  <2>2. /\ Handled' = Handled /\ Test' = Test /\ thread_pc = "none"
        /\ thread_pc' = "start" => process' = "running"
      BY <2>1 DEF Handled, Test, IInv, ControlInv
  <2>3. /\ \A i, type : Is(i, type)' <=> Is(i, type)
        /\ \A i : /\ Opened(i)' = Opened(i) /\ Closed(i)' = Closed(i)
                  /\ Depth(i)' = Depth(i) /\ Broken(i)' <=> Broken(i)
      BY <2>1, SameSuite DEF Depth
  <2>4. SkipInv'
    <3>1. \A n : /\ FailedOpen(n)' <=> FailedOpen(n)
                 /\ SkippedAfterFailedSetup(n)' <=> SkippedAfterFailedSetup(n)
        BY <2>1, <2>3 DEF FailedOpen, SkippedAfterFailedSetup
    <3>2. FailedOpen(current_test - 1)' <=> FailedOpen(current_test - 1)
        BY <2>1, <2>3 DEF FailedOpen
    <3> QED
        BY <2>1, <2>2, <3>1, <3>2 DEF PathInv, SkipInv
  <2>5. NestingInv'
      BY <2>1, <2>3 DEF PathInv, NestingInv, Opened, Closed, Broken, Is
  <2>6. StackInv'
      BY <2>1, StackKept DEF PathInv
  <2> QED
      BY <2>1, <2>2, <2>4, <2>5, <2>6 DEF PathInv
<1> QED
    BY <1>1, <1>2, <1>3, <1>4, <1>5, <1>6

(* Join settles whether what follows a setup is run.                       *)
LEMMA JoinPath ==
    ASSUME IInv, PathInv, Join
    PROVE  PathInv'
<1> USE DEF MainAt, suite_vars, signal_vars
<1>1. /\ process = "running" /\ main_pc = "join" /\ main_pc' = "next"
      /\ thread_pc = "done" /\ thread_pc' = "none" /\ process' = "running"
      /\ UNCHANGED <<tests, verdict, current_test, setups, teardowns,
                     number_of_test_states, test_states, ended_by>>
    BY DEF Join
<1>2. /\ N \in Nat /\ current_test \in 1..N /\ failed \in {0, 1}
      /\ Handled = current_test - 1 /\ Handled' = current_test
      /\ Test.function
      /\ failed = 1 <=> verdict[current_test] = "failed"
      /\ verdict[current_test] # "none"
      /\ run_next_test = 1
      /\ Test.function_type = "TEARDOWN" => ~ FailedOpen(current_test - 1)
    BY <1>1, SuiteIsFinite DEF IInv, TypeOK, ControlInv, VerdictInv, PathInv, SkipInv,
       Handled
<1>3. /\ \A i, type : Is(i, type)' <=> Is(i, type)
      /\ \A i : /\ Opened(i)' = Opened(i) /\ Closed(i)' = Closed(i)
                /\ Depth(i)' = Depth(i) /\ Broken(i)' <=> Broken(i)
    BY <1>1, SameSuite DEF Depth
<1>4. PICK n \in 1..N : n = current_test
    BY <1>2
<1>5. /\ Is(n, Test.function_type)
      /\ Test.function_type \in {"TEST", "SETUP", "TEARDOWN"}
      /\ \A type : Is(n, type) => type = Test.function_type
    BY <1>1, <1>2, <1>4 DEF Is, Test, IInv, ControlInv
<1>6. run_next_test' = 0 <=> FailedOpen(n)
  <2>1. CASE Test.function_type = "TEST"
    <3>1. run_next_test' = 1
        BY <1>2, <2>1 DEF Join
    <3>2. ~ FailedOpen(n)
      <4>1. SUFFICES ASSUME NEW s \in 1..n, Is(s, "SETUP"),
                            \A k \in (s + 1)..n : ~ Is(k, "TEST")
                     PROVE  FALSE
          BY DEF FailedOpen
      <4>2. s # n /\ Is(n, "TEST")
          BY <1>5, <2>1, <4>1
      <4>3. n \in (s + 1)..n
          BY <4>2
      <4> QED
          BY <4>1, <4>2, <4>3
    <3> QED
        BY <3>1, <3>2
  <2>2. CASE Test.function_type = "SETUP"
    <3>1. run_next_test' = 0 <=> verdict[n] = "failed"
        BY <1>2, <1>4, <2>2 DEF Join, RunAfterSetup
    <3>2. ASSUME verdict[n] = "failed" PROVE FailedOpen(n)
      <4>1. n \in 1..n /\ (n + 1)..n = {}
          BY <1>2
      <4> QED
          BY <1>5, <2>2, <3>2, <4>1 DEF FailedOpen
    <3>3. ASSUME FailedOpen(n) PROVE verdict[n] = "failed"
      <4>1. PICK s \in 1..n : /\ verdict[s] = "failed"
                              /\ \A k \in (s + 1)..n : ~ Is(k, "SETUP")
          BY <3>3 DEF FailedOpen
      <4>2. Is(n, "SETUP")
          BY <1>5, <2>2
      <4>3. s = n
          BY <4>1, <4>2
      <4> QED
          BY <4>1, <4>3
    <3> QED
        BY <3>1, <3>2, <3>3
  <2>3. CASE Test.function_type = "TEARDOWN"
    <3>1. run_next_test' = 1
        BY <1>2, <2>3 DEF Join
    <3>2. ASSUME FailedOpen(n) PROVE FailedOpen(n - 1)
      <4>1. PICK s \in 1..n :
                /\ Is(s, "SETUP") /\ verdict[s] = "failed"
                /\ \A k \in (s + 1)..n : ~ Is(k, "TEST") /\ ~ Is(k, "SETUP")
          BY <3>2 DEF FailedOpen
      <4>2. s # n
          BY <1>5, <2>3, <4>1
      <4>3. s \in 1..(n - 1)
          BY <4>2
      <4> QED
          BY <4>1, <4>3 DEF FailedOpen
    <3> QED
        BY <1>2, <1>4, <2>3, <3>1, <3>2
  <2> QED
      BY <1>5, <2>1, <2>2, <2>3
<1>7. SkipInv'
  <2>1. /\ FailedOpen(n)' <=> FailedOpen(n)
        /\ \A i : SkippedAfterFailedSetup(i)' <=> SkippedAfterFailedSetup(i)
      BY <1>1, <1>3 DEF FailedOpen, SkippedAfterFailedSetup
  <2>2. run_next_test' = 0 <=> FailedOpen(current_test)'
      BY <1>1, <1>4, <1>6, <2>1
  <2>3. \A i \in 1..(n - 1) :
            verdict[i] = "none" <=> ~ tests[i].function \/ SkippedAfterFailedSetup(i)
      BY <1>1, <1>2, <1>4 DEF PathInv, SkipInv
  <2>4. verdict[n] # "none" /\ tests[n].function /\ ~ SkippedAfterFailedSetup(n)
      BY <1>2, <1>4, <1>5 DEF SkippedAfterFailedSetup, FailedOpen, Test
  <2>5. \A i \in 1..n : i \in 1..(n - 1) \/ i = n
      OBVIOUS
  <2>6. \A i \in 1..n : verdict'[i] = "none" <=>
            ~ tests'[i].function \/ SkippedAfterFailedSetup(i)'
      BY <1>1, <2>1, <2>3, <2>4, <2>5
  <2> QED
      BY <1>1, <1>2, <1>4, <2>2, <2>6 DEF SkipInv
<1>8. NestingInv'
    BY <1>1, <1>3 DEF PathInv, NestingInv, Opened, Closed, Broken, Is
<1>9. StackInv'
    BY <1>1, StackKept DEF PathInv, Join
<1> QED
    BY <1>1, <1>7, <1>8, <1>9 DEF PathInv

(* The path invariant holds at first and is kept by every step.            *)
LEMMA InitPath == Init => PathInv
<1> SUFFICES ASSUME Init PROVE PathInv
    OBVIOUS
<1> USE DEF Init
<1>1. SkipInv
    BY SuiteIsFinite DEF SkipInv, FailedOpen, Handled
<1>2. NestingInv
    BY NestingStep DEF NestingInv
<1>3. StackInv
    BY DEF StackInv
<1> QED
    BY <1>1, <1>2, <1>3 DEF PathInv

LEMMA StepPath == IInv /\ PathInv /\ [Next]_vars => PathInv'
<1> SUFFICES ASSUME IInv, PathInv, [Next]_vars PROVE PathInv'
    OBVIOUS
<1>1. CASE _run_tests
    BY <1>1, LoopPath, JoinPath DEF _run_tests
<1>2. CASE _run_test
    BY <1>2, ThreadPath
<1>3. CASE UNCHANGED vars
  <2> USE <1>3 DEF vars, suite_vars
  <2>1. SkipInv'
      BY DEF PathInv, SkipInv, FailedOpen, SkippedAfterFailedSetup, Is, Handled, Test
  <2>2. NestingInv'
      BY DEF PathInv, NestingInv, Opened, Closed, Broken, Is
  <2>3. StackInv'
      BY StackKept DEF PathInv
  <2> QED
      BY <2>1, <2>2, <2>3 DEF PathInv
<1> QED
    BY <1>1, <1>2, <1>3 DEF Next, Ended

(* And what they say of the functions skipped, of the nesting of pairs and *)
(* of the stack of states.                                                 *)
THEOREM PathInvariance == Spec => []PathInv
  BY InitPath, StepPath, Invariance, PTL DEF Spec

(* In a run that reaches its summary, whatever failed in it, the functions *)
(* that did not run are the NULL ones and the teardowns left to a setup    *)
(* that failed; no test and no other setup is ever passed over.            *)
THEOREM SkipsAreExact == Spec => []SkipsExactly
<1>1. IInv /\ PathInv => SkipsExactly
    BY DEF IInv, ControlInv, PathInv, SkipInv, SkipsExactly, Handled
<1> QED
    BY <1>1, Invariance, PathInvariance, PTL

(* main's own thread ends the program for a teardown without a setup, or   *)
(* for a type that is none, and a summary is given only for suites that    *)
(* have neither, of whatever length.                                       *)
THEOREM AbortsAreExact == Spec => []AbortsExactly
<1>1. IInv /\ PathInv => AbortsExactly
    BY DEF IInv, ControlInv, PathInv, NestingInv, AbortsExactly
<1> QED
    BY <1>1, Invariance, PathInvariance, PTL

(* However deeply setups and teardowns nest, and whatever is skipped,      *)
(* fails or is NULL between them, a teardown is compared with the heap     *)
(* found by the setup it pairs with among the functions that are there,    *)
(* and handed the state of that pair, not of one inside or around it.      *)
THEOREM TeardownsSeeTheirSetups == Spec => []TeardownSeesItsSetup
<1>1. IInv /\ PathInv => TeardownSeesItsSetup
  <2> SUFFICES ASSUME IInv, PathInv, thread_pc = "start", Is(current_test, "TEARDOWN")
               PROVE  \E s \in 1..current_test :
                          /\ PairOf(s, current_test)
                          /\ test_check_point = s
                          /\ test_states[current_state].state \in
                                {NullState} \cup s..current_test
      BY DEF TeardownSeesItsSetup
  <2>1. /\ process = "running" /\ main_pc = "join"
        /\ N \in Nat /\ current_test \in 1..N
        /\ current_state = number_of_test_states + 1
        /\ test_check_point = test_states[current_state].check_point
        /\ SlotHolds(current_state, current_test - 1)
        /\ number_of_test_states \in Nat
      BY SuiteIsFinite DEF PathInv, IInv, TypeOK, ControlInv, StackInv, Is, Test
  <2> DEFINE s == test_check_point
             t == current_test
  <2>2. /\ s \in 1..(t - 1)
        /\ Is(s, "SETUP")
        /\ Depth(s) = current_state
        /\ \A k \in s..(t - 1) : Depth(k) >= current_state
        /\ test_states[current_state].state \in {NullState} \cup s..t
      BY <2>1 DEF SlotHolds
  <2>3. Depth(t) = current_state - 1
      BY <2>1 DEF PathInv, NestingInv, IInv, CountInv, Depth
  <2>4. PairOf(s, t)
    <3>1. s < t /\ s..(t - 1) \subseteq 1..N
        BY <2>1, <2>2
    <3>2. Depth(t) = Depth(s) - 1 /\ \A k \in s..(t - 1) : Depth(k) >= Depth(s)
        BY <2>1, <2>2, <2>3, <3>1
    <3> QED
        BY <2>2, <3>1, <3>2 DEF PairOf
  <2>5. s \in 1..t
      BY <2>1, <2>2
  <2> QED
      BY <2>2, <2>4, <2>5
<1> QED
    BY <1>1, Invariance, PathInvariance, PTL

-----------------------------------------------------------------------------
(* The exit status counts failures exactly.                                *)

(* What total_failed and previous_test_failed stand for, between any two   *)
(* functions of the array.                                                 *)
CountedTo(n) == Counted \cap 1..n
CountedInv ==
    /\ total_failed = Cardinality(CountedTo(Handled))
    /\ previous_test_failed = 1 <=> AfterFailedTest(Handled + 1)

(* One more function: a test decides whether its failure hides those of    *)
(* the teardowns after it, a setup ends that, nothing else changes it.     *)
LEMMA AfterStep ==
    ASSUME NEW n \in Nat \ {0}
    PROVE  /\ Is(n, "TEST") => (AfterFailedTest(n + 1) <=> verdict[n] = "failed")
           /\ Is(n, "SETUP") => ~ AfterFailedTest(n + 1)
           /\ ~ Is(n, "TEST") /\ ~ Is(n, "SETUP") =>
                 (AfterFailedTest(n + 1) <=> AfterFailedTest(n))
<1> DEFINE Hides(j, m) == /\ Is(j, "TEST")
                          /\ verdict[j] = "failed"
                          /\ \A k \in (j + 1)..m : ~ Is(k, "TEST") /\ ~ Is(k, "SETUP")
<1>1. /\ AfterFailedTest(n + 1) <=> \E j \in 1..n : Hides(j, n)
      /\ AfterFailedTest(n) <=> \E j \in 1..(n - 1) : Hides(j, n - 1)
    BY DEF AfterFailedTest
<1>2. Hides(n, n) <=> Is(n, "TEST") /\ verdict[n] = "failed"
    OBVIOUS
<1>3. ASSUME NEW j \in 1..(n - 1)
      PROVE  Hides(j, n) <=> /\ Hides(j, n - 1)
                             /\ ~ Is(n, "TEST") /\ ~ Is(n, "SETUP")
  <2>1. (j + 1)..n = (j + 1)..(n - 1) \cup {n}
      OBVIOUS
  <2> QED
      BY <2>1
<1>4. 1..n = 1..(n - 1) \cup {n}
    OBVIOUS
<1>5. Is(n, "SETUP") => ~ Is(n, "TEST")
    BY DEF Is
<1> HIDE DEF Hides
<1> QED
    BY <1>1, <1>2, <1>3, <1>4, <1>5

(* The failures counted up to n are a finite set, and one more function    *)
(* adds itself to it or nothing.                                           *)
LEMMA CountedStep ==
    ASSUME NEW n \in Nat \ {0}
    PROVE  /\ Cardinality(CountedTo(n - 1)) \in Nat
           /\ CountedTo(0) = {} /\ Cardinality(CountedTo(0)) = 0
           /\ n \in Counted =>
                 Cardinality(CountedTo(n)) = Cardinality(CountedTo(n - 1)) + 1
           /\ n \notin Counted => CountedTo(n) = CountedTo(n - 1)
<1>1. /\ CountedTo(0) = {}
      /\ n \in Counted => CountedTo(n) = CountedTo(n - 1) \cup {n}
      /\ n \notin Counted => CountedTo(n) = CountedTo(n - 1)
      /\ n \notin CountedTo(n - 1)
    BY DEF CountedTo
<1>2. IsFiniteSet(CountedTo(n - 1))
  <2>1. IsFiniteSet(1..(n - 1))
      BY FS_Interval
  <2> QED
      BY <2>1, FS_Subset DEF CountedTo
<1>3. Cardinality(CountedTo(n - 1) \cup {n}) = Cardinality(CountedTo(n - 1)) + 1
    BY <1>1, <1>2, FS_AddElement
<1> QED
    BY <1>1, <1>2, <1>3, FS_CardinalityType, FS_EmptySet

(* Verdicts up to n decide what is counted up to n, and what is hidden     *)
(* from the next.                                                          *)
LEMMA CountedSame ==
    ASSUME tests' = tests, NEW n \in 0..N, N \in Nat,
           \A i \in 1..n : verdict'[i] = verdict[i]
    PROVE  /\ CountedTo(n)' = CountedTo(n)
           /\ AfterFailedTest(n + 1)' <=> AfterFailedTest(n + 1)
<1>1. ASSUME NEW m \in 1..(n + 1)
      PROVE  AfterFailedTest(m)' <=> AfterFailedTest(m)
  <2>1. \A j \in 1..(m - 1) : verdict'[j] = verdict[j]
      OBVIOUS
  <2> QED
      BY <2>1, SameSuite DEF AfterFailedTest
<1>2. \A i \in 1..n : i \in Counted' <=> i \in Counted
  <2> SUFFICES ASSUME NEW i \in 1..n PROVE i \in Counted' <=> i \in Counted
      OBVIOUS
  <2>1. i \in 1..N /\ N' = N /\ (Is(i, "TEARDOWN")' <=> Is(i, "TEARDOWN"))
      BY SameSuite
  <2>2. AfterFailedTest(i)' <=> AfterFailedTest(i)
      BY <1>1
  <2> QED
      BY <2>1, <2>2 DEF Counted, Failures
<1> QED
    BY <1>1, <1>2 DEF CountedTo

(* Steps that leave the counts alone keep the invariant when no function   *)
(* is done with, or one that did not run and is no test and no setup.      *)
LEMMA CountsKept ==
    ASSUME IInv, CountedInv,
           UNCHANGED <<tests, total_failed, previous_test_failed>>,
           Handled' = Handled,
           \A i \in 1..Handled : verdict'[i] = verdict[i]
    PROVE  CountedInv'
<1>1. Handled \in 0..N /\ N \in Nat
    BY SuiteIsFinite DEF IInv, TypeOK, ControlInv, Handled
<1> PICK n \in 0..N : n = Handled
    BY <1>1
<1>2. CountedTo(n)' = CountedTo(n) /\ (AfterFailedTest(n + 1)' <=> AfterFailedTest(n + 1))
    BY <1>1, CountedSame
<1>3. /\ CountedTo(Handled)' = CountedTo(n)
      /\ AfterFailedTest(Handled + 1)' <=> AfterFailedTest(n + 1)
    BY <1>2 DEF CountedTo, AfterFailedTest
<1> QED
    BY <1>3 DEF CountedInv

LEMMA PassedUncounted ==
    ASSUME IInv, CountedInv,
           UNCHANGED <<tests, total_failed, previous_test_failed, verdict>>,
           Handled < N, Handled' = Handled + 1, verdict[Handled + 1] = "none",
           ~ Is(Handled + 1, "TEST"), ~ Is(Handled + 1, "SETUP")
    PROVE  CountedInv'
<1>1. Handled \in 0..N /\ N \in Nat
    BY SuiteIsFinite DEF IInv, TypeOK, ControlInv, Handled
<1> PICK n \in 1..N : n = Handled + 1
    BY <1>1
<1>2. n \notin Counted
    BY DEF Counted, Failures
<1>3. /\ CountedTo(n) = CountedTo(Handled)
      /\ AfterFailedTest(n + 1) <=> AfterFailedTest(Handled + 1)
    BY <1>1, <1>2, CountedStep, AfterStep
<1>4. CountedTo(n)' = CountedTo(n) /\ (AfterFailedTest(n + 1)' <=> AfterFailedTest(n + 1))
    BY <1>1, CountedSame
<1>5. /\ CountedTo(Handled)' = CountedTo(n)
      /\ AfterFailedTest(Handled + 1)' <=> AfterFailedTest(n + 1)
    BY <1>4 DEF CountedTo, AfterFailedTest
<1> QED
    BY <1>3, <1>5 DEF CountedInv

(* Join counts the function it has waited for, or does not.                *)
LEMMA JoinCounts ==
    ASSUME IInv, CountedInv, Join
    PROVE  CountedInv'
<1>1. /\ UNCHANGED <<tests, verdict>>
      /\ main_pc = "join" /\ main_pc' = "next" /\ thread_pc = "done"
      /\ current_test' = current_test
    BY DEF Join, MainAt
<1>2. /\ N \in Nat /\ current_test \in 1..N
      /\ Handled = current_test - 1 /\ Handled' = current_test
      /\ failed \in {0, 1} /\ previous_test_failed \in {0, 1}
      /\ failed = 1 <=> verdict[current_test] = "failed"
      /\ Test.function
    BY <1>1, SuiteIsFinite DEF IInv, TypeOK, ControlInv, VerdictInv, Handled
<1> PICK n \in 1..N : n = current_test
    BY <1>2
<1>3. /\ CountedTo(Handled)' = CountedTo(n)
      /\ AfterFailedTest(Handled + 1)' <=> AfterFailedTest(n + 1)
  <2>1. CountedTo(n)' = CountedTo(n) /\ (AfterFailedTest(n + 1)' <=> AfterFailedTest(n + 1))
      BY <1>1, <1>2, CountedSame
  <2> QED
      BY <1>2, <2>1 DEF CountedTo, AfterFailedTest
<1>4. /\ total_failed = Cardinality(CountedTo(n - 1))
      /\ previous_test_failed = 1 <=> AfterFailedTest(n)
    BY <1>2 DEF CountedInv
<1>5. n \in Counted <=> failed = 1 /\ (Is(n, "TEARDOWN") => ~ AfterFailedTest(n))
    BY <1>2 DEF Counted, Failures
<1>6. Test.function_type = "TEST" \/ Test.function_type = "SETUP"
         \/ Test.function_type = "TEARDOWN"
    BY DEF Join
<1>7. \A type : Is(n, type) <=> type = Test.function_type
    BY <1>2 DEF Is, Test
<1>8. total_failed' = IF n \in Counted THEN total_failed + 1 ELSE total_failed
  <2>1. CASE Test.function_type = "TEST"
      BY <1>2, <1>4, <1>5, <1>7, <2>1, CountedStep DEF Join
  <2>2. CASE Test.function_type = "SETUP"
      BY <1>2, <1>4, <1>5, <1>7, <2>2, CountedStep DEF Join
  <2>3. CASE Test.function_type = "TEARDOWN"
      BY <1>2, <1>4, <1>5, <1>7, <2>3 DEF Join, TeardownCounts
  <2> QED
      BY <1>6, <2>1, <2>2, <2>3
<1>9. previous_test_failed' = 1 <=> AfterFailedTest(n + 1)
  <2>1. CASE Test.function_type = "TEST"
      BY <1>2, <1>7, <2>1, AfterStep DEF Join
  <2>2. CASE Test.function_type = "SETUP"
      BY <1>7, <2>2, AfterStep DEF Join
  <2>3. CASE Test.function_type = "TEARDOWN"
      BY <1>4, <1>7, <2>3, AfterStep DEF Join
  <2> QED
      BY <1>6, <2>1, <2>2, <2>3
<1> QED
    BY <1>3, <1>4, <1>8, <1>9, CountedStep DEF CountedInv

(* Every step keeps the counts what they stand for.                        *)
LEMMA StepCounts == IInv /\ PathInv /\ CountedInv /\ [Next]_vars => CountedInv'
<1> SUFFICES ASSUME IInv, PathInv, CountedInv, [Next]_vars PROVE CountedInv'
    OBVIOUS
<1> USE DEF suite_vars, MainAt
<1>1. CASE Join
    BY <1>1, JoinCounts
<1>2. CASE _run_test
  <2>1. /\ main_pc = "join" /\ current_test \in 1..N
        /\ UNCHANGED <<tests, main_pc, current_test, total_failed, previous_test_failed>>
        /\ \/ verdict' = verdict
           \/ \E v \in {"passed", "failed"} :
                 verdict' = [verdict EXCEPT ![current_test] = v]
      BY <1>2, ThreadMoves
  <2>2. Handled = current_test - 1 /\ Handled' = Handled
      BY <2>1 DEF Handled
  <2>3. N \in Nat /\ verdict \in [1..N -> {"none", "passed", "failed"}]
      BY SuiteIsFinite DEF IInv, TypeOK
  <2>4. \A i \in 1..Handled : verdict'[i] = verdict[i]
      BY <2>1, <2>2, <2>3
  <2> QED
      BY <2>1, <2>2, <2>4, CountsKept
<1>3. CASE \/ SkipNull \/ TeardownWithoutSetup \/ InvalidType
           \/ DispatchTeardown /\ run_next_test = 0
  <2>1. /\ process = "running" /\ main_pc = "next" /\ main_pc' = "next"
        /\ current_test < N /\ current_test' = current_test + 1
        /\ UNCHANGED <<tests, verdict, total_failed, previous_test_failed>>
      BY <1>3 DEF SkipNull, Skipped, TeardownWithoutSetup, InvalidType,
         DispatchTeardown, Take, DispatchKeeps
  <2>2. ~ Is(current_test + 1, "TEST") /\ ~ Is(current_test + 1, "SETUP")
      BY <1>3 DEF SkipNull, TeardownWithoutSetup, InvalidType, DispatchTeardown,
         Take, Is
  <2>3. Handled = current_test /\ Handled' = current_test + 1
      BY <2>1 DEF Handled
  <2> QED
      BY <2>1, <2>2, <2>3, NextTest, PassedUncounted
<1>4. CASE \/ DispatchTest \/ DispatchSetup \/ Spawn \/ Report
           \/ DispatchTeardown /\ run_next_test = 1
  <2>1. /\ UNCHANGED <<tests, verdict, total_failed, previous_test_failed>>
        /\ current_test \in 0..N
        /\ \/ /\ main_pc = "next" /\ main_pc' = "spawn"
              /\ current_test' = current_test + 1
           \/ /\ current_test' = current_test
              /\ \/ main_pc = "spawn" /\ main_pc' = "join"
                 \/ main_pc = "next" /\ main_pc' = "reported"
      BY <1>4 DEF DispatchTest, DispatchSetup, DispatchTeardown, Take, Spawn, Report,
         DispatchKeeps, IInv, TypeOK
  <2>2. N \in Nat
      BY SuiteIsFinite DEF IInv, TypeOK
  <2>3. Handled' = Handled
      BY <2>1, <2>2 DEF Handled
  <2> QED
      BY <2>1, <2>3, CountsKept
<1>5. CASE UNCHANGED vars
    BY <1>5, CountsKept DEF vars, Handled
<1>6. run_next_test = 0 \/ run_next_test = 1
    BY DEF IInv, TypeOK
<1>7. CASE DispatchTeardown
  <2>1. CASE run_next_test = 0
      BY <1>3, <1>7, <2>1
  <2>2. CASE run_next_test = 1
      BY <1>4, <1>7, <2>2
  <2> QED
      BY <1>6, <2>1, <2>2
<1>8. CASE _run_tests
    BY <1>1, <1>3, <1>4, <1>7, <1>8 DEF _run_tests
<1> QED
    BY <1>2, <1>5, <1>8 DEF Next, Ended

(* The exit status of a run that reports is the number of failures that    *)
(* count, modulo what an exit status holds: every test's and every setup's *)
(* does, and a teardown's unless the test before it failed too.            *)
THEOREM ExitStatusIsExact == Spec => []ExitStatusExact
<1>1. Init => CountedInv
  <2> SUFFICES ASSUME Init PROVE CountedInv
      OBVIOUS
  <2>1. Handled = 0 /\ total_failed = 0 /\ previous_test_failed = 0
      BY DEF Init, Handled
  <2>2. Cardinality(CountedTo(0)) = 0 /\ ~ AfterFailedTest(0 + 1)
      BY CountedStep DEF AfterFailedTest
  <2> QED
      BY <2>1, <2>2 DEF CountedInv
<1>2. IInv /\ CountedInv => ExitStatusExact
  <2> SUFFICES ASSUME IInv, CountedInv, process = "returned"
               PROVE  exit_status = Cardinality(Counted) % ExitStatuses
      BY DEF ExitStatusExact
  <2>1. Handled = N
      BY DEF IInv, ControlInv, Handled
  <2>2. CountedTo(N) = Counted
      BY DEF CountedTo, Counted, Failures
  <2> QED
      BY <2>1, <2>2 DEF CountedInv, exit_status
<1> QED
    BY <1>1, <1>2, StepCounts, Invariance, PathInvariance, PTL DEF Spec
=============================================================================
