------------------------------ MODULE TestSuite ------------------------------
(***************************************************************************)
(* The test runner of src/cmockery.cpp: the loop of _run_tests over an     *)
(* array of UnitTest, and the life of _run_test in the thread the loop     *)
(* spawns and joins for each function.  What a test function does is left  *)
(* open: it may return, throw, call fail(), or fault, at any time, leaving *)
(* expectations behind.  MockQueue and TestAllocator model what it calls.  *)
(*                                                                         *)
(* The ways a process can end are kept apart: main returns, exit(-1),      *)
(* std::terminate (abort) and death by a signal.                           *)
(***************************************************************************)
EXTENDS Integers, Sequences, FiniteSets

CONSTANTS
    Suites,         \* the arrays of unit tests a main() may pass to run_tests
    ExitStatuses    \* what the system keeps of main's result: 256 values

FunctionTypes == {"TEST", "SETUP", "TEARDOWN", "TEST_EXPECT_FAILURE"}

(* A unit test; its name is its index in the array and function = FALSE    *)
(* stands for a NULL function pointer.                                     *)
UnitTest == [function : BOOLEAN, function_type : FunctionTypes]

ASSUME SuitesAssumption == Suites \subseteq Seq(UnitTest)
ASSUME ExitStatusesAssumption == ExitStatuses \in Nat \ {0}

(* What a function may leave in the symbol maps: a value never used, or a  *)
(* count of -1 used at least once.  A used "always" result is dropped in   *)
(* silence on every path and is not told apart from an empty map.          *)
Leftovers == {"unused_result", "unused_parameter", "used_always_parameter"}
UnusedValues == {"unused_result", "unused_parameter"}
ParameterValues == {"unused_parameter", "used_always_parameter"}

Signals == {"SIGSEGV", "SIGFPE"}        \* two of the five exception_signals

VARIABLES
    tests,                  \* the array, chosen once
    \* _run_tests
    main_pc, current_test, run_next_test, previous_test_failed,
    tests_executed, total_failed, setups, teardowns,
    test_states, number_of_test_states, current_state, test_check_point,
    failed_names, failed,
    \* _run_test, in the thread of the current function
    thread_pc, rc, blocked,
    \* globals
    global_running_test, expectations,
    signal_functions, default_signal_functions,
    \* the process, and the function of the code that ended it
    process, ended_by,
    verdict                 \* history: what _run_test stored for each function

suite_vars == <<current_test, run_next_test, previous_test_failed,
                tests_executed, total_failed, setups, teardowns,
                number_of_test_states, current_state, test_check_point,
                failed_names>>
signal_vars == <<signal_functions, default_signal_functions>>
vars == <<tests, main_pc, suite_vars, test_states, failed, thread_pc, rc,
          blocked, global_running_test, expectations, signal_vars,
          process, ended_by, verdict>>

N == Len(tests)
Test == tests[current_test]             \* the unit test being handled
Slots == 1..N                           \* the elements of test_states

-----------------------------------------------------------------------------
(* The ways to end, and what a signal or exit_test(1) does.                *)

End(how, where) ==
    /\ process' = how
    /\ ended_by' = where

(* exit_test(1): `throw;` with nothing being handled calls std::terminate. *)
exit_test(where) ==
    End(IF global_running_test = 1 THEN "aborted" ELSE "exited", where)

(* exception_handler.  The kernel blocks the signal while its handler runs *)
(* and leaves it blocked in this thread when the handler throws; raised    *)
(* again, a blocked fault kills.  (The handler is installed before anything *)
(* modelled here can fault.)  Whether the exception thrown from the    *)
(* handler finds its way out of the faulting frame depends on the frame.   *)
Fault(signal, where) ==
    \/ /\ signal \in blocked
       /\ End("killed", where)
       /\ UNCHANGED <<thread_pc, blocked>>
    \/ /\ signal \notin blocked
       /\ IF global_running_test = 1
          THEN \/ /\ thread_pc' = "catch_std"
                  /\ blocked' = blocked \cup {signal}
                  /\ UNCHANGED <<process, ended_by>>
               \/ /\ End("aborted", where)
                  /\ UNCHANGED <<thread_pc, blocked>>
          ELSE /\ End("exited", where)
               /\ UNCHANGED <<thread_pc, blocked>>

-----------------------------------------------------------------------------
(* _run_tests                                                              *)

NullState == 0

Init ==
    /\ tests \in Suites
    /\ main_pc = "next"
    /\ current_test = 0
    /\ run_next_test = 1
    /\ previous_test_failed = 0
    /\ tests_executed = 0
    /\ total_failed = 0
    /\ setups = 0
    /\ teardowns = 0
    /\ test_states = [s \in Slots |-> [check_point |-> 0, state |-> NullState]]
    /\ number_of_test_states = 0
    /\ current_state = 0
    /\ test_check_point = 0
    /\ failed_names = [i \in 1..N |-> 0]
    /\ failed = 0
    /\ thread_pc = "none"
    /\ rc = 1
    /\ blocked = {}
    /\ global_running_test = 0
    /\ expectations = {}
    /\ signal_functions = "SIG_DFL"
    /\ default_signal_functions = "none"
    /\ process = "running"
    /\ ended_by = "nobody"
    /\ verdict = [i \in 1..N |-> "none"]

(* Both threads stop with the process.                                     *)
MainAt(pc) == process = "running" /\ main_pc = pc
ThreadAt(pc) == process = "running" /\ thread_pc = pc

(* The head of the loop takes the next unit test, of the given type.       *)
Take(type) ==
    /\ MainAt("next")
    /\ current_test < N
    /\ current_test' = current_test + 1
    /\ tests[current_test + 1].function
    /\ tests[current_test + 1].function_type = type

(* The element a setup pushes, and what a teardown pops.  The operators    *)
(* named Bad... are plausible mistakes; nothing uses them.                 *)
BadPop == number_of_test_states
Pop == number_of_test_states - 1
BadTop == 1
Top == number_of_test_states

DispatchKeeps == <<tests, previous_test_failed, tests_executed, total_failed,
                   failed_names, failed, thread_pc, rc, blocked,
                   global_running_test, expectations, signal_vars, verdict>>

BadSkipped == current_test
Skipped == current_test + 1

SkipNull ==
    /\ MainAt("next")
    /\ current_test < N
    /\ ~ tests[current_test + 1].function
    /\ current_test' = Skipped
    /\ UNCHANGED <<main_pc, run_next_test, setups, teardowns, test_states,
                   number_of_test_states, current_state, test_check_point,
                   process, ended_by, DispatchKeeps>>

DispatchTest ==
    /\ Take("TEST")
    /\ run_next_test' = 1
    /\ test_check_point' = 0
    /\ main_pc' = "spawn"
    /\ UNCHANGED <<setups, teardowns, test_states, number_of_test_states,
                   current_state, process, ended_by, DispatchKeeps>>

(* The heap check point taken for a setup is named by the setup's index.   *)
DispatchSetup ==
    /\ Take("SETUP")
    /\ number_of_test_states' = number_of_test_states + 1
    /\ test_states' = [test_states EXCEPT ![number_of_test_states + 1] =
                          [check_point |-> current_test + 1, state |-> NullState]]
    /\ test_check_point' = current_test + 1
    /\ current_state' = number_of_test_states + 1
    /\ run_next_test' = 1
    /\ setups' = setups + 1
    /\ main_pc' = "spawn"
    /\ UNCHANGED <<teardowns, process, ended_by, DispatchKeeps>>

DispatchTeardown ==
    /\ Take("TEARDOWN")
    /\ number_of_test_states > 0
    /\ number_of_test_states' = Pop
    /\ test_check_point' = test_states[Top].check_point
    /\ current_state' = Top
    /\ teardowns' = teardowns + 1
    /\ main_pc' = IF run_next_test = 1 THEN "spawn" ELSE "next"
    /\ UNCHANGED <<run_next_test, setups, test_states, process, ended_by,
                   DispatchKeeps>>

(* assert_true(number_of_test_states) throws assert_fail in main's thread, *)
(* where nothing catches it.                                               *)
TeardownWithoutSetup ==
    /\ Take("TEARDOWN")
    /\ number_of_test_states = 0
    /\ End("aborted", "_run_tests")
    /\ UNCHANGED <<main_pc, run_next_test, setups, teardowns, test_states,
                   number_of_test_states, current_state, test_check_point,
                   DispatchKeeps>>

InvalidType ==
    /\ Take("TEST_EXPECT_FAILURE")
    /\ exit_test("_run_tests")
    /\ UNCHANGED <<main_pc, run_next_test, setups, teardowns, test_states,
                   number_of_test_states, current_state, test_check_point,
                   DispatchKeeps>>

(* int failed = 0; std::thread MyTestThread(_run_test, ...).  The thread   *)
(* starts with main's signal mask, in which nothing is blocked.            *)
Spawn ==
    /\ MainAt("spawn")
    /\ main_pc' = "join"
    /\ failed' = 0
    /\ thread_pc' = "start"
    /\ rc' = 1
    /\ blocked' = {}
    /\ UNCHANGED <<tests, suite_vars, test_states, global_running_test,
                   expectations, signal_vars, process, ended_by, verdict>>

(* The accounting of Join: where a failure's name goes, when a teardown's  *)
(* failure counts, and whether what follows a setup is run.                *)
BadNameSlot == IF total_failed = 0 THEN 1 ELSE total_failed
NameSlot == total_failed + 1

BadTeardownCounts == FALSE
BadTeardownAlwaysCounts == failed = 1
TeardownCounts == failed = 1 /\ previous_test_failed = 0

BadRunAfterSetup == run_next_test
RunAfterSetup == IF failed = 1 THEN 0 ELSE run_next_test

(* MyTestThread.join() and the switch that accounts for the function.      *)
Join ==
    /\ MainAt("join")
    /\ thread_pc = "done"
    /\ thread_pc' = "none"
    /\ main_pc' = "next"
    /\ failed_names' = IF failed = 1
                       THEN [failed_names EXCEPT ![NameSlot] = current_test]
                       ELSE failed_names
    /\ \/ /\ Test.function_type = "TEST"
          /\ previous_test_failed' = failed
          /\ total_failed' = total_failed + failed
          /\ tests_executed' = tests_executed + 1
          /\ UNCHANGED run_next_test
       \/ /\ Test.function_type = "SETUP"
          /\ total_failed' = total_failed + failed
          /\ tests_executed' = tests_executed + failed
          /\ run_next_test' = RunAfterSetup
          /\ previous_test_failed' = 0
       \/ /\ Test.function_type = "TEARDOWN"
          /\ total_failed' = IF TeardownCounts THEN total_failed + 1 ELSE total_failed
          /\ UNCHANGED <<previous_test_failed, tests_executed, run_next_test>>
    /\ UNCHANGED <<tests, current_test, setups, teardowns, test_states,
                   number_of_test_states, current_state, test_check_point,
                   failed, rc, blocked, global_running_test, expectations,
                   signal_vars, process, ended_by, verdict>>

(* The summary is printed and main returns total_failed.                   *)
Report ==
    /\ MainAt("next")
    /\ current_test = N
    /\ main_pc' = "reported"
    /\ End("returned", "main")
    /\ UNCHANGED <<tests, suite_vars, test_states, failed, thread_pc, rc,
                   blocked, global_running_test, expectations, signal_vars,
                   verdict>>

exit_status == total_failed % ExitStatuses

-----------------------------------------------------------------------------
(* _run_test, in the thread                                                *)

ThreadKeeps == <<tests, main_pc, suite_vars, failed, verdict>>

(* Handlers are installed, the symbol maps emptied, the flag is raised.    *)
StartTest ==
    /\ ThreadAt("start")
    /\ thread_pc' = "body"
    /\ default_signal_functions' = signal_functions
    /\ signal_functions' = "exception_handler"
    /\ expectations' = {}
    /\ global_running_test' = 1
    /\ UNCHANGED <<ThreadKeeps, test_states, rc, blocked, process, ended_by>>

(* Function(state ? state : &current_state): the function may assign       *)
(* *state, which is a slot of test_states or a local of _run_test.         *)
BodyEffects ==
    /\ expectations' \in SUBSET Leftovers
    /\ \/ UNCHANGED test_states
       \/ /\ current_state # 0
          /\ test_states' = [test_states EXCEPT ![current_state].state = current_test]

BodyReturns ==
    /\ ThreadAt("body")
    /\ BodyEffects
    /\ thread_pc' = "leftover"
    /\ UNCHANGED <<ThreadKeeps, rc, blocked, global_running_test, signal_vars,
                   process, ended_by>>

(* An exception leaves the function: assert_fail, memory_err and the like  *)
(* are std::exceptions, mock_assert throws the text of its expression, and *)
(* _fail called while one of them is being handled throws it again.        *)
BodyThrows ==
    /\ ThreadAt("body")
    /\ BodyEffects
    /\ thread_pc' \in {"catch_std", "catch_any"}
    /\ UNCHANGED <<ThreadKeeps, rc, blocked, global_running_test, signal_vars,
                   process, ended_by>>

(* _fail, a failed check_expected, mock() with nothing queued: exit_test   *)
(* where no exception is being handled.                                    *)
BodyFails ==
    /\ ThreadAt("body")
    /\ BodyEffects
    /\ exit_test("exit_test")
    /\ UNCHANGED <<ThreadKeeps, thread_pc, rc, blocked, global_running_test,
                   signal_vars>>

BodyFaults ==
    /\ ThreadAt("body")
    /\ BodyEffects
    /\ \E signal \in Signals : Fault(signal, "exception_handler")
    /\ UNCHANGED <<ThreadKeeps, rc, global_running_test, signal_vars>>

(* The catch (...) of expect_assert_failure takes the sig_err for the      *)
(* assertion it expects; the signal stays blocked.                         *)
BodyCatchesFault ==
    /\ ThreadAt("body")
    /\ \E signal \in Signals \ blocked : blocked' = blocked \cup {signal}
    /\ UNCHANGED <<ThreadKeeps, test_states, thread_pc, rc, global_running_test,
                   expectations, signal_vars, process, ended_by>>

(* fail_if_leftover_values: used "always" values are removed first.        *)
CheckLeftovers ==
    /\ ThreadAt("leftover")
    /\ expectations' = expectations \cap UnusedValues
    /\ \/ /\ expectations' = {}
          /\ thread_pc' = "leaks"
          /\ UNCHANGED <<process, ended_by>>
       \/ /\ expectations' # {}
          /\ exit_test("exit_test")
          /\ UNCHANGED thread_pc
    /\ UNCHANGED <<ThreadKeeps, test_states, rc, blocked, global_running_test,
                   signal_vars>>

(* fail_if_blocks_allocated, not run for a setup: nothing was left, or     *)
(* memory_leak or memory_err is thrown, or the walk faults because the     *)
(* check point's node has been freed.                                      *)
ChecksBlocks == Test.function_type # "SETUP"

NothingLeaked ==
    /\ ThreadAt("leaks")
    /\ thread_pc' = "teardown"
    /\ global_running_test' = 0
    /\ rc' = 0
    /\ UNCHANGED <<ThreadKeeps, test_states, blocked, expectations, signal_vars,
                   process, ended_by>>

BlocksLeaked ==
    /\ ThreadAt("leaks")
    /\ ChecksBlocks
    /\ thread_pc' = "catch_std"
    /\ UNCHANGED <<ThreadKeeps, test_states, rc, blocked, global_running_test,
                   expectations, signal_vars, process, ended_by>>

CheckPointFreed ==
    /\ ThreadAt("leaks")
    /\ ChecksBlocks
    /\ Fault("SIGSEGV", "fail_if_blocks_allocated")
    /\ UNCHANGED <<ThreadKeeps, test_states, rc, global_running_test,
                   expectations, signal_vars>>

(* catch (std::exception &e): LOG_ERROR calls through the unique_ptr that  *)
(* Log::getInstance() moved out at start-up, and faults on its null.       *)
CatchStd ==
    /\ ThreadAt("catch_std")
    /\ global_running_test' = 0
    /\ End(IF "SIGSEGV" \in blocked THEN "killed" ELSE "exited", "LOG_ERROR")
    /\ UNCHANGED <<ThreadKeeps, test_states, thread_pc, rc, blocked,
                   expectations, signal_vars>>

CatchAny ==
    /\ ThreadAt("catch_any")
    /\ global_running_test' = 0
    /\ thread_pc' = "teardown"
    /\ UNCHANGED <<ThreadKeeps, test_states, rc, blocked, expectations,
                   signal_vars, process, ended_by>>

(* The result of the function, stored through a reference: failed = rc.    *)
BadStored == failed
Stored == rc

(* teardown_testing frees both maps, but reads a parameter's queued check  *)
(* as a nested map and faults on it; then failed = rc.                     *)
Teardown ==
    /\ ThreadAt("teardown")
    /\ \/ /\ expectations \cap ParameterValues = {}
          /\ expectations' = {}
          /\ thread_pc' = "done"
          /\ failed' = Stored
          /\ verdict' = [verdict EXCEPT ![current_test] =
                            IF rc = 0 THEN "passed" ELSE "failed"]
          /\ UNCHANGED <<blocked, process, ended_by>>
       \/ /\ expectations \cap ParameterValues # {}
          /\ Fault("SIGSEGV", "teardown_testing")
          /\ UNCHANGED <<expectations, failed, verdict>>
    /\ UNCHANGED <<tests, main_pc, suite_vars, test_states, rc,
                   global_running_test, signal_vars>>

-----------------------------------------------------------------------------

_run_tests == \/ SkipNull \/ DispatchTest \/ DispatchSetup \/ DispatchTeardown
              \/ TeardownWithoutSetup \/ InvalidType
              \/ Spawn \/ Join \/ Report

Body == BodyReturns \/ BodyThrows \/ BodyFails \/ BodyFaults

_run_test == \/ StartTest \/ Body \/ BodyCatchesFault
             \/ CheckLeftovers
             \/ NothingLeaked \/ BlocksLeaked \/ CheckPointFreed
             \/ CatchStd \/ CatchAny \/ Teardown

(* The process has ended: nothing more happens.                            *)
Ended == process # "running" /\ UNCHANGED vars

Next == _run_tests \/ _run_test \/ Ended

(* The system schedules both threads; a test function that keeps running   *)
(* ends after finitely many steps.                                         *)
Fairness == WF_vars(_run_tests) /\ WF_vars(_run_test)

Spec == Init /\ [][Next]_vars /\ Fairness
-----------------------------------------------------------------------------
(* Properties                                                              *)

TypeOK ==
    /\ tests \in Suites
    /\ main_pc \in {"next", "spawn", "join", "reported"}
    /\ current_test \in 0..N
    /\ run_next_test \in {0, 1}
    /\ previous_test_failed \in {0, 1}
    /\ tests_executed \in 0..N
    /\ total_failed \in 0..N
    /\ setups \in 0..N
    /\ teardowns \in 0..N
    /\ test_states \in [Slots -> [check_point : 0..N, state : 0..N]]
    /\ number_of_test_states \in 0..N
    /\ current_state \in 0..N
    /\ test_check_point \in 0..N
    /\ failed_names \in [1..N -> 0..N]
    /\ failed \in {0, 1}
    /\ thread_pc \in {"none", "start", "body", "leftover", "leaks",
                      "catch_std", "catch_any", "teardown", "done"}
    /\ rc \in {0, 1}
    /\ blocked \in SUBSET Signals
    /\ global_running_test \in {0, 1}
    /\ expectations \in SUBSET Leftovers
    /\ signal_functions \in {"SIG_DFL", "exception_handler"}
    /\ default_signal_functions \in {"none", "SIG_DFL", "exception_handler"}
    /\ process \in {"running", "returned", "exited", "aborted", "killed"}
    /\ ended_by \in {"nobody", "main", "_run_tests", "exit_test", "LOG_ERROR",
                     "exception_handler", "fail_if_blocks_allocated",
                     "teardown_testing"}
    /\ verdict \in [1..N -> {"none", "passed", "failed"}]

Failures == {i \in 1..N : verdict[i] = "failed"}

(* A run that gets as far as its summary claims success exactly when every *)
(* function it ran passed.  The hard case is a teardown that fails after   *)
(* its test did: it is not counted, and must not have to be.               *)
VerdictSound ==
    process = "returned" => (total_failed = 0 <=> Failures = {})

Is(i, type) == tests[i].function /\ tests[i].function_type = type

(* The failures that count: a teardown's does, unless the last test or     *)
(* setup before it is a test that failed too.                              *)
AfterFailedTest(i) ==
    \E j \in 1..(i - 1) :
        /\ Is(j, "TEST")
        /\ verdict[j] = "failed"
        /\ \A k \in (j + 1)..(i - 1) : ~ Is(k, "TEST") /\ ~ Is(k, "SETUP")
Counted == {i \in Failures : Is(i, "TEARDOWN") => ~ AfterFailedTest(i)}

(* What a shell sees of `return run_tests(tests)` is the number of these,  *)
(* none twice and none left out, as far as an exit status can hold it: a   *)
(* suite looks like a success when they are a multiple of ExitStatuses.    *)
ExitStatusExact ==
    process = "returned" => exit_status = Cardinality(Counted) % ExitStatuses

(* The names the summary prints: functions that failed, in the order they  *)
(* ran, no one twice, and every test and setup that failed is among them.  *)
(* The slot written for an uncounted teardown must never show through.     *)
NamesExact ==
    process = "returned" =>
        LET listed == {failed_names[i] : i \in 1..total_failed}
        IN  /\ \A i, j \in 1..total_failed :
                   i < j => failed_names[i] < failed_names[j]
            /\ listed \subseteq Failures
            /\ \A i \in Failures \ listed : tests[i].function_type = "TEARDOWN"

(* failed_names[total_failed] and test_states[number_of_test_states++] are *)
(* unchecked stores into arrays of number_of_tests elements.               *)
StoresInBounds ==
    /\ MainAt("join") => total_failed < N
    /\ number_of_test_states = setups - teardowns
    /\ number_of_test_states <= current_test

(* "Skip forward until the next test or setup function": in a run that     *)
(* reaches its summary the functions that did not run are exactly the      *)
(* NULL ones and the teardowns with no test or setup between them and a    *)
(* setup that failed.                                                      *)
SkippedAfterFailedSetup(i) ==
    /\ Is(i, "TEARDOWN")
    /\ \E s \in 1..(i - 1) :
           /\ Is(s, "SETUP")
           /\ verdict[s] = "failed"
           /\ \A k \in (s + 1)..(i - 1) : ~ Is(k, "TEST") /\ ~ Is(k, "SETUP")

SkipsExactly ==
    process = "returned" =>
        \A i \in 1..N : verdict[i] = "none" <=>
            ~ tests[i].function \/ SkippedAfterFailedSetup(i)

(* Setups and teardowns pair like brackets, as far as they are functions:  *)
(* a NULL one opens and closes nothing.                                    *)
Opened(i) == Cardinality({k \in 1..i : Is(k, "SETUP")})
Closed(i) == Cardinality({k \in 1..i : Is(k, "TEARDOWN")})
Depth(i) == Opened(i) - Closed(i)

PairOf(s, t) ==
    /\ s < t
    /\ Is(s, "SETUP")
    /\ Is(t, "TEARDOWN")
    /\ Depth(t) = Depth(s) - 1
    /\ \A k \in s..(t - 1) : Depth(k) >= Depth(s)

(* A teardown is given the heap check point that the setup of its pair     *)
(* took, and a state that this setup or a function run between the two     *)
(* assigned, however deeply the pairs nest, whatever failed and whichever  *)
(* functions are NULL.  (The pair it is declared in may be another: see    *)
(* NullPairsHold.)                                                         *)
TeardownSeesItsSetup ==
    thread_pc = "start" /\ Is(current_test, "TEARDOWN") =>
        \E s \in 1..current_test :
            /\ PairOf(s, current_test)
            /\ test_check_point = s
            /\ test_states[current_state].state \in {NullState} \cup s..current_test

(* main's own thread dies, in assert_true(number_of_test_states) or at the *)
(* invalid type, exactly where a teardown that is a function has no setup  *)
(* that is one, whatever failed or was skipped before; a summary is given  *)
(* for no such suite.  NULL setups are among the causes (NullPairsHold).   *)
Broken(i) == Is(i, "TEST_EXPECT_FAILURE") \/ Closed(i) > Opened(i)

AbortsExactly ==
    /\ ended_by = "_run_tests" => Broken(current_test)
    /\ process = "returned" => \A i \in 1..N : ~ Broken(i)

(* Every run comes to an end: the loop over the array, the join of every   *)
(* thread and the thread's own path never wait for each other for good.    *)
Termination == <>(process # "running")

-----------------------------------------------------------------------------
(* The runner keeps the promise of TestReport.  A function counts as       *)
(* handled when the loop is done with it.                                  *)

Handled ==
    IF main_pc \in {"spawn", "join"} THEN current_test - 1 ELSE current_test

Contract == INSTANCE TestReport WITH
    count <- N,
    handled <- Handled,
    failing <- Failures \cap 1..Handled,
    outcome <- IF process = "running" THEN "running"
               ELSE IF process # "returned" THEN "died"
               ELSE IF total_failed = 0 THEN "success" ELSE "failure"

(* _run_tests and _run_test together implement the promise: no order of    *)
(* failures, skips and deaths makes a summary claim success wrongly, skip  *)
(* a function unseen, or keep the run from ending.                         *)
KeepsContract == Contract!Spec

-----------------------------------------------------------------------------
(* What is said of the runner, and does not hold                           *)

(* The pairs a suite declares, NULL functions included.                    *)
Declared(type, i) == Cardinality({k \in 1..i : tests[k].function_type = type})
Level(i) == Declared("SETUP", i) - Declared("TEARDOWN", i)
WellPaired ==
    \A i \in 1..N :
        Level(i) >= 0 /\ tests[i].function_type # "TEST_EXPECT_FAILURE"

Partners(s, t) ==
    /\ s < t
    /\ tests[s].function_type = "SETUP"
    /\ tests[t].function_type = "TEARDOWN"
    /\ Level(t) = Level(s) - 1
    /\ \A k \in s..(t - 1) : Level(k) >= Level(s)

(* "Either setup or teardown can be NULL": the teardown of a NULL setup    *)
(* does not end the program, and none is given the check point of a setup  *)
(* it is not declared with.                                                *)
NullPairsHold ==
    WellPaired =>
        /\ ended_by # "_run_tests"
        /\ thread_pc = "start" /\ Is(current_test, "TEARDOWN")
              => Partners(test_check_point, current_test)

=============================================================================
