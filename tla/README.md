# A TLA+ verification of cmockery

cmockery (`src/`) is a small C++17 unit-test library in the manner of Google's
cmockery: a test program lists its functions in an array of `UnitTest`, and
`run_tests` runs them one after the other, each in a thread of its own; tests
queue values for mocked functions and expectations of their parameters; the
library replaces `malloc`, `free` and `new` to find leaks and overruns. Nearly
all of it is `src/src/cmockery.cpp` (1570 lines, of which the first 220 and
the blocks commented out are declarations or no code), with its macros in
`src/include/cmockery.h`.

The modules here are translated from that code. TLC checks them on small
instances; TLAPS proves the results listed under *Proofs* for every instance.

## 1. The system

### Components, their state and their operations

| Component | State | Operations | What makes it correct |
|---|---|---|---|
| Suite runner, `_run_tests` (996-1128) | the loop's locals: `current_test`, `run_next_test`, `previous_test_failed`, `total_failed`, `tests_executed`, the stack `test_states`, `failed_names` | take the next unit test by type; spawn and join a thread; account for its result; print the summary and return | the summary and the exit status say what happened; a failed setup skips what it should and no more; a teardown is paired with its own setup; unchecked stores stay in their arrays; every run ends |
| Function runner, `_run_test` (895-995), with `exit_test` (449) and `exception_handler` (678) | the thread's place, `rc`, the signals blocked in it; the globals `global_running_test` and `default_signal_functions` | install handlers, run the function, check leftovers and leaks, catch, tear down, store `failed` | a function passes only by getting to the end of its checks; each way to fail either is accounted for or ends the process |
| Mock value queues and expectations (283-427, 685-773, 834-890, 1130-1312) | two maps from symbols to queues, one and two levels deep; two last locations; heap blocks | `will_return`, `mock`, `expect_*`, `check_expected`, the leftover check, teardown | first declared first used, counts kept; missing and leftover values fail; the bookkeeping frees what it allocates once |
| Test allocator (485-513, 774-833, 1386-1562) | one list of all live blocks, the header and two guards of each, check points that are pointers into the list | `_test_malloc`, `_test_new`, `_test_calloc`, `_test_free`, check points, leak report | a leak since the check point is found, freed and blamed on the right function; guards are checked before a block goes; whatever the size and the address, header, bytes and guards lie in the block |
| Circular list (223-344) | `next` and `prev` of every node and head | initialise, add last, remove, remove and free, free all, find, first, walks | rings stay closed, in order of addition; a walk sees each element once whatever its body frees |
| Assertions and value checks (530-676, 1130-1145, 1163-1226, 1278-1384) | none | `assert_*`, `mock_assert`, the callbacks of `expect_*`, comparisons of ranges, sets and memory | they decide what their names say, through the conversions of their macros |
| `expect_assert_failure` (cmockery.h:358-374) | `global_expecting_assert`, written and never read | run an expression, catch everything | it passes for the assertion it expects |
| Log (`ctest_log.h`, `ctest_log.cpp`) | one instance behind a `unique_ptr`, a level, a file | `getInstance`, `WriteLog` | the log can be written to when a test fails |
| Notification, ThreadWithParam (`ctest_port.h` 262-373) | a mutex, a condition variable and a flag; a thread, its gate and whether it was joined | `Notify`, `WaitForNotification`; construct, `Join`, destroy | no wake-up is lost, no thread passes the gate early, a thread's object outlives it; nothing in the repository uses them |
| RE, CTestLog, matchers, printers | - | declared, or formatting only | - |
| Calculator (`example/calculator.cpp`) | its index, running value, block of intermediate values and its count | parse, operate, clean up, display | stores stay in the block; values, errors and the block's release are right for every command line |
| The other examples | the example's own | clients of the library | what they show of its use is evidence for the models |
| Build files, generated documents | - | - | - |

### How they interact

* main runs the loop, and *joins each thread before it goes on*: at most one
  test function runs at a time. main and the thread share `failed`,
  `test_states`, the allocator's list and the globals; the join orders them.
* The function runner calls the queues (`initialize_testing`, the leftover
  check, `teardown_testing`) and the allocator (check point, leak check) around
  the test function, and the function calls both in any order.
* The queues keep their nodes in circular lists, and take their memory with
  `malloc` and `free` *after* cmockery.h has made these `_test_malloc` and
  `_test_free`: their blocks are in the same list as the test's own, so a
  miscount in the queues is reported as a leak of the test.
* The lists call back (`free_value`, `free_symbol_map_value`) in the middle of a
  walk, and the callbacks take nodes out of other lists: the allocator's, at
  least.
* Failure travels by exceptions (`assert_fail`, `memory_err`, `memory_leak`,
  `sig_err`, the text of `mock_assert`), by `exit_test`, which rethrows where
  nothing is being handled and so calls `std::terminate`, and by signals, whose
  handler throws.

### What is hard here

The list with its lines is `hazards` in `PROJECT.json`. In groups: the order of
failures, skips and nested pairs in the runner's bookkeeping; the many ways for
the process to end in the middle; the interplay of a signal's handler, the mask
it leaves behind, and a handler of exceptions that itself faults; counts that
double as flags in the queues; check points that are bare pointers into a list
whose blocks are freed and given out again; one list of blocks for the queues'
bookkeeping and the test's own; stopping half-way through freeing what leaked;
arithmetic on sizes that wraps; pointers taken before a callback and used after
it; waiting and waking under a condition variable.

## 2. Plan

Modules in order of importance; all of these are done.

1. `TestSuite` - runner and thread; abstract specification `TestReport`;
   proofs in `TestSuiteProof`.
2. `MockQueue` - the queues; abstract `MockContract`; proofs in `MockProof`,
   part 1.
3. `TestAllocator` - blocks, guards, check points; proofs in
   `TestAllocatorProof`.
4. `CircularList` - the pointers; abstract `ListContract`; proofs in
   `CircularListProof`.
5. `Checks` - what the assertions and comparisons decide; proofs in
   `ChecksProof`.
6. `MockHeap` - the queues in the allocator's list, with a sequence of tests,
   setups and teardowns around them: what a function leaves in the queues and
   what it allocates decide together what the leak check finds; proofs in
   `MockProof`, part 2.
7. `MallocLayout` - the bytes of a block: sizes, guards, alignment and the wrap of
   `number_of_elements * size` and `size + overhead`; proofs in
   `MallocLayoutProof`.
8. `ThreadGate` - `Notification` and `ThreadWithParam`; abstract `StartGate`;
   proofs in `ThreadGateProof`.
9. `Calculator` - the argument loop of the example and its `main`; proofs in
   `CalculatorProof`.

Left: the callers' side of `Log` (`TestSuite` has the hand-over of its instance
only); the comparison by difference that `example/key_value.cpp` sorts with.

Every safety property that a passing run checks is also a theorem (section 7).
What has none is liveness, and what the three runs of section 6 refute.

## 3. The modules

### TestSuite, TestReport, TestSuiteProof

`TestSuite` has two actors. *main* takes the next unit test with one action per
case of the first switch (`SkipNull`, `DispatchTest`, `DispatchSetup`,
`DispatchTeardown`, `TeardownWithoutSetup`, `InvalidType`), then `Spawn`s a
thread and `Join`s it, accounting for its result as the second switch does, and
at the end `Report`s. *The thread* goes through `StartTest`, the body,
`CheckLeftovers`, the check of the blocks, one of the two catch clauses and
`Teardown`. What a function does is open: `BodyReturns` (with any leftovers),
`BodyThrows`, `BodyFails` (`exit_test`), `BodyFaults`, `BodyCatchesFault` (the
`catch (...)` of `expect_assert_failure`).

The process ends in one of four ways, which `process` keeps apart: main
`returned`, `exited` (the handler's `exit(-1)`), `aborted` (`std::terminate`),
`killed` (a signal); `ended_by` names the function in which it did. `blocked` is
the thread's signal mask: a handler that throws leaves its signal blocked, and
the second fault kills. `verdict` is history: what `_run_test` stored for each
function.

Abstractions: a function's name is its index; a check point of the heap is the
index of the setup it was taken for; a state is the index of the function that
assigned it; two of the five signals; leftovers are the three kinds the code
tells apart; whether blocks were leaked is a free choice (`NothingLeaked`,
`BlocksLeaked`, `CheckPointFreed`); whether an exception thrown from a signal's
handler is unwound through the faulting frame is a free choice. The array of
unit tests is a variable that `Init` takes from the constant `Suites`.

`TestReport` is what a runner promises whatever the tests do: each function
handled once, in order, a summary only after the last, "success" exactly when
none failed, a death never taken for success, and an end. `KeepsContract` is
that `TestSuite` implements it.

### MockQueue, MockContract

`result_map` and `parameter_map` are the two global maps as partial functions
from symbols to queues; an element is its source location, its reference count
and, for a check, the set of values it accepts. `WillReturn`,
`WillReturnRefused`, `Expect`, `Mock`, `MockUnset`, `CheckExpected` and
`CheckUnset` are the calls, `BeginTest`, `BodyThrows`, `FailIfLeftoverValues` and
`TeardownTesting` the life of a test around them. `lost` is history: the blocks of
refused declarations.

`MockContract` sees declarations and uses only: which declaration must answer
the n-th use of a symbol, and when all of them have been used. It knows no
queues, reference counts or removals; `used` counts the uses of each declaration,
told from others by its location.

### MockHeap

`MockHeap` extends `MockQueue`: each of its actions is one of `MockQueue`'s with
what it does to `heap`, the allocator's list, where the queues' blocks stand
between those that functions `Malloc` and `Free` for themselves. New blocks go to
the end of that list, so it is told by the order of allocation: `heap` maps places,
counted by `clock`, to the blocks still there, and a check point is a place. `Taken`,
`Emptied`, `Dropped` and `TornDown` are the blocks each call of the code frees,
and `HeapMatches` compares what is left with what the maps lead to. A value and
its node are one element of `heap`, a symbol and its node another: the code always
allocates and frees the two together. `BeginUnitTest`, `BeginSetup` and
`BeginTeardown` take the check points as `_run_tests` and `_run_test` do, and
`FailIfBlocksAllocated` comes between the leftover check and the teardown.
Functions free any block they allocated, also one a check point stands on: the
address then dangles, and a new block may get it (`GivenAgain`) or the check faults
when it walks from it (`CheckPointFreed`). `since`, `setup_since` (the clock when a
check point was taken) and `given_back` (whether its block was freed) are history.

### TestAllocator

`block_list` is `global_allocated_blocks` as a sequence of addresses; `corrupt`
the blocks with a guard written over; `check_point` and `setup_check_point` are
addresses of nodes, as in the code, and can dangle. `malloc` may give out any
address not in use, one just freed too. `clock` and `serial` are history: when
the block at an address was allocated; `since` is when the check point was taken.
`FailIfBlocksAllocated` walks from the check point, and
`free_allocated_blocks` stops at the first corrupt block. A function that throws
leaves its blocks and the check for leaks behind (`BodyThrows`). At most one
setup is open at a time; `TestSuite` has the stack.

### MallocLayout, MallocLayoutProof

`memory` is the bytes themselves, by what was last written: a part of a header,
one of the four patterns, or the program's own. `Allocate` computes
`AllocateSize` modulo `Word`, lets the system's `malloc` give any free region of
that size, rounds (`Returned`) and writes header, guards and pattern
(`Initialised`); `_test_malloc`, `_test_new` and `_test_calloc` are its callers,
`_test_free` finds everything from the address it is given, and `FreeAgain` and
`FreeNull` are what it makes of addresses it should not be given. `Write` is
external: the program writes any byte from a live block's first guard byte to its
last, the guards included. `given` and `dirty` are history: the addresses
returned so far, and the bytes that a write has changed. The program does not
write into headers, and a fault ends what is modelled.

### CircularList, ListContract, CircularListProof

The pointers themselves: `next` and `prev` of heads and nodes, `NoLink` for
`NULL` and for what freed memory holds. `NextAfterAdd`, `PrevAfterAdd`,
`NextWithout`, `PrevWithout` are the assignments of `list_add` and
`list_remove`, aliasing included (`![prev[h]]` may be `![h]`). A walk is a
sequence of steps: `BeginWalk` (from the head or from a check point), `ReadNext`
(the next pointer is read before the body), `Keep` or `RemoveCurrent`, `EndWalk`;
`list_free` is `BeginFree`, `FreeFirst`, `EndFree`. Between them `ListRemove` may
take any node out of any other list, as the callbacks do. `list_of` and
`added` are history. `ListContract` has sequences in place of pointers; the one a head
stands for is `From`, the path along which its `next` pointers lead back to it.

### ThreadGate, StartGate, ThreadGateProof

Two kinds of actors, one location each. The *controller* constructs threads
(`ThreadWithParam`, then `PthreadCreate`, which may fail), calls `Join` and the
destructor, and takes the four steps of `Notify`: lock, set, notify all, unlock.
Each *thread* goes through `Run`: at its gate, if it has one, `Lock`, then `Pass`
or `Sleep`, one step under the mutex as `wait` does it, and back to `Lock` when
`Woken` or woken for nothing (`WakeUp`); then `Func`. `owner` is the mutex.
`joins` and the states of the objects are history or the objects' fields. What a
program calls and when is open, within what C++ allows: it does not use an object
it has destroyed.

`StartGate` has a flag and a state for each thread: nobody with a gate begins
before it is open, nobody is collected before he has finished, and who may begin
does. `KeepsGate` maps the locations to these states (`StateOf`).

### Calculator

`perform_operation` and `main`, one action per outcome of each check: `ParseFirst`,
`UnknownOperator`, `MissingArgument`, `OperandIsNoInteger`, `Operate`, `CleanUp`,
`Done`, `Display`, `Return`. An argument is what `strcmp` and `strtol` see in it.
`Operate` has the failed assertion of `divide`, the division that traps and the
store through a null block as outcomes of its own. `block` says who holds the
block of intermediate values and what was done to it.

### Checks

The assertions, the callbacks of `expect_*` and the comparisons behind them as
functions of C expressions (a type and a value), with the macros' conversions to
`LargestIntegralType` and, for `mock_assert`, to `int`; strings by the text an
address leads to; memory areas by how many of their bytes agree, counted in an
`int` as the code does. `Modulus` and `IntModulus` are how many values the wide types
and an `int` have. There is no state: each behaviour is one check.

## 4. The runs

Operators named `Bad...` are plausible mistakes, one for each checked property;
no specification uses them. With one put in the place of the operator it is a
mistake for, TLC finds the property violated: `mutants` in `PROJECT.json`.

| Run | Instance | What it shows |
|---|---|---|
| `TestSuite_any` | every array of 0 to 3 unit tests over the four types and NULL tests, setups and teardowns; every properly bracketed one of 5 without NULL, and of 4 with NULL setups and teardowns; an exit status of 4 values | verdict, exit status, names, stores and skips are right in each; a teardown gets the check point of the setup it pairs with, NULL functions apart, and a state assigned between the two; only arrays with a teardown that no setup is left for or an invalid type end in `main`'s abort; every run ends; `TestReport` is implemented, its liveness included |
| `MockQueue_queues` | one test, one function with two parameters, two values, three declarations of counts 0, 1, 2 and -1, four uses | the queues implement `MockContract`; "could not get value" is said rightly |
| `MockHeap_functions` | three functions in a row of any type, one mocked function with two parameters, one declaration more and one use each, a block of the functions' own that they may free at any time | the queues' blocks in the list are those the maps lead to, no check point stands on one, leaks are blamed and freed exactly but for what a check point given out again hides |
| `TestAllocator_blocks` | four functions, four allocations, three addresses | order of allocation, leaks found, freed and rightly blamed, guards checked, with addresses given out again |
| `MallocLayout_blocks` | 17 bytes of memory in words of 22 values, guards of one byte, headers of two, alignment to two, three allocations, one write | no part of a block outside its region, guards broken exactly when written over, double frees seen |
| `CircularList_lists` | two heads, three nodes, five additions | the pointers against sequences; walks that remove; nothing lost or shared |
| `Checks_values` | 4-bit words, 2-bit ints: every pair of values of four types, every range, set and size of area | what each check decides, negative ends of ranges and the reversed `assert_false` included, and that its opposite decides the opposite |
| `ThreadGate_threads` | three threads, two of them at the gate, two notifications, two wake-ups for nothing | no wake-up is lost, nobody passes early, every call returns but a join at a gate nobody opens; `StartGate` is implemented, its liveness included |
| `Calculator_lines` | every line of up to five arguments, well-formed or not, 3-bit ints | stores and reads in bounds, values, errors and clean-up |
| `TestSuite_null`, `MockQueue_teardown`, `TestAllocator_leak` | the smallest instance that shows it | the disagreements of section 6 |

Bounds, and why they are enough:

* *Suites.* A failure's effect on the loop reaches through `run_next_test`,
  `previous_test_failed` and one slot of `failed_names` only, each of them
  overwritten by the next function of its kind: three functions are enough for
  each order of test, setup, teardown, failure and skip. Nesting needs more, and
  gets five: two pairs in each other or in a row, with a test in any place. The
  theorems hold for all.
* *NULL setups and teardowns.* A NULL setup breaks its own pair in an array of
  three; inside another pair it needs four to give the inner teardown the outer
  setup's check point, and the fourth, the outer teardown, is the one that aborts.
* *ExitStatuses = 4* in place of 256 lets four failures, or five, wrap to a status
  that looks like none, or one.
* *Declarations and uses.* A queue's behaviour depends on its head and on
  whether there is a second; three declarations let a queue have a third behind
  a head used for ever, and four uses exhaust counts of 1 and 2 and go on.
  `MaxDeclared` is per test, so that the second test is not starved by the first.
* *Queues in the heap.* Three functions are a setup, what it surrounds and its
  teardown, or a function that throws between two that check; later ones may use
  up what earlier ones did not declare, and so declare two or three times.
* *Addresses.* Three, with four allocations, are the fewest in which a block
  older than the check point, the check point and a newer one exist and an
  address is given out twice.
* *Bytes.* 17 hold two of the smallest blocks, of six or seven bytes, at odd and
  even addresses; the word is the smallest in which the sizes that wrap include
  some whose wrapped size still fits the memory.
* *Threads.* Two at the gate are one to be woken and one on its way to sleep; the
  third has no gate. Two notifications are one before and one after any wait.
* *Command lines.* Five arguments are two operations, the second with the first's
  result; the integers are the extremes of the int, -1, 0, and one that is cut.
* *Nodes.* Three are needed for a node with two neighbours that are not the
  head; five additions reuse two of them.
* *Words.* The properties of `Checks` compare residues. With 16 values of a word
  and 4 of an int the two widths differ by more than the sign bit, so that a cast
  that cuts, one that extends a sign and one that does neither are told apart.

Deadlock is checked in every run. Where the program really stops, the end of the
process or the bound on tests, the model says so with an `Ended` step.

Symmetry is used in one run, `MockHeap_functions`, for its two parameters, which
nothing tells apart; its properties are invariants and one about single steps. The
other instances are small and most are checked with temporal properties.

## 5. Fairness

`TestSuite` assumes `WF_vars(_run_tests)` and `WF_vars(_run_test)`: the operating
system runs both threads, and main waits in `join` until the other is done. The
second covers the body of a test function, so it also says that a test function
ends. Without this nothing can be promised: the library has no timeout. Nothing
is assumed about *how* it ends: each fault, throw or abort is a choice the
scheduler is free never to take or to take at once. A body may catch faults
(`BodyCatchesFault`), each at most once since its signal stays blocked. 

`ThreadGate` assumes weak fairness of the controller's steps and of each thread's:
the operating system runs every thread that can run, and the mutex, asked for
finitely often since wake-ups are bounded, does not starve anyone. Nothing is
assumed of the program: it need not notify, join or destroy (`Calls` is not fair).
Wake-ups for nothing are not fair either. The other modules have no fairness: what
is checked of them is safety.

## 6. Disagreements between the code and what is said of it

With a run that shows it:

* `MockQueue_teardown`: `teardown_testing` frees what a test left queued
  (cmockery.cpp:172); for checks of parameters the depth is computed with
  pointer arithmetic on `int`, and it faults on the first.
* `TestAllocator_leak`: "Fail if any blocks are allocated after the specified
  check point" (cmockery.cpp:817). A check point whose block was freed and whose
  address was given out again hides what was allocated in between;
  `LeakMissedOnlyByRecycling` says that nothing else does.
* `TestSuite_null`: "Either setup or teardown can be NULL" (cmockery.h:281-282). A
  NULL setup is skipped before it pushes a state and its teardown is not: inside
  another pair that teardown is given the outer setup's check point and state, and
  the outer teardown fails `assert_true(number_of_test_states)` in main's thread,
  where nothing catches it. `TeardownsSeeTheirSetups` proves which setup a teardown
  gets, `AbortsAreExact` which arrays end like that.

Seen while modelling, and modelled, without a run of their own:

* `assert_false` has its condition the wrong way round (cmockery.cpp:1329, against
  cmockery.h:199): it passes what `assert_true` passes. `TruthExact` says so.
* The comment at cmockery.cpp:452 says an error in a running test does not leave
  the test program. `exit_test` rethrows with nothing being handled:
  `std::terminate`.
* Ranges are compared unsigned (565-592) where cmockery.h:114 speaks of a signed
  range: a negative value is above every other one, so that a range from -1 to 1 is
  empty. `SameTypeExact` says which range it is, by `WordOrder`.
* `memory_not_equal_display_error` counts equal bytes in an `int` and compares it
  with a `size_t`: areas longer than `INT_MAX` always differ.
* `Log::getInstance()` moves its one instance out to the first caller, at
  cmockery.cpp:72. `LOG_ERROR` in the catch clause for `std::exception` then works
  on a null pointer: a test that fails by `assert_fail` ends the program
  (`CatchStd`). assert_macro_test.cpp:25 and 32 say "This test will fail" of two
  tests in a row; the second is never run.
* A handler that throws leaves its signal blocked in the thread: the second fault of
  a function is not caught, as the comment at cmockery.cpp:428 has it, but kills
  (`Fault`).
* `expect_assert_failure` takes any exception, a fault's too, for the assertion it
  expects (cmockery.h:369), and the test passes though `mock_assert` was not called
  (`BodyCatchesFault`).
* The handlers installed for a test are never put back (comment at
  cmockery.cpp:436).
* `current_state` stays at the popped element: a test after a pair, or after a
  pair inside another, is handed the state of the pair that is over (comment at
  1015).
* A teardown's failure adds to `total_failed` and not to `tests_executed`: "2
  out of 1 tests failed".
* `expect_check` passes the count 0 (cmockery.h:94-96), which
  `_check_expected` reads as "not found" (1231). `MissingMeansAbsent` and
  `MockContract` name the exception.
* `_will_return` allocates before it asserts the count: the block is lost
  (`Lost` in `LeakExact`).
* `_test_free` asserts the address of its parameter, so `free(NULL)` faults
  (`FreeNull`).
* `mock_assert` takes an `int`: a pointer or `long` whose low half is zero is
  taken for a failed assertion.
* `_test_new` catches `bad_alloc` and writes through the null pointer
  (`TestNewFails`).
* The loop that installs handlers runs 20 times over arrays of 5 elements
  (`sizeof` of the array, not its length). What is behind them is up to the
  linker; only the handlers it means to install are modelled.
* An expected string is kept by its address (1146): what is compared is the text
  there at the time of the check.

## 7. Proofs

All theorems hold for every value of the constants that satisfies the named
assumptions (`SuitesAssumption`, `ExitStatusesAssumption`,
`CircularListAssumption`, `TestAllocatorAssumption`, `MallocLayoutAssumption`,
`MockQueueAssumption`, `MockHeapAssumption`, `ChecksAssumption`,
`CalculatorAssumption`, `ThreadGateAssumption`), which say no more than their types,
except that heads and nodes are different addresses and nodes finite in number; that
functions are different from their parameters; that the top of the memory is at least
a block's overhead below the top of the address space; and that an int has an even
number of values, which divides that of a word. One theorem, `ImplementsContract` of
the queues, has a hypothesis more, `DocumentedCounts`, and says so below.

**TestSuiteProof.** `TypeCorrect`, `StoresAreInBounds`, `VerdictIsSound`,
`NamesAreExact`, `ExitStatusIsExact`, for suites of every length. None of these
is inductive. The invariant is

    IInv == TypeOK /\ ControlInv /\ CountInv /\ VerdictInv /\ NamesInv

`ControlInv` ties the two threads' places to each other (main is in `join`
exactly while there is a thread, and reports only when it returns);
`CountInv` says no counter runs ahead of the loop, which is what keeps the
unchecked stores in their arrays and `TypeOK` inductive; `VerdictInv` relates
`total_failed` to the verdicts of the functions handled so far, and contains the
heart of the matter, `previous_test_failed = 1 => total_failed > 0`: that is why
a teardown's failure may go uncounted; `NamesInv` says the same of the slots
below `total_failed`, strictly increasing, so that a slot written for an
uncounted teardown is never among them. Each action has a step of its own
(`LoopInv`, `ThreadInv`, `TeardownInv`, `JoinInv`), `Join` being the long one.

`ImplementsReport` is the safety part of `KeepsContract`: `Init` implies the
report's `Init`, and every step, under the invariant, is one of the report's or
leaves its variables unchanged (`ContractStep`).

`SkipsAreExact`, `AbortsAreExact` and `TeardownsSeeTheirSetups` need more of the
history, and have an invariant of their own, `PathInv`, under `IInv`. `SkipInv` says
what `run_next_test = 0` stands for: a setup that failed with nothing but teardowns
and NULL functions since; and that what has no verdict so far is what such setups or
a NULL made the loop pass over. `NestingInv` says that the loop has counted the
setups and teardowns of the array so far. `StackInv` says that the slot of each
level j of `test_states` was filled by the last setup that opened that level, and
not closed since; since what is between is at deeper levels, its check point is
still there when its teardown comes. The pairs are those of the functions that are
not NULL, as in the code, so that the theorem needs no hypothesis on the array; that
they differ from the pairs a suite declares is what `TestSuite_null` shows.

`ExitStatusIsExact` is for suites of any length and an exit status of any number of
values, the wrap included. `CountedInv` says that `total_failed` is the number of
counted failures among the functions handled so far; `Join` is the step that matters:
a failure joins this set exactly when it is counted, since `previous_test_failed`
says whether the last test or setup before a teardown is a test that failed.

**MockProof, part 1.** `TypeCorrect`, `MissingIsAbsent`, `ImplementsContract`, for
any functions, parameters, counts, values and bounds. The first lemmas say what
putting, taking and dropping do to a map, one level deep and two; then `QueueOf`
makes one of both maps, and each action has a step in those terms, so that
`result_map` and `parameter_map` are reasoned about once. The invariant is `Follows`:
the queue of a symbol is what is left of its declarations, the first of them with
its count reduced by its uses and all others with none, and what is gone has been
used up. `LocationsTell` says that a location is not declared twice. From there a
use finds the declaration that is due (`DueIsHead`), and what the leftover check
drops is satisfied (`DroppedIsSatisfied`). `ImplementsContract` assumes
`DocumentedCounts`: a parameter's count is a number of uses or -1. Of a count below
-1 the code makes a value used for ever that also counts as used already: it is
dropped at the end of a test that never used it. For results there is an assertion.

**MockProof, part 2.** `HeapAlwaysMatches`, `PointsAlwaysHold`, `LeaksAreExact`:
all of `MockHeap_functions`, for any number of functions, parameters and blocks.
The invariant is the queues' `IInv` with `MapsEmpty` (between functions the maps
are empty) and `HeapHolds`. What the maps lead to is given by the symbols that
have a queue (`Named`), the functions above them (`Checked`) and the locations in
the queues (`QueuedAt`); each step changes these three, and `ReachableIs` makes
blocks of them. `PointsSplit` says what a check point is worth though its block may be
freed and its address given out again: no block that was there when it was taken is
behind it; it names no newer block unless its own was freed; and the open setup's was
taken no later than the current one. With the maps empty when the check comes, what is
behind the check point is then what is to be blamed, or, with its address given out
again, the part of that which came after (`AfterIsBlamed`).

**ChecksProof.** `SameTypesAreExact`, `NegationsAreExact`, `TruthsAreExact`, for
words and ints of any size. A behaviour is one call, and the invariant `Decided`
says by which comparison of which casts it passed. The rest is arithmetic: `CastIs`
is what a cast leaves of a value of each type, and that it leaves different values
of one type different; `OrderIs`, that it leaves them in `WordOrder`; `ToIntKeeps` and
`ToIntZero` are what the `int` of
`mock_assert` leaves.

**CalculatorProof.** `StaysInBounds`, `ValuesAreExact`, `VerdictIsExact`,
`AlwaysCleansUp`, for lines of any length, any table of operators and any even
number of ints. The invariant is `CInv`: with n operations done, the loop is at
argument 2n + 1, n values are stored, each is what its operator makes of the one
before, and all arguments passed over were integers or operators in their places
(`Did`). What is left, or what it stopped at, then says whether the line was well
formed. The arithmetic is `Narrowing` (the conversion to `int` leaves the one int of
its residue) and `QuotientFits`: a quotient of ints is one, but for the least by -1.

**CircularListProof.** `RingsStayClosed`, `ListsStayInOrder`, `TypeCorrect`,
`ImplementsSequences`, for any heads and any finite set of nodes. `RingClosed` alone
is not inductive: a node linked to itself, or a ring of nodes without a head,
satisfies it and breaks with the next removal. `InOrder` rules these out, since the order of addition cannot go
round; it needs in turn that what a head leads to is its own (`HeadsLead`) and
that no node is newer than the count of additions (`Added`). `PrevInList`
derives from these where `prev` leads. `WalkInv` says that a walk stands at its
head or at a live node of its list and holds the pointer that was next, and that
nothing but the walk touches its list: so it never follows freed memory, whatever
its body and the callbacks remove.

`ImplementsSequences` is `KeepsSequence`, all of it, since `ListContract` asks for no
progress. A list's sequence is where its pointers lead. Following them to the end would need an
induction over the length, which the installed provers cannot instantiate; so a path is any sequence of nodes
of the list along which `next` leads from the head to the head (`IsPath`); there is
at most one, since two would part at a first node (`OnePath`), and it visits no node
twice (`PathDistinct`), so it is no longer than the list has nodes (`PathBound`) and
`From` finds it (`SoughtIs`). That there is one, and that it leaves no node of the
list out, is the invariant `PathInv`, kept step by step: `list_add` appends to the
path (`AddPath`), `list_remove` takes a place out of it (`RemovePath`), other lists
keep theirs. A walk is at a place of the path (`WalkSomewhere`), and has the rest of
it to see (`WalkIs`), which does not change when the node at that place goes
(`RestAfterRemove`).

**TestAllocatorProof.** `TypeCorrect`, `OrderIsKept`, `GuardsAreChecked`,
`NoLeakIsInvented`, `LeaksAreFreed`, `OnlyRecyclingHidesLeaks`: with `TypeOK`, all
that `TestAllocator_blocks` checks. The invariant is

    IInv == TypeOK /\ OrderKept /\ ClockAhead /\ PointsSplit /\ NotOkYet

`PointsSplit` is what a check point is worth after any number of frees and reuses:
every block as old as it is is at or before it in the list, or, for the head, there
is none. It holds even when the check point's own block is gone, since its address
keeps its serial number until it is given out again, with a larger one. All that
frees blocks cuts a piece out of the list (`CutParts`, `CutElements`), one block or
all of a walk up to the first corrupt one (`WalkCuts`). From the order,
`PointDivides` then says which blocks behind and before the check point are newer,
and the three theorems about leaks follow.

**MallocLayoutProof.** `TypeCorrect`, `PartsAreInPlace`, `GuardsAreExact`,
`FreedTwiceIsCaught`, `OthersStayUntouched`, `OverrunIsCaught`, for memories, words,
guards, headers, alignments and requests of any size. The heart is `NewBlockSound`:
a size that wraps asks the system for less than the overhead, or for a region that
ends below the top of memory; in both cases the address that is returned, rounded,
leaves a header and a guard below it and the bytes and a guard above it in the
region. From there, blocks in use lie apart (`BlocksApart`), each write of the
allocator touches one of them only, and a byte is a guard's only in a block in use
(`NoStrayGuards`).

**ThreadGateProof.** `TypeCorrect`, `NoWakeupIsLost`, `FieldsAreInPlace`,
`ThreadsAreJoinedOnce`, `ImplementsGate`, for any number of threads. The invariant
is `TypeOK`, which says who is inside the mutex, with `CallFits` (which call the
controller is in, and of which thread), `ObjectFits` (a thread runs only while its
object is there), `JoinedOnce` and `NoLostWakeup`. `ImplementsGate` is the safety
part of `KeepsGate`: `StateForCases` says which steps change the state `StateOf`
maps to, `MovesOfGate` that they are the gate's, `UnseenByGate` that all others
leave it alone.

Model-checked only:

* liveness: `Termination`, `CallsReturn` and the fairness in `KeepsContract` of
  `TestSuite` and in `KeepsGate`. Liveness under fairness, and the ENABLED it is
  made of, is out of the prover's reach;
* `NullPairsHold`, `TeardownSurvives` and `LeakFound`, which the runs of section 6
  find violated.

## 8. Not modelled

* What a program does that writes into a block's header, or far from any block.
* The overflow of an always-value's count after 2^31 uses.
* Formatting, printing, the log's levels and file, timing.
* The log's levels, lines and file: `CatchStd` of `TestSuite` has what its hand-over
  does to a run, which never gets as far as writing a line.
* `RE` and `CTestLog` (declared, never defined), the matchers.
* `_expect_in_set`, `_assert_in_range` and the like: `cmockery.h` declares them and
  no file defines them. The comparisons they would call are in `Checks`.
* The template `_assert_equal`, which nothing declares to a test or instantiates.
* `_expect_check` with an event of the caller's: no macro passes one.
* The examples but the calculator, except as evidence; build files and generated
  documents.
