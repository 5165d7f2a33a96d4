---------------------------- MODULE TestAllocator ----------------------------
(***************************************************************************)
(* The heap of src/cmockery.cpp: _test_malloc and _test_free, which keep   *)
(* every block of the program in one list, in order of allocation; the     *)
(* guards around each block; and the check points that _run_tests and      *)
(* _run_test take of the list and compare it with when a function returns. *)
(* A check point is no more than a pointer to the last node of the list.   *)
(***************************************************************************)
EXTENDS Integers, Sequences, SequencesExt

CONSTANTS
    Addresses,          \* addresses malloc may return, freed ones again
    \* bounds
    MaxAllocations, MaxFunctions

HeadNode == 0           \* &global_allocated_blocks
NoNode == -1

ASSUME TestAllocatorAssumption ==
    /\ Addresses \subseteq Nat \ {0}
    /\ MaxAllocations \in Nat
    /\ MaxFunctions \in Nat

VARIABLES
    block_list,         \* global_allocated_blocks: its blocks, first to last
    corrupt,            \* blocks whose guards have been written over
    kind,               \* function_type of the function running, or "none"
    check_point,        \* the node _run_test compares the list with
    setup_check_point,  \* the node a setup left for its teardown
    process,
    functions,          \* how many functions have been run
    result,             \* how the last one ended
    \* history
    clock,              \* how many blocks have been allocated
    serial,             \* for each address, when its block was
    since,              \* clock when check_point was taken
    setup_since         \* clock when setup_check_point was

points == <<check_point, setup_check_point, since, setup_since>>
vars == <<block_list, corrupt, kind, points, process, functions, result,
          clock, serial>>

Tracked == ToSet(block_list)

(* check_point_allocated_blocks: the last node, or the head of no blocks.  *)
(* Operators named Bad... are plausible mistakes; nothing uses them.       *)
LastNode == IF block_list = <<>> THEN HeadNode ELSE Last(block_list)

Init ==
    /\ block_list = <<>>
    /\ corrupt = {}
    /\ kind = "none"
    /\ check_point = HeadNode
    /\ setup_check_point = NoNode
    /\ process = "running"
    /\ functions = 0
    /\ result = "none"
    /\ clock = 0
    /\ serial = [a \in Addresses |-> 0]
    /\ since = 0
    /\ setup_since = 0

-----------------------------------------------------------------------------
(* Functions begin                                                         *)

Begin(type) ==
    /\ process = "running"
    /\ kind = "none"
    /\ functions < MaxFunctions
    /\ functions' = functions + 1
    /\ kind' = type
    /\ result' = "none"
    /\ UNCHANGED <<block_list, corrupt, process, clock, serial>>

BadTestCheckPoint == HeadNode
TestCheckPoint == LastNode

BeginTest ==
    /\ Begin("TEST")
    /\ check_point' = TestCheckPoint
    /\ since' = clock
    /\ UNCHANGED <<setup_check_point, setup_since>>

BeginSetup ==
    /\ setup_check_point = NoNode
    /\ Begin("SETUP")
    /\ setup_check_point' = LastNode
    /\ setup_since' = clock
    /\ check_point' = LastNode
    /\ since' = clock

BeginTeardown ==
    /\ setup_check_point # NoNode
    /\ Begin("TEARDOWN")
    /\ check_point' = setup_check_point
    /\ since' = setup_since
    /\ setup_check_point' = NoNode
    /\ UNCHANGED setup_since

-----------------------------------------------------------------------------
(* What a function does to the heap                                        *)

Running == process = "running" /\ kind # "none"

(* The function ends by a std::exception, a fault or std::terminate: the   *)
(* process does not outlive it (see TestSuite).                            *)
EndProcess(how) ==
    /\ process' = "ended"
    /\ result' = how
    /\ UNCHANGED <<kind, points, functions, clock, serial>>

(* list_add puts the block's node last; both guards are written.           *)
BadListAdd(a) == <<a>> \o block_list
ListAdd(a) == Append(block_list, a)

TestMalloc(a) ==
    /\ Running
    /\ clock < MaxAllocations
    /\ a \notin Tracked
    /\ block_list' = ListAdd(a)
    /\ corrupt' = corrupt \ {a}
    /\ clock' = clock + 1
    /\ serial' = [serial EXCEPT ![a] = clock + 1]
    /\ UNCHANGED <<kind, points, process, functions, result>>

(* _test_new and _test_calloc keep the same books.                         *)
TestNew(a) == TestMalloc(a)
TestCalloc(a) == TestMalloc(a)

(* malloc has nothing left: assert_true(block) throws.                     *)
TestMallocFails ==
    /\ Running
    /\ EndProcess("assert_fail")
    /\ UNCHANGED <<block_list, corrupt>>

(* operator new throws; _test_new catches it and writes through the null.  *)
TestNewFails ==
    /\ Running
    /\ EndProcess("fault")
    /\ UNCHANGED <<block_list, corrupt>>

Overrun(a) ==
    /\ Running
    /\ a \in Tracked
    /\ corrupt' = corrupt \cup {a}
    /\ UNCHANGED <<block_list, kind, points, process, functions, result, clock,
                   serial>>

(* Where the block at an address is in the list.                           *)
PositionOf(a) == CHOOSE i \in 1..Len(block_list) : block_list[i] = a

BadGuardsIntact(a) == TRUE
GuardsIntact(a) == a \notin corrupt

TestFree(a) ==
    /\ Running
    /\ a \in Tracked
    /\ \/ /\ GuardsIntact(a)
          /\ block_list' = RemoveAt(block_list, PositionOf(a))
          /\ UNCHANGED <<corrupt, kind, points, process, functions, result,
                         clock, serial>>
       \/ /\ ~ GuardsIntact(a)
          /\ EndProcess("memory_err")
          /\ UNCHANGED <<block_list, corrupt>>

(* A block freed before: its guards hold MALLOC_FREE_PATTERN, or the block *)
(* is in other hands by now.                                               *)
FreeAgain(a) ==
    /\ Running
    /\ a \notin Tracked
    /\ serial[a] > 0
    /\ \/ EndProcess("memory_err")
       \/ EndProcess("fault")
    /\ UNCHANGED <<block_list, corrupt>>

(* free(NULL): the assertion looks at the address of the argument, which   *)
(* is never null, and the header before address 0 is read.                 *)
FreeNull ==
    /\ Running
    /\ EndProcess("fault")
    /\ UNCHANGED <<block_list, corrupt>>

-----------------------------------------------------------------------------
(* Functions end                                                           *)

EndOk ==
    /\ kind' = "none"
    /\ result' = "ok"
    /\ UNCHANGED <<block_list, corrupt, points, process, functions, clock, serial>>

(* Thrown past _run_test's check of the blocks: they stay where they are.  *)
BodyThrows ==
    /\ Running
    /\ kind' = "none"
    /\ result' = "threw"
    /\ UNCHANGED <<block_list, corrupt, points, process, functions, clock, serial>>

SetupReturns ==
    /\ Running
    /\ kind = "SETUP"
    /\ EndOk

CheckPointAlive == check_point \in {HeadNode} \cup Tracked

(* The blocks the walk from check_point->next to the head visits.          *)
Position == IF check_point = HeadNode THEN 0 ELSE PositionOf(check_point)
BadBefore == <<>>
Before == SubSeq(block_list, 1, Position)
BadAfter == SubSeq(block_list, Position + 2, Len(block_list))
After == SubSeq(block_list, Position + 1, Len(block_list))

(* fail_if_blocks_allocated; free_allocated_blocks stops at the first      *)
(* block whose guards are corrupt, having freed those before it.           *)
FailIfBlocksAllocated ==
    /\ Running
    /\ kind # "SETUP"
    /\ CheckPointAlive
    /\ \/ /\ After = <<>>
          /\ EndOk
       \/ /\ After # <<>>
          /\ ToSet(After) \cap corrupt = {}
          /\ block_list' = Before
          /\ EndProcess("memory_leak")
          /\ UNCHANGED corrupt
       \/ /\ \E i \in 1..Len(After) :
                /\ After[i] \in corrupt
                /\ \A j \in 1..(i - 1) : After[j] \notin corrupt
                /\ block_list' = Before \o SubSeq(After, i, Len(After))
          /\ EndProcess("memory_err")
          /\ UNCHANGED corrupt

(* The check point's own block was freed: its node holds the free pattern, *)
(* and following it faults.                                                *)
CheckPointFreed ==
    /\ Running
    /\ kind # "SETUP"
    /\ ~ CheckPointAlive
    /\ EndProcess("fault")
    /\ UNCHANGED <<block_list, corrupt>>

Ended ==
    /\ \/ process = "ended"
       \/ /\ kind = "none"
          /\ functions = MaxFunctions
    /\ UNCHANGED vars

Next ==
    \/ BeginTest \/ BeginSetup \/ BeginTeardown
    \/ \E a \in Addresses :
          TestMalloc(a) \/ TestNew(a) \/ TestCalloc(a) \/ Overrun(a)
          \/ TestFree(a) \/ FreeAgain(a)
    \/ TestMallocFails \/ TestNewFails \/ FreeNull
    \/ BodyThrows \/ SetupReturns \/ FailIfBlocksAllocated \/ CheckPointFreed
    \/ Ended

Spec == Init /\ [][Next]_vars

-----------------------------------------------------------------------------
(* Properties                                                              *)

TypeOK ==
    /\ block_list \in Seq(Addresses)
    /\ corrupt \subseteq Addresses
    /\ kind \in {"none", "TEST", "SETUP", "TEARDOWN"}
    /\ check_point \in Addresses \cup {HeadNode}
    /\ setup_check_point \in Addresses \cup {HeadNode, NoNode}
    /\ process \in {"running", "ended"}
    /\ functions \in 0..MaxFunctions
    /\ result \in {"none", "ok", "threw", "assert_fail", "memory_err",
                   "memory_leak", "fault"}
    /\ {clock, since, setup_since} \subseteq 0..MaxAllocations
    /\ serial \in [Addresses -> 0..MaxAllocations]

(* Blocks of the heap that were allocated after the check point was taken. *)
Newer == {a \in Tracked : serial[a] > since}

(* The list is in order of allocation, with no block twice: all that a     *)
(* check point relies on, whichever blocks were freed and addresses reused.*)
OrderKept ==
    \A i, j \in 1..Len(block_list) :
        i < j => serial[block_list[i]] < serial[block_list[j]]

(* A test or teardown that passes leaves no block allocated since its      *)
(* check point was taken, for a teardown the one before its setup          *)
(* ("fail if any blocks are allocated after the specified check point").   *)
LeakFound ==
    [][(kind \in {"TEST", "TEARDOWN"} /\ result' = "ok") => (Newer = {})]_vars

(* What a check point misses: its own block was freed, malloc gave the     *)
(* address out again, and the walk starts behind the block that has it.    *)
Recycled == check_point # HeadNode /\ serial[check_point] > since
Missed ==
    {a \in Newer : Recycled /\ serial[a] <= serial[check_point]}

(* Nothing else hides a leak: whatever is freed, reused, overrun or left   *)
(* behind by others, a function passes only when all the blocks left that  *)
(* are newer than its check point are those before a recycled one.         *)
LeakMissedOnlyByRecycling ==
    [][(kind \in {"TEST", "TEARDOWN"} /\ result' = "ok") => (Newer = Missed)]_vars

(* A leak is reported only for a block allocated since the check point was *)
(* taken: by the test itself, or, for a teardown, by it, its setup or one  *)
(* that ran between the two, a test that threw included.  What had been    *)
(* there before is never the cause, nor what a recycled check point hides. *)
NoFalseLeak ==
    [][(result # "memory_leak" /\ result' = "memory_leak") => (Newer # Missed)]_vars

(* Reporting a leak frees all that is seen of it and none of what is older. *)
LeakFreed ==
    [][result # "memory_leak" /\ result' = "memory_leak"
          => Tracked' = (Tracked \ Newer) \cup Missed]_vars

(* No block leaves the heap with its guards written over, not even among   *)
(* those freed for a function that leaked them.                            *)
GuardsChecked == [][Tracked \cap corrupt \subseteq Tracked']_vars
=============================================================================
