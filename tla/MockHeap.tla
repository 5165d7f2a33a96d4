------------------------------ MODULE MockHeap ------------------------------
(***************************************************************************)
(* The queues of MockQueue in the heap they share with the test: their     *)
(* malloc and free are the allocator's, so their blocks are in the list in *)
(* which _run_test looks for what a function leaked, between the function's*)
(* own.  Here each action of MockQueue says which blocks it adds to that   *)
(* list and which it takes out, and the functions run are tests, setups    *)
(* and teardowns, with the check points _run_tests and _run_test take.     *)
(* New blocks go to the end of the list, so that it is told here by the    *)
(* order of allocation: a block's place is how many were allocated before. *)
(* A check point is an address: when the block there is freed, it stays    *)
(* where it was, until a new block is given that address.                  *)
(***************************************************************************)
EXTENDS MockQueue

CONSTANT MaxOwn     \* bound: blocks that functions allocate for themselves

ASSUME MockHeapAssumption == MaxOwn \in Nat

VARIABLES
    heap,           \* global_allocated_blocks: from places to blocks
    clock,          \* blocks allocated so far
    kind,           \* function_type of the function running
    check_point,    \* the place of the block _run_test compares the list with
    setup_point,    \* that of the one a setup left for its teardown
    leak,           \* what fail_if_blocks_allocated said of this function
    own,            \* bounded counter: blocks of functions
    \* history of the two check points: the clock when each was taken, and
    \* whether a function has freed the block it stood on
    since, setup_since, given_back, setup_given_back

points == <<check_point, setup_point>>
past == <<since, setup_since, given_back, setup_given_back>>
blocks == <<heap, clock>>
runner == <<kind, past, leak, own>>
heap_vars == <<vars, blocks, points, runner>>

Head0 == 0
NoPoint == -1

(* Two blocks each: a queued value and its node; a symbol that has a queue *)
(* and its node; the symbol of a function, above its parameters'.          *)
Element(at) == <<"element", at>>
Symbol(k) == <<"symbol", k>>
FunctionSymbol(f) == <<"function", f>>
(* One block: of a function, and of a refused declaration.                 *)
Own == <<"own">>
Lost == <<"lost">>

OfFunctions(b) == b[1] \in {"own", "lost"}

(* The new blocks go last; one of them may be given the address of a freed *)
(* block that a check point, or both, still names.                         *)
Dangles(point) == point \notin DOMAIN heap \cup {Head0, NoPoint}
GivenAgain(point, places) == {point} \cup (IF Dangles(point) THEN places ELSE {})

Allocate(new) ==
    LET places == (clock + 1)..(clock + Len(new))
    IN  /\ heap' = [n \in DOMAIN heap \cup places |->
                       IF n \in DOMAIN heap THEN heap[n] ELSE new[n - clock]]
        /\ clock' = clock + Len(new)
        /\ check_point' \in GivenAgain(check_point, places)
        /\ setup_point' \in GivenAgain(setup_point, places)
        /\ check_point' = setup_point' <=> check_point = setup_point
FreeAll(removed) ==
    /\ heap' = Restrict(heap, {n \in DOMAIN heap : heap[n] \notin removed})
    /\ UNCHANGED <<clock, points>>
NewSymbol(isNew, symbol) == IF isNew THEN <<symbol>> ELSE <<>>

LastBlock == Max(DOMAIN heap \cup {Head0})

HeapInit ==
    /\ Init
    /\ heap = EmptyMap
    /\ clock = 0
    /\ kind = "none"
    /\ check_point = Head0
    /\ setup_point = NoPoint
    /\ leak = "none"
    /\ own = 0
    /\ since = 0
    /\ setup_since = 0
    /\ given_back = FALSE
    /\ setup_given_back = FALSE

-----------------------------------------------------------------------------
(* Functions begin, and use the heap for themselves                        *)

Begins(type) ==
    /\ BeginTest
    /\ kind' = type
    /\ leak' = "unchecked"
    /\ UNCHANGED <<blocks, own>>

BeginUnitTest ==
    /\ Begins("TEST")
    /\ check_point' = LastBlock
    /\ since' = clock
    /\ given_back' = FALSE
    /\ UNCHANGED <<setup_point, setup_since, setup_given_back>>

BeginSetup ==
    /\ setup_point = NoPoint
    /\ Begins("SETUP")
    /\ check_point' = LastBlock
    /\ setup_point' = LastBlock
    /\ since' = clock
    /\ setup_since' = clock
    /\ given_back' = FALSE
    /\ setup_given_back' = FALSE

BeginTeardown ==
    /\ setup_point # NoPoint
    /\ Begins("TEARDOWN")
    /\ check_point' = setup_point
    /\ since' = setup_since
    /\ given_back' = setup_given_back
    /\ setup_point' = NoPoint
    /\ UNCHANGED <<setup_since, setup_given_back>>

Malloc ==
    /\ phase = "body"
    /\ own < MaxOwn
    /\ own' = own + 1
    /\ Allocate(<<Own>>)
    /\ UNCHANGED <<vars, kind, past, leak>>

(* Any block that a function took for itself, this one or an earlier: also *)
(* one that a check point stands on.                                       *)
Free(n) ==
    /\ phase = "body"
    /\ heap[n] = Own
    /\ heap' = Restrict(heap, DOMAIN heap \ {n})
    /\ given_back' = (given_back \/ n = check_point)
    /\ setup_given_back' = (setup_given_back \/ n = setup_point)
    /\ UNCHANGED <<vars, clock, points, kind, since, setup_since, leak, own>>

-----------------------------------------------------------------------------
(* The queues.  Operators named Bad... are plausible mistakes; nothing     *)
(* uses them.                                                              *)

HeapWillReturn(f, count) ==
    /\ WillReturn(f, count)
    /\ Allocate(NewSymbol(f \notin DOMAIN result_map, Symbol(f))
                \o <<Element(location + 1)>>)
    /\ UNCHANGED runner

HeapWillReturnRefused(count) ==
    /\ WillReturnRefused(count)
    /\ Allocate(<<Lost>>)
    /\ UNCHANGED runner

HeapExpect(f, p, accepts, count) ==
    /\ Expect(f, p, accepts, count)
    /\ Allocate(NewSymbol(f \notin DOMAIN parameter_map, FunctionSymbol(f))
                \o NewSymbol(p \notin DOMAIN At(parameter_map, f, EmptyMap),
                             Symbol(<<f, p>>))
                \o <<Element(location + 1)>>)
    /\ UNCHANGED runner

(* The element whose last use this is, and the symbols it leaves empty.    *)
LastUse(queue) == queue[1].refcount = 1
BadEmptied(queue, symbols) == {}
Emptied(queue, symbols) == IF LastUse(queue) /\ Len(queue) = 1 THEN symbols ELSE {}
Taken(queue) == IF LastUse(queue) THEN {Element(queue[1].location)} ELSE {}

HeapMock(f) ==
    /\ Mock(f)
    /\ FreeAll(Taken(result_map[f]) \cup Emptied(result_map[f], {Symbol(f)}))
    /\ UNCHANGED runner

HeapCheckExpected(f, p, value) ==
    /\ CheckExpected(f, p, value)
    /\ LET queue == parameter_map[f][p]
           alone == DOMAIN parameter_map[f] = {p}
       IN  FreeAll(Taken(queue)
                   \cup Emptied(queue, {Symbol(<<f, p>>)})
                   \cup Emptied(queue, IF alone THEN {FunctionSymbol(f)} ELSE {}))
    /\ UNCHANGED runner

HeapUnset ==
    /\ \E f \in Functions : MockUnset(f) \/ \E p \in Parameters : CheckUnset(f, p)
    /\ UNCHANGED <<blocks, points, runner>>

-----------------------------------------------------------------------------
(* The end of a function                                                   *)

HeapBodyThrows == BodyThrows /\ UNCHANGED <<blocks, points, runner>>

(* remove_always_return_values, on both maps, before the leak check.       *)
DroppedFrom(map) ==
    {Element(map[s][1].location) : s \in {s \in DOMAIN map : map[s][1].refcount < -1}}
BadDropped == {}
Dropped ==
    DroppedFrom(result_map)
    \cup (UNION {DroppedFrom(parameter_map[f]) : f \in DOMAIN parameter_map})
    \cup {Symbol(f) : f \in DOMAIN result_map \ DOMAIN DropAlways(result_map)}
    \cup {FunctionSymbol(f) :
             f \in DOMAIN parameter_map \ DOMAIN DropAlwaysNested(parameter_map)}
    \cup (UNION {{Symbol(<<f, p>>) :
             p \in DOMAIN parameter_map[f] \ DOMAIN DropAlways(parameter_map[f])} :
             f \in DOMAIN parameter_map})

HeapFailIfLeftoverValues ==
    /\ FailIfLeftoverValues
    /\ FreeAll(Dropped)
    /\ UNCHANGED runner

(* fail_if_blocks_allocated walks from the block that the check point      *)
(* names, whichever it is by now.                                          *)
After == {n \in DOMAIN heap : n > check_point}

ChecksBlocks ==
    /\ phase = "teardown"
    /\ verdict = "passed"
    /\ kind # "SETUP"
    /\ leak = "unchecked"
    /\ UNCHANGED <<vars, clock, points, kind, past, own>>

(* A leak is thrown as a std::exception, which the process does not        *)
(* outlive (TestSuite); what was leaked has been freed.                    *)
FailIfBlocksAllocated ==
    /\ ChecksBlocks
    /\ ~ Dangles(check_point)
    /\ leak' = IF After = {} THEN "none" ELSE "found"
    /\ heap' = Restrict(heap, DOMAIN heap \ After)

(* The node there holds the free pattern, and following it faults.         *)
CheckPointFreed ==
    /\ ChecksBlocks
    /\ Dangles(check_point)
    /\ leak' = "fault"
    /\ UNCHANGED heap

InQueue(k, queue) == {Symbol(k)} \cup {Element(queue[i].location) : i \in DOMAIN queue}
InResultMap == UNION {InQueue(f, result_map[f]) : f \in DOMAIN result_map}
BadTornDown == {}
TornDown == InResultMap

HeapTeardownTesting ==
    /\ kind = "SETUP" \/ verdict = "threw" \/ leak = "none"
    /\ TeardownTesting
    /\ FreeAll(TornDown)
    /\ UNCHANGED runner

HeapEnded ==
    /\ \/ phase = "dead"
       \/ phase = "idle" /\ test = MaxTests
       \/ leak \in {"found", "fault"}
    /\ UNCHANGED heap_vars

HeapNext ==
    \/ BeginUnitTest \/ BeginSetup \/ BeginTeardown
    \/ Malloc
    \/ \E n \in DOMAIN heap : Free(n)
    \/ \E f \in Functions :
          \/ \E count \in ResultCounts : HeapWillReturn(f, count)
          \/ HeapMock(f)
          \/ \E p \in Parameters :
                \/ \E accepts \in Acceptable, count \in ExpectCounts :
                      HeapExpect(f, p, accepts, count)
                \/ \E value \in Values : HeapCheckExpected(f, p, value)
    \/ \E count \in ResultCounts : HeapWillReturnRefused(count)
    \/ HeapUnset
    \/ HeapBodyThrows
    \/ HeapFailIfLeftoverValues
    \/ FailIfBlocksAllocated \/ CheckPointFreed
    \/ HeapTeardownTesting
    \/ HeapEnded

HeapSpec == HeapInit /\ [][HeapNext]_heap_vars

-----------------------------------------------------------------------------
(* Properties                                                              *)

(* What the maps lead to and what of theirs is in the list are the same    *)
(* blocks, each once, wherever among the function's own they stand: none   *)
(* is freed while a map leads to it, none stays when it no longer does.    *)
InFunction(f) ==
    {FunctionSymbol(f)}
    \cup UNION {InQueue(<<f, p>>, parameter_map[f][p]) : p \in DOMAIN parameter_map[f]}
Reachable == InResultMap \cup UNION {InFunction(f) : f \in DOMAIN parameter_map}

HeapMatches ==
    /\ phase # "dead" => {b \in Range(heap) : ~ OfFunctions(b)} = Reachable
    /\ \A m, n \in DOMAIN heap :
          heap[m] = heap[n] /\ ~ OfFunctions(heap[m]) => m = n

(* A check point is taken on a block of a function's, or on the head, never*)
(* on a block of the queues, which would be gone when the list is compared *)
(* with it; and it stands on that block, whatever the queues do, for as    *)
(* long as no function frees it.                                           *)
Stands(point, given) ==
    point \notin {Head0, NoPoint} /\ ~ given =>
        point \in DOMAIN heap /\ OfFunctions(heap[point])

PointsHold == Stands(check_point, given_back) /\ Stands(setup_point, setup_given_back)

(* A function that got past the leftover check is failed for a leak        *)
(* exactly when a block is there that some function, or a refused          *)
(* will_return(), allocated since its check point was taken: it, or, for a *)
(* teardown, also its setup or one between the two, a test that threw      *)
(* included.  Only if a function gave back the block under the check       *)
(* point, what is older than the block there now is missed (LeakFound of   *)
(* TestAllocator).  What is freed are the blocks it is failed for; the     *)
(* queues, with all that is dropped from them just before, are never among *)
(* them.                                                                   *)
LeakExact ==
    [][leak = "unchecked" /\ leak' \in {"none", "found"} =>
          LET newer == {n \in DOMAIN heap : n > since}
              missed == IF given_back THEN {n \in newer : n <= check_point} ELSE {}
              blamed == newer \ missed
          IN  /\ leak' = "found" <=> blamed # {}
              /\ \A n \in blamed : OfFunctions(heap[n])
              /\ heap' = Restrict(heap, DOMAIN heap \ blamed)]_heap_vars
=============================================================================
