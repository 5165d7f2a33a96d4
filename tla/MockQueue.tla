------------------------------ MODULE MockQueue ------------------------------
(***************************************************************************)
(* The values a test queues for its mocks, in src/cmockery.cpp: the map of *)
(* values that mock() returns (one level: function) and the map of checks  *)
(* that check_expected() makes (two levels: function, parameter), and the  *)
(* calls of a test, or of the code it tests, on them.  A map is a partial  *)
(* function from the symbols present in its list; a queue is a sequence of *)
(* list nodes.  The blocks they take from the heap are MockHeap's.         *)
(***************************************************************************)
EXTENDS Integers, Sequences, FiniteSets, Functions, SequencesExt

CONSTANTS
    Functions,          \* names of mocked functions
    Parameters,         \* names of their parameters
    Values,             \* values a parameter may be given
    Acceptable,         \* what an expectation may accept: sets of Values
    ResultCounts,       \* counts passed to will_return_count
    ExpectCounts,       \* counts passed to the expect macros
    \* bounds
    MaxDeclared, MaxUses, MaxTests

Always == -1

ASSUME MockQueueAssumption ==
    /\ Functions \cap (Functions \X Parameters) = {}
    /\ Acceptable \subseteq SUBSET Values
    /\ ResultCounts \subseteq Int
    /\ ExpectCounts \subseteq Int
    /\ {MaxDeclared, MaxUses, MaxTests} \subseteq Nat

Keys == Functions \cup (Functions \X Parameters)

(* Where a declaration stands in the source; what tells it from others.    *)
Locations == 1..(MaxDeclared * MaxTests)

VARIABLES
    result_map,         \* global_function_result_map_head
    parameter_map,      \* global_function_parameter_map_head
    last_mock_value, last_parameter,    \* locations, 0 when not set
    phase,              \* where _run_test is
    ended_by,           \* the function in which the process died, if it did
    location, uses, test,   \* bounded counters: declarations, uses, tests
    declared, used, missing, verdict,   \* history, as MockContract tells it
    lost                \* history: blocks of refused declarations

maps == <<result_map, parameter_map>>
lasts == <<last_mock_value, last_parameter>>
history == <<declared, used, missing, verdict>>
vars == <<maps, lasts, phase, ended_by, location, uses, test, history, lost>>

-----------------------------------------------------------------------------
(* Lists and maps                                                          *)

EmptyMap == [s \in {} |-> <<>>]

At(map, symbol, default) == IF symbol \in DOMAIN map THEN map[symbol] ELSE default
Put(map, symbol, value) ==
    [s \in DOMAIN map \cup {symbol} |-> IF s = symbol THEN value ELSE map[s]]

(* A symbol whose list has become empty is removed from the list above it. *)
DropEmpty(map) == Restrict(map, {s \in DOMAIN map : DOMAIN map[s] # {}})

(* add_symbol_value                                                        *)
AddValue(map, symbol, node) == Put(map, symbol, Append(At(map, symbol, <<>>), node))
AddNested(map, f, p, node) == Put(map, f, AddValue(At(map, f, EmptyMap), p, node))

(* Operators named Bad... are plausible mistakes; nothing uses them.       *)

(* get_symbol_value: the node at the head of the queue loses a reference   *)
(* and leaves the queue when none is left.                                 *)
Release(queue) ==
    IF queue[1].refcount = 1 THEN Tail(queue)
    ELSE [queue EXCEPT ![1].refcount = @ - 1]
TakeValue(map, symbol) == DropEmpty(Put(map, symbol, Release(map[symbol])))
TakeNested(map, f, p) == DropEmpty(Put(map, f, TakeValue(map[f], p)))

(* remove_always_return_values: only the head of each queue is looked at.  *)
BadDropAlways(map) ==
    DropEmpty([s \in DOMAIN map |->
        IF map[s][1].refcount < 0 THEN Tail(map[s]) ELSE map[s]])
DropAlways(map) ==
    DropEmpty([s \in DOMAIN map |->
        IF map[s][1].refcount < -1 THEN Tail(map[s]) ELSE map[s]])
DropAlwaysNested(map) == DropEmpty([f \in DOMAIN map |-> DropAlways(map[f])])

-----------------------------------------------------------------------------
Nothing == [k \in Keys |-> <<>>]
Unused == [l \in Locations |-> 0]

Init ==
    /\ result_map = EmptyMap
    /\ parameter_map = EmptyMap
    /\ last_mock_value = 0
    /\ last_parameter = 0
    /\ phase = "idle"
    /\ ended_by = "nobody"
    /\ location = 0
    /\ uses = 0
    /\ test = 0
    /\ declared = Nothing
    /\ used = Unused
    /\ missing = {}
    /\ verdict = "none"
    /\ lost = 0

(* initialize_testing makes both lists empty, without freeing anything.    *)
BeginTest ==
    /\ phase = "idle"
    /\ test < MaxTests
    /\ test' = test + 1
    /\ result_map' = EmptyMap
    /\ parameter_map' = EmptyMap
    /\ last_mock_value' = 0
    /\ last_parameter' = 0
    /\ phase' = "body"
    /\ uses' = 0
    /\ declared' = Nothing
    /\ used' = Unused
    /\ missing' = {}
    /\ verdict' = "none"
    /\ UNCHANGED <<ended_by, location, lost>>

(* A declaration is known by where it stands in the source: its location.  *)
Declare(k, count) ==
    /\ phase = "body"
    /\ location < MaxDeclared * test
    /\ location' = location + 1
    /\ declared' = [declared EXCEPT ![k] =
                       Append(@, [location |-> location + 1, count |-> count])]
    /\ UNCHANGED <<lasts, phase, ended_by, uses, test, used, missing, verdict,
                   lost>>

ValidCount(count) == count > 0 \/ count = -1

(* _will_return                                                            *)
WillReturn(f, count) ==
    /\ ValidCount(count)
    /\ Declare(f, count)
    /\ result_map' = AddValue(result_map, f,
                         [location |-> location + 1, refcount |-> count])
    /\ UNCHANGED parameter_map

(* assert_true(count > 0 || count == -1) throws when the value's block is  *)
(* allocated already; the test may catch it and go on.  Nothing points to  *)
(* the block any more: it is never freed.                                  *)
WillReturnRefused(count) ==
    /\ phase = "body"
    /\ uses < MaxUses
    /\ uses' = uses + 1
    /\ ~ ValidCount(count)
    /\ lost' = lost + 1
    /\ UNCHANGED <<maps, lasts, phase, ended_by, location, test, history>>

(* _expect_check, with no event of the caller's, and the _expect_*         *)
(* functions that call it: what they accept is the set `accepts`.          *)
Expect(f, p, accepts, count) ==
    /\ Declare(<<f, p>>, count)
    /\ parameter_map' = AddNested(parameter_map, f, p,
           [location |-> location + 1, refcount |-> count, accepts |-> accepts])
    /\ UNCHANGED result_map

UseOne ==
    /\ phase = "body"
    /\ uses < MaxUses
    /\ uses' = uses + 1
    /\ UNCHANGED <<location, test, declared, lost>>

(* exit_test(1) with no exception being handled: std::terminate.           *)
Abort(why) ==
    /\ phase' = "dead"
    /\ ended_by' = "exit_test"
    /\ verdict' = why

NotFound(k) == Abort("missing") /\ missing' = {k}
Found == UNCHANGED <<phase, ended_by, verdict, missing>>

(* get_symbol_value returns the reference count from before the use; 0     *)
(* stands for "not found".                                                 *)
BadReturnedCount(node) == node.refcount - 1
ReturnedCount(node) == node.refcount

(* _mock                                                                   *)
Mock(f) ==
    /\ UseOne
    /\ f \in DOMAIN result_map
    /\ LET node == result_map[f][1]
       IN  /\ result_map' = TakeValue(result_map, f)
           /\ IF ReturnedCount(node) # 0
              THEN /\ last_mock_value' = node.location
                   /\ used' = [used EXCEPT ![node.location] = @ + 1]
                   /\ Found
              ELSE /\ NotFound(f)
                   /\ UNCHANGED <<used, last_mock_value>>
    /\ UNCHANGED <<parameter_map, last_parameter>>

MockUnset(f) ==
    /\ UseOne
    /\ f \notin DOMAIN result_map
    /\ NotFound(f)
    /\ UNCHANGED <<maps, lasts, used>>

(* _check_expected: a check whose reference count was 0 is taken for       *)
(* "not found"; a value it does not accept is a call of _fail.             *)
CheckExpected(f, p, value) ==
    /\ UseOne
    /\ p \in DOMAIN At(parameter_map, f, EmptyMap)
    /\ LET queue == parameter_map[f][p]
           check == queue[1]
       IN  /\ parameter_map' = TakeNested(parameter_map, f, p)
           /\ IF ReturnedCount(check) # 0
              THEN /\ last_parameter' = check.location
                   /\ used' = [used EXCEPT ![check.location] = @ + 1]
                   /\ IF value \in check.accepts THEN Found
                      ELSE Abort("mismatch") /\ UNCHANGED missing
              ELSE /\ NotFound(<<f, p>>)
                   /\ UNCHANGED <<used, last_parameter>>
    /\ UNCHANGED <<result_map, last_mock_value>>

CheckUnset(f, p) ==
    /\ UseOne
    /\ p \notin DOMAIN At(parameter_map, f, EmptyMap)
    /\ NotFound(<<f, p>>)
    /\ UNCHANGED <<maps, lasts, used>>

-----------------------------------------------------------------------------
(* The end of a test in _run_test                                          *)

(* The function throws something that is not a std::exception (those end   *)
(* the process in the handler, see TestSuite).                             *)
BodyThrows ==
    /\ phase = "body"
    /\ phase' = "teardown"
    /\ verdict' = "threw"
    /\ UNCHANGED <<maps, lasts, ended_by, location, uses, test, declared, used,
                   missing, lost>>

(* The function returns: fail_if_leftover_values.                          *)
FailIfLeftoverValues ==
    /\ phase = "body"
    /\ result_map' = DropAlways(result_map)
    /\ parameter_map' = DropAlwaysNested(parameter_map)
    /\ IF result_map' = EmptyMap /\ parameter_map' = EmptyMap
       THEN phase' = "teardown" /\ verdict' = "passed" /\ UNCHANGED ended_by
       ELSE Abort("leftover")
    /\ UNCHANGED <<lasts, location, uses, test, declared, used,
                   missing, lost>>

(* teardown_testing: free_symbol_map_value computes the depth left to free *)
(* with pointer arithmetic on int, so a queued check is taken for a map    *)
(* and the process dies on it.                                             *)
TeardownTesting ==
    /\ phase = "teardown"
    /\ result_map' = EmptyMap
    /\ last_mock_value' = 0
    /\ IF parameter_map = EmptyMap
       THEN phase' = "idle" /\ last_parameter' = 0 /\ UNCHANGED ended_by
       ELSE phase' = "dead" /\ ended_by' = "teardown_testing" /\ UNCHANGED last_parameter
    /\ UNCHANGED <<parameter_map, location, uses, test, history, lost>>

Ended ==
    /\ \/ phase = "dead"
       \/ phase = "idle" /\ test = MaxTests
    /\ UNCHANGED vars

-----------------------------------------------------------------------------
Next ==
    \/ BeginTest
    \/ \E f \in Functions :
          \/ \E count \in ResultCounts : WillReturn(f, count)
          \/ Mock(f)
          \/ MockUnset(f)
          \/ \E p \in Parameters :
                \/ \E accepts \in Acceptable, count \in ExpectCounts :
                      Expect(f, p, accepts, count)
                \/ \E value \in Values : CheckExpected(f, p, value)
                \/ CheckUnset(f, p)
    \/ \E count \in ResultCounts : WillReturnRefused(count)
    \/ BodyThrows
    \/ FailIfLeftoverValues
    \/ TeardownTesting
    \/ Ended

Spec == Init /\ [][Next]_vars

-----------------------------------------------------------------------------
(* Properties                                                              *)

Node == [location : Locations, refcount : Int]
CheckNode == [location : Locations, refcount : Int, accepts : Acceptable]
Declaration == [location : Locations, count : Int]

(* A map with queues of such nodes under some of the symbols.              *)
IsMap(map, symbols, values) ==
    /\ DOMAIN map \subseteq symbols
    /\ map = [s \in DOMAIN map |-> map[s]]
    /\ \A s \in DOMAIN map : map[s] \in values
IsQueueMap(map, symbols, nodes) ==
    IsMap(map, symbols, Seq(nodes)) /\ \A s \in DOMAIN map : map[s] # <<>>

IsNestedMap(map) ==
    /\ DOMAIN map \subseteq Functions
    /\ map = [f \in DOMAIN map |-> map[f]]
    /\ \A f \in DOMAIN map :
          IsQueueMap(map[f], Parameters, CheckNode) /\ DOMAIN map[f] # {}

TypeOK ==
    /\ IsQueueMap(result_map, Functions, Node)
    /\ IsNestedMap(parameter_map)
    /\ {last_mock_value, last_parameter, location} \subseteq Locations \cup {0}
    /\ lost \in Nat
    /\ phase \in {"idle", "body", "teardown", "dead"}
    /\ ended_by \in {"nobody", "exit_test", "teardown_testing"}
    /\ uses \in 0..MaxUses
    /\ test \in 0..MaxTests
    /\ declared \in [Keys -> Seq(Declaration)]
    /\ used \in [Locations -> Nat]
    /\ missing \subseteq Keys
    /\ verdict \in {"none", "missing", "mismatch", "threw", "passed", "leftover"}

(* "Could not get value" is said only when nothing is queued for the       *)
(* symbol ("the node's old refcount value if a value is found, 0           *)
(* otherwise"), or when what was found had been declared with the count 0, *)
(* as expect_check does.                                                   *)
MissingMeansAbsent ==
    /\ missing \cap DOMAIN result_map = {}
    /\ \A f \in DOMAIN parameter_map : \A p \in DOMAIN parameter_map[f] :
          <<f, p>> \in missing =>
              [location |-> parameter_map[f][p][1].location, count |-> 0]
                  \in ToSet(declared[<<f, p>>])

(* The teardown after any test survives what the test left.                *)
TeardownSurvives == ended_by # "teardown_testing"

(* The queues implement MockContract: first declared first used, counts    *)
(* kept, nothing used that was not declared in this test, a pass only when *)
(* every declaration of every symbol has been used up.                     *)
Contract == INSTANCE MockContract
KeepsContract == Contract!Spec

=============================================================================
