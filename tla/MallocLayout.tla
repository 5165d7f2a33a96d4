---------------------------- MODULE MallocLayout ----------------------------
(***************************************************************************)
(* The bytes of a block of src/cmockery.cpp's allocator.  The system's     *)
(* malloc gives a region; in it _test_malloc places, from a rounded        *)
(* address downwards, a guard and the MallocBlockInfo, and upwards the     *)
(* bytes asked for and a second guard.  _test_free has only the address    *)
(* and finds everything from it.  All arithmetic is size_t's.              *)
(* TestAllocator has the list these blocks are in; a fault ends what is    *)
(* modelled here, TestSuite has what becomes of it.                        *)
(***************************************************************************)
EXTENDS Integers

CONSTANTS
    Word,           \* how many values a size_t has
    Guard,          \* MALLOC_GUARD_SIZE
    Header,         \* sizeof(MallocBlockInfo)
    Alignment,      \* MALLOC_ALIGNMENT
    Memory,         \* addresses below this one can be read and written
    Requests,       \* pairs of a count and a size: calloc's arguments
    \* bounds
    MaxAllocations, MaxWrites

ASSUME MallocLayoutAssumption ==
    /\ {Guard, Header, Alignment} \subseteq Nat \ {0}
    /\ {Word, Memory} \subseteq Nat
    /\ Memory + Guard + Header + Alignment <= Word
    /\ Requests \subseteq (0..(Word - 1)) \X (0..(Word - 1))
    /\ {MaxAllocations, MaxWrites} \subseteq Nat

(* What a byte holds: a part of a header, one of the four patterns, zero,  *)
(* or something the program wrote ("data") or that was there before.       *)
Bytes == {"any", "header", "guard", "alloc", "freed", "zero", "data"}
Addresses == 0..(Memory - 1)

VARIABLES
    memory,
    live,       \* the MallocBlockInfos of the blocks not freed
    result,     \* how the last call ended
    \* history
    given,      \* the addresses that have been returned to the program
    dirty,      \* where the program last wrote something but the pattern
    allocations, writes

vars == <<memory, live, result, given, dirty, allocations, writes>>

-----------------------------------------------------------------------------
(* Where things are.  Operators named Bad... are plausible mistakes;       *)
(* nothing uses them.                                                      *)

Overhead == 2 * Guard + Header + Alignment
BadAllocateSize(size) == (size + 2 * Guard + Header) % Word
AllocateSize(size) == (size + Overhead) % Word

(* x & ~(MALLOC_ALIGNMENT - 1)                                             *)
RoundDown(x) == x - (x % Alignment)
Returned(block) == RoundDown(block + Guard + Header + Alignment)

Block(block, size) ==
    [block |-> block, size |-> size, ptr |-> Returned(block),
     allocated |-> AllocateSize(size)]

RegionOf(b) == b.block..(b.block + b.allocated - 1)
HeaderOf(b) == (b.ptr - Guard - Header)..(b.ptr - Guard - 1)
UserOf(b) == b.ptr..(b.ptr + b.size - 1)
GuardBefore(p) == (p - Guard)..(p - 1)
GuardAfter(b) == (b.ptr + b.size)..(b.ptr + b.size + Guard - 1)
GuardsOf(b) == GuardBefore(b.ptr) \cup GuardAfter(b)
ExtentOf(b) == (b.ptr - Guard - Header)..(b.ptr + b.size + Guard - 1)

Init ==
    /\ memory = [a \in Addresses |-> "any"]
    /\ live = {}
    /\ result = "none"
    /\ given = {}
    /\ dirty = {}
    /\ allocations = 0
    /\ writes = 0

Running == result \notin {"fault", "wild"}

Ends(how) ==
    /\ result' = how
    /\ UNCHANGED <<memory, live, given, dirty, allocations, writes>>

-----------------------------------------------------------------------------
(* Allocation                                                              *)

(* memset of the guards and of the bytes in between, then the header.      *)
BadInitialised(b, fill, a) ==
    IF a \in UserOf(b) THEN fill
    ELSE IF a \in GuardBefore(b.ptr) THEN "guard" ELSE "header"
Initialised(b, fill, a) ==
    IF a \in UserOf(b) THEN fill
    ELSE IF a \in GuardsOf(b) THEN "guard" ELSE "header"

(* malloc returns a region apart from those in use, with nothing known of  *)
(* its place; writing past the end of memory faults.                       *)
Allocate(size, fill) ==
    /\ Running
    /\ allocations < MaxAllocations
    /\ \E address \in 1..Memory :
          LET b == Block(address, size)
          IN  /\ address + b.allocated <= Memory
              /\ \A o \in live : RegionOf(o) \cap RegionOf(b) = {}
              /\ \/ /\ b.ptr + b.size + Guard > Memory
                    /\ Ends("fault")
                 \/ /\ b.ptr + b.size + Guard <= Memory
                    /\ memory' = [a \in Addresses |->
                           IF a \in ExtentOf(b) THEN Initialised(b, fill, a)
                           ELSE memory[a]]
                    /\ live' = live \cup {b}
                    /\ given' = given \cup {b.ptr}
                    /\ dirty' = dirty \ ExtentOf(b)
                    /\ result' = "ok"
                    /\ allocations' = allocations + 1
                    /\ UNCHANGED writes

_test_malloc(size) == Allocate(size, "alloc")
_test_new(size) == Allocate(size, "alloc")

(* number_of_elements * size wraps like any other size_t.                  *)
_test_calloc(number_of_elements, size) ==
    Allocate((number_of_elements * size) % Word, "zero")

(* Nothing left: _test_malloc's assert_true(block) throws and changes      *)
(* nothing; _test_new swallows bad_alloc and writes at the bottom of       *)
(* memory.                                                                 *)
MallocFails == Running /\ Ends("assert_fail")
NewFails == Running /\ Ends("fault")

-----------------------------------------------------------------------------
(* The program writes through the address it was given, up to the ends of  *)
(* the guards; what it writes may happen to be the pattern.                *)
Write(b, offset, byte) ==
    /\ Running
    /\ writes < MaxWrites
    /\ writes' = writes + 1
    /\ LET a == b.ptr + offset
       IN  /\ memory' = [memory EXCEPT ![a] = byte]
           /\ dirty' = IF byte = "guard" THEN dirty \ {a} ELSE dirty \cup {a}
    /\ result' = "ok"
    /\ UNCHANGED <<live, given, allocations>>

-----------------------------------------------------------------------------
(* _test_free                                                              *)

BadGuardsIntact(b) == \A a \in GuardBefore(b.ptr) : memory[a] = "guard"
GuardsIntact(b) == \A a \in GuardsOf(b) : memory[a] = "guard"

BadFilled(b, a) == memory[a]
Filled(b, a) == IF a \in RegionOf(b) THEN "freed" ELSE memory[a]

_test_free(b) ==
    /\ Running
    /\ \/ /\ GuardsIntact(b)
          /\ memory' = [a \in Addresses |-> Filled(b, a)]
          /\ live' = live \ {b}
          /\ dirty' = dirty \ RegionOf(b)
          /\ result' = "ok"
          /\ UNCHANGED <<given, allocations, writes>>
       \/ /\ ~ GuardsIntact(b)
          /\ Ends("memory_err")

(* An address that is no block's any more: what is below it decides, and   *)
(* the message of the error follows a pointer of the header that was.      *)
Stale == given \ {b.ptr : b \in live}
LooksGuarded(p) == \A a \in GuardBefore(p) : memory[a] = "guard"

FreeAgain(p) ==
    /\ Running
    /\ \/ LooksGuarded(p) /\ Ends("wild")
       \/ ~ LooksGuarded(p) /\ Ends("memory_err")
       \/ ~ LooksGuarded(p) /\ Ends("fault")

(* The assertion is on the address of the parameter, never null; then the  *)
(* bytes before address 0 are read.                                        *)
FreeNull == Running /\ Ends("fault")

Ended == ~ Running /\ UNCHANGED vars

Next ==
    \/ \E request \in Requests :
          \/ _test_malloc(request[2]) \/ _test_new(request[2])
          \/ _test_calloc(request[1], request[2])
    \/ MallocFails \/ NewFails \/ FreeNull
    \/ \E b \in live :
          \/ _test_free(b)
          \/ \E offset \in -Guard..(b.size + Guard - 1), byte \in {"data", "guard"} :
                Write(b, offset, byte)
    \/ \E p \in Stale : FreeAgain(p)
    \/ Ended

Spec == Init /\ [][Next]_vars

-----------------------------------------------------------------------------
(* Properties                                                              *)

TypeOK ==
    /\ memory \in [Addresses -> Bytes]
    /\ live \subseteq [block : 1..Memory, size : 0..Memory, ptr : 1..Memory,
                       allocated : Overhead..Memory]
    /\ result \in {"none", "ok", "memory_err", "assert_fail", "fault", "wild"}
    /\ given \subseteq 1..Memory
    /\ dirty \subseteq Addresses
    /\ allocations \in 0..MaxAllocations
    /\ writes \in 0..MaxWrites

(* Wherever malloc's region starts, whatever the size and however it       *)
(* wrapped: a block that was returned has its header, its bytes and both   *)
(* guards inside its region, and its address is aligned.                   *)
PartsInPlace ==
    \A b \in live :
        /\ b.block <= b.ptr - Guard - Header
        /\ b.ptr + b.size + Guard <= b.block + b.allocated
        /\ b.ptr % Alignment = 0

(* The library writes only in the region of the block it hands out or      *)
(* takes back: no other block's bytes, header or guards.                   *)
Wrote(b) == \A a \in Addresses : memory'[a] # memory[a] => a \in RegionOf(b)

OthersUntouched ==
    [][/\ \A b \in live' \ live : Wrote(b)
       /\ \A b \in live \ live' : Wrote(b)]_vars

(* A guard byte of a live block differs from the pattern exactly when the  *)
(* program wrote it so: what memory_err says is never the library's doing, *)
(* and an overrun is not healed by other blocks coming and going.          *)
GuardsExact ==
    \A b \in live : \A a \in GuardsOf(b) : memory[a] = "guard" <=> a \notin dirty

(* No block is taken back with a byte next to it overrun on either side.   *)
OverrunCaught == [][\A b \in live \ live' : GuardsOf(b) \cap dirty = {}]_vars

(* Freeing a block again is noticed by its guards until its memory is in   *)
(* use again: freed memory does not look like a guard.                     *)
FreedTwiceCaught ==
    \A p \in Stale : LooksGuarded(p) =>
        \E b \in live : RegionOf(b) \cap GuardBefore(p) # {}
=============================================================================
