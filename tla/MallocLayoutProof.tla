-------------------------- MODULE MallocLayoutProof --------------------------
(***************************************************************************)
(* Proofs about MallocLayout, for guards, headers, alignments, memories    *)
(* and requests of any size: its type invariant and all its safety         *)
(* properties.                                                             *)
(***************************************************************************)
EXTENDS MallocLayout, TLAPS

(* The constants are numbers.                                              *)
LEMMA Sizes ==
  /\ Guard \in Nat \ {0} /\ Header \in Nat \ {0} /\ Alignment \in Nat \ {0}
  /\ Word \in Nat /\ Memory \in Nat /\ Memory + Guard + Header + Alignment <= Word
  /\ MaxAllocations \in Nat /\ MaxWrites \in Nat
  BY MallocLayoutAssumption

(* Rounding down loses less than an alignment.                             *)
LEMMA RoundDownBounds ==
  ASSUME NEW x \in Nat
  PROVE  /\ RoundDown(x) \in Nat
         /\ RoundDown(x) <= x
         /\ x < RoundDown(x) + Alignment
         /\ RoundDown(x) % Alignment = 0
  <1> DEFINE r == x % Alignment
  <1>1. r \in Nat /\ r < Alignment /\ r <= x
    BY Sizes
  <1>2. (x - r) % Alignment = 0
    BY Sizes
  <1>3. RoundDown(x) = x - r
    BY DEF RoundDown
  <1> HIDE DEF r
  <1> QED BY Sizes, <1>1, <1>2, <1>3

-----------------------------------------------------------------------------
(* What is known of a block that was returned.                             *)
Sound(b) ==
    /\ b \in [block : 1..Memory, size : 0..Memory, ptr : 1..Memory,
              allocated : Overhead..Memory]
    /\ b.block <= b.ptr - Guard - Header
    /\ b.ptr + b.size + Guard <= b.block + b.allocated
    /\ b.block + b.allocated <= Memory
    /\ b.ptr % Alignment = 0

(* A block that did not fault did not wrap: whatever size was asked for    *)
(* and whatever AllocateSize made of it, all of it is in its region.       *)
LEMMA NewBlockSound ==
  ASSUME NEW address \in 1..Memory, NEW size \in 0..(Word - 1), NEW b,
         b = Block(address, size), address + b.allocated <= Memory,
         b.ptr + b.size + Guard <= Memory
  PROVE  Sound(b)
  <1>1. /\ b.block = address /\ b.size = size /\ b.ptr = Returned(address)
        /\ b.allocated = AllocateSize(size)
    BY DEF Block
  <1>2. /\ Returned(address) \in Nat
        /\ Returned(address) <= address + Guard + Header + Alignment
        /\ address + Guard + Header < Returned(address)
        /\ Returned(address) % Alignment = 0
    <2> DEFINE x == address + Guard + Header + Alignment
    <2>1. x \in Nat
      BY Sizes
    <2>2. /\ RoundDown(x) \in Nat /\ RoundDown(x) <= x
          /\ x < RoundDown(x) + Alignment /\ RoundDown(x) % Alignment = 0
      BY <2>1, RoundDownBounds
    <2>3. Returned(address) = RoundDown(x)
      BY DEF Returned
    <2> HIDE DEF x
    <2>4. RoundDown(x) > address + Guard + Header
      BY Sizes, <2>1, <2>2 DEF x
    <2> QED BY <2>2, <2>3, <2>4 DEF x
  <1>3. size + Overhead \in 0..(Word - 1)
    BY Sizes, <1>1, <1>2 DEF Overhead
  <1>4. b.allocated = size + Overhead
    BY Sizes, <1>1, <1>3 DEF AllocateSize
  <1>5. b = [block |-> address, size |-> size, ptr |-> b.ptr, allocated |-> b.allocated]
    BY <1>1 DEF Block
  <1>6. /\ b.block <= b.ptr - Guard - Header
        /\ b.ptr + b.size + Guard <= b.block + b.allocated
        /\ b.block + b.allocated <= Memory
        /\ b.ptr % Alignment = 0
    BY Sizes, <1>1, <1>2, <1>4 DEF Overhead
  <1>7. /\ b.ptr \in 1..Memory /\ size \in 0..Memory
        /\ b.allocated \in Overhead..Memory
    BY Sizes, <1>1, <1>2, <1>4 DEF Overhead
  <1> QED BY <1>5, <1>6, <1>7 DEF Sound

(* The parts of a sound block lie in its region, its guards around its     *)
(* bytes, all of it in memory.                                             *)
LEMMA SoundParts ==
  ASSUME NEW b, Sound(b)
  PROVE  /\ RegionOf(b) \subseteq Addresses
         /\ ExtentOf(b) \subseteq RegionOf(b)
         /\ GuardsOf(b) \subseteq ExtentOf(b)
         /\ GuardsOf(b) \cap UserOf(b) = {}
         /\ ExtentOf(b) # {}
         /\ \A offset \in -Guard..(b.size + Guard - 1) : b.ptr + offset \in ExtentOf(b)
  <1> USE Sizes DEF Sound, Overhead
  <1>1. /\ RegionOf(b) \subseteq Addresses
        /\ ExtentOf(b) \subseteq RegionOf(b)
    BY DEF RegionOf, Addresses, ExtentOf
  <1>2. /\ GuardsOf(b) \subseteq ExtentOf(b)
        /\ GuardsOf(b) \cap UserOf(b) = {}
    BY DEF GuardsOf, GuardBefore, GuardAfter, ExtentOf, UserOf
  <1>3. \A offset \in -Guard..(b.size + Guard - 1) : b.ptr + offset \in ExtentOf(b)
    BY DEF ExtentOf
  <1>4. ExtentOf(b) # {}
    <2>1. b.ptr \in ExtentOf(b)
      BY DEF ExtentOf
    <2> QED BY <2>1
  <1> QED BY <1>1, <1>2, <1>3, <1>4

-----------------------------------------------------------------------------
(* The inductive invariant: blocks are sound and apart, the guard's pattern *)
(* is nowhere but in them, and guards are what the program left of them.    *)
BlocksSound == \A b \in live : Sound(b)
BlocksApart == \A b, o \in live : b # o => RegionOf(b) \cap RegionOf(o) = {}
NoStrayGuards ==
    \A a \in Addresses : memory[a] = "guard" => \E b \in live : a \in RegionOf(b)

IInv == TypeOK /\ BlocksSound /\ BlocksApart /\ GuardsExact /\ NoStrayGuards

(* At the start there are no blocks and no guards.                         *)
LEMMA InitIInv == Init => IInv
  <1> SUFFICES ASSUME Init PROVE IInv
    OBVIOUS
  <1>1. TypeOK
    BY Sizes DEF Init, TypeOK, Bytes
  <1>2. BlocksSound /\ BlocksApart /\ GuardsExact /\ NoStrayGuards
    BY DEF Init, BlocksSound, BlocksApart, GuardsExact, NoStrayGuards
  <1> QED BY <1>1, <1>2 DEF IInv

(* A step that only ends the run keeps it.                                 *)
LEMMA EndsKeepsIInv ==
  ASSUME IInv, NEW how \in {"memory_err", "assert_fail", "fault", "wild"}, Ends(how)
  PROVE  IInv'
  BY DEF Ends, IInv, TypeOK, BlocksSound, Sound, BlocksApart, GuardsExact,
         NoStrayGuards

-----------------------------------------------------------------------------
(* Allocation                                                              *)

(* What a successful allocation does, about the block b it returns.        *)
Returns(b, fill) ==
    /\ Sound(b)
    /\ \A o \in live : RegionOf(o) \cap RegionOf(b) = {}
    /\ memory' = [a \in Addresses |->
           IF a \in ExtentOf(b) THEN Initialised(b, fill, a) ELSE memory[a]]
    /\ live' = live \cup {b}
    /\ given' = given \cup {b.ptr}
    /\ dirty' = dirty \ ExtentOf(b)
    /\ result' = "ok"
    /\ allocations < MaxAllocations
    /\ allocations' = allocations + 1
    /\ UNCHANGED writes

(* Allocate faults or returns a sound block.                               *)
LEMMA AllocateReturns ==
  ASSUME NEW size \in 0..(Word - 1), NEW fill, Allocate(size, fill)
  PROVE  Ends("fault") \/ \E b : Returns(b, fill)
  <1> PICK address \in 1..Memory :
         LET b == Block(address, size)
         IN  /\ address + b.allocated <= Memory
             /\ \A o \in live : RegionOf(o) \cap RegionOf(b) = {}
             /\ \/ /\ b.ptr + b.size + Guard > Memory
                   /\ Ends("fault")
                \/ /\ b.ptr + b.size + Guard <= Memory
                   /\ memory' = [a \in Addresses |->
                          IF a \in ExtentOf(b) THEN Initialised(b, fill, a)
                          ELSE memory[a]]
                   /\ live' = live \cup {b}
                   /\ given' = given \cup {b.ptr}
                   /\ dirty' = dirty \ ExtentOf(b)
                   /\ result' = "ok"
                   /\ allocations' = allocations + 1
                   /\ UNCHANGED writes
    BY DEF Allocate
  <1> DEFINE b == Block(address, size)
  <1>1. allocations < MaxAllocations
    BY DEF Allocate
  <1>2. CASE Ends("fault")
    BY <1>2
  <1>3. CASE ~ Ends("fault")
    <2>1. Sound(b)
      BY <1>3, NewBlockSound
    <2>2. Returns(b, fill)
      BY <1>1, <1>3, <2>1 DEF Returns
    <2> QED BY <2>2
  <1> QED BY <1>2, <1>3

(* A new block disturbs no other: it is written inside its region.         *)
LEMMA ReturnsKeepsIInv ==
  ASSUME IInv, NEW fill \in {"alloc", "zero"}, NEW b, Returns(b, fill)
  PROVE  IInv'
  <1> USE Sizes
  <1>1. /\ RegionOf(b) \subseteq Addresses
        /\ ExtentOf(b) \subseteq RegionOf(b)
        /\ GuardsOf(b) \subseteq ExtentOf(b)
        /\ GuardsOf(b) \cap UserOf(b) = {}
    BY SoundParts DEF Returns
  <1>2. \A a \in Addresses \ ExtentOf(b) : memory'[a] = memory[a]
    BY DEF Returns
  <1>3. \A a \in GuardsOf(b) : memory'[a] = "guard" /\ a \notin dirty'
    BY <1>1 DEF Returns, Initialised
  <1>4. TypeOK'
    <2>1. memory' \in [Addresses -> Bytes]
      BY DEF IInv, TypeOK, Returns, Initialised, Bytes
    <2>2. b \in [block : 1..Memory, size : 0..Memory, ptr : 1..Memory,
                 allocated : Overhead..Memory]
      BY DEF Returns, Sound
    <2>3. b.ptr \in 1..Memory
      BY <2>2
    <2>4. /\ dirty' \subseteq Addresses
          /\ result' \in {"none", "ok", "memory_err", "assert_fail", "fault", "wild"}
      BY DEF IInv, TypeOK, Returns
    <2>5. allocations' \in 0..MaxAllocations /\ writes' \in 0..MaxWrites
      BY DEF IInv, TypeOK, Returns
    <2>6. live' \subseteq [block : 1..Memory, size : 0..Memory, ptr : 1..Memory,
                           allocated : Overhead..Memory]
      BY <2>2 DEF IInv, TypeOK, Returns
    <2>7. given' \subseteq 1..Memory
      BY <2>3 DEF IInv, TypeOK, Returns
    <2> QED BY <2>1, <2>4, <2>5, <2>6, <2>7 DEF TypeOK
  <1>5. BlocksSound'
    BY DEF IInv, BlocksSound, Returns, Sound
  <1>6. BlocksApart'
    BY DEF IInv, BlocksApart, Returns
  <1>7. GuardsExact'
    <2> SUFFICES ASSUME NEW o \in live', NEW a \in GuardsOf(o)
                 PROVE  memory'[a] = "guard" <=> a \notin dirty'
      BY DEF GuardsExact
    <2>1. CASE o = b
      BY <1>3, <2>1
    <2>2. CASE o \in live
      <3>1. GuardsOf(o) \subseteq RegionOf(o) /\ RegionOf(o) \subseteq Addresses
        BY <2>2, SoundParts DEF IInv, BlocksSound
      <3>2. a \in Addresses /\ a \notin ExtentOf(b)
        BY <1>1, <2>2, <3>1 DEF Returns
      <3>3. memory'[a] = memory[a] /\ (a \in dirty' <=> a \in dirty)
        BY <1>2, <3>2 DEF Returns
      <3> QED BY <2>2, <3>3 DEF IInv, GuardsExact
    <2> QED BY <2>1, <2>2 DEF Returns
  <1>8. NoStrayGuards'
    <2> SUFFICES ASSUME NEW a \in Addresses, memory'[a] = "guard"
                 PROVE  \E o \in live' : a \in RegionOf(o)
      BY DEF NoStrayGuards
    <2>1. CASE a \in ExtentOf(b)
      BY <1>1, <2>1 DEF Returns
    <2>2. CASE a \notin ExtentOf(b)
      BY <1>2, <2>2 DEF IInv, NoStrayGuards, Returns
    <2> QED BY <2>1, <2>2
  <1> QED BY <1>4, <1>5, <1>6, <1>7, <1>8 DEF IInv

(* All three ways to allocate.                                             *)
LEMMA AllocateKeepsIInv ==
  ASSUME IInv, NEW size \in 0..(Word - 1), NEW fill \in {"alloc", "zero"},
         Allocate(size, fill)
  PROVE  IInv'
  BY AllocateReturns, EndsKeepsIInv, ReturnsKeepsIInv

-----------------------------------------------------------------------------
(* The program writes, and frees                                           *)

(* The program's writes are what dirty says.                               *)
LEMMA WriteKeepsIInv ==
  ASSUME IInv, NEW b \in live, NEW offset \in -Guard..(b.size + Guard - 1),
         NEW byte \in {"data", "guard"}, Write(b, offset, byte)
  PROVE  IInv'
  <1> DEFINE at == b.ptr + offset
  <1>1. at \in RegionOf(b) /\ at \in Addresses
    BY SoundParts DEF IInv, BlocksSound
  <1> HIDE DEF at
  <1>2. /\ memory' = [memory EXCEPT ![at] = byte]
        /\ dirty' = IF byte = "guard" THEN dirty \ {at} ELSE dirty \cup {at}
        /\ UNCHANGED <<live, given, allocations>>
        /\ result' = "ok" /\ writes < MaxWrites /\ writes' = writes + 1
    BY DEF Write, at
  <1>3. TypeOK'
    BY Sizes, <1>1, <1>2 DEF IInv, TypeOK, Bytes
  <1>4. BlocksSound' /\ BlocksApart'
    BY <1>2 DEF IInv, BlocksSound, Sound, BlocksApart
  <1>5. GuardsExact'
    BY <1>1, <1>2 DEF IInv, TypeOK, GuardsExact
  <1>6. NoStrayGuards'
    BY <1>1, <1>2 DEF IInv, TypeOK, NoStrayGuards
  <1> QED BY <1>3, <1>4, <1>5, <1>6 DEF IInv

(* What a successful _test_free does.                                      *)
TakesBack(b) ==
    /\ GuardsIntact(b)
    /\ memory' = [a \in Addresses |-> Filled(b, a)]
    /\ live' = live \ {b}
    /\ dirty' = dirty \ RegionOf(b)
    /\ result' = "ok"
    /\ UNCHANGED <<given, allocations, writes>>

(* A block taken back leaves no guard behind.                              *)
LEMMA TakesBackKeepsIInv ==
  ASSUME IInv, NEW b \in live, TakesBack(b)
  PROVE  IInv'
  <1>1. \A a \in Addresses :
           /\ a \in RegionOf(b) => memory'[a] = "freed"
           /\ a \notin RegionOf(b) => memory'[a] = memory[a]
    BY DEF TakesBack, Filled
  <1>2. TypeOK'
    BY DEF IInv, TypeOK, TakesBack, Filled, Bytes
  <1>3. BlocksSound' /\ BlocksApart'
    BY DEF IInv, BlocksSound, Sound, BlocksApart, TakesBack
  <1>4. GuardsExact'
    <2> SUFFICES ASSUME NEW o \in live', NEW a \in GuardsOf(o)
                 PROVE  memory'[a] = "guard" <=> a \notin dirty'
      BY DEF GuardsExact
    <2>1. o \in live /\ o # b
      BY DEF TakesBack
    <2>2. a \in RegionOf(o) /\ a \in Addresses
      BY <2>1, SoundParts DEF IInv, BlocksSound
    <2>3. a \notin RegionOf(b)
      BY <2>1, <2>2 DEF IInv, BlocksApart
    <2> QED BY <1>1, <2>1, <2>2, <2>3 DEF IInv, GuardsExact, TakesBack
  <1>5. NoStrayGuards'
    BY <1>1 DEF IInv, NoStrayGuards, TakesBack
  <1> QED BY <1>2, <1>3, <1>4, <1>5 DEF IInv

-----------------------------------------------------------------------------
(* Every step keeps the invariant.                                         *)
LEMMA NextIInv == IInv /\ [Next]_vars => IInv'
  <1> SUFFICES ASSUME IInv, [Next]_vars PROVE IInv'
    OBVIOUS
  <1>1. CASE \E request \in Requests :
               \/ _test_malloc(request[2]) \/ _test_new(request[2])
               \/ _test_calloc(request[1], request[2])
    <2> PICK request \in Requests :
               \/ _test_malloc(request[2]) \/ _test_new(request[2])
               \/ _test_calloc(request[1], request[2])
      BY <1>1
    <2>1. request[1] \in 0..(Word - 1) /\ request[2] \in 0..(Word - 1)
      BY MallocLayoutAssumption
    <2>2. (request[1] * request[2]) % Word \in 0..(Word - 1)
      <3>1. request[1] * request[2] \in Nat /\ Word \in Nat \ {0}
        BY <2>1, Sizes
      <3> QED BY <3>1
    <2> QED BY <2>1, <2>2, AllocateKeepsIInv DEF _test_malloc, _test_new, _test_calloc
  <1>2. CASE MallocFails \/ NewFails \/ FreeNull
    BY <1>2, EndsKeepsIInv DEF MallocFails, NewFails, FreeNull
  <1>3. CASE \E b \in live : _test_free(b)
    BY <1>3, TakesBackKeepsIInv, EndsKeepsIInv DEF _test_free, TakesBack
  <1>4. CASE \E b \in live : \E offset \in -Guard..(b.size + Guard - 1),
                               byte \in {"data", "guard"} : Write(b, offset, byte)
    BY <1>4, WriteKeepsIInv
  <1>5. CASE \E p \in Stale : FreeAgain(p)
    BY <1>5, EndsKeepsIInv DEF FreeAgain
  <1>6. CASE UNCHANGED vars
    BY <1>6 DEF vars, IInv, TypeOK, BlocksSound, Sound, BlocksApart, GuardsExact,
                NoStrayGuards
  <1> QED BY <1>1, <1>2, <1>3, <1>4, <1>5, <1>6 DEF Next, Ended

(* So it holds in every state that is reached.                             *)
LEMMA Invariant == Spec => []IInv
  BY InitIInv, NextIInv, PTL DEF Spec

-----------------------------------------------------------------------------
(* The types of the state, for memories and requests of any size.          *)
THEOREM TypeCorrect == Spec => []TypeOK
  <1>1. IInv => TypeOK
    BY DEF IInv
  <1> QED BY Invariant, <1>1, PTL

(* However malloc places its regions and however sizes wrap: what           *)
(* _test_malloc returned lies in its region with header and guards.        *)
THEOREM PartsAreInPlace == Spec => []PartsInPlace
  <1>1. IInv => PartsInPlace
    BY DEF IInv, BlocksSound, Sound, PartsInPlace
  <1> QED BY Invariant, <1>1, PTL

(* A guard is broken exactly where the program broke it.                   *)
THEOREM GuardsAreExact == Spec => []GuardsExact
  <1>1. IInv => GuardsExact
    BY DEF IInv
  <1> QED BY Invariant, <1>1, PTL

(* A second _test_free of an address looks at a guard that is none, unless *)
(* a block in use lies there by then.                                      *)
THEOREM FreedTwiceIsCaught == Spec => []FreedTwiceCaught
  <1>1. IInv => FreedTwiceCaught
    <2> SUFFICES ASSUME IInv, NEW p \in Stale, LooksGuarded(p)
                 PROVE  \E b \in live : RegionOf(b) \cap GuardBefore(p) # {}
      BY DEF FreedTwiceCaught
    <2>1. p \in 1..Memory
      BY DEF Stale, IInv, TypeOK
    <2>2. p - 1 \in GuardBefore(p) /\ p - 1 \in Addresses
      BY <2>1, Sizes DEF GuardBefore, Addresses
    <2>3. memory[p - 1] = "guard"
      BY <2>2 DEF LooksGuarded
    <2> QED BY <2>2, <2>3 DEF IInv, NoStrayGuards
  <1> QED BY Invariant, <1>1, PTL

-----------------------------------------------------------------------------
(* Which step takes or gives a block, and what it writes.                  *)
LEMMA StepsOfBlocks ==
  ASSUME IInv, [Next]_vars
  PROVE  \/ live' = live
         \/ \E b : \E fill \in {"alloc", "zero"} : Returns(b, fill)
         \/ \E b \in live : TakesBack(b)
  <1>1. CASE \E request \in Requests :
               \/ _test_malloc(request[2]) \/ _test_new(request[2])
               \/ _test_calloc(request[1], request[2])
    <2> PICK request \in Requests :
               \/ _test_malloc(request[2]) \/ _test_new(request[2])
               \/ _test_calloc(request[1], request[2])
      BY <1>1
    <2>1. request[1] \in 0..(Word - 1) /\ request[2] \in 0..(Word - 1)
      BY MallocLayoutAssumption
    <2>2. (request[1] * request[2]) % Word \in 0..(Word - 1)
      <3>1. request[1] * request[2] \in Nat /\ Word \in Nat \ {0}
        BY <2>1, Sizes
      <3> QED BY <3>1
    <2>3. \E size \in 0..(Word - 1), fill \in {"alloc", "zero"} : Allocate(size, fill)
      BY <2>1, <2>2 DEF _test_malloc, _test_new, _test_calloc
    <2> QED BY <2>3, AllocateReturns DEF Ends
  <1>2. CASE MallocFails \/ NewFails \/ FreeNull \/ \E p \in Stale : FreeAgain(p)
    BY <1>2 DEF MallocFails, NewFails, FreeNull, FreeAgain, Ends
  <1>3. CASE \E b \in live : _test_free(b)
    BY <1>3 DEF _test_free, TakesBack, Ends
  <1>4. CASE \E b \in live : \E offset \in -Guard..(b.size + Guard - 1),
                               byte \in {"data", "guard"} : Write(b, offset, byte)
    BY <1>4 DEF Write
  <1>5. CASE UNCHANGED vars
    BY <1>5 DEF vars
  <1> QED BY <1>1, <1>2, <1>3, <1>4, <1>5 DEF Next, Ended

(* Handing out a block and taking it back write in its region only, which  *)
(* is no other block's.                                                    *)
THEOREM OthersStayUntouched == Spec => OthersUntouched
  <1> DEFINE A == /\ \A b \in live' \ live : Wrote(b)
                  /\ \A b \in live \ live' : Wrote(b)
  <1>1. IInv /\ [Next]_vars => [A]_vars
    <2> SUFFICES ASSUME IInv, [Next]_vars PROVE A
      OBVIOUS
    <2>1. CASE live' = live
      BY <2>1
    <2>2. ASSUME NEW b, NEW fill \in {"alloc", "zero"}, Returns(b, fill) PROVE A
      <3>1. ExtentOf(b) \subseteq RegionOf(b)
        BY <2>2, SoundParts DEF Returns
      <3>2. Wrote(b)
        BY <2>2, <3>1 DEF Returns, Wrote
      <3> QED BY <2>2, <3>2 DEF Returns
    <2>3. ASSUME NEW b \in live, TakesBack(b) PROVE A
      <3>1. Wrote(b)
        BY <2>3 DEF TakesBack, Filled, Wrote
      <3> QED BY <2>3, <3>1 DEF TakesBack
    <2> QED BY <2>1, <2>2, <2>3, StepsOfBlocks
  <1> QED BY Invariant, <1>1, PTL DEF Spec, OthersUntouched

(* _test_free takes back no block that was overrun on either side.         *)
THEOREM OverrunIsCaught == Spec => OverrunCaught
  <1> DEFINE A == \A b \in live \ live' : GuardsOf(b) \cap dirty = {}
  <1>1. IInv /\ [Next]_vars => [A]_vars
    <2> SUFFICES ASSUME IInv, [Next]_vars PROVE A
      OBVIOUS
    <2>1. CASE live' = live
      BY <2>1
    <2>2. CASE \E b : \E fill \in {"alloc", "zero"} : Returns(b, fill)
      BY <2>2 DEF Returns
    <2>3. ASSUME NEW b \in live, TakesBack(b) PROVE A
      <3>1. GuardsOf(b) \cap dirty = {}
        BY <2>3 DEF TakesBack, GuardsIntact, IInv, GuardsExact
      <3> QED BY <2>3, <3>1 DEF TakesBack
    <2> QED BY <2>1, <2>2, <2>3, StepsOfBlocks
  <1> QED BY Invariant, <1>1, PTL DEF Spec, OverrunCaught
=============================================================================
