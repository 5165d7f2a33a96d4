------------------------- MODULE TestAllocatorProof -------------------------
(***************************************************************************)
(* Proofs about TestAllocator, for any addresses and any number of         *)
(* functions and blocks: the list stays in order of allocation, and what   *)
(* is found, blamed and freed when a function returns is exactly what was  *)
(* allocated since its check point, but for a check point given out again. *)
(***************************************************************************)
EXTENDS TestAllocator, SequenceTheorems, TLAPS

-----------------------------------------------------------------------------
(* The invariant                                                           *)

(* Serial numbers are handed out by the clock, and check points taken with *)
(* it.                                                                     *)
ClockAhead ==
    /\ \A a \in Addresses : serial[a] <= clock
    /\ since <= clock
    /\ setup_since <= clock

(* A check point taken at `at` has every block as old as that at or before *)
(* it in the list, and has them all behind it if there were none: whatever *)
(* has been freed since, the point's own block too.                        *)
Splits(point, at) ==
    IF point = HeadNode THEN \A a \in Tracked : serial[a] > at
    ELSE \A a \in Tracked : serial[a] <= at => serial[a] <= serial[point]

PointsSplit ==
    /\ Splits(check_point, since)
    /\ setup_check_point # NoNode => Splits(setup_check_point, setup_since)

(* A function is running or has ended well, not both.                      *)
NotOkYet == kind # "none" => result # "ok"

IInv == TypeOK /\ OrderKept /\ ClockAhead /\ PointsSplit /\ NotOkYet

-----------------------------------------------------------------------------
(* A piece cut out of a sequence                                           *)

Cut(s, i, j) == SubSeq(s, 1, i) \o SubSeq(s, j, Len(s))

(* What is left of a sequence of which the elements between i and j were   *)
(* cut out.                                                                *)
LEMMA CutParts ==
    ASSUME NEW S, NEW s \in Seq(S), NEW i \in 0..Len(s),
           NEW j \in (i + 1)..(Len(s) + 1)
    PROVE  /\ Cut(s, i, j) \in Seq(S)
           /\ Len(Cut(s, i, j)) = i + Len(s) + 1 - j
           /\ \A k \in 1..Len(Cut(s, i, j)) :
                 Cut(s, i, j)[k] = IF k <= i THEN s[k] ELSE s[k + j - i - 1]
    <1> DEFINE l == SubSeq(s, 1, i)
               r == SubSeq(s, j, Len(s))
    <1>1. /\ l \in Seq(S) /\ Len(l) = i
          /\ \A k \in 1..i : l[k] = s[k]
        OBVIOUS
    <1>2. /\ r \in Seq(S) /\ Len(r) = Len(s) + 1 - j
          /\ \A k \in 1..Len(r) : r[k] = s[k + j - 1]
        OBVIOUS
    <1> HIDE DEF l, r
    <1>3. /\ l \o r \in Seq(S) /\ Len(l \o r) = Len(l) + Len(r)
          /\ \A k \in 1..Len(l \o r) :
                (l \o r)[k] = IF k <= Len(l) THEN l[k] ELSE r[k - Len(l)]
        <2>1. l \in Seq(S) /\ r \in Seq(S)
            BY <1>1, <1>2
        <2>2. /\ l \o r \in Seq(S) /\ Len(l \o r) = Len(l) + Len(r)
              /\ \A k \in 1..Len(l) + Len(r) :
                    (l \o r)[k] = IF k <= Len(l) THEN l[k] ELSE r[k - Len(l)]
            BY <2>1, ConcatProperties, Zenon
        <2> QED BY <2>2
    <1>4. Cut(s, i, j) = l \o r
        BY DEF Cut, l, r
    <1>5. ASSUME NEW k \in 1..Len(l \o r)
          PROVE  (l \o r)[k] = IF k <= i THEN s[k] ELSE s[k + j - i - 1]
        <2>1. CASE k <= i
            BY <2>1, <1>1, <1>3
        <2>2. CASE k > i
            <3>1. k - i \in 1..Len(r)
                BY <2>2, <1>1, <1>2, <1>3
            <3>2. r[k - i] = s[(k - i) + j - 1]
                BY <3>1, <1>2
            <3>3. (k - i) + j - 1 = k + j - i - 1
                BY <2>2, <3>1
            <3> QED BY <2>2, <3>1, <3>2, <3>3, <1>1, <1>3
        <2> QED BY <2>1, <2>2
    <1>6. Len(l \o r) = i + Len(s) + 1 - j
        BY <1>1, <1>2, <1>3
    <1>7. \A k \in 1..Len(l \o r) :
             (l \o r)[k] = IF k <= i THEN s[k] ELSE s[k + j - i - 1]
        BY <1>5
    <1> QED BY <1>3, <1>4, <1>6, <1>7

(* The elements that are left.                                             *)
LEMMA CutElements ==
    ASSUME NEW S, NEW s \in Seq(S), NEW i \in 0..Len(s),
           NEW j \in (i + 1)..(Len(s) + 1)
    PROVE  ToSet(Cut(s, i, j)) = {s[k] : k \in (1..i) \cup (j..Len(s))}
    <1> DEFINE c == Cut(s, i, j)
    <1>1. /\ c \in Seq(S) /\ Len(c) = i + Len(s) + 1 - j
          /\ \A k \in 1..Len(c) : c[k] = IF k <= i THEN s[k] ELSE s[k + j - i - 1]
        BY CutParts
    <1> HIDE DEF c
    <1>2. DOMAIN c = 1..Len(c)
        BY <1>1
    <1>3. ASSUME NEW k \in 1..Len(c)
          PROVE  \E m \in (1..i) \cup (j..Len(s)) : c[k] = s[m]
        <2>1. CASE k <= i
            BY <2>1, <1>1
        <2>2. CASE k > i
            <3>1. k + j - i - 1 \in j..Len(s)
                BY <2>2, <1>1
            <3> QED BY <3>1, <2>2, <1>1
        <2> QED BY <2>1, <2>2
    <1>4. ASSUME NEW m \in (1..i) \cup (j..Len(s))
          PROVE  \E k \in 1..Len(c) : c[k] = s[m]
        <2>1. CASE m \in 1..i
            <3>1. m \in 1..Len(c) /\ m <= i
                BY <2>1, <1>1
            <3> QED BY <3>1, <1>1
        <2>2. CASE m \in j..Len(s)
            <3> DEFINE k == m - j + i + 1
            <3>1. k \in 1..Len(c) /\ ~ (k <= i) /\ k + j - i - 1 = m
                BY <2>2, <1>1
            <3> HIDE DEF k
            <3>2. c[k] = s[k + j - i - 1]
                BY <3>1, <1>1
            <3> QED BY <3>1, <3>2
        <2> QED BY <2>1, <2>2
    <1> QED BY <1>2, <1>3, <1>4 DEF ToSet, c

(* The end of the end of a sequence.                                       *)
LEMMA TailOfTail ==
    ASSUME NEW S, NEW s \in Seq(S), NEW p \in Nat, NEW i \in Nat \ {0},
           p + i <= Len(s)
    PROVE  SubSeq(SubSeq(s, p + 1, Len(s)), i, Len(s) - p) = SubSeq(s, p + i, Len(s))
    <1> DEFINE t == SubSeq(s, p + 1, Len(s))
               u == SubSeq(t, i, Len(s) - p)
               v == SubSeq(s, p + i, Len(s))
    <1>1. /\ t \in Seq(S) /\ Len(t) = Len(s) - p
          /\ \A k \in 1..Len(t) : t[k] = s[p + k]
        OBVIOUS
    <1>2. /\ v \in Seq(S) /\ Len(v) = Len(s) - p - i + 1
          /\ \A k \in 1..Len(v) : v[k] = s[p + i + k - 1]
        OBVIOUS
    <1> HIDE DEF t, v
    <1>3. /\ u \in Seq(S) /\ Len(u) = Len(s) - p - i + 1
          /\ \A k \in 1..Len(u) : u[k] = t[i + k - 1]
        BY <1>1
    <1> HIDE DEF u
    <1>4. Len(u) = Len(v)
        BY <1>2, <1>3
    <1>5. ASSUME NEW k \in 1..Len(u)
          PROVE  u[k] = v[k]
        <2>1. i + k - 1 \in 1..Len(t) /\ p + (i + k - 1) = p + i + k - 1
            BY <1>1, <1>3
        <2> QED BY <2>1, <1>1, <1>2, <1>3
    <1>6. u = v
        BY <1>2, <1>3, <1>4, <1>5
    <1> QED BY <1>6 DEF t, u, v

-----------------------------------------------------------------------------
(* Positions and check points                                              *)

LEMMA NotABlock == HeadNode \notin Addresses /\ NoNode \notin Addresses
    BY TestAllocatorAssumption DEF HeadNode, NoNode

LEMMA BlocksHaveAddresses ==
    ASSUME block_list \in Seq(Addresses)
    PROVE  Tracked \subseteq Addresses
    BY DEF Tracked, ToSet

(* PositionOf finds what is in the list.                                   *)
LEMMA PositionFound ==
    ASSUME block_list \in Seq(Addresses), NEW a \in Tracked
    PROVE  PositionOf(a) \in 1..Len(block_list) /\ block_list[PositionOf(a)] = a
    <1>1. PICK i \in 1..Len(block_list) : block_list[i] = a
        BY DEF Tracked, ToSet
    <1> QED BY <1>1 DEF PositionOf

(* A block further on in the list is a newer one, and the other way round. *)
LEMMA OrderBySerial ==
    ASSUME OrderKept, block_list \in Seq(Addresses),
           serial \in [Addresses -> 0..MaxAllocations], MaxAllocations \in Nat,
           NEW i \in 1..Len(block_list), NEW j \in 1..Len(block_list)
    PROVE  i <= j <=> serial[block_list[i]] <= serial[block_list[j]]
    <1>1. serial[block_list[i]] \in Int /\ serial[block_list[j]] \in Int
        OBVIOUS
    <1>2. i < j => serial[block_list[i]] < serial[block_list[j]]
        BY DEF OrderKept
    <1>3. j < i => serial[block_list[j]] < serial[block_list[i]]
        BY DEF OrderKept
    <1>4. i = j => block_list[i] = block_list[j]
        OBVIOUS
    <1> QED BY <1>1, <1>2, <1>3, <1>4

(* check_point_allocated_blocks: the last node has all there is before it. *)
LEMMA LastSplits ==
    ASSUME IInv
    PROVE  /\ LastNode \in Addresses \cup {HeadNode}
           /\ Splits(LastNode, clock)
    <1> USE DEF IInv, TypeOK
    <1>1. CASE block_list = <<>>
        BY <1>1 DEF LastNode, Splits, Tracked, ToSet
    <1>2. CASE block_list # <<>>
        <2>1. Len(block_list) \in 1..Len(block_list)
            BY <1>2
        <2>2. LastNode = block_list[Len(block_list)] /\ LastNode \in Addresses
            BY <1>2, <2>1 DEF LastNode, Last
        <2>3. ASSUME NEW a \in Tracked
              PROVE  serial[a] <= serial[LastNode]
            <3>1. PICK i \in 1..Len(block_list) : block_list[i] = a
                BY DEF Tracked, ToSet
            <3>2. i <= Len(block_list)
                BY <3>1
            <3> QED BY <3>1, <3>2, <2>1, <2>2, OrderBySerial, TestAllocatorAssumption
        <2> QED BY <2>2, <2>3, NotABlock DEF Splits
    <1> QED BY <1>1, <1>2

(* Blocks that go away, one or many in a row, disturb neither the order    *)
(* nor what a check point splits.                                          *)
LEMMA CutKeeps ==
    ASSUME IInv, NEW i \in 0..Len(block_list),
           NEW j \in (i + 1)..(Len(block_list) + 1),
           block_list' = Cut(block_list, i, j),
           UNCHANGED <<points, clock, serial>>
    PROVE  /\ block_list' \in Seq(Addresses)
           /\ Tracked' \subseteq Tracked
           /\ OrderKept' /\ ClockAhead' /\ PointsSplit'
    <1>a. block_list \in Seq(Addresses)
        BY DEF IInv, TypeOK
    <1>1. /\ block_list' \in Seq(Addresses)
          /\ Len(block_list') = i + Len(block_list) + 1 - j
          /\ \A k \in 1..Len(block_list') :
                block_list'[k] = IF k <= i THEN block_list[k]
                                 ELSE block_list[k + j - i - 1]
        <2> DEFINE c == Cut(block_list, i, j)
        <2>1. /\ c \in Seq(Addresses)
              /\ Len(c) = i + Len(block_list) + 1 - j
              /\ \A k \in 1..Len(c) : c[k] = IF k <= i THEN block_list[k]
                                            ELSE block_list[k + j - i - 1]
            BY <1>a, CutParts
        <2>2. block_list' = c
            OBVIOUS
        <2> HIDE DEF c
        <2> QED BY <2>1, <2>2
    <1>2. Tracked' \subseteq Tracked
        <2>1. Tracked' = {block_list[k] : k \in (1..i) \cup (j..Len(block_list))}
            BY <1>a, CutElements DEF Tracked
        <2>2. Tracked = {block_list[k] : k \in 1..Len(block_list)}
            BY <1>a DEF Tracked, ToSet
        <2>3. (1..i) \cup (j..Len(block_list)) \subseteq 1..Len(block_list)
            OBVIOUS
        <2> QED BY <2>1, <2>2, <2>3
    <1>3. OrderKept'
        <2> USE DEF IInv, TypeOK
        <2> SUFFICES ASSUME NEW k \in 1..Len(block_list'),
                            NEW m \in 1..Len(block_list'), k < m
                     PROVE  serial[block_list'[k]] < serial[block_list'[m]]
            BY DEF OrderKept
        <2> DEFINE at(x) == IF x <= i THEN x ELSE x + j - i - 1
        <2>1. /\ at(k) \in 1..Len(block_list) /\ at(m) \in 1..Len(block_list)
              /\ at(k) < at(m)
            <3>1. Len(block_list') = i + Len(block_list) + 1 - j /\ Len(block_list) \in Nat
                BY <1>1
            <3> QED BY <3>1
        <2>2. block_list'[k] = block_list[at(k)] /\ block_list'[m] = block_list[at(m)]
            BY <1>1
        <2> HIDE DEF at
        <2> QED BY <2>1, <2>2 DEF OrderKept
    <1>4. ClockAhead' /\ PointsSplit'
        BY <1>2 DEF IInv, ClockAhead, PointsSplit, Splits, points
    <1> QED BY <1>1, <1>2, <1>3, <1>4

-----------------------------------------------------------------------------
(* The invariant holds and is kept                                         *)

LEMMA InitInv == Init => IInv
    <1> SUFFICES ASSUME Init PROVE IInv
        OBVIOUS
    <1> USE TestAllocatorAssumption DEF Init
    <1>1. TypeOK
        BY DEF TypeOK
    <1>2. Tracked = {}
        BY DEF Tracked, ToSet
    <1>3. OrderKept /\ ClockAhead /\ NotOkYet
        BY DEF OrderKept, ClockAhead, NotOkYet
    <1>4. PointsSplit
        BY <1>2 DEF PointsSplit, Splits
    <1> QED BY <1>1, <1>3, <1>4 DEF IInv

LEMMA BeginInv ==
    ASSUME IInv, BeginTest \/ BeginSetup \/ BeginTeardown
    PROVE  IInv'
    <1> USE TestAllocatorAssumption DEF IInv
    <1>1. /\ UNCHANGED <<block_list, corrupt, process, clock, serial>>
          /\ result' = "none" /\ kind' \in {"TEST", "SETUP", "TEARDOWN"}
          /\ functions < MaxFunctions /\ functions' = functions + 1
        BY DEF BeginTest, BeginSetup, BeginTeardown, Begin
    <1>2. OrderKept' /\ NotOkYet'
        BY <1>1 DEF OrderKept, NotOkYet
    <1>3. Tracked' = Tracked
        BY <1>1 DEF Tracked
    <1>4. clock \in Nat /\ functions \in Nat
        BY DEF TypeOK
    <1>5. CASE BeginTest
        <2>1. TypeOK' /\ ClockAhead'
            BY <1>1, <1>4, <1>5, LastSplits DEF BeginTest, TestCheckPoint, TypeOK, ClockAhead
        <2>2. PointsSplit'
            BY <1>1, <1>3, <1>5, LastSplits DEF BeginTest, TestCheckPoint, PointsSplit, Splits
        <2> QED BY <1>2, <2>1, <2>2
    <1>6. CASE BeginSetup
        <2>1. TypeOK' /\ ClockAhead'
            BY <1>1, <1>4, <1>6, LastSplits DEF BeginSetup, TypeOK, ClockAhead
        <2>2. PointsSplit'
            BY <1>1, <1>3, <1>6, LastSplits DEF BeginSetup, PointsSplit, Splits
        <2> QED BY <1>2, <2>1, <2>2
    <1>7. CASE BeginTeardown
        <2>1. TypeOK' /\ ClockAhead'
            BY <1>1, <1>4, <1>7 DEF BeginTeardown, TypeOK, ClockAhead
        <2>2. PointsSplit'
            BY <1>1, <1>3, <1>7 DEF BeginTeardown, PointsSplit, Splits
        <2> QED BY <1>2, <2>1, <2>2
    <1> QED BY <1>5, <1>6, <1>7

LEMMA MallocInv ==
    ASSUME IInv, NEW a \in Addresses, TestMalloc(a)
    PROVE  IInv'
    <1> USE TestAllocatorAssumption DEF IInv
    <1>1. /\ block_list' = Append(block_list, a) /\ a \notin Tracked
          /\ clock < MaxAllocations /\ clock' = clock + 1
          /\ serial' = [serial EXCEPT ![a] = clock + 1]
          /\ corrupt' = corrupt \ {a}
          /\ UNCHANGED <<kind, points, process, functions, result>>
        BY DEF TestMalloc, ListAdd
    <1>2. /\ block_list \in Seq(Addresses) /\ clock \in Nat
          /\ serial \in [Addresses -> 0..MaxAllocations]
          /\ since \in Nat /\ setup_since \in Nat
        BY DEF TypeOK
    <1>3. /\ block_list' \in Seq(Addresses)
          /\ Len(block_list') = Len(block_list) + 1
          /\ \A i \in 1..Len(block_list) : block_list'[i] = block_list[i]
          /\ block_list'[Len(block_list) + 1] = a
        BY <1>1, <1>2
    <1>4. Tracked' \subseteq Tracked \cup {a}
        <2>1. ASSUME NEW b \in Tracked'
              PROVE  b \in Tracked \cup {a}
            <3>1. PICK i \in 1..Len(block_list') : block_list'[i] = b
                BY <1>3 DEF Tracked, ToSet
            <3>2. i \in 1..Len(block_list) \/ i = Len(block_list) + 1
                BY <1>3, <1>2
            <3>3. ASSUME i \in 1..Len(block_list)
                  PROVE  b \in Tracked
                <4>1. block_list[i] = b
                    BY <1>3, <3>1, <3>3
                <4>2. i \in DOMAIN block_list
                    BY <1>2, <3>3
                <4> QED BY <4>1, <4>2 DEF Tracked, ToSet
            <3>4. i = Len(block_list) + 1 => b = a
                BY <3>1, <1>3
            <3> QED BY <3>2, <3>3, <3>4
        <2> QED BY <2>1
    <1>5. /\ serial' \in [Addresses -> 0..MaxAllocations]
          /\ serial'[a] = clock + 1
          /\ \A b \in Addresses : b # a => serial'[b] = serial[b]
        BY <1>1, <1>2
    <1>6. TypeOK'
        BY <1>1, <1>2, <1>3, <1>5 DEF TypeOK, points
    <1>7. ClockAhead'
        BY <1>1, <1>2, <1>5 DEF ClockAhead, points
    <1>8. OrderKept'
        <2> SUFFICES ASSUME NEW i \in 1..Len(block_list'),
                            NEW j \in 1..Len(block_list'), i < j
                     PROVE  serial'[block_list'[i]] < serial'[block_list'[j]]
            BY DEF OrderKept
        <2>1. i \in 1..Len(block_list) /\ block_list[i] \in Tracked
            BY <1>2, <1>3 DEF Tracked, ToSet
        <2>2. /\ block_list'[i] = block_list[i] /\ block_list[i] \in Addresses
              /\ serial'[block_list[i]] = serial[block_list[i]]
            BY <2>1, <1>1, <1>2, <1>3, <1>5
        <2>3. CASE j = Len(block_list) + 1
            <3>1. serial[block_list[i]] <= clock
                BY <2>2 DEF ClockAhead
            <3>2. serial[block_list[i]] \in Int
                BY <2>2, <1>2
            <3> QED BY <1>2, <1>3, <1>5, <2>2, <2>3, <3>1, <3>2
        <2>4. CASE j \in 1..Len(block_list)
            <3>1. block_list[j] \in Tracked /\ block_list[j] \in Addresses
                BY <2>4, <1>2 DEF Tracked, ToSet
            <3>2. serial'[block_list'[j]] = serial[block_list[j]]
                BY <2>4, <3>1, <1>1, <1>3, <1>5
            <3>3. serial[block_list[i]] < serial[block_list[j]]
                BY <2>1, <2>4 DEF OrderKept
            <3> QED BY <2>2, <3>2, <3>3
        <2> QED BY <2>3, <2>4, <1>2, <1>3
    <1>9. ASSUME NEW point \in Addresses \cup {HeadNode}, NEW at \in Nat,
                 at <= clock, Splits(point, at),
                 NEW b \in Tracked'
          PROVE  /\ point = HeadNode => serial'[b] > at
                 /\ point # HeadNode =>
                       (serial'[b] <= at => serial'[b] <= serial'[point])
        <2>1. CASE b = a
            BY <2>1, <1>9, <1>2, <1>5
        <2>2. CASE b # a
            <3>1. b \in Tracked /\ b \in Addresses
                BY <2>2, <1>2, <1>4, BlocksHaveAddresses
            <3>2. serial'[b] = serial[b] /\ serial[b] \in Nat /\ serial[b] <= clock
                BY <2>2, <3>1, <1>2, <1>5 DEF ClockAhead
            <3>3. point \in Addresses =>
                     serial[point] \in Nat /\ serial[point] <= serial'[point]
                BY <1>2, <1>5 DEF ClockAhead
            <3>4. CASE point = HeadNode
                BY <3>4, <3>1, <3>2, <1>9 DEF Splits
            <3>5. CASE point # HeadNode
                <4>1. serial[b] <= at => serial[b] <= serial[point]
                    BY <3>5, <3>1, <1>9 DEF Splits
                <4>2. point \in Addresses
                    BY <3>5
                <4>3. serial'[point] \in Nat
                    BY <4>2, <1>5
                <4> QED BY <3>5, <4>1, <4>2, <4>3, <3>2, <3>3
            <3> QED BY <3>4, <3>5
        <2> QED BY <2>1, <2>2
    <1>10. PointsSplit'
        <2>1. Splits(check_point, since)'
            <3>1. /\ check_point \in Addresses \cup {HeadNode}
                  /\ since <= clock /\ Splits(check_point, since)
                BY DEF TypeOK, ClockAhead, PointsSplit
            <3>2. check_point' = check_point /\ since' = since
                BY <1>1 DEF points
            <3> QED BY <3>1, <3>2, <1>2, <1>9 DEF Splits
        <2>2. (setup_check_point # NoNode => Splits(setup_check_point, setup_since))'
            <3> SUFFICES ASSUME setup_check_point # NoNode
                         PROVE  Splits(setup_check_point, setup_since)'
                BY <1>1 DEF points
            <3>1. /\ setup_check_point \in Addresses \cup {HeadNode}
                  /\ setup_since <= clock /\ Splits(setup_check_point, setup_since)
                BY DEF TypeOK, ClockAhead, PointsSplit
            <3>2. setup_check_point' = setup_check_point /\ setup_since' = setup_since
                BY <1>1 DEF points
            <3> QED BY <3>1, <3>2, <1>2, <1>9 DEF Splits
        <2> QED BY <2>1, <2>2 DEF PointsSplit
    <1>11. NotOkYet'
        BY <1>1 DEF NotOkYet
    <1> QED BY <1>6, <1>7, <1>8, <1>10, <1>11

(* A block freed: one position cut out.                                    *)
LEMMA FreeCuts ==
    ASSUME IInv, NEW a \in Addresses, TestFree(a), GuardsIntact(a)
    PROVE  /\ PositionOf(a) \in 1..Len(block_list)
           /\ block_list[PositionOf(a)] = a
           /\ block_list' = Cut(block_list, PositionOf(a) - 1, PositionOf(a) + 1)
           /\ UNCHANGED <<corrupt, kind, points, process, functions, result,
                          clock, serial>>
    <1>1. /\ a \in Tracked /\ block_list' = RemoveAt(block_list, PositionOf(a))
          /\ UNCHANGED <<corrupt, kind, points, process, functions, result,
                         clock, serial>>
        BY DEF TestFree
    <1>2. PositionOf(a) \in 1..Len(block_list) /\ block_list[PositionOf(a)] = a
        BY <1>1, PositionFound DEF IInv, TypeOK
    <1> QED BY <1>1, <1>2 DEF RemoveAt, Cut

LEMMA FreeInv ==
    ASSUME IInv, NEW a \in Addresses, TestFree(a)
    PROVE  IInv'
    <1>1. CASE GuardsIntact(a)
        <2> DEFINE i == PositionOf(a) - 1
                   j == PositionOf(a) + 1
        <2>1. /\ i \in 0..Len(block_list)
              /\ j \in (i + 1)..(Len(block_list) + 1)
              /\ block_list' = Cut(block_list, i, j)
              /\ UNCHANGED <<corrupt, kind, points, process, functions, result,
                             clock, serial>>
            BY <1>1, FreeCuts
        <2> HIDE DEF i, j
        <2>2. /\ block_list' \in Seq(Addresses)
              /\ OrderKept' /\ ClockAhead' /\ PointsSplit'
            BY <2>1, CutKeeps
        <2>3. TypeOK' /\ NotOkYet'
            BY <2>1, <2>2 DEF IInv, TypeOK, NotOkYet, points
        <2> QED BY <2>2, <2>3 DEF IInv
    <1>2. CASE ~ GuardsIntact(a)
        <2>1. /\ process' = "ended" /\ result' = "memory_err"
              /\ UNCHANGED <<block_list, corrupt, kind, points, functions, clock,
                             serial>>
            BY <1>2 DEF TestFree, EndProcess
        <2> QED BY <2>1 DEF IInv, TypeOK, OrderKept, ClockAhead, PointsSplit, Splits,
                            Tracked, NotOkYet, points
    <1> QED BY <1>1, <1>2

(* What the walk for leaks visits: the blocks behind the check point.      *)
LEMMA WalkSplits ==
    ASSUME IInv, CheckPointAlive
    PROVE  /\ Position \in 0..Len(block_list)
           /\ check_point # HeadNode =>
                 Position > 0 /\ block_list[Position] = check_point
           /\ check_point = HeadNode => Position = 0
           /\ After \in Seq(Addresses)
           /\ Len(After) = Len(block_list) - Position
           /\ \A i \in 1..Len(After) : After[i] = block_list[Position + i]
    <1>1. block_list \in Seq(Addresses)
        BY DEF IInv, TypeOK
    <1>2. /\ Position \in 0..Len(block_list)
          /\ check_point # HeadNode =>
                Position > 0 /\ block_list[Position] = check_point
          /\ check_point = HeadNode => Position = 0
        <2>1. CASE check_point = HeadNode
            BY <2>1, <1>1 DEF Position
        <2>2. CASE check_point # HeadNode
            <3>1. check_point \in Tracked
                BY <2>2 DEF CheckPointAlive
            <3>2. /\ PositionOf(check_point) \in 1..Len(block_list)
                  /\ block_list[PositionOf(check_point)] = check_point
                BY <1>1, <3>1, PositionFound
            <3> QED BY <2>2, <3>2 DEF Position
        <2> QED BY <2>1, <2>2
    <1>3. /\ After \in Seq(Addresses)
          /\ Len(After) = Len(block_list) - Position
          /\ \A i \in 1..Len(After) : After[i] = block_list[Position + i]
        <2> DEFINE p == Position
        <2> HIDE DEF p
        <2>1. p \in 0..Len(block_list)
            BY <1>2 DEF p
        <2>2. /\ SubSeq(block_list, p + 1, Len(block_list)) \in Seq(Addresses)
              /\ Len(SubSeq(block_list, p + 1, Len(block_list))) = Len(block_list) - p
              /\ \A i \in 1..(Len(block_list) - p) :
                    SubSeq(block_list, p + 1, Len(block_list))[i] = block_list[p + i]
            BY <1>1, <2>1
        <2> QED BY <2>2 DEF p, After
    <1> QED BY <1>2, <1>3

(* How the list ends after the walk: untouched, or with a piece cut out    *)
(* behind the check point none of which was corrupt.                       *)
LEMMA WalkCuts ==
    ASSUME IInv, FailIfBlocksAllocated
    PROVE  \/ /\ Position = Len(block_list)
              /\ kind' = "none" /\ result' = "ok"
              /\ UNCHANGED <<block_list, corrupt, points, process, functions,
                             clock, serial>>
           \/ \E j \in (Position + 1)..(Len(block_list) + 1) :
                 /\ Position < Len(block_list)
                 /\ \A m \in (Position + 1)..(j - 1) : block_list[m] \notin corrupt
                 /\ block_list' = Cut(block_list, Position, j)
                 /\ process' = "ended"
                 /\ \/ result' = "memory_leak" /\ j = Len(block_list) + 1
                    \/ result' = "memory_err"
                 /\ UNCHANGED <<corrupt, kind, points, functions, clock, serial>>
    <1> DEFINE p == Position
               n == Len(block_list)
    <1>1. /\ block_list \in Seq(Addresses) /\ CheckPointAlive
        BY DEF IInv, TypeOK, FailIfBlocksAllocated
    <1>2. /\ p \in 0..n /\ n \in Nat
          /\ After \in Seq(Addresses) /\ Len(After) = n - p
          /\ \A i \in 1..Len(After) : After[i] = block_list[p + i]
        BY <1>1, WalkSplits
    <1>3. /\ After = SubSeq(block_list, p + 1, n)
          /\ Before = SubSeq(block_list, 1, p)
        BY DEF After, Before
    <1> HIDE DEF p, n
    <1>4. CASE After = <<>> /\ EndOk
        <2>1. p = n
            BY <1>2, <1>4
        <2> QED BY <2>1, <1>4 DEF EndOk, p, n
    <1>5. CASE /\ After # <<>> /\ ToSet(After) \cap corrupt = {}
               /\ block_list' = Before /\ EndProcess("memory_leak")
               /\ UNCHANGED corrupt
        <2>1. p < n
            BY <1>2, <1>5
        <2>2. \A m \in (p + 1)..n : block_list[m] \notin corrupt
            <3> SUFFICES ASSUME NEW m \in (p + 1)..n PROVE block_list[m] \notin corrupt
                OBVIOUS
            <3>1. m - p \in 1..Len(After) /\ p + (m - p) = m
                BY <1>2
            <3>2. After[m - p] = block_list[m]
                BY <3>1, <1>2
            <3>3. After[m - p] \in ToSet(After)
                BY <3>1, <1>2 DEF ToSet
            <3> QED BY <3>2, <3>3, <1>5
        <2>3. block_list' = Cut(block_list, p, n + 1)
            <3>1. SubSeq(block_list, n + 1, n) = <<>>
                BY <1>2, SubSeqEmpty
            <3>2. SubSeq(block_list, 1, p) \in Seq(Addresses)
                BY <1>1, <1>2 DEF n
            <3>3. SubSeq(block_list, 1, p) \o <<>> = SubSeq(block_list, 1, p)
                BY <3>2, ConcatEmptySeq
            <3> QED BY <1>3, <1>5, <3>1, <3>3 DEF Cut, n
        <2>4. n + 1 \in (p + 1)..(n + 1) /\ (n + 1) - 1 = n
            BY <1>2
        <2> QED BY <2>1, <2>2, <2>3, <2>4, <1>5 DEF EndProcess, p, n
    <1>6. CASE /\ \E i \in 1..Len(After) :
                     /\ After[i] \in corrupt
                     /\ \A j \in 1..(i - 1) : After[j] \notin corrupt
                     /\ block_list' = Before \o SubSeq(After, i, Len(After))
               /\ EndProcess("memory_err")
               /\ UNCHANGED corrupt
        <2>1. PICK i \in 1..Len(After) :
                     /\ \A j \in 1..(i - 1) : After[j] \notin corrupt
                     /\ block_list' = Before \o SubSeq(After, i, Len(After))
            BY <1>6
        <2>2. p < n /\ p + i \in (p + 1)..(n + 1) /\ p + i \in Nat
            BY <1>2
        <2>3. \A m \in (p + 1)..((p + i) - 1) : block_list[m] \notin corrupt
            <3> SUFFICES ASSUME NEW m \in (p + 1)..((p + i) - 1)
                         PROVE  block_list[m] \notin corrupt
                OBVIOUS
            <3>1. m - p \in 1..(i - 1) /\ m - p \in 1..Len(After) /\ p + (m - p) = m
                BY <1>2, <2>1
            <3> QED BY <3>1, <1>2, <2>1
        <2>4. SubSeq(After, i, Len(After)) = SubSeq(block_list, p + i, n)
            <3>1. SubSeq(SubSeq(block_list, p + 1, n), i, n - p)
                    = SubSeq(block_list, p + i, n)
                BY <1>1, <1>2, <2>1, TailOfTail DEF n
            <3> QED BY <3>1, <1>2, <1>3
        <2>5. block_list' = Cut(block_list, p, p + i)
            BY <2>1, <2>4, <1>3 DEF Cut, n
        <2>6. /\ process' = "ended" /\ result' = "memory_err"
              /\ UNCHANGED <<corrupt, kind, points, functions, clock, serial>>
            BY <1>6 DEF EndProcess
        <2>7. \E j \in (p + 1)..(n + 1) :
                 /\ \A m \in (p + 1)..(j - 1) : block_list[m] \notin corrupt
                 /\ block_list' = Cut(block_list, p, j)
            <3>1. p + i \in (p + 1)..(n + 1)
                BY <2>2
            <3> WITNESS p + i \in (p + 1)..(n + 1)
            <3> QED BY <2>3, <2>5
        <2> QED BY <2>2, <2>6, <2>7 DEF p, n
    <1> QED BY <1>4, <1>5, <1>6 DEF FailIfBlocksAllocated

LEMMA WalkInv ==
    ASSUME IInv, FailIfBlocksAllocated
    PROVE  IInv'
    <1>1. CASE /\ kind' = "none" /\ result' = "ok"
               /\ UNCHANGED <<block_list, corrupt, points, process, functions,
                              clock, serial>>
        BY <1>1 DEF IInv, TypeOK, OrderKept, ClockAhead, PointsSplit, Splits,
                    Tracked, NotOkYet, points
    <1>2. CASE \E j \in (Position + 1)..(Len(block_list) + 1) :
                 /\ Position < Len(block_list)
                 /\ block_list' = Cut(block_list, Position, j)
                 /\ process' = "ended"
                 /\ result' \in {"memory_leak", "memory_err"}
                 /\ UNCHANGED <<corrupt, kind, points, functions, clock, serial>>
        <2>1. PICK j \in (Position + 1)..(Len(block_list) + 1) :
                 /\ block_list' = Cut(block_list, Position, j)
                 /\ process' = "ended"
                 /\ result' \in {"memory_leak", "memory_err"}
                 /\ UNCHANGED <<corrupt, kind, points, functions, clock, serial>>
            BY <1>2
        <2>2. Position \in 0..Len(block_list)
            BY WalkSplits DEF FailIfBlocksAllocated
        <2>3. /\ block_list' \in Seq(Addresses)
              /\ OrderKept' /\ ClockAhead' /\ PointsSplit'
            BY <2>1, <2>2, CutKeeps
        <2>4. TypeOK' /\ NotOkYet'
            BY <2>1, <2>3 DEF IInv, TypeOK, NotOkYet, points
        <2> QED BY <2>3, <2>4 DEF IInv
    <1> QED BY <1>1, <1>2, WalkCuts

(* Steps that leave the list and its points alone: an overrun, the ways to *)
(* end the process with the list as it is, and the ends of a function      *)
(* without a walk.                                                         *)
Idles ==
    /\ UNCHANGED <<block_list, points, functions, clock, serial>>
    /\ corrupt' \subseteq Addresses
    /\ \/ UNCHANGED <<kind, process, result>>
       \/ /\ process' = "ended" /\ UNCHANGED kind
          /\ result' \in {"assert_fail", "fault", "memory_err"}
       \/ /\ kind' = "none" /\ UNCHANGED process
          /\ result' \in {"ok", "threw"}

LEMMA IdleInv == ASSUME IInv, Idles PROVE IInv'
    BY DEF IInv, Idles, TypeOK, OrderKept, ClockAhead, PointsSplit, Splits, Tracked,
           NotOkYet, points

LEMMA StepsIdle ==
    ASSUME IInv,
           \/ \E a \in Addresses : Overrun(a) \/ FreeAgain(a)
           \/ TestMallocFails \/ TestNewFails \/ FreeNull
           \/ BodyThrows \/ SetupReturns \/ CheckPointFreed \/ Ended
           \/ UNCHANGED vars
    PROVE  Idles
    <1>1. corrupt \subseteq Addresses
        BY DEF IInv, TypeOK
    <1>2. ASSUME NEW a \in Addresses, Overrun(a) PROVE Idles
        BY <1>1, <1>2 DEF Overrun, Idles
    <1>3. ASSUME NEW a \in Addresses, FreeAgain(a) PROVE Idles
        BY <1>1, <1>3 DEF FreeAgain, EndProcess, Idles
    <1>4. CASE TestMallocFails \/ TestNewFails \/ FreeNull \/ CheckPointFreed
        BY <1>1, <1>4 DEF TestMallocFails, TestNewFails, FreeNull, CheckPointFreed,
                          EndProcess, Idles
    <1>5. CASE BodyThrows \/ SetupReturns
        BY <1>1, <1>5 DEF BodyThrows, SetupReturns, EndOk, Idles
    <1>6. CASE Ended \/ UNCHANGED vars
        BY <1>1, <1>6 DEF Ended, vars, points, Idles
    <1> QED BY <1>2, <1>3, <1>4, <1>5, <1>6

(* All steps of the specification, sorted by what they do to the list.     *)
LEMMA StepCases ==
    ASSUME IInv, [Next]_vars
    PROVE  \/ BeginTest \/ BeginSetup \/ BeginTeardown
           \/ \E a \in Addresses : TestMalloc(a) \/ TestFree(a)
           \/ FailIfBlocksAllocated
           \/ Idles
    BY StepsIdle DEF Next, TestNew, TestCalloc

LEMMA StepInv == IInv /\ [Next]_vars => IInv'
    <1> SUFFICES ASSUME IInv, [Next]_vars PROVE IInv'
        OBVIOUS
    <1>1. CASE BeginTest \/ BeginSetup \/ BeginTeardown
        BY <1>1, BeginInv
    <1>2. ASSUME NEW a \in Addresses, TestMalloc(a) PROVE IInv'
        BY <1>2, MallocInv
    <1>3. ASSUME NEW a \in Addresses, TestFree(a) PROVE IInv'
        BY <1>3, FreeInv
    <1>4. CASE FailIfBlocksAllocated
        BY <1>4, WalkInv
    <1>5. CASE Idles
        BY <1>5, IdleInv
    <1> QED BY <1>1, <1>2, <1>3, <1>4, <1>5, StepCases

LEMMA Invariance == Spec => []IInv
    BY InitInv, StepInv, PTL DEF Spec

-----------------------------------------------------------------------------
(* The theorems                                                            *)

(* The types of the list, the check points and the counters.               *)
THEOREM TypeCorrect == Spec => []TypeOK
    <1>1. IInv => TypeOK
        BY DEF IInv
    <1> QED BY <1>1, Invariance, PTL

(* The list of all live blocks stays in order of allocation, whatever is   *)
(* freed and whichever addresses are given out again: what a check point,  *)
(* which is a pointer into that list, relies on.                           *)
THEOREM OrderIsKept == Spec => []OrderKept
    <1>1. IInv => OrderKept
        BY DEF IInv
    <1> QED BY <1>1, Invariance, PTL

(* No block leaves the heap with its guards written over, by _test_free or *)
(* by the freeing of what a function leaked.                               *)
THEOREM GuardsAreChecked == Spec => GuardsChecked
    <1> DEFINE A == Tracked \cap corrupt \subseteq Tracked'
    <1>1. ASSUME IInv, [Next]_vars PROVE A
        <2>0. block_list \in Seq(Addresses)
            BY <1>1 DEF IInv, TypeOK
        <2>1. CASE BeginTest \/ BeginSetup \/ BeginTeardown
            <3>1. block_list' = block_list
                BY <2>1 DEF BeginTest, BeginSetup, BeginTeardown, Begin
            <3> QED BY <3>1 DEF Tracked
        <2>2. ASSUME NEW a \in Addresses, TestMalloc(a) PROVE A
            <3>1. block_list' = Append(block_list, a)
                BY <2>2 DEF TestMalloc, ListAdd
            <3>2. ASSUME NEW b \in Tracked PROVE b \in Tracked'
                <4>1. PICK i \in 1..Len(block_list) : block_list[i] = b
                    BY <2>0 DEF Tracked, ToSet
                <4>2. block_list'[i] = b /\ i \in DOMAIN block_list'
                    BY <2>0, <3>1, <4>1
                <4> QED BY <4>2 DEF Tracked, ToSet
            <3> QED BY <3>2
        <2>3. ASSUME NEW a \in Addresses, TestFree(a) PROVE A
            <3>1. CASE GuardsIntact(a)
                <4> DEFINE p == PositionOf(a)
                <4>1. /\ p \in 1..Len(block_list) /\ block_list[p] = a
                      /\ block_list' = Cut(block_list, p - 1, p + 1)
                    BY <1>1, <2>3, <3>1, FreeCuts
                <4> HIDE DEF p
                <4>2. ToSet(Cut(block_list, p - 1, p + 1))
                        = {block_list[k] : k \in (1..(p - 1))
                                                 \cup ((p + 1)..Len(block_list))}
                    <5>1. /\ p - 1 \in 0..Len(block_list)
                          /\ p + 1 \in ((p - 1) + 1)..(Len(block_list) + 1)
                        BY <4>1, <2>0
                    <5> QED BY <5>1, <2>0, CutElements
                <4>3. ASSUME NEW b \in Tracked, b # a PROVE b \in Tracked'
                    <5>1. PICK i \in 1..Len(block_list) : block_list[i] = b
                        BY <2>0 DEF Tracked, ToSet
                    <5>2. i # p
                        BY <5>1, <4>1, <4>3
                    <5>3. i \in (1..(p - 1)) \cup ((p + 1)..Len(block_list))
                        BY <5>1, <5>2, <4>1
                    <5> QED BY <5>1, <5>3, <4>1, <4>2 DEF Tracked
                <4> QED BY <4>3, <3>1 DEF GuardsIntact
            <3>2. CASE ~ GuardsIntact(a)
                <4>1. block_list' = block_list
                    BY <2>3, <3>2 DEF TestFree
                <4> QED BY <4>1 DEF Tracked
            <3> QED BY <3>1, <3>2
        <2>4. CASE FailIfBlocksAllocated
            <3>1. CASE block_list' = block_list
                BY <3>1 DEF Tracked
            <3>2. CASE \E j \in (Position + 1)..(Len(block_list) + 1) :
                 /\ \A m \in (Position + 1)..(j - 1) : block_list[m] \notin corrupt
                 /\ block_list' = Cut(block_list, Position, j)
                <4> DEFINE p == Position
                <4>1. p \in 0..Len(block_list)
                    BY <1>1, <2>4, WalkSplits DEF FailIfBlocksAllocated
                <4>2. PICK j \in (p + 1)..(Len(block_list) + 1) :
                         /\ \A m \in (p + 1)..(j - 1) : block_list[m] \notin corrupt
                         /\ block_list' = Cut(block_list, p, j)
                    BY <3>2
                <4> HIDE DEF p
                <4>3. ToSet(Cut(block_list, p, j))
                        = {block_list[k] : k \in (1..p) \cup (j..Len(block_list))}
                    BY <2>0, <4>1, CutElements
                <4>4. ASSUME NEW b \in Tracked, b \in corrupt PROVE b \in Tracked'
                    <5>1. PICK i \in 1..Len(block_list) : block_list[i] = b
                        BY <2>0 DEF Tracked, ToSet
                    <5>2. ~ (i \in (p + 1)..(j - 1))
                        BY <5>1, <4>2, <4>4
                    <5>3. i \in (1..p) \cup (j..Len(block_list))
                        BY <5>1, <5>2, <4>1, <4>2
                    <5> QED BY <5>1, <5>3, <4>2, <4>3 DEF Tracked
                <4> QED BY <4>4
            <3> QED BY <1>1, <2>4, <3>1, <3>2, WalkCuts
        <2>5. CASE Idles
            BY <2>5 DEF Idles, Tracked
        <2> HIDE DEF A
        <2> QED BY <1>1, <2>1, <2>2, <2>3, <2>4, <2>5, StepCases
    <1>2. IInv /\ [Next]_vars => [A]_vars
        BY <1>1
    <1> QED BY <1>2, Invariance, PTL DEF Spec, GuardsChecked

-----------------------------------------------------------------------------
(* Leaks                                                                   *)

(* Where the walk starts is where old and new part: a block behind the     *)
(* check point is newer than it, and the newer ones before it are missed.  *)
LEMMA PointDivides ==
    ASSUME IInv, CheckPointAlive, NEW i \in 1..Len(block_list)
    PROVE  /\ block_list[i] \in Tracked
           /\ i > Position => block_list[i] \in Newer /\ block_list[i] \notin Missed
           /\ i <= Position => (block_list[i] \in Newer <=> block_list[i] \in Missed)
    <1> DEFINE b == block_list[i]
    <1>1. /\ block_list \in Seq(Addresses) /\ since \in Nat
          /\ serial \in [Addresses -> 0..MaxAllocations]
          /\ check_point \in Addresses \cup {HeadNode}
        BY TestAllocatorAssumption DEF IInv, TypeOK
    <1>2. b \in Tracked /\ b \in Addresses /\ serial[b] \in Nat
        BY <1>1 DEF Tracked, ToSet
    <1>3. CASE check_point = HeadNode
        <2>1. Position = 0
            BY <1>3, WalkSplits
        <2>2. serial[b] > since
            BY <1>2, <1>3 DEF IInv, PointsSplit, Splits
        <2>3. b \in Newer
            BY <1>2, <2>2 DEF Newer
        <2>4. b \notin Missed
            BY <1>3 DEF Missed, Recycled
        <2> QED BY <1>2, <2>1, <2>3, <2>4
    <1>4. CASE check_point # HeadNode
        <2>1. /\ Position \in 1..Len(block_list)
              /\ block_list[Position] = check_point
              /\ serial[check_point] \in Nat
            BY <1>1, <1>4, WalkSplits
        <2>2. i <= Position <=> serial[b] <= serial[check_point]
            BY <1>1, <2>1, OrderBySerial, TestAllocatorAssumption DEF IInv
        <2>3. serial[b] <= since => serial[b] <= serial[check_point]
            BY <1>2, <1>4 DEF IInv, PointsSplit, Splits
        <2>4. b \in Newer <=> serial[b] > since
            BY <1>2 DEF Newer
        <2>5. b \in Missed <=> /\ serial[b] > since
                               /\ serial[check_point] > since
                               /\ serial[b] <= serial[check_point]
            BY <1>4, <2>4 DEF Missed, Recycled
        <2> QED BY <1>1, <1>2, <2>1, <2>2, <2>3, <2>4, <2>5
    <1> QED BY <1>3, <1>4

(* Which steps say that a function leaked, and which that it did not.      *)
LEMMA WhoReports ==
    ASSUME IInv, [Next]_vars
    PROVE  /\ result # "memory_leak" /\ result' = "memory_leak"
                 => FailIfBlocksAllocated
           /\ kind \in {"TEST", "TEARDOWN"} /\ result' = "ok"
                 => FailIfBlocksAllocated
    <1>1. kind # "none" => result # "ok"
        BY DEF IInv, NotOkYet
    <1>2. CASE BeginTest \/ BeginSetup \/ BeginTeardown
        BY <1>2 DEF BeginTest, BeginSetup, BeginTeardown, Begin
    <1>3. ASSUME NEW a \in Addresses,
                 \/ TestMalloc(a) \/ TestNew(a) \/ TestCalloc(a) \/ Overrun(a)
                 \/ TestFree(a) \/ FreeAgain(a)
          PROVE  result' \in {result, "memory_err", "fault"}
        BY <1>3 DEF TestMalloc, TestNew, TestCalloc, Overrun, TestFree, FreeAgain,
                    EndProcess
    <1>4. CASE TestMallocFails \/ TestNewFails \/ FreeNull \/ CheckPointFreed
        BY <1>4 DEF TestMallocFails, TestNewFails, FreeNull, CheckPointFreed, EndProcess
    <1>5. CASE BodyThrows
        BY <1>5 DEF BodyThrows
    <1>6. CASE SetupReturns
        BY <1>6 DEF SetupReturns, EndOk
    <1>7. CASE Ended \/ UNCHANGED vars
        BY <1>1, <1>7 DEF Ended, vars
    <1> QED BY <1>1, <1>2, <1>3, <1>4, <1>5, <1>6, <1>7 DEF Next

(* A leak is only reported for a function when a block that was allocated  *)
(* since its check point was taken is still there, and seen: never for     *)
(* what had been there before.                                             *)
THEOREM NoLeakIsInvented == Spec => NoFalseLeak
    <1>1. ASSUME IInv, [Next]_vars, result # "memory_leak", result' = "memory_leak"
          PROVE  Newer # Missed
        <2>1. FailIfBlocksAllocated
            BY <1>1, WhoReports
        <2>2. CheckPointAlive /\ Position < Len(block_list)
            BY <1>1, <2>1, WalkCuts DEF FailIfBlocksAllocated
        <2>3. Position \in 0..Len(block_list)
            BY <1>1, <2>2, WalkSplits
        <2>4. Len(block_list) \in 1..Len(block_list) /\ Len(block_list) > Position
            BY <2>2, <2>3
        <2> QED BY <1>1, <2>2, <2>4, PointDivides
    <1>2. IInv /\ [Next]_vars =>
              [(result # "memory_leak" /\ result' = "memory_leak") => (Newer # Missed)]_vars
        BY <1>1
    <1> QED BY <1>2, Invariance, PTL DEF Spec, NoFalseLeak

(* What is freed for a leaking function is all that was allocated since    *)
(* its check point and that the walk sees, and nothing older.              *)
THEOREM LeaksAreFreed == Spec => LeakFreed
    <1>1. ASSUME IInv, [Next]_vars, result # "memory_leak", result' = "memory_leak"
          PROVE  Tracked' = (Tracked \ Newer) \cup Missed
        <2> DEFINE p == Position
                   n == Len(block_list)
        <2>1. FailIfBlocksAllocated /\ CheckPointAlive
            BY <1>1, WhoReports DEF FailIfBlocksAllocated
        <2>2. block_list' = Cut(block_list, p, n + 1) /\ p < n
            BY <1>1, <2>1, WalkCuts
        <2>3. p \in 0..n /\ n \in Nat /\ block_list \in Seq(Addresses)
            BY <1>1, <2>1, WalkSplits DEF IInv, TypeOK
        <2>4. Tracked' = {block_list[k] : k \in (1..p) \cup ((n + 1)..n)}
            <3>1. n + 1 \in (p + 1)..(n + 1)
                BY <2>2, <2>3
            <3> HIDE DEF p
            <3> QED BY <3>1, <2>2, <2>3, CutElements DEF Tracked
        <2>5. Tracked = {block_list[k] : k \in 1..n}
            BY <2>3 DEF Tracked, ToSet
        <2>6. \A k \in 1..n :
                 /\ k > p => block_list[k] \in Newer /\ block_list[k] \notin Missed
                 /\ k <= p => (block_list[k] \in Newer <=> block_list[k] \in Missed)
            BY <1>1, <2>1, PointDivides
        <2>7. Missed \subseteq Tracked
            BY DEF Missed, Newer
        <2> HIDE DEF p, n
        <2>8. ASSUME NEW b \in Tracked' PROVE b \in (Tracked \ Newer) \cup Missed
            <3>1. PICK k \in 1..p : b = block_list[k]
                BY <2>3, <2>4
            <3>2. k \in 1..n /\ k <= p
                BY <2>3, <3>1
            <3> QED BY <2>5, <2>6, <3>1, <3>2
        <2>9. ASSUME NEW b \in (Tracked \ Newer) \cup Missed PROVE b \in Tracked'
            <3>1. PICK k \in 1..n : b = block_list[k]
                BY <2>5, <2>7
            <3>2. k <= p
                BY <2>3, <2>6, <3>1
            <3> QED BY <2>3, <2>4, <3>1, <3>2
        <2> QED BY <2>8, <2>9
    <1>2. IInv /\ [Next]_vars =>
              [result # "memory_leak" /\ result' = "memory_leak"
                  => Tracked' = (Tracked \ Newer) \cup Missed]_vars
        BY <1>1
    <1> QED BY <1>2, Invariance, PTL DEF Spec, LeakFreed

(* A test or teardown that passes the check for leaks left nothing since   *)
(* its check point, but for the blocks before a check point whose address  *)
(* was given out again: nothing else hides a leak.                         *)
THEOREM OnlyRecyclingHidesLeaks == Spec => LeakMissedOnlyByRecycling
    <1>1. ASSUME IInv, [Next]_vars, kind \in {"TEST", "TEARDOWN"}, result' = "ok"
          PROVE  Newer = Missed
        <2>1. FailIfBlocksAllocated /\ CheckPointAlive
            BY <1>1, WhoReports DEF FailIfBlocksAllocated
        <2>2. Position = Len(block_list)
            BY <1>1, <2>1, WalkCuts
        <2>3. ASSUME NEW b \in Newer PROVE b \in Missed
            <3>0. block_list \in Seq(Addresses)
                BY <1>1 DEF IInv, TypeOK
            <3>1. PICK i \in 1..Len(block_list) : b = block_list[i]
                BY <3>0 DEF Newer, Tracked, ToSet
            <3>2. i <= Position
                BY <3>0, <3>1, <2>2
            <3> QED BY <1>1, <2>1, <3>1, <3>2, PointDivides
        <2> QED BY <2>3 DEF Missed
    <1>2. IInv /\ [Next]_vars =>
              [(kind \in {"TEST", "TEARDOWN"} /\ result' = "ok") => (Newer = Missed)]_vars
        BY <1>1
    <1> QED BY <1>2, Invariance, PTL DEF Spec, LeakMissedOnlyByRecycling
=============================================================================
