----------------------------- MODULE MockProof -----------------------------
(***************************************************************************)
(* Proofs about the mock value and expectation queues, for any functions,  *)
(* parameters, counts and bounds, and any number of declarations, uses,    *)
(* tests and blocks.  Part 1 is about MockQueue, part 2 about MockHeap.    *)
(***************************************************************************)
EXTENDS MockHeap, SequenceTheorems, WellFoundedInduction, TLAPS

(***************************************************************************)
(* Part 1, the queues: the maps keep their shape; a queue is always what   *)
(* is left of the declarations of its symbol, so that "could not get       *)
(* value" is said only of what is not there; and the queues implement      *)
(* MockContract.                                                           *)
(***************************************************************************)

-----------------------------------------------------------------------------
(* Maps                                                                    *)

(* A map with a value put under a symbol.                                  *)
LEMMA PutMap ==
    ASSUME NEW map, NEW symbol, NEW value, NEW S, NEW V,
           IsMap(map, S, V), symbol \in S, value \in V
    PROVE  /\ IsMap(Put(map, symbol, value), S, V)
           /\ DOMAIN Put(map, symbol, value) = DOMAIN map \cup {symbol}
           /\ Put(map, symbol, value)[symbol] = value
           /\ \A s \in DOMAIN map : s # symbol => Put(map, symbol, value)[s] = map[s]
           /\ \A s, default : At(Put(map, symbol, value), s, default)
                 = IF s = symbol THEN value ELSE At(map, s, default)
    BY DEF IsMap, Put, At

(* A map without the symbols of which the queue is empty reads the same.   *)
LEMMA DropEmptyQueues ==
    ASSUME NEW map, NEW S, NEW nodes, IsMap(map, S, Seq(nodes))
    PROVE  /\ IsQueueMap(DropEmpty(map), S, nodes)
           /\ \A s : At(DropEmpty(map), s, <<>>) = At(map, s, <<>>)
    <1>1. \A s \in DOMAIN map : DOMAIN map[s] # {} <=> map[s] # <<>>
        <2> SUFFICES ASSUME NEW s \in DOMAIN map
                     PROVE  DOMAIN map[s] # {} <=> map[s] # <<>>
            OBVIOUS
        <2>1. map[s] \in Seq(nodes)
            BY DEF IsMap
        <2>2. DOMAIN map[s] = 1..Len(map[s]) /\ Len(map[s]) \in Nat
            BY <2>1
        <2>3. map[s] = <<>> <=> Len(map[s]) = 0
            BY <2>1, EmptySeq
        <2> QED BY <2>2, <2>3
    <1>2. DropEmpty(map) = [s \in {s \in DOMAIN map : map[s] # <<>>} |-> map[s]]
        BY <1>1 DEF DropEmpty, Restrict
    <1> QED BY <1>2 DEF IsQueueMap, IsMap, At

(* Declaring adds to the end of the symbol's queue and to no other.        *)
LEMMA AddValueMap ==
    ASSUME NEW map, NEW S, NEW nodes, NEW symbol \in S, NEW node \in nodes,
           IsQueueMap(map, S, nodes)
    PROVE  /\ IsQueueMap(AddValue(map, symbol, node), S, nodes)
           /\ DOMAIN AddValue(map, symbol, node) # {}
           /\ \A s : At(AddValue(map, symbol, node), s, <<>>)
                 = IF s = symbol THEN Append(At(map, s, <<>>), node)
                   ELSE At(map, s, <<>>)
    <1>1. At(map, symbol, <<>>) \in Seq(nodes)
        BY DEF IsQueueMap, IsMap, At
    <1> DEFINE queue == Append(At(map, symbol, <<>>), node)
    <1>2. queue \in Seq(nodes) /\ queue # <<>>
        <2>1. queue \in Seq(nodes) /\ Len(queue) = Len(At(map, symbol, <<>>)) + 1
            BY <1>1, AppendProperties
        <2>2. Len(queue) # 0
            BY <1>1, <2>1, LenProperties
        <2> QED BY <2>1, <2>2, EmptySeq
    <1> HIDE DEF queue
    <1>3. IsMap(Put(map, symbol, queue), S, Seq(nodes))
        BY <1>2, PutMap DEF IsQueueMap
    <1>4. AddValue(map, symbol, node) = Put(map, symbol, queue)
        BY DEF AddValue, queue
    <1>5. IsQueueMap(AddValue(map, symbol, node), S, nodes)
        BY <1>2, <1>3, <1>4 DEF IsQueueMap, Put
    <1>6. symbol \in DOMAIN Put(map, symbol, queue)
        BY DEF Put
    <1>7. \A s : At(Put(map, symbol, queue), s, <<>>)
              = IF s = symbol THEN queue ELSE At(map, s, <<>>)
        BY DEF Put, At
    <1> QED BY <1>4, <1>5, <1>6, <1>7 DEF queue

(* A use releases the head of the symbol's queue and touches no other.     *)
LEMMA TakeValueMap ==
    ASSUME NEW map, NEW S, NEW nodes, NEW symbol \in DOMAIN map,
           IsQueueMap(map, S, nodes), Release(map[symbol]) \in Seq(nodes)
    PROVE  /\ IsQueueMap(TakeValue(map, symbol), S, nodes)
           /\ \A s : At(TakeValue(map, symbol), s, <<>>)
                 = IF s = symbol THEN Release(map[symbol]) ELSE At(map, s, <<>>)
    <1> DEFINE rest == Put(map, symbol, Release(map[symbol]))
    <1>1. symbol \in S /\ IsMap(map, S, Seq(nodes))
        BY DEF IsQueueMap, IsMap
    <1>2. IsMap(rest, S, Seq(nodes))
        BY <1>1, PutMap
    <1>3. \A s : At(rest, s, <<>>)
              = IF s = symbol THEN Release(map[symbol]) ELSE At(map, s, <<>>)
        BY DEF Put, At
    <1> HIDE DEF rest
    <1>4. TakeValue(map, symbol) = DropEmpty(rest)
        BY DEF TakeValue, rest
    <1> QED BY <1>2, <1>3, <1>4, DropEmptyQueues

(* What remove_always_return_values leaves of a queue.                     *)
WithoutAlways(queue) ==
    IF queue # <<>> /\ queue[1].refcount < -1 THEN Tail(queue) ELSE queue

LEMMA DropAlwaysMap ==
    ASSUME NEW map, NEW S, NEW nodes, IsQueueMap(map, S, nodes)
    PROVE  /\ IsQueueMap(DropAlways(map), S, nodes)
           /\ \A s : At(DropAlways(map), s, <<>>) = WithoutAlways(At(map, s, <<>>))
    <1> DEFINE rest == [s \in DOMAIN map |->
                   IF map[s][1].refcount < -1 THEN Tail(map[s]) ELSE map[s]]
    <1>1. \A s \in DOMAIN map : rest[s] = WithoutAlways(map[s]) /\ rest[s] \in Seq(nodes)
        <2> SUFFICES ASSUME NEW s \in DOMAIN map
                     PROVE  rest[s] = WithoutAlways(map[s]) /\ rest[s] \in Seq(nodes)
            OBVIOUS
        <2>1. map[s] \in Seq(nodes) /\ map[s] # <<>>
            BY DEF IsQueueMap, IsMap
        <2>2. Tail(map[s]) \in Seq(nodes)
            BY <2>1
        <2> QED BY <2>1, <2>2 DEF WithoutAlways
    <1>2. DOMAIN rest = DOMAIN map /\ rest = [s \in DOMAIN rest |-> rest[s]]
        OBVIOUS
    <1>3. DropAlways(map) = DropEmpty(rest)
        BY DEF DropAlways
    <1> HIDE DEF rest
    <1>4. IsMap(rest, S, Seq(nodes))
        BY <1>1, <1>2 DEF IsMap, IsQueueMap
    <1>5. WithoutAlways(<<>>) = <<>>
        BY DEF WithoutAlways
    <1>6. \A s : At(rest, s, <<>>) = WithoutAlways(At(map, s, <<>>))
        BY <1>1, <1>2, <1>5 DEF At
    <1> QED BY <1>3, <1>4, <1>6, DropEmptyQueues

-----------------------------------------------------------------------------
(* Maps of maps                                                            *)

Inner(map, f) == At(map, f, EmptyMap)
QueueAt(map, f, p) == At(Inner(map, f), p, <<>>)

(* The map of nothing.                                                     *)
LEMMA NoQueues ==
    ASSUME NEW S, NEW nodes
    PROVE  /\ IsQueueMap(EmptyMap, S, nodes)
           /\ \A map : IsQueueMap(map, S, nodes) /\ DOMAIN map = {} => map = EmptyMap
           /\ \A s : At(EmptyMap, s, <<>>) = <<>>
    BY DEF EmptyMap, IsQueueMap, IsMap, At

(* What a function's symbol leads to: no queues when it is not there.      *)
LEMMA InnerMap ==
    ASSUME NEW map, NEW f, IsNestedMap(map)
    PROVE  IsQueueMap(Inner(map, f), Parameters, CheckNode)
    BY NoQueues DEF IsNestedMap, Inner, At

(* A map of maps without those that are empty reads the same.              *)
LEMMA DropEmptyMaps ==
    ASSUME NEW map, DOMAIN map \subseteq Functions,
           map = [f \in DOMAIN map |-> map[f]],
           \A f \in DOMAIN map : IsQueueMap(map[f], Parameters, CheckNode)
    PROVE  /\ IsNestedMap(DropEmpty(map))
           /\ \A f : Inner(DropEmpty(map), f) = Inner(map, f)
    <1>1. DropEmpty(map) = [f \in {f \in DOMAIN map : DOMAIN map[f] # {}} |-> map[f]]
        BY DEF DropEmpty, Restrict
    <1>2. \A f \in DOMAIN map : DOMAIN map[f] = {} => map[f] = EmptyMap
        BY NoQueues
    <1> QED BY <1>1, <1>2 DEF IsNestedMap, Inner, At

(* One parameter's queue grows, and no other.                              *)
LEMMA AddNestedMap ==
    ASSUME NEW map, NEW f \in Functions, NEW p \in Parameters,
           NEW node \in CheckNode, IsNestedMap(map)
    PROVE  /\ IsNestedMap(AddNested(map, f, p, node))
           /\ \A g, q : QueueAt(AddNested(map, f, p, node), g, q)
                 = IF g = f /\ q = p THEN Append(QueueAt(map, g, q), node)
                   ELSE QueueAt(map, g, q)
    <1> DEFINE inner == AddValue(Inner(map, f), p, node)
    <1>1. /\ IsQueueMap(inner, Parameters, CheckNode)
          /\ DOMAIN inner # {}
          /\ \A s : At(inner, s, <<>>)
                 = IF s = p THEN Append(At(Inner(map, f), s, <<>>), node)
                   ELSE At(Inner(map, f), s, <<>>)
        BY InnerMap, AddValueMap
    <1>2. AddNested(map, f, p, node) = Put(map, f, inner)
        BY DEF AddNested, Inner
    <1> HIDE DEF inner
    <1>3. IsNestedMap(Put(map, f, inner))
        BY <1>1 DEF IsNestedMap, Put
    <1>4. \A g : Inner(Put(map, f, inner), g) = IF g = f THEN inner ELSE Inner(map, g)
        BY DEF Put, Inner, At
    <1> QED BY <1>1, <1>2, <1>3, <1>4 DEF QueueAt

(* One parameter's queue is released, and no other, the parameter's symbol *)
(* and the function's going with the last check.                           *)
LEMMA TakeNestedMap ==
    ASSUME NEW map, NEW f \in DOMAIN map, NEW p \in DOMAIN map[f],
           IsNestedMap(map), Release(map[f][p]) \in Seq(CheckNode)
    PROVE  /\ IsNestedMap(TakeNested(map, f, p))
           /\ \A g, q : QueueAt(TakeNested(map, f, p), g, q)
                 = IF g = f /\ q = p THEN Release(map[f][p]) ELSE QueueAt(map, g, q)
    <1> DEFINE inner == TakeValue(map[f], p)
               rest == Put(map, f, inner)
    <1>1. f \in Functions /\ IsQueueMap(map[f], Parameters, CheckNode)
        BY DEF IsNestedMap
    <1>2. /\ IsQueueMap(inner, Parameters, CheckNode)
          /\ \A s : At(inner, s, <<>>)
                 = IF s = p THEN Release(map[f][p]) ELSE At(map[f], s, <<>>)
        BY <1>1, TakeValueMap
    <1>3. TakeNested(map, f, p) = DropEmpty(rest)
        BY DEF TakeNested
    <1> HIDE DEF inner
    <1>4. /\ DOMAIN rest \subseteq Functions
          /\ rest = [g \in DOMAIN rest |-> rest[g]]
          /\ \A g \in DOMAIN rest : IsQueueMap(rest[g], Parameters, CheckNode)
        BY <1>1, <1>2 DEF IsNestedMap, Put
    <1>5. \A g : Inner(rest, g) = IF g = f THEN inner ELSE Inner(map, g)
        BY DEF Put, Inner, At
    <1>6. Inner(map, f) = map[f]
        BY DEF Inner, At
    <1> HIDE DEF rest
    <1>7. IsNestedMap(DropEmpty(rest)) /\ \A g : Inner(DropEmpty(rest), g) = Inner(rest, g)
        BY <1>4, DropEmptyMaps
    <1> QED BY <1>2, <1>3, <1>5, <1>6, <1>7 DEF QueueAt

LEMMA DropAlwaysNestedMap ==
    ASSUME NEW map, IsNestedMap(map)
    PROVE  /\ IsNestedMap(DropAlwaysNested(map))
           /\ \A f, p : QueueAt(DropAlwaysNested(map), f, p) = WithoutAlways(QueueAt(map, f, p))
    <1> DEFINE rest == [f \in DOMAIN map |-> DropAlways(map[f])]
    <1>1. \A f \in DOMAIN map :
              /\ IsQueueMap(rest[f], Parameters, CheckNode)
              /\ \A p : At(rest[f], p, <<>>) = WithoutAlways(At(map[f], p, <<>>))
        BY DropAlwaysMap DEF IsNestedMap
    <1>2. DOMAIN rest \subseteq Functions /\ rest = [f \in DOMAIN rest |-> rest[f]]
          /\ DOMAIN rest = DOMAIN map
        BY DEF IsNestedMap
    <1>3. DropAlwaysNested(map) = DropEmpty(rest)
        BY DEF DropAlwaysNested
    <1> HIDE DEF rest
    <1>4. /\ IsNestedMap(DropEmpty(rest))
          /\ \A f : Inner(DropEmpty(rest), f) = Inner(rest, f)
        BY <1>1, <1>2, DropEmptyMaps
    <1>5. WithoutAlways(<<>>) = <<>>
        BY DEF WithoutAlways
    <1>6. \A f, p : QueueAt(rest, f, p) = WithoutAlways(QueueAt(map, f, p))
        BY <1>1, <1>2, <1>5, NoQueues DEF QueueAt, Inner, At
    <1> QED BY <1>3, <1>4, <1>6 DEF QueueAt

(* A map is empty when all that can be read from it is.                    *)
LEMMA EmptyWhenRead ==
    /\ \A map, S, nodes : IsQueueMap(map, S, nodes) =>
          (map = EmptyMap <=> \A s \in S : At(map, s, <<>>) = <<>>)
    /\ \A map : IsNestedMap(map) =>
          (map = EmptyMap <=>
             \A f \in Functions, p \in Parameters : QueueAt(map, f, p) = <<>>)
    <1>1. ASSUME NEW map, NEW S, NEW nodes, IsQueueMap(map, S, nodes)
          PROVE  map = EmptyMap <=> \A s \in S : At(map, s, <<>>) = <<>>
        <2>1. map = EmptyMap => \A s \in S : At(map, s, <<>>) = <<>>
            BY NoQueues
        <2>2. ASSUME \A s \in S : At(map, s, <<>>) = <<>>
              PROVE  map = EmptyMap
            <3>1. DOMAIN map = {}
                BY <1>1, <2>2 DEF IsQueueMap, IsMap, At
            <3> QED BY <1>1, <3>1, NoQueues
        <2> QED BY <2>1, <2>2
    <1>2. ASSUME NEW map, IsNestedMap(map)
          PROVE  map = EmptyMap <=>
                     \A f \in Functions, p \in Parameters : QueueAt(map, f, p) = <<>>
        <2>1. \A f : Inner(EmptyMap, f) = EmptyMap
            BY DEF EmptyMap, Inner, At
        <2>2. map = EmptyMap =>
                  \A f \in Functions, p \in Parameters : QueueAt(map, f, p) = <<>>
            BY <2>1, NoQueues DEF QueueAt
        <2>3. ASSUME \A f \in Functions, p \in Parameters : QueueAt(map, f, p) = <<>>
              PROVE  map = EmptyMap
            <3>1. ASSUME NEW f \in DOMAIN map PROVE FALSE
                <4>1. /\ f \in Functions /\ Inner(map, f) = map[f]
                      /\ IsQueueMap(map[f], Parameters, CheckNode)
                      /\ DOMAIN map[f] # {}
                    BY <1>2, <3>1 DEF IsNestedMap, Inner, At
                <4>2. map[f] = EmptyMap
                    BY <1>1, <2>3, <4>1 DEF QueueAt
                <4> QED BY <4>1, <4>2 DEF EmptyMap
            <3>2. DOMAIN map = {}
                BY <3>1
            <3> QED BY <1>2, <3>2 DEF IsNestedMap, EmptyMap
        <2> QED BY <2>2, <2>3
    <1> QED BY <1>1, <1>2

-----------------------------------------------------------------------------
(* Queues                                                                  *)

AnyNode == Node \cup CheckNode

(* What is queued for a symbol.                                            *)
QueueOf(k) ==
    IF k \in Functions THEN At(result_map, k, <<>>)
    ELSE QueueAt(parameter_map, k[1], k[2])

(* A symbol is a function's or a parameter's, never both.                  *)
LEMMA KeyParts ==
    /\ \A k \in Keys : k \in Functions \/ \E f \in Functions, p \in Parameters : k = <<f, p>>
    /\ \A f \in Functions, p \in Parameters :
          /\ <<f, p>> \in Keys /\ <<f, p>> \notin Functions
          /\ <<f, p>>[1] = f /\ <<f, p>>[2] = p
    /\ Functions \subseteq Keys
    BY MockQueueAssumption DEF Keys

LEMMA QueuesTyped ==
    ASSUME TypeOK, NEW k \in Keys
    PROVE  QueueOf(k) \in Seq(AnyNode)
    <1>1. CASE k \in Functions
        <2>1. At(result_map, k, <<>>) \in Seq(Node)
            BY DEF TypeOK, IsQueueMap, IsMap, At
        <2>2. Seq(Node) \subseteq Seq(AnyNode)
            BY DEF AnyNode
        <2> QED BY <1>1, <2>1, <2>2 DEF QueueOf
    <1>2. CASE \E f \in Functions, p \in Parameters : k = <<f, p>>
        <2>1. PICK f \in Functions, p \in Parameters : k = <<f, p>>
            BY <1>2
        <2>2. IsQueueMap(Inner(parameter_map, f), Parameters, CheckNode)
            BY InnerMap DEF TypeOK
        <2>3. QueueAt(parameter_map, f, p) \in Seq(CheckNode)
            BY <2>2 DEF IsQueueMap, IsMap, At, QueueAt
        <2>4. Seq(CheckNode) \subseteq Seq(AnyNode)
            BY DEF AnyNode
        <2>5. QueueOf(k) = QueueAt(parameter_map, f, p)
            BY <2>1, KeyParts DEF QueueOf
        <2> QED BY <2>3, <2>4, <2>5
    <1> QED BY <1>1, <1>2, KeyParts

(* One reference fewer.                                                    *)
LEMMA NodeReleased ==
    ASSUME NEW node \in AnyNode
    PROVE  LET after == [node EXCEPT !.refcount = @ - 1]
           IN  /\ after.location = node.location
               /\ after.refcount = node.refcount - 1
               /\ node \in Node => after \in Node
               /\ node \in CheckNode => after \in CheckNode
    <1>1. ASSUME NEW n \in Node
          PROVE  LET after == [n EXCEPT !.refcount = @ - 1]
                 IN  /\ after.location = n.location
                     /\ after.refcount = n.refcount - 1
                     /\ after \in Node
        BY DEF Node
    <1>2. ASSUME NEW n \in CheckNode
          PROVE  LET after == [n EXCEPT !.refcount = @ - 1]
                 IN  /\ after.location = n.location
                     /\ after.refcount = n.refcount - 1
                     /\ after \in CheckNode
        BY DEF CheckNode
    <1> QED BY <1>1, <1>2 DEF AnyNode

(* What a release leaves.                                                  *)
LEMMA ReleaseParts ==
    ASSUME NEW nodes, nodes \in {Node, CheckNode, AnyNode},
           NEW q \in Seq(nodes), q # <<>>
    PROVE  /\ Release(q) \in Seq(nodes)
           /\ q[1].refcount = 1 =>
                 /\ Len(Release(q)) = Len(q) - 1
                 /\ \A i \in 1..(Len(q) - 1) : Release(q)[i] = q[i + 1]
           /\ q[1].refcount # 1 =>
                 /\ Len(Release(q)) = Len(q)
                 /\ Release(q)[1].location = q[1].location
                 /\ Release(q)[1].refcount = q[1].refcount - 1
                 /\ \A i \in 2..Len(q) : Release(q)[i] = q[i]
    <1>1. Len(q) \in Nat /\ Len(q) > 0 /\ q[1] \in nodes
        BY EmptySeq, LenProperties, ElementOfSeq
    <1>2. CASE q[1].refcount = 1
        <2>1. Release(q) = Tail(q)
            BY <1>2 DEF Release
        <2>2. /\ Tail(q) \in Seq(nodes) /\ Len(Tail(q)) = Len(q) - 1
              /\ \A i \in 1..(Len(q) - 1) : Tail(q)[i] = q[i + 1]
            BY <1>1, HeadTailProperties
        <2> QED BY <1>2, <2>1, <2>2
    <1>3. CASE q[1].refcount # 1
        <2> DEFINE head == [q[1] EXCEPT !.refcount = @ - 1]
        <2>1. Release(q) = [q EXCEPT ![1] = head]
            BY <1>3 DEF Release
        <2>2. head \in nodes /\ head.location = q[1].location
              /\ head.refcount = q[1].refcount - 1
            BY <1>1, NodeReleased DEF AnyNode
        <2> HIDE DEF head
        <2>3. [q EXCEPT ![1] = head] \in Seq(nodes)
              /\ Len([q EXCEPT ![1] = head]) = Len(q)
            BY <1>1, <2>2, ExceptSeq
        <2>4. [q EXCEPT ![1] = head][1] = head
              /\ \A i \in 2..Len(q) : [q EXCEPT ![1] = head][i] = q[i]
            BY <1>1
        <2> QED BY <1>3, <2>1, <2>2, <2>3, <2>4
    <1> QED BY <1>2, <1>3

-----------------------------------------------------------------------------
(* The steps of MockQueue, told by their queues                            *)

Declares(k, count) ==
    /\ Declare(k, count)
    /\ \E node \in AnyNode :
          /\ node.location = location + 1
          /\ node.refcount = count
          /\ \A m \in Keys :
                QueueOf(m)' = IF m = k THEN Append(QueueOf(m), node) ELSE QueueOf(m)

Uses(k) ==
    /\ phase = "body"
    /\ QueueOf(k) # <<>>
    /\ QueueOf(k)[1].refcount # 0
    /\ used' = [used EXCEPT ![QueueOf(k)[1].location] = @ + 1]
    /\ \A m \in Keys :
          QueueOf(m)' = IF m = k THEN Release(QueueOf(m)) ELSE QueueOf(m)
    /\ \/ verdict' = verdict /\ phase' = phase
       \/ verdict' = "mismatch" /\ phase' = "dead"
    /\ UNCHANGED <<declared, missing, location>>

Misses(k) ==
    /\ phase = "body"
    /\ QueueOf(k) # <<>> => QueueOf(k)[1].refcount = 0
    /\ \A m \in Keys :
          QueueOf(m)' = IF m = k /\ QueueOf(m) # <<>> THEN Release(QueueOf(m))
                        ELSE QueueOf(m)
    /\ missing' = {k}
    /\ verdict' = "missing"
    /\ phase' = "dead"
    /\ UNCHANGED <<declared, used, location>>

(* A step that declares nothing and looks for nothing.                     *)
Rests == UNCHANGED <<maps, phase, declared, used, missing, verdict, location>>

Leaves ==
    /\ phase = "body"
    /\ phase' \in {"teardown", "dead"}
    /\ UNCHANGED <<declared, used, missing, location>>
    /\ \/ verdict' = "threw"
       \/ verdict' = IF \A k \in Keys : WithoutAlways(QueueOf(k)) = <<>>
                     THEN "passed" ELSE "leftover"

Clears ==
    /\ phase = "teardown"
    /\ phase' \in {"idle", "dead"}
    /\ UNCHANGED <<declared, used, missing, verdict, location>>

LEMMA MulMonotonic ==
    ASSUME NEW a \in Nat, NEW b \in Nat, NEW c \in Nat, b <= c
    PROVE  a * b <= a * c
    OBVIOUS

(* Where the next declaration stands.                                      *)
LEMMA NextLocation ==
    ASSUME TypeOK, location < MaxDeclared * test
    PROVE  location + 1 \in Locations /\ location \in Nat
    <1>1. /\ MaxDeclared \in Nat /\ MaxTests \in Nat /\ test \in Nat
          /\ test <= MaxTests /\ location \in Nat
        BY MockQueueAssumption DEF TypeOK, Locations
    <1>2. MaxDeclared * test <= MaxDeclared * MaxTests
        BY <1>1, MulMonotonic
    <1>3. MaxDeclared * test \in Nat /\ MaxDeclared * MaxTests \in Nat
        BY <1>1
    <1> QED BY <1>1, <1>2, <1>3 DEF Locations

(* Each action, told by its queues.                                        *)
LEMMA WillReturnStep ==
    ASSUME TypeOK, NEW f \in Functions, NEW count \in ResultCounts, WillReturn(f, count)
    PROVE  IsQueueMap(result_map', Functions, Node) /\ Declares(f, count)
    <1> DEFINE node == [location |-> location + 1, refcount |-> count]
    <1>1. node \in Node /\ node \in AnyNode
        BY NextLocation, MockQueueAssumption DEF WillReturn, Declare, Node, AnyNode
    <1>2. result_map' = AddValue(result_map, f, node) /\ parameter_map' = parameter_map
        BY DEF WillReturn
    <1>3. node.location = location + 1 /\ node.refcount = count
        OBVIOUS
    <1> HIDE DEF node
    <1>4. /\ IsQueueMap(result_map', Functions, Node)
          /\ \A s : At(result_map', s, <<>>)
                 = IF s = f THEN Append(At(result_map, s, <<>>), node)
                   ELSE At(result_map, s, <<>>)
        BY <1>1, <1>2, AddValueMap DEF TypeOK
    <1>5. \A m \in Keys :
              QueueOf(m)' = IF m = f THEN Append(QueueOf(m), node) ELSE QueueOf(m)
        BY <1>2, <1>4 DEF QueueOf
    <1> QED BY <1>1, <1>3, <1>4, <1>5 DEF Declares, WillReturn

LEMMA ExpectStep ==
    ASSUME TypeOK, NEW f \in Functions, NEW p \in Parameters,
           NEW accepts \in Acceptable, NEW count \in ExpectCounts,
           Expect(f, p, accepts, count)
    PROVE  IsNestedMap(parameter_map') /\ Declares(<<f, p>>, count)
    <1> DEFINE node == [location |-> location + 1, refcount |-> count,
                        accepts |-> accepts]
    <1>1. node \in CheckNode /\ node \in AnyNode
        BY NextLocation, MockQueueAssumption DEF Expect, Declare, CheckNode, AnyNode
    <1>2. parameter_map' = AddNested(parameter_map, f, p, node) /\ result_map' = result_map
        BY DEF Expect
    <1>3. node.location = location + 1 /\ node.refcount = count
        OBVIOUS
    <1> HIDE DEF node
    <1>4. /\ IsNestedMap(parameter_map')
          /\ \A g, q : QueueAt(parameter_map', g, q)
                 = IF g = f /\ q = p THEN Append(QueueAt(parameter_map, g, q), node)
                   ELSE QueueAt(parameter_map, g, q)
        BY <1>1, <1>2, AddNestedMap DEF TypeOK
    <1>5. ASSUME NEW m \in Keys
          PROVE  QueueOf(m)' = IF m = <<f, p>> THEN Append(QueueOf(m), node) ELSE QueueOf(m)
        <2>1. CASE m \in Functions
            BY <1>2, <2>1, KeyParts DEF QueueOf
        <2>2. CASE \E g \in Functions, q \in Parameters : m = <<g, q>>
            <3>1. PICK g \in Functions, q \in Parameters : m = <<g, q>>
                BY <2>2
            <3>2. /\ QueueOf(m)' = QueueAt(parameter_map', g, q)
                  /\ QueueOf(m) = QueueAt(parameter_map, g, q)
                BY <3>1, KeyParts DEF QueueOf
            <3>3. m = <<f, p>> <=> g = f /\ q = p
                BY <3>1
            <3> QED BY <1>4, <3>2, <3>3
        <2> QED BY <2>1, <2>2, KeyParts
    <1> QED BY <1>1, <1>3, <1>4, <1>5 DEF Declares, Expect

(* The queue of a symbol that is in its map is not empty.                  *)
LEMMA QueueFound ==
    ASSUME TypeOK
    PROVE  /\ \A f \in Functions :
                 IF f \in DOMAIN result_map
                 THEN /\ QueueOf(f) = result_map[f] /\ QueueOf(f) # <<>>
                      /\ QueueOf(f) \in Seq(Node)
                 ELSE QueueOf(f) = <<>>
           /\ \A f \in Functions, p \in Parameters :
                 IF p \in DOMAIN At(parameter_map, f, EmptyMap)
                 THEN /\ f \in DOMAIN parameter_map /\ p \in DOMAIN parameter_map[f]
                      /\ QueueOf(<<f, p>>) = parameter_map[f][p]
                      /\ QueueOf(<<f, p>>) # <<>>
                      /\ QueueOf(<<f, p>>) \in Seq(CheckNode)
                 ELSE QueueOf(<<f, p>>) = <<>>
    <1>1. ASSUME NEW f \in Functions
          PROVE  IF f \in DOMAIN result_map
                 THEN /\ QueueOf(f) = result_map[f] /\ QueueOf(f) # <<>>
                      /\ QueueOf(f) \in Seq(Node)
                 ELSE QueueOf(f) = <<>>
        BY DEF TypeOK, IsQueueMap, IsMap, QueueOf, At
    <1>2. ASSUME NEW f \in Functions, NEW p \in Parameters
          PROVE  IF p \in DOMAIN At(parameter_map, f, EmptyMap)
                 THEN /\ f \in DOMAIN parameter_map /\ p \in DOMAIN parameter_map[f]
                      /\ QueueOf(<<f, p>>) = parameter_map[f][p]
                      /\ QueueOf(<<f, p>>) # <<>>
                      /\ QueueOf(<<f, p>>) \in Seq(CheckNode)
                 ELSE QueueOf(<<f, p>>) = <<>>
        <2>1. QueueOf(<<f, p>>) = At(At(parameter_map, f, EmptyMap), p, <<>>)
            BY KeyParts DEF QueueOf, QueueAt, Inner
        <2>2. p \in DOMAIN At(parameter_map, f, EmptyMap) =>
                 f \in DOMAIN parameter_map /\ p \in DOMAIN parameter_map[f]
            BY DEF At, EmptyMap
        <2>3. f \in DOMAIN parameter_map =>
                 IsQueueMap(parameter_map[f], Parameters, CheckNode)
            BY DEF TypeOK, IsNestedMap
        <2> QED BY <2>1, <2>2, <2>3 DEF IsQueueMap, IsMap, At
    <1> QED BY <1>1, <1>2

LEMMA MockStep ==
    ASSUME TypeOK, NEW f \in Functions, Mock(f) \/ MockUnset(f)
    PROVE  IsQueueMap(result_map', Functions, Node) /\ (Uses(f) \/ Misses(f))
    <1>1. CASE Mock(f)
        <2>1. /\ f \in DOMAIN result_map /\ QueueOf(f) = result_map[f]
              /\ QueueOf(f) # <<>> /\ QueueOf(f) \in Seq(Node)
            BY <1>1, QueueFound DEF Mock
        <2>2. Release(result_map[f]) \in Seq(Node)
            BY <2>1, ReleaseParts
        <2>3. result_map' = TakeValue(result_map, f) /\ parameter_map' = parameter_map
            BY <1>1 DEF Mock
        <2>4. /\ IsQueueMap(result_map', Functions, Node)
              /\ \A s : At(result_map', s, <<>>)
                     = IF s = f THEN Release(result_map[f]) ELSE At(result_map, s, <<>>)
            BY <2>1, <2>2, <2>3, TakeValueMap DEF TypeOK
        <2>5. \A m \in Keys :
                  QueueOf(m)' = IF m = f THEN Release(QueueOf(m)) ELSE QueueOf(m)
            BY <2>1, <2>3, <2>4 DEF QueueOf
        <2>6. CASE ReturnedCount(result_map[f][1]) # 0
            <3>1. Uses(f)
                BY <1>1, <2>1, <2>5, <2>6 DEF Mock, Uses, Found, UseOne, ReturnedCount
            <3> QED BY <2>4, <3>1
        <2>7. CASE ReturnedCount(result_map[f][1]) = 0
            <3>1. Misses(f)
                BY <1>1, <2>1, <2>5, <2>7
                DEF Mock, Misses, NotFound, Abort, UseOne, ReturnedCount
            <3> QED BY <2>4, <3>1
        <2> QED BY <2>6, <2>7
    <1>2. CASE MockUnset(f)
        <2>1. QueueOf(f) = <<>>
            BY <1>2, QueueFound DEF MockUnset
        <2>2. \A m \in Keys : QueueOf(m)' = QueueOf(m)
            BY <1>2 DEF MockUnset, maps, QueueOf
        <2>3. Misses(f)
            BY <1>2, <2>1, <2>2 DEF MockUnset, Misses, NotFound, Abort, UseOne
        <2> QED BY <1>2, <2>3 DEF TypeOK, MockUnset, maps
    <1> QED BY <1>1, <1>2

LEMMA CheckStep ==
    ASSUME TypeOK, NEW f \in Functions, NEW p \in Parameters,
           (\E value \in Values : CheckExpected(f, p, value)) \/ CheckUnset(f, p)
    PROVE  IsNestedMap(parameter_map') /\ (Uses(<<f, p>>) \/ Misses(<<f, p>>))
    <1>1. ASSUME NEW value \in Values, CheckExpected(f, p, value)
          PROVE  IsNestedMap(parameter_map') /\ (Uses(<<f, p>>) \/ Misses(<<f, p>>))
        <2> DEFINE queue == parameter_map[f][p]
        <2>1. /\ f \in DOMAIN parameter_map /\ p \in DOMAIN parameter_map[f]
              /\ QueueOf(<<f, p>>) = queue /\ queue # <<>> /\ queue \in Seq(CheckNode)
            BY <1>1, QueueFound DEF CheckExpected
        <2>2. Release(queue) \in Seq(CheckNode)
            BY <2>1, ReleaseParts
        <2>3. parameter_map' = TakeNested(parameter_map, f, p) /\ result_map' = result_map
            BY <1>1 DEF CheckExpected
        <2>4. /\ IsNestedMap(parameter_map')
              /\ \A g, q : QueueAt(parameter_map', g, q)
                     = IF g = f /\ q = p THEN Release(queue) ELSE QueueAt(parameter_map, g, q)
            BY <2>1, <2>2, <2>3, TakeNestedMap DEF TypeOK
        <2>5. ASSUME NEW m \in Keys
              PROVE  QueueOf(m)' = IF m = <<f, p>> THEN Release(QueueOf(m)) ELSE QueueOf(m)
            <3>1. CASE m \in Functions
                BY <2>3, <3>1, KeyParts DEF QueueOf
            <3>2. CASE \E g \in Functions, q \in Parameters : m = <<g, q>>
                <4>1. PICK g \in Functions, q \in Parameters : m = <<g, q>>
                    BY <3>2
                <4>2. /\ QueueOf(m)' = QueueAt(parameter_map', g, q)
                      /\ QueueOf(m) = QueueAt(parameter_map, g, q)
                    BY <4>1, KeyParts DEF QueueOf
                <4>3. m = <<f, p>> <=> g = f /\ q = p
                    BY <4>1
                <4> QED BY <2>1, <2>4, <4>2, <4>3
            <3> QED BY <3>1, <3>2, KeyParts
        <2>6. CASE ReturnedCount(queue[1]) # 0
            <3>1. Uses(<<f, p>>)
                BY <1>1, <2>1, <2>5, <2>6
                DEF CheckExpected, Uses, Found, Abort, UseOne, ReturnedCount
            <3> QED BY <2>4, <3>1
        <2>7. CASE ReturnedCount(queue[1]) = 0
            <3>1. Misses(<<f, p>>)
                BY <1>1, <2>1, <2>5, <2>7
                DEF CheckExpected, Misses, NotFound, Abort, UseOne, ReturnedCount
            <3> QED BY <2>4, <3>1
        <2> QED BY <2>6, <2>7
    <1>2. ASSUME CheckUnset(f, p)
          PROVE  IsNestedMap(parameter_map') /\ (Uses(<<f, p>>) \/ Misses(<<f, p>>))
        <2>1. QueueOf(<<f, p>>) = <<>>
            BY <1>2, QueueFound DEF CheckUnset
        <2>2. \A m \in Keys : QueueOf(m)' = QueueOf(m)
            BY <1>2 DEF CheckUnset, maps, QueueOf
        <2>3. Misses(<<f, p>>)
            BY <1>2, <2>1, <2>2 DEF CheckUnset, Misses, NotFound, Abort, UseOne
        <2> QED BY <1>2, <2>3 DEF TypeOK, CheckUnset, maps
    <1> QED BY <1>1, <1>2

LEMMA LeftoverStep ==
    ASSUME TypeOK, FailIfLeftoverValues
    PROVE  /\ IsQueueMap(result_map', Functions, Node)
           /\ IsNestedMap(parameter_map')
           /\ Leaves
    <1>1. /\ IsQueueMap(result_map', Functions, Node)
          /\ \A s : At(result_map', s, <<>>) = WithoutAlways(At(result_map, s, <<>>))
        BY DropAlwaysMap DEF FailIfLeftoverValues, TypeOK
    <1>2. /\ IsNestedMap(parameter_map')
          /\ \A f, p : QueueAt(parameter_map', f, p) = WithoutAlways(QueueAt(parameter_map, f, p))
        BY DropAlwaysNestedMap DEF FailIfLeftoverValues, TypeOK
    <1>3. \A k \in Keys : QueueOf(k)' = WithoutAlways(QueueOf(k))
        BY <1>1, <1>2 DEF QueueOf
    <1>4. result_map' = EmptyMap <=> \A f \in Functions : QueueOf(f)' = <<>>
        BY <1>1, EmptyWhenRead DEF QueueOf
    <1>5. parameter_map' = EmptyMap <=>
              \A f \in Functions, p \in Parameters : QueueOf(<<f, p>>)' = <<>>
        <2>1. \A f \in Functions, p \in Parameters :
                  QueueOf(<<f, p>>)' = QueueAt(parameter_map', f, p)
            BY KeyParts DEF QueueOf
        <2>2. parameter_map' = EmptyMap <=>
                  \A f \in Functions, p \in Parameters : QueueAt(parameter_map', f, p) = <<>>
            BY <1>2, EmptyWhenRead
        <2> QED BY <2>1, <2>2
    <1>6. (result_map' = EmptyMap /\ parameter_map' = EmptyMap)
              <=> \A k \in Keys : WithoutAlways(QueueOf(k)) = <<>>
        <2>1. (\A k \in Keys : QueueOf(k)' = <<>>) <=>
                 /\ \A f \in Functions : QueueOf(f)' = <<>>
                 /\ \A f \in Functions, p \in Parameters : QueueOf(<<f, p>>)' = <<>>
            BY KeyParts
        <2> QED BY <1>3, <1>4, <1>5, <2>1
    <1> QED BY <1>1, <1>2, <1>6 DEF FailIfLeftoverValues, Leaves, Abort

-----------------------------------------------------------------------------
(* Types                                                                   *)

LEMMA TypeInit == Init => TypeOK
    <1> SUFFICES ASSUME Init PROVE TypeOK
        OBVIOUS
    <1>1. IsQueueMap(result_map, Functions, Node) /\ IsNestedMap(parameter_map)
        BY NoQueues DEF Init, IsNestedMap, EmptyMap
    <1>2. declared \in [Keys -> Seq(Declaration)] /\ used \in [Locations -> Nat]
        BY DEF Init, Nothing, Unused
    <1> QED BY <1>1, <1>2, MockQueueAssumption DEF Init, TypeOK

LEMMA NoMaps ==
    IsQueueMap(EmptyMap, Functions, Node) /\ IsNestedMap(EmptyMap)
    BY NoQueues DEF IsNestedMap, EmptyMap

(* A declaration keeps the types of what it touches.                       *)
LEMMA DeclareTyped ==
    ASSUME TypeOK, NEW k \in Keys, NEW count \in Int, Declare(k, count)
    PROVE  /\ location' \in Locations
           /\ declared' \in [Keys -> Seq(Declaration)]
           /\ declared'[k] = Append(declared[k],
                                 [location |-> location + 1, count |-> count])
           /\ \A m \in Keys : m # k => declared'[m] = declared[m]
    <1> DEFINE d == [location |-> location + 1, count |-> count]
    <1>1. d \in Declaration /\ location' = location + 1
        BY NextLocation DEF Declare, Declaration
    <1>2. declared' = [declared EXCEPT ![k] = Append(@, d)]
        BY DEF Declare
    <1> HIDE DEF d
    <1>3. Append(declared[k], d) \in Seq(Declaration)
        BY <1>1, AppendProperties DEF TypeOK
    <1>4. declared \in [Keys -> Seq(Declaration)]
        BY DEF TypeOK
    <1>5. location' \in Locations
        BY <1>1, NextLocation DEF Declare
    <1> QED BY <1>2, <1>3, <1>4, <1>5 DEF d

LEMMA TypeStep == TypeOK /\ [Next]_vars => TypeOK'
    <1> SUFFICES ASSUME TypeOK, [Next]_vars PROVE TypeOK'
        OBVIOUS
    <1> USE DEF lasts, maps, history
    <1>1. CASE BeginTest
        <2>1. IsQueueMap(result_map', Functions, Node) /\ IsNestedMap(parameter_map')
            BY <1>1, NoMaps DEF BeginTest
        <2>2. declared' \in [Keys -> Seq(Declaration)] /\ used' \in [Locations -> Nat]
            BY <1>1 DEF BeginTest, Nothing, Unused
        <2>3. test' \in 0..MaxTests /\ uses' \in 0..MaxUses
            BY <1>1, MockQueueAssumption DEF BeginTest, TypeOK
        <2> QED BY <1>1, <2>1, <2>2, <2>3 DEF BeginTest, TypeOK
    <1>2. ASSUME NEW f \in Functions, NEW count \in ResultCounts, WillReturn(f, count)
          PROVE  TypeOK'
        <2>1. /\ IsQueueMap(result_map', Functions, Node)
              /\ UNCHANGED <<parameter_map, lasts, lost, phase, ended_by, uses, test,
                             used, missing, verdict>>
            BY <1>2, WillReturnStep DEF WillReturn, Declare
        <2>2. location' \in Locations /\ declared' \in [Keys -> Seq(Declaration)]
            BY <1>2, DeclareTyped, KeyParts, MockQueueAssumption DEF WillReturn
        <2> QED BY <2>1, <2>2 DEF TypeOK
    <1>3. ASSUME NEW f \in Functions, NEW p \in Parameters, NEW accepts \in Acceptable,
                 NEW count \in ExpectCounts, Expect(f, p, accepts, count)
          PROVE  TypeOK'
        <2>1. /\ IsNestedMap(parameter_map')
              /\ UNCHANGED <<result_map, lasts, lost, phase, ended_by, uses, test,
                             used, missing, verdict>>
            BY <1>3, ExpectStep DEF Expect, Declare
        <2>2. location' \in Locations /\ declared' \in [Keys -> Seq(Declaration)]
            BY <1>3, DeclareTyped, KeyParts, MockQueueAssumption DEF Expect
        <2> QED BY <2>1, <2>2 DEF TypeOK
    <1>4. ASSUME NEW count \in ResultCounts, WillReturnRefused(count)
          PROVE  TypeOK'
        <2>1. uses' \in 0..MaxUses
            BY <1>4, MockQueueAssumption DEF WillReturnRefused, TypeOK
        <2> QED BY <1>4, <2>1 DEF WillReturnRefused, TypeOK
    <1>5. ASSUME NEW f \in Functions, Mock(f) \/ MockUnset(f)
          PROVE  TypeOK'
        <2>1. IsQueueMap(result_map', Functions, Node)
            BY <1>5, MockStep
        <2>2. uses' \in 0..MaxUses
            BY <1>5, MockQueueAssumption DEF Mock, MockUnset, UseOne, TypeOK
        <2>3. ASSUME Mock(f), ReturnedCount(result_map[f][1]) # 0
              PROVE  last_mock_value' \in Locations \cup {0} /\ used' \in [Locations -> Nat]
            <3>1. result_map[f] \in Seq(Node) /\ result_map[f] # <<>>
                BY <2>3, QueueFound DEF Mock
            <3>2. result_map[f][1] \in Node
                BY <3>1, EmptySeq, LenProperties, ElementOfSeq
            <3> DEFINE l == result_map[f][1].location
            <3>3. l \in Locations
                BY <3>2 DEF Node
            <3>4. last_mock_value' = l /\ used' = [used EXCEPT ![l] = @ + 1]
                BY <2>3 DEF Mock
            <3> HIDE DEF l
            <3> QED BY <3>3, <3>4 DEF TypeOK
        <2> QED BY <1>5, <2>1, <2>2, <2>3, KeyParts
                DEF Mock, MockUnset, UseOne, NotFound, Found, Abort, TypeOK
    <1>6. ASSUME NEW f \in Functions, NEW p \in Parameters,
                 (\E value \in Values : CheckExpected(f, p, value)) \/ CheckUnset(f, p)
          PROVE  TypeOK'
        <2>1. IsNestedMap(parameter_map')
            BY <1>6, CheckStep
        <2>2. uses' \in 0..MaxUses
            BY <1>6, MockQueueAssumption DEF CheckExpected, CheckUnset, UseOne, TypeOK
        <2>3. ASSUME NEW value \in Values, CheckExpected(f, p, value)
              PROVE  last_parameter' \in Locations \cup {0} /\ used' \in [Locations -> Nat]
            <3>1. parameter_map[f][p] \in Seq(CheckNode) /\ parameter_map[f][p] # <<>>
                BY <2>3, QueueFound DEF CheckExpected
            <3>2. parameter_map[f][p][1] \in CheckNode
                BY <3>1, EmptySeq, LenProperties, ElementOfSeq
            <3> QED BY <2>3, <3>2 DEF CheckExpected, CheckNode, TypeOK
        <2>4. ASSUME NEW value \in Values, CheckExpected(f, p, value)
              PROVE  TypeOK'
            BY <2>1, <2>2, <2>3, <2>4, KeyParts
            DEF CheckExpected, UseOne, NotFound, Found, Abort, TypeOK
        <2>5. ASSUME CheckUnset(f, p)
              PROVE  TypeOK'
            BY <2>1, <2>2, <2>5, KeyParts
            DEF CheckUnset, UseOne, NotFound, Abort, TypeOK
        <2> QED BY <1>6, <2>4, <2>5
    <1>7. CASE BodyThrows
        BY <1>7 DEF BodyThrows, TypeOK
    <1>8. CASE FailIfLeftoverValues
        <2>1. IsQueueMap(result_map', Functions, Node) /\ IsNestedMap(parameter_map')
            BY <1>8, LeftoverStep
        <2> QED BY <1>8, <2>1 DEF FailIfLeftoverValues, Abort, TypeOK
    <1>9. CASE TeardownTesting
        BY <1>9, NoMaps DEF TeardownTesting, TypeOK
    <1>10. CASE Ended
        BY <1>10 DEF Ended, vars, TypeOK
    <1>11. CASE UNCHANGED vars
        BY <1>11 DEF vars, TypeOK
    <1> QED BY <1>1, <1>2, <1>3, <1>4, <1>5, <1>6, <1>7, <1>8, <1>9, <1>10, <1>11
            DEF Next

(* Both maps keep their shape: no symbol without a queue, no function      *)
(* without a parameter, every node a value or a check of this kind, for    *)
(* any functions, parameters, counts and lengths.                          *)
THEOREM TypeCorrect == Spec => []TypeOK
    <1> QED BY TypeInit, TypeStep, PTL DEF Spec

(* Each step, told by what it does to the queues.                          *)
LEMMA QueueStep ==
    ASSUME TypeOK, [Next]_vars
    PROVE  \/ BeginTest
           \/ \E k \in Keys :
                 \/ \E count \in Int :
                       /\ Declares(k, count)
                       /\ k \in Functions => count # 0
                       /\ count \in ExpectCounts \/ ValidCount(count)
                 \/ Uses(k)
                 \/ Misses(k)
           \/ Leaves
           \/ Clears /\ TeardownTesting
           \/ Rests
    <1>1. ASSUME NEW f \in Functions, NEW count \in ResultCounts, WillReturn(f, count)
          PROVE  \E k \in Keys, c \in Int :
                     /\ Declares(k, c)
                     /\ k \in Functions => c # 0
                     /\ c \in ExpectCounts \/ ValidCount(c)
        <2>1. f \in Keys /\ count \in Int /\ count # 0 /\ ValidCount(count)
            BY <1>1, KeyParts, MockQueueAssumption DEF WillReturn, ValidCount
        <2> QED BY <1>1, <2>1, WillReturnStep
    <1>2. ASSUME NEW f \in Functions, NEW p \in Parameters, NEW accepts \in Acceptable,
                 NEW count \in ExpectCounts, Expect(f, p, accepts, count)
          PROVE  \E k \in Keys, c \in Int :
                     /\ Declares(k, c)
                     /\ k \in Functions => c # 0
                     /\ c \in ExpectCounts \/ ValidCount(c)
        <2>1. <<f, p>> \in Keys /\ <<f, p>> \notin Functions /\ count \in Int
            BY KeyParts, MockQueueAssumption
        <2> QED BY <1>2, <2>1, ExpectStep
    <1>3. ASSUME NEW f \in Functions, Mock(f) \/ MockUnset(f)
          PROVE  \E k \in Keys : Uses(k) \/ Misses(k)
        BY <1>3, MockStep, KeyParts
    <1>4. ASSUME NEW f \in Functions, NEW p \in Parameters,
                 (\E value \in Values : CheckExpected(f, p, value)) \/ CheckUnset(f, p)
          PROVE  \E k \in Keys : Uses(k) \/ Misses(k)
        <2>1. <<f, p>> \in Keys
            BY KeyParts
        <2> QED BY <1>4, <2>1, CheckStep
    <1>5. ASSUME UNCHANGED <<maps, phase, history, location>>
          PROVE  Rests
        BY <1>5 DEF history, Rests
    <1>6. ASSUME NEW count \in ResultCounts, WillReturnRefused(count)
          PROVE  Rests
        BY <1>5, <1>6 DEF WillReturnRefused
    <1>7. CASE BodyThrows
        BY <1>7 DEF BodyThrows, Leaves
    <1>8. CASE FailIfLeftoverValues
        BY <1>8, LeftoverStep
    <1>9. CASE TeardownTesting
        BY <1>9 DEF TeardownTesting, Clears, history
    <1>10. CASE Ended \/ UNCHANGED vars
        BY <1>5, <1>10 DEF Ended, vars
    <1> QED BY <1>1, <1>2, <1>3, <1>4, <1>6, <1>7, <1>8, <1>9, <1>10 DEF Next

-----------------------------------------------------------------------------
(* What is queued and what was declared                                    *)

(* A sequence with one more.                                               *)
LEMMA Appended ==
    ASSUME NEW S, NEW s \in Seq(S), NEW e \in S
    PROVE  /\ DOMAIN Append(s, e) = DOMAIN s \cup {Len(s) + 1}
           /\ Len(s) + 1 \notin DOMAIN s
           /\ Append(s, e)[Len(s) + 1] = e
           /\ \A i \in DOMAIN s : Append(s, e)[i] = s[i]
    <1> DEFINE a == Append(s, e)
    <1>1. /\ Len(s) \in Nat /\ DOMAIN s = 1..Len(s)
          /\ DOMAIN a = 1..(Len(s) + 1)
          /\ a[Len(s) + 1] = e
          /\ \A i \in 1..Len(s) : a[i] = s[i]
        BY AppendProperties, LenProperties
    <1>2. \A n \in Nat : 1..(n + 1) = (1..n) \cup {n + 1} /\ n + 1 \notin 1..n
        OBVIOUS
    <1> HIDE DEF a
    <1>3. /\ DOMAIN a = DOMAIN s \cup {Len(s) + 1}
          /\ Len(s) + 1 \notin DOMAIN s
          /\ a[Len(s) + 1] = e
          /\ \A i \in DOMAIN s : a[i] = s[i]
        BY <1>1, <1>2
    <1> QED BY <1>3 DEF a

(* A queue is what is left of its declarations, in their order: those that *)
(* are gone have been used as often as their count said, and only the      *)
(* first of the rest has been used at all.                                 *)
Gone(D, Q) == Len(D) - Len(Q)
LeftOf(d, node, u) ==
    /\ node.location = d.location
    /\ node.refcount = d.count - u[d.location]
    /\ d.count > 0 => node.refcount > 0
    /\ d.count = 0 => u[d.location] = 0
Follows(D, Q, u) ==
    /\ Len(Q) <= Len(D)
    /\ \A i \in 1..Gone(D, Q) : D[i].count # 0 /\ u[D[i].location] = D[i].count
    /\ \A i \in 1..Len(Q) : LeftOf(D[Gone(D, Q) + i], Q[i], u)
    /\ \A i \in 2..Len(Q) : u[D[Gone(D, Q) + i].location] = 0

Uncommon(D) ==
    \A i, j \in DOMAIN D : D[i].location = D[j].location => i = j

LEMMA FollowsNothing ==
    ASSUME NEW u
    PROVE  Follows(<<>>, <<>>, u)
    BY DEF Follows, Gone

(* Uses of other symbols' declarations do not matter.                      *)
LEMMA FollowsApart ==
    ASSUME NEW D \in Seq(Declaration), NEW Q \in Seq(AnyNode),
           NEW u, NEW v, Follows(D, Q, u),
           \A i \in DOMAIN D : v[D[i].location] = u[D[i].location]
    PROVE  Follows(D, Q, v)
    <1>1. Len(D) \in Nat /\ Len(Q) \in Nat /\ DOMAIN D = 1..Len(D)
        BY LenProperties
    <1>2. \A i \in 1..Gone(D, Q) : i \in DOMAIN D
        BY <1>1 DEF Gone
    <1>3. \A i \in 1..Len(Q) : Gone(D, Q) + i \in DOMAIN D
        BY <1>1 DEF Follows, Gone
    <1>4. \A i \in 2..Len(Q) : i \in 1..Len(Q)
        BY <1>1
    <1> QED BY <1>2, <1>3, <1>4 DEF Follows, LeftOf

(* What is declared is queued behind the rest.                             *)
LEMMA FollowsDeclared ==
    ASSUME NEW D \in Seq(Declaration), NEW Q \in Seq(AnyNode),
           NEW u \in [Locations -> Nat], Follows(D, Q, u),
           NEW d \in Declaration, NEW node \in AnyNode,
           node.location = d.location, node.refcount = d.count, u[d.location] = 0
    PROVE  Follows(Append(D, d), Append(Q, node), u)
    <1>1. /\ Len(D) \in Nat /\ Len(Q) \in Nat /\ Len(Q) <= Len(D)
          /\ Len(Append(D, d)) = Len(D) + 1 /\ Len(Append(Q, node)) = Len(Q) + 1
          /\ \A i \in 1..Len(D) : Append(D, d)[i] = D[i]
          /\ \A i \in 1..Len(Q) : Append(Q, node)[i] = Q[i]
          /\ Append(D, d)[Len(D) + 1] = d /\ Append(Q, node)[Len(Q) + 1] = node
        BY LenProperties, AppendProperties DEF Follows
    <1> DEFINE n == Gone(D, Q)
    <1>2. n \in Nat /\ Gone(Append(D, d), Append(Q, node)) = n /\ n + Len(Q) = Len(D)
        BY <1>1 DEF Gone
    <1> HIDE DEF n
    <1>3. \A i \in 1..n : Append(D, d)[i] = D[i]
        BY <1>1, <1>2
    <1>4. ASSUME NEW i \in 1..(Len(Q) + 1)
          PROVE  LeftOf(Append(D, d)[n + i], Append(Q, node)[i], u)
        <2>1. CASE i \in 1..Len(Q)
            <3>1. n + i \in 1..Len(D)
                BY <1>1, <1>2, <2>1
            <3>2. LeftOf(D[n + i], Q[i], u)
                BY <2>1 DEF Follows, n
            <3> QED BY <1>1, <2>1, <3>1, <3>2
        <2>2. CASE i = Len(Q) + 1
            <3>1. n + i = Len(D) + 1
                BY <1>1, <1>2, <2>2
            <3>2. d.count \in Int
                BY DEF Declaration
            <3> QED BY <1>1, <2>2, <3>1, <3>2 DEF LeftOf
        <2>3. i \in 1..Len(Q) \/ i = Len(Q) + 1
            BY <1>1
        <2> QED BY <2>1, <2>2, <2>3
    <1>5. ASSUME NEW i \in 2..(Len(Q) + 1)
          PROVE  u[Append(D, d)[n + i].location] = 0
        <2>1. CASE i \in 2..Len(Q)
            <3>1. n + i \in 1..Len(D)
                BY <1>1, <1>2, <2>1
            <3>2. u[D[n + i].location] = 0
                BY <2>1 DEF Follows, n
            <3> QED BY <1>1, <3>1, <3>2
        <2>2. CASE i = Len(Q) + 1
            <3>1. n + i = Len(D) + 1
                BY <1>1, <1>2, <2>2
            <3> QED BY <1>1, <3>1
        <2>3. i \in 2..Len(Q) \/ i = Len(Q) + 1
            BY <1>1
        <2> QED BY <2>1, <2>2, <2>3
    <1>6. \A i \in 1..n : D[i].count # 0 /\ u[D[i].location] = D[i].count
        BY DEF Follows, n
    <1> DEFINE E == Append(D, d)
               R == Append(Q, node)
    <1>7. Len(R) = Len(Q) + 1 /\ Len(R) <= Len(E) /\ Gone(E, R) = n
        BY <1>1, <1>2
    <1>8. \A i \in 1..n : E[i].count # 0 /\ u[E[i].location] = E[i].count
        BY <1>3, <1>6
    <1>9. /\ \A i \in 1..(Len(Q) + 1) : LeftOf(E[n + i], R[i], u)
          /\ \A i \in 2..(Len(Q) + 1) : u[E[n + i].location] = 0
        BY <1>4, <1>5
    <1> HIDE DEF E, R
    <1>10. Follows(E, R, u)
        BY <1>7, <1>8, <1>9 DEF Follows
    <1> QED BY <1>10 DEF E, R

(* The first that is left is the one a use is counted for.                 *)
LEMMA FollowsHead ==
    ASSUME NEW D \in Seq(Declaration), NEW Q \in Seq(AnyNode), Q # <<>>,
           NEW u, Follows(D, Q, u)
    PROVE  /\ Gone(D, Q) + 1 \in DOMAIN D
           /\ LeftOf(D[Gone(D, Q) + 1], Q[1], u)
    <1>1. Len(D) \in Nat /\ Len(Q) \in Nat /\ Len(Q) # 0 /\ DOMAIN D = 1..Len(D)
        BY LenProperties, EmptySeq
    <1> QED BY <1>1 DEF Follows, Gone

(* A use leaves the queue following: the head has one use more and one     *)
(* reference fewer, or has been used as often as its count said and goes.  *)
LEMMA FollowsUse ==
    ASSUME NEW D \in Seq(Declaration), NEW Q \in Seq(AnyNode), Q # <<>>,
           NEW u \in [Locations -> Nat], Follows(D, Q, u), Uncommon(D),
           Q[1].refcount # 0
    PROVE  Follows(D, Release(Q), [u EXCEPT ![Q[1].location] = @ + 1])
    <1> DEFINE n == Gone(D, Q)
               R == Release(Q)
               l == Q[1].location
               v == [u EXCEPT ![l] = @ + 1]
    <1>1. /\ Len(D) \in Nat /\ Len(Q) \in Nat /\ Len(Q) # 0 /\ DOMAIN D = 1..Len(D)
          /\ Len(Q) <= Len(D)
        BY LenProperties, EmptySeq DEF Follows
    <1>2. n \in Nat /\ n + Len(Q) = Len(D)
        BY <1>1 DEF Gone
    <1>3. n + 1 \in DOMAIN D /\ LeftOf(D[n + 1], Q[1], u)
        BY FollowsHead
    <1>4. \A i \in DOMAIN D : D[i] \in Declaration
        BY <1>1, ElementOfSeq
    <1>5. D[n + 1].location = l /\ l \in Locations /\ v[l] = u[l] + 1
          /\ u[l] \in Nat
        BY <1>3, <1>4 DEF LeftOf, Declaration
    <1>6. \A i \in DOMAIN D : i # n + 1 => v[D[i].location] = u[D[i].location]
        BY <1>3, <1>4, <1>5 DEF Uncommon, Declaration
    <1>7. /\ R \in Seq(AnyNode)
          /\ Q[1].refcount = 1 =>
                /\ Len(R) = Len(Q) - 1
                /\ \A i \in 1..(Len(Q) - 1) : R[i] = Q[i + 1]
          /\ Q[1].refcount # 1 =>
                /\ Len(R) = Len(Q)
                /\ R[1].location = l
                /\ R[1].refcount = Q[1].refcount - 1
                /\ \A i \in 2..Len(Q) : R[i] = Q[i]
        BY ReleaseParts
    <1>8. D[n + 1].count \in Int
        BY <1>3, <1>4 DEF Declaration
    <1>9. /\ \A i \in 1..n : D[i].count # 0 /\ u[D[i].location] = D[i].count
          /\ \A i \in 1..Len(Q) : LeftOf(D[n + i], Q[i], u)
          /\ \A i \in 2..Len(Q) : u[D[n + i].location] = 0
        BY DEF Follows
    <1>10. \A i \in 1..n : v[D[i].location] = D[i].count
        <2> SUFFICES ASSUME NEW i \in 1..n PROVE v[D[i].location] = D[i].count
            OBVIOUS
        <2>1. i \in DOMAIN D /\ i # n + 1
            BY <1>1, <1>2
        <2> QED BY <1>6, <1>9, <2>1
    <1>11. \A i \in 2..Len(Q) : LeftOf(D[n + i], Q[i], v) /\ v[D[n + i].location] = 0
        <2> SUFFICES ASSUME NEW i \in 2..Len(Q)
                     PROVE  LeftOf(D[n + i], Q[i], v) /\ v[D[n + i].location] = 0
            OBVIOUS
        <2>1. n + i \in DOMAIN D /\ n + i # n + 1 /\ i \in 1..Len(Q)
            BY <1>1, <1>2
        <2>2. v[D[n + i].location] = u[D[n + i].location]
            BY <1>6, <2>1
        <2> QED BY <1>9, <2>1, <2>2 DEF LeftOf
    <1> HIDE DEF n, R, l, v
    <1>12. CASE Q[1].refcount = 1
        <2>0. Len(R) = Len(Q) - 1
            BY <1>7, <1>12
        <2>1. Gone(D, R) = n + 1 /\ Len(R) = Len(Q) - 1 /\ Len(R) <= Len(D)
            BY <1>1, <1>2, <2>0 DEF Gone
        <2>2. D[n + 1].count # 0 /\ v[D[n + 1].location] = D[n + 1].count
            BY <1>3, <1>5, <1>8, <1>12 DEF LeftOf
        <2>3. \A i \in 1..(n + 1) : D[i].count # 0 /\ v[D[i].location] = D[i].count
            BY <1>2, <1>9, <1>10, <2>2
        <2>4. ASSUME NEW i \in 1..Len(R)
              PROVE  LeftOf(D[n + 1 + i], R[i], v) /\ v[D[n + 1 + i].location] = 0
            <3>1. i + 1 \in 2..Len(Q) /\ n + (i + 1) = n + 1 + i /\ R[i] = Q[i + 1]
                BY <1>1, <1>2, <1>7, <1>12, <2>1
            <3>2. LeftOf(D[n + (i + 1)], Q[i + 1], v) /\ v[D[n + (i + 1)].location] = 0
                BY <1>11, <3>1
            <3> QED BY <3>1, <3>2
        <2>5. \A i \in 2..Len(R) : i \in 1..Len(R)
            BY <1>1, <2>1
        <2>6. Follows(D, R, v)
            BY <2>1, <2>3, <2>4, <2>5 DEF Follows
        <2> QED BY <2>6 DEF R, v, l
    <1>13. CASE Q[1].refcount # 1
        <2>1. Gone(D, R) = n /\ Len(R) = Len(Q)
            BY <1>7, <1>13 DEF Gone, n
        <2>2. LeftOf(D[n + 1], R[1], v)
            <3>1. R[1].location = l /\ R[1].refcount = Q[1].refcount - 1
                BY <1>7, <1>13
            <3>2. /\ Q[1].refcount = D[n + 1].count - u[l]
                  /\ D[n + 1].count > 0 => Q[1].refcount > 0
                  /\ D[n + 1].count = 0 => u[l] = 0
                BY <1>3, <1>5 DEF LeftOf
            <3>3. Q[1].refcount \in Int /\ Q[1].refcount # 0 /\ D[n + 1].count # 0
                BY <1>5, <1>8, <3>2
            <3>4. R[1].refcount = D[n + 1].count - v[l]
                <4>1. \A c \in Int, x \in Nat : (c - x) - 1 = c - (x + 1)
                    OBVIOUS
                <4>2. (D[n + 1].count - u[l]) - 1 = D[n + 1].count - (u[l] + 1)
                    BY <1>5, <1>8, <4>1
                <4> QED BY <1>5, <3>1, <3>2, <4>2
            <3>5. D[n + 1].count > 0 => R[1].refcount > 0
                BY <1>13, <3>1, <3>2, <3>3
            <3> QED BY <1>5, <3>1, <3>3, <3>4, <3>5 DEF LeftOf
        <2>3. ASSUME NEW i \in 1..Len(R)
              PROVE  LeftOf(D[n + i], R[i], v)
            <3>1. i = 1 \/ i \in 2..Len(Q)
                BY <1>1, <2>1
            <3>2. i \in 2..Len(Q) => R[i] = Q[i]
                BY <1>7, <1>13
            <3> QED BY <1>11, <2>2, <3>1, <3>2
        <2>4. Follows(D, R, v)
            BY <1>1, <1>9, <1>10, <1>11, <2>1, <2>3 DEF Follows
        <2> QED BY <2>4 DEF R, v, l
    <1> QED BY <1>12, <1>13

-----------------------------------------------------------------------------
(* The invariant                                                           *)

(* A declaration is told from every other by its location, and its count   *)
(* of uses is where it was when it was declared.                           *)
LocationsTell ==
    /\ \A k \in Keys : \A i \in DOMAIN declared[k] :
          /\ declared[k][i].location <= location
          /\ \A m \in Keys : \A j \in DOMAIN declared[m] :
                declared[k][i].location = declared[m][j].location => k = m /\ i = j
    /\ \A l \in Locations : l > location => used[l] = 0

QueuesFollow == \A k \in Keys : Follows(declared[k], QueueOf(k), used)

(* will_return() refuses the count 0, so that mock() finds it never.       *)
ResultsCount ==
    \A f \in Functions : \A i \in DOMAIN declared[f] : declared[f][i].count # 0

BodyInv == verdict = "none" /\ LocationsTell /\ QueuesFollow /\ ResultsCount

IInv ==
    /\ TypeOK
    /\ phase = "body" => BodyInv
    /\ phase # "dead" => missing = {}
    /\ MissingMeansAbsent

(* What is in a map can be read from it.                                   *)
LEMMA ResultsRead ==
    ASSUME NEW map, IsQueueMap(map, Functions, Node)
    PROVE  \A f \in DOMAIN map : f \in Functions /\ At(map, f, <<>>) # <<>>
    BY DEF IsQueueMap, IsMap, At

LEMMA ChecksRead ==
    ASSUME NEW map, IsNestedMap(map), NEW f \in DOMAIN map, NEW p \in DOMAIN map[f]
    PROVE  /\ f \in Functions /\ p \in Parameters
           /\ QueueAt(map, f, p) = map[f][p]
           /\ map[f][p] # <<>>
    BY DEF IsNestedMap, IsQueueMap, IsMap, QueueAt, Inner, At

LEMMA NothingMissing ==
    ASSUME missing = {}
    PROVE  MissingMeansAbsent
    BY DEF MissingMeansAbsent

LEMMA InitInv == Init => IInv
    BY TypeInit, NothingMissing DEF Init, IInv

(* The invariant holds after each step.                                    *)
LEMMA BeginStep ==
    ASSUME TypeOK, BeginTest
    PROVE  IInv'
    <1>1. TypeOK'
        BY TypeStep DEF Next
    <1>2. \A k \in Keys : QueueOf(k)' = <<>> /\ declared'[k] = <<>>
        BY NoQueues DEF BeginTest, QueueOf, QueueAt, Inner, At, EmptyMap, Nothing
    <1>3. QueuesFollow'
        BY <1>2, FollowsNothing DEF QueuesFollow
    <1>4. LocationsTell' /\ ResultsCount'
        BY <1>2, KeyParts DEF LocationsTell, ResultsCount, BeginTest, Unused
    <1>5. verdict' = "none" /\ missing' = {} /\ phase' = "body"
        BY DEF BeginTest
    <1> QED BY <1>1, <1>3, <1>4, <1>5, NothingMissing DEF IInv, BodyInv, MissingMeansAbsent

LEMMA DeclareStep ==
    ASSUME IInv, TypeOK', NEW k \in Keys, NEW count \in Int, Declares(k, count),
           k \in Functions => count # 0
    PROVE  BodyInv'
    <1> DEFINE d == [location |-> location + 1, count |-> count]
    <1>1. phase = "body" /\ BodyInv /\ TypeOK
          /\ location' = location + 1 /\ used' = used /\ verdict' = verdict
        BY DEF IInv, Declares, Declare
    <1>2. declared'[k] = Append(declared[k], d)
          /\ \A m \in Keys : m # k => declared'[m] = declared[m]
        BY <1>1, DeclareTyped DEF Declares
    <1>3. d \in Declaration /\ location \in Nat /\ location + 1 \in Locations
        BY <1>1, NextLocation DEF Declares, Declare, Declaration
    <1>4. d.location = location + 1 /\ d.count = count /\ used[location + 1] = 0
        BY <1>1, <1>3 DEF BodyInv, LocationsTell
    <1>5. PICK node \in AnyNode :
              /\ node.location = location + 1
              /\ node.refcount = count
              /\ \A m \in Keys :
                    QueueOf(m)' = IF m = k THEN Append(QueueOf(m), node) ELSE QueueOf(m)
        BY DEF Declares
    <1> HIDE DEF d
    <1>6. declared \in [Keys -> Seq(Declaration)] /\ used \in [Locations -> Nat]
        BY <1>1 DEF TypeOK
    <1>7. QueuesFollow'
        <2>1. ASSUME NEW m \in Keys
              PROVE  Follows(declared'[m], QueueOf(m)', used)
            <3>1. QueueOf(m) \in Seq(AnyNode) /\ Follows(declared[m], QueueOf(m), used)
                BY <1>1, QueuesTyped DEF BodyInv, QueuesFollow
            <3>2. CASE m = k
                <4>1. Follows(Append(declared[k], d), Append(QueueOf(k), node), used)
                    BY <1>3, <1>4, <1>5, <1>6, <3>1, <3>2, FollowsDeclared
                <4> QED BY <1>2, <1>5, <3>2, <4>1
            <3>3. CASE m # k
                BY <1>2, <1>5, <3>1, <3>3
            <3> QED BY <3>2, <3>3
        <2> QED BY <1>1, <2>1 DEF QueuesFollow
    <1>8. /\ DOMAIN declared'[k] = DOMAIN declared[k] \cup {Len(declared[k]) + 1}
          /\ declared'[k][Len(declared[k]) + 1] = d
          /\ Len(declared[k]) + 1 \notin DOMAIN declared[k]
          /\ \A i \in DOMAIN declared[k] : declared'[k][i] = declared[k][i]
        <2>1. declared[k] \in Seq(Declaration)
            BY <1>6
        <2> QED BY <1>2, <1>3, <2>1, Appended
    <1>9. \A m \in Keys : \A i \in DOMAIN declared'[m] :
              \/ i \in DOMAIN declared[m] /\ declared'[m][i] = declared[m][i]
              \/ m = k /\ i = Len(declared[k]) + 1 /\ declared'[m][i] = d
        BY <1>2, <1>8
    <1>10. \A m \in Keys : \A i \in DOMAIN declared[m] :
              declared[m][i].location <= location /\ declared[m][i].location \in Nat
        <2> SUFFICES ASSUME NEW m \in Keys, NEW i \in DOMAIN declared[m]
                     PROVE  declared[m][i].location <= location
                            /\ declared[m][i].location \in Nat
            OBVIOUS
        <2>1. declared[m][i] \in Declaration
            BY <1>6, ElementOfSeq, LenProperties
        <2> QED BY <1>1, <2>1 DEF Declaration, Locations, BodyInv, LocationsTell
    <1>11. LocationsTell'
        <2>1. ASSUME NEW m \in Keys, NEW i \in DOMAIN declared'[m]
              PROVE  declared'[m][i].location <= location + 1
            BY <1>3, <1>4, <1>9, <1>10
        <2>2. ASSUME NEW m \in Keys, NEW i \in DOMAIN declared'[m],
                     NEW o \in Keys, NEW j \in DOMAIN declared'[o],
                     declared'[m][i].location = declared'[o][j].location
              PROVE  m = o /\ i = j
            <3>1. \A x \in Keys : \A y \in DOMAIN declared[x] :
                      declared[x][y].location # location + 1
                BY <1>3, <1>10
            <3>2. CASE i \in DOMAIN declared[m] /\ declared'[m][i] = declared[m][i]
                <4>1. j \in DOMAIN declared[o] /\ declared'[o][j] = declared[o][j]
                    BY <1>4, <1>9, <2>2, <3>1, <3>2
                <4> QED BY <1>1, <2>2, <3>2, <4>1 DEF BodyInv, LocationsTell
            <3>3. CASE m = k /\ i = Len(declared[k]) + 1 /\ declared'[m][i] = d
                BY <1>4, <1>9, <2>2, <3>1, <3>3
            <3> QED BY <1>9, <3>2, <3>3
        <2>3. \A l \in Locations : l > location + 1 => used[l] = 0
            BY <1>1, <1>3 DEF BodyInv, LocationsTell, Locations
        <2> QED BY <1>1, <2>1, <2>2, <2>3 DEF LocationsTell
    <1>12. ResultsCount'
        BY <1>1, <1>4, <1>9, KeyParts DEF BodyInv, ResultsCount
    <1> QED BY <1>1, <1>7, <1>11, <1>12 DEF BodyInv

LEMMA UseStep ==
    ASSUME IInv, NEW k \in Keys, Uses(k), phase' = "body"
    PROVE  BodyInv'
    <1>1. /\ BodyInv /\ TypeOK /\ declared' = declared /\ location' = location
          /\ verdict' = verdict
        BY DEF IInv, Uses
    <1> DEFINE l == QueueOf(k)[1].location
    <1>2. used' = [used EXCEPT ![l] = @ + 1] /\ used \in [Locations -> Nat]
          /\ declared \in [Keys -> Seq(Declaration)]
        BY <1>1 DEF Uses, TypeOK
    <1>3. PICK n \in DOMAIN declared[k] : declared[k][n].location = l
        <2>1. QueueOf(k) \in Seq(AnyNode) /\ QueueOf(k) # <<>>
              /\ Follows(declared[k], QueueOf(k), used)
            BY <1>1, QueuesTyped DEF Uses, BodyInv, QueuesFollow
        <2> QED BY <1>2, <2>1, FollowsHead DEF LeftOf
    <1> HIDE DEF l
    <1>4. \A m \in Keys : \A i \in DOMAIN declared[m] :
              declared[m][i] \in Declaration
        BY <1>2, ElementOfSeq, LenProperties
    <1>5. l \in Locations /\ l <= location
        BY <1>1, <1>3, <1>4 DEF Declaration, BodyInv, LocationsTell
    <1>6. \A m \in Keys : Uncommon(declared[m])
        BY <1>1 DEF BodyInv, LocationsTell, Uncommon
    <1>7. ASSUME NEW m \in Keys
          PROVE  Follows(declared[m], QueueOf(m)', used')
        <2>1. QueueOf(m) \in Seq(AnyNode) /\ Follows(declared[m], QueueOf(m), used)
            BY <1>1, QueuesTyped DEF BodyInv, QueuesFollow
        <2>2. CASE m = k
            <3>1. Follows(declared[k], Release(QueueOf(k)),
                          [used EXCEPT ![QueueOf(k)[1].location] = @ + 1])
                BY <1>2, <1>6, <2>1, <2>2, FollowsUse DEF Uses
            <3> QED BY <2>2, <3>1 DEF Uses
        <2>3. CASE m # k
            <3>1. \A i \in DOMAIN declared[m] : declared[m][i].location # l
                BY <1>1, <1>3, <2>3 DEF BodyInv, LocationsTell
            <3>2. \A i \in DOMAIN declared[m] :
                      used'[declared[m][i].location] = used[declared[m][i].location]
                BY <1>2, <1>4, <3>1 DEF Declaration
            <3>3. Follows(declared[m], QueueOf(m), used')
                BY <1>2, <2>1, <3>2, FollowsApart
            <3> QED BY <2>3, <3>3 DEF Uses
        <2> QED BY <2>2, <2>3
    <1>8. \A x \in Locations : x > location => used'[x] = 0
        <2>1. location \in Int /\ Locations \subseteq Int
            BY <1>1 DEF TypeOK, Locations
        <2> QED BY <1>1, <1>2, <1>5, <2>1 DEF BodyInv, LocationsTell
    <1> QED BY <1>1, <1>7, <1>8
            DEF BodyInv, LocationsTell, QueuesFollow, ResultsCount

LEMMA MissStep ==
    ASSUME IInv, TypeOK', NEW k \in Keys, Misses(k)
    PROVE  MissingMeansAbsent'
    <1>1. phase = "body" /\ BodyInv /\ TypeOK /\ declared' = declared /\ missing' = {k}
        BY DEF IInv, Misses
    <1>m. ASSUME QueueOf(k)' # <<>> =>
                    /\ k \notin Functions
                    /\ [location |-> QueueOf(k)'[1].location, count |-> 0]
                          \in ToSet(declared'[k])
          PROVE  MissingMeansAbsent'
        <2>1. IsQueueMap(result_map', Functions, Node) /\ IsNestedMap(parameter_map')
            BY DEF TypeOK
        <2>2. \A f \in DOMAIN result_map' : f \in Functions /\ QueueOf(f)' # <<>>
            BY <2>1, ResultsRead DEF QueueOf
        <2>3. ASSUME NEW f \in DOMAIN parameter_map', NEW p \in DOMAIN parameter_map'[f]
              PROVE  /\ QueueOf(<<f, p>>)' = parameter_map'[f][p]
                     /\ QueueOf(<<f, p>>)' # <<>>
            <3>1. /\ f \in Functions /\ p \in Parameters
                  /\ QueueAt(parameter_map', f, p) = parameter_map'[f][p]
                  /\ parameter_map'[f][p] # <<>>
                BY <2>1, ChecksRead
            <3>2. QueueOf(<<f, p>>)' = QueueAt(parameter_map', f, p)
                BY <3>1, KeyParts DEF QueueOf
            <3> QED BY <3>1, <3>2
        <2> QED BY <1>1, <1>m, <2>2, <2>3 DEF MissingMeansAbsent
    <1>2. CASE QueueOf(k) = <<>>
        <2>1. QueueOf(k)' = <<>>
            BY <1>2 DEF Misses
        <2> QED BY <2>1, <1>m
    <1>3. CASE QueueOf(k) # <<>>
        <2> DEFINE D == declared[k]
                   Q == QueueOf(k)
                   n == Gone(D, Q) + 1
        <2>1. Q[1].refcount = 0 /\ QueueOf(k)' = Release(Q)
            BY <1>3 DEF Misses
        <2>2. Q \in Seq(AnyNode) /\ D \in Seq(Declaration) /\ Follows(D, Q, used)
            BY <1>1, QueuesTyped DEF BodyInv, QueuesFollow, TypeOK
        <2>3. n \in DOMAIN D /\ LeftOf(D[n], Q[1], used)
            BY <1>3, <2>2, FollowsHead
        <2>4. D[n] \in Declaration /\ used \in [Locations -> Nat]
            BY <1>1, <2>2, <2>3, ElementOfSeq, LenProperties DEF TypeOK
        <2>5. D[n].count = 0
            BY <2>1, <2>3, <2>4 DEF LeftOf, Declaration
        <2>6. k \notin Functions
            BY <1>1, <2>3, <2>5 DEF BodyInv, ResultsCount
        <2>7. Release(Q)[1].location = Q[1].location
            BY <1>3, <2>1, <2>2, ReleaseParts
        <2>8. D[n] = [location |-> Q[1].location, count |-> 0]
            BY <2>3, <2>4, <2>5 DEF LeftOf, Declaration
        <2>9. [location |-> Release(Q)[1].location, count |-> 0] \in ToSet(D)
            BY <2>3, <2>7, <2>8 DEF ToSet
        <2> HIDE DEF D, Q, n
        <2>10. [location |-> QueueOf(k)'[1].location, count |-> 0] \in ToSet(declared'[k])
            BY <1>1, <2>1, <2>9 DEF D
        <2> QED BY <2>6, <2>10, <1>m
    <1> QED BY <1>2, <1>3

LEMMA InvStep == IInv /\ [Next]_vars => IInv'
    <1> SUFFICES ASSUME IInv, [Next]_vars PROVE IInv'
        OBVIOUS
    <1>1. TypeOK /\ TypeOK'
        BY TypeStep DEF IInv
    <1>2. CASE BeginTest
        BY <1>1, <1>2, BeginStep
    <1>3. ASSUME NEW k \in Keys, NEW count \in Int, Declares(k, count),
                 k \in Functions => count # 0
          PROVE  IInv'
        <2>1. BodyInv'
            BY <1>1, <1>3, DeclareStep
        <2>2. missing' = {}
            BY <1>3 DEF Declares, Declare, IInv
        <2> QED BY <1>1, <2>1, <2>2, NothingMissing DEF IInv, MissingMeansAbsent
    <1>4. ASSUME NEW k \in Keys, Uses(k)
          PROVE  IInv'
        <2>1. phase' = "body" => BodyInv'
            BY <1>4, UseStep
        <2>2. missing' = {}
            BY <1>4 DEF Uses, IInv
        <2> QED BY <1>1, <2>1, <2>2 DEF IInv, MissingMeansAbsent
    <1>5. ASSUME NEW k \in Keys, Misses(k)
          PROVE  IInv'
        <2>1. MissingMeansAbsent'
            BY <1>1, <1>5, MissStep
        <2> QED BY <1>1, <1>5, <2>1 DEF Misses, IInv
    <1>6. CASE Leaves
        <2>1. phase' # "body" /\ missing' = {}
            BY <1>6 DEF Leaves, IInv
        <2> QED BY <1>1, <2>1 DEF IInv, MissingMeansAbsent
    <1>7. CASE Clears
        <2>1. phase' # "body" /\ missing' = {}
            BY <1>7 DEF Clears, IInv
        <2> QED BY <1>1, <2>1 DEF IInv, MissingMeansAbsent
    <1>8. CASE Rests
        <2>0. \A k \in Keys : QueueOf(k)' = QueueOf(k)
            BY <1>8 DEF Rests, maps, QueueOf
        <2>1. phase = "body" => BodyInv'
            BY <1>8, <2>0 DEF Rests, IInv, BodyInv, LocationsTell, QueuesFollow, ResultsCount
        <2>2. MissingMeansAbsent'
            BY <1>8 DEF Rests, maps, IInv, MissingMeansAbsent
        <2> QED BY <1>1, <1>8, <2>1, <2>2 DEF Rests, IInv
    <1> QED BY <1>1, <1>2, <1>3, <1>4, <1>5, <1>6, <1>7, <1>8, QueueStep

(* Whenever a test runs, every queue is what is left of the declarations   *)
(* of its symbol, with the references its count leaves after the uses so   *)
(* far, in whatever order symbols were declared, used and refused.         *)
THEOREM QueueInvariance == Spec => []IInv
    <1> QED BY InitInv, InvStep, PTL DEF Spec

(* mock() and check_expected() say "could not get value" only when nothing *)
(* is queued for the symbol or what is queued was declared with the count  *)
(* 0, for any functions, parameters, counts, and numbers of declarations,  *)
(* uses and tests.                                                         *)
THEOREM MissingIsAbsent == Spec => []MissingMeansAbsent
    <1>1. IInv => MissingMeansAbsent
        BY DEF IInv
    <1> QED BY <1>1, QueueInvariance, PTL

-----------------------------------------------------------------------------
(* MockQueue implements MockContract                                       *)

(* The counts cmockery.h knows: so many times, or -1 for always.           *)
DocumentedCounts == ExpectCounts \subseteq Nat \cup {Always}

CountsDocumented ==
    \A k \in Keys : \A i \in DOMAIN declared[k] : declared[k][i].count \in Nat \cup {Always}

LEMMA CountsInit == Init => CountsDocumented
    BY DEF Init, CountsDocumented, Nothing

LEMMA CountsStep ==
    ASSUME DocumentedCounts, TypeOK, CountsDocumented, [Next]_vars
    PROVE  CountsDocumented'
    <1>1. CASE BeginTest
        BY <1>1 DEF BeginTest, CountsDocumented, Nothing
    <1>2. ASSUME NEW k \in Keys, NEW count \in Int, Declares(k, count),
                 count \in ExpectCounts \/ ValidCount(count)
          PROVE  CountsDocumented'
        <2> DEFINE d == [location |-> location + 1, count |-> count]
        <2>1. d.count \in Nat \cup {Always}
            BY <1>2 DEF DocumentedCounts, ValidCount, Always
        <2>2. declared'[k] = Append(declared[k], d)
              /\ \A m \in Keys : m # k => declared'[m] = declared[m]
            BY <1>2, DeclareTyped DEF Declares
        <2>3. declared[k] \in Seq(Declaration) /\ d \in Declaration
            BY <1>2, NextLocation DEF TypeOK, Declares, Declare, Declaration
        <2> HIDE DEF d
        <2>4. /\ DOMAIN declared'[k] = DOMAIN declared[k] \cup {Len(declared[k]) + 1}
              /\ declared'[k][Len(declared[k]) + 1] = d
              /\ \A i \in DOMAIN declared[k] : declared'[k][i] = declared[k][i]
            BY <2>2, <2>3, Appended
        <2> QED BY <2>1, <2>2, <2>4 DEF CountsDocumented
    <1>3. CASE declared' = declared
        BY <1>3 DEF CountsDocumented
    <1> QED BY <1>1, <1>2, <1>3, QueueStep DEF Uses, Misses, Leaves, Clears, Rests

(* What the queue of a symbol says of its declarations: which is due, and  *)
(* whether all have been used.                                             *)
LEMMA DueIsHead ==
    ASSUME IInv, CountsDocumented, phase = "body", NEW k \in Keys
    PROVE  /\ QueueOf(k) # <<>> /\ QueueOf(k)[1].refcount # 0 =>
                 \E j \in Contract!Due(k) :
                    declared[k][j].location = QueueOf(k)[1].location
           /\ (QueueOf(k) # <<>> => QueueOf(k)[1].refcount = 0) => Contract!Due(k) = {}
    <1> DEFINE D == declared[k]
               Q == QueueOf(k)
               n == Gone(D, Q)
    <1>1. /\ D \in Seq(Declaration) /\ Q \in Seq(AnyNode)
          /\ Follows(D, Q, used) /\ used \in [Locations -> Nat]
          /\ \A i \in DOMAIN D : D[i].count \in Nat \cup {Always}
        BY QueuesTyped DEF IInv, BodyInv, QueuesFollow, TypeOK, CountsDocumented
    <1>2. /\ Len(D) \in Nat /\ Len(Q) \in Nat /\ Len(Q) <= Len(D)
          /\ DOMAIN D = 1..Len(D) /\ (Q = <<>> <=> Len(Q) = 0)
        BY <1>1, LenProperties, EmptySeq DEF Follows
    <1>3. n \in Nat /\ n + Len(Q) = Len(D)
        BY <1>2 DEF Gone
    <1>4. \A i \in DOMAIN D : D[i].location \in Locations /\ used[D[i].location] \in Nat
        <2>1. \A i \in DOMAIN D : D[i] \in Declaration
            BY <1>1, <1>2, ElementOfSeq
        <2> QED BY <1>1, <2>1 DEF Declaration
    <1>5. \A i \in 1..n : D[i].count # 0 /\ used[D[i].location] = D[i].count
        BY <1>1 DEF Follows
    <1>6. Q # <<>> => n + 1 \in DOMAIN D /\ LeftOf(D[n + 1], Q[1], used)
        BY <1>1, FollowsHead
    <1>7. ASSUME Q # <<>>, Q[1].refcount # 0
          PROVE  \E j \in Contract!Due(k) : D[j].location = Q[1].location
        <2>1. D[n + 1].count = Always \/ used[D[n + 1].location] < D[n + 1].count
            BY <1>1, <1>4, <1>6, <1>7 DEF LeftOf
        <2>2. \A i \in 1..((n + 1) - 1) : Contract!Spent(D[i])
            BY <1>3, <1>5 DEF Contract!Spent, Contract!Times
        <2>3. n + 1 \in 1..Len(D)
            BY <1>2, <1>6, <1>7
        <2> HIDE DEF n
        <2>4. n + 1 \in Contract!Due(k)
            BY <2>1, <2>2, <2>3 DEF Contract!Due, Contract!Times
        <2> QED BY <1>6, <1>7, <2>4 DEF LeftOf
    <1>8. ASSUME Q # <<>> => Q[1].refcount = 0, NEW j \in Contract!Due(k)
          PROVE  FALSE
        <2>1. /\ j \in 1..Len(D)
              /\ \A i \in 1..(j - 1) : Contract!Spent(D[i])
              /\ D[j].count = Always \/ used[D[j].location] < D[j].count
            BY <1>8 DEF Contract!Due, Contract!Times
        <2> HIDE DEF n
        <2>2. ~ j \in 1..n
            <3> SUFFICES ASSUME j \in 1..n PROVE FALSE
                OBVIOUS
            <3>1. used[D[j].location] = D[j].count /\ used[D[j].location] \in Nat
                BY <1>2, <1>4, <1>5, <2>1
            <3> QED BY <2>1, <3>1 DEF Always
        <2>3. j >= n + 1 /\ Q # <<>>
            BY <1>2, <1>3, <2>1, <2>2
        <2>4. Q[1].refcount = 0 /\ LeftOf(D[n + 1], Q[1], used) /\ n + 1 \in DOMAIN D
            BY <1>6, <1>8, <2>3
        <2>5. D[n + 1].count = used[D[n + 1].location]
            BY <1>1, <1>4, <2>4 DEF LeftOf, Always
        <2>6. D[n + 1].count = 0
            BY <1>1, <1>4, <2>4, <2>5 DEF LeftOf, Always
        <2>7. CASE j = n + 1
            BY <1>4, <2>1, <2>4, <2>6, <2>7 DEF Always
        <2>8. CASE j # n + 1
            <3>1. n + 1 \in 1..(j - 1)
                BY <1>3, <2>1, <2>3, <2>8
            <3> QED BY <2>1, <2>6, <3>1 DEF Contract!Spent
        <2> QED BY <2>7, <2>8
    <1> QED BY <1>7, <1>8

(* A queue is empty after remove_always_return_values exactly when its     *)
(* declarations are satisfied.                                             *)
LEMMA DroppedIsSatisfied ==
    ASSUME IInv, CountsDocumented, phase = "body", NEW k \in Keys
    PROVE  WithoutAlways(QueueOf(k)) = <<>> <=> Contract!Satisfied(k)
    <1> DEFINE D == declared[k]
               Q == QueueOf(k)
               n == Gone(D, Q)
    <1>1. /\ D \in Seq(Declaration) /\ Q \in Seq(AnyNode)
          /\ Follows(D, Q, used) /\ used \in [Locations -> Nat]
          /\ \A i \in DOMAIN D : D[i].count \in Nat \cup {Always}
        BY QueuesTyped DEF IInv, BodyInv, QueuesFollow, TypeOK, CountsDocumented
    <1>2. /\ Len(D) \in Nat /\ Len(Q) \in Nat /\ Len(Q) <= Len(D)
          /\ DOMAIN D = 1..Len(D) /\ (Q = <<>> <=> Len(Q) = 0)
        BY <1>1, LenProperties, EmptySeq DEF Follows
    <1>3. n \in Nat /\ n + Len(Q) = Len(D)
        BY <1>2 DEF Gone
    <1>4. \A i \in DOMAIN D : used[D[i].location] \in Nat
        <2>1. \A i \in DOMAIN D : D[i] \in Declaration
            BY <1>1, <1>2, ElementOfSeq
        <2> QED BY <1>1, <2>1 DEF Declaration
    <1>5. /\ \A i \in 1..n : D[i].count # 0 /\ used[D[i].location] = D[i].count
          /\ \A i \in 2..Len(Q) : used[D[n + i].location] = 0
        BY <1>1 DEF Follows
    <1>6. Q # <<>> => n + 1 \in DOMAIN D /\ LeftOf(D[n + 1], Q[1], used)
        BY <1>1, FollowsHead
    <1>7. Contract!Satisfied(k) <=>
              \A j \in DOMAIN D :
                  /\ used[D[j].location] > 0
                  /\ \/ D[j].count = Always
                     \/ D[j].count # 0 /\ used[D[j].location] = D[j].count
        BY <1>2 DEF Contract!Satisfied, Contract!Spent, Contract!Times
    <1> HIDE DEF n
    <1>8. \A j \in 1..n : used[D[j].location] > 0
        <2> SUFFICES ASSUME NEW j \in 1..n PROVE used[D[j].location] > 0
            OBVIOUS
        <2>1. j \in DOMAIN D
            BY <1>2, <1>3
        <2>2. used[D[j].location] \in Nat /\ used[D[j].location] # 0
            BY <1>4, <1>5, <2>1
        <2> QED BY <2>2
    <1>9. CASE Q = <<>>
        <2>1. DOMAIN D = 1..n
            BY <1>2, <1>3, <1>9
        <2>2. Contract!Satisfied(k)
            BY <1>5, <1>7, <1>8, <2>1
        <2> QED BY <1>9, <2>2 DEF WithoutAlways
    <1>10. CASE Q # <<>>
        <2> DEFINE d == D[n + 1]
        <2>1. /\ n + 1 \in DOMAIN D /\ used[d.location] \in Nat
              /\ d.count \in Nat \cup {Always}
              /\ Q[1].refcount = d.count - used[d.location]
              /\ d.count > 0 => Q[1].refcount > 0
              /\ d.count = 0 => used[d.location] = 0
            BY <1>1, <1>4, <1>6, <1>10 DEF LeftOf
        <2> HIDE DEF d
        <2>2. Q[1].refcount < -1 <=> d.count = Always /\ used[d.location] > 0
            BY <2>1 DEF Always
        <2>3. (d.count # 0 /\ used[d.location] = d.count) <=> FALSE
            BY <2>1 DEF Always
        <2>4. WithoutAlways(Q) = <<>> <=> Q[1].refcount < -1 /\ Len(Q) = 1
            <3>1. Tail(Q) \in Seq(AnyNode) /\ Len(Tail(Q)) = Len(Q) - 1
                BY <1>1, <1>10, HeadTailProperties
            <3>2. Tail(Q) = <<>> <=> Len(Tail(Q)) = 0
                BY <3>1, EmptySeq
            <3>3. Tail(Q) = <<>> <=> Len(Q) = 1
                BY <1>2, <3>1, <3>2
            <3> QED BY <1>10, <3>3 DEF WithoutAlways
        <2>5. CASE Len(Q) = 1
            <3>1. \A j \in DOMAIN D : j \in 1..n \/ j = n + 1
                BY <1>2, <1>3, <2>5
            <3>2. Contract!Satisfied(k) <=> d.count = Always /\ used[d.location] > 0
                BY <1>5, <1>7, <1>8, <2>1, <2>3, <3>1 DEF d
            <3> QED BY <2>2, <2>4, <2>5, <3>2
        <2>6. CASE Len(Q) # 1
            <3>0. Len(Q) >= 2
                BY <1>2, <1>10, <2>6
            <3>1. 2 \in 2..Len(Q) /\ n + 2 \in DOMAIN D
                BY <1>2, <1>3, <3>0
            <3>2. used[D[n + 2].location] = 0
                BY <1>5, <3>1
            <3>3. ~ Contract!Satisfied(k)
                BY <1>7, <3>1, <3>2
            <3> QED BY <2>4, <2>6, <3>3
        <2> QED BY <2>5, <2>6
    <1> QED BY <1>9, <1>10

LEMMA ContractInit == Init => Contract!Init
    BY DEF Init, Contract!Init, Nothing, Unused, Contract!Nothing, Contract!Unused

LEMMA ContractStep ==
    ASSUME IInv, CountsDocumented, [Next]_vars
    PROVE  [Contract!Next]_(Contract!vars)
    <1> USE DEF Contract!vars
    <1>0. TypeOK
        BY DEF IInv
    <1>1. CASE BeginTest
        BY <1>1 DEF BeginTest, Contract!Next, Contract!Begin, Nothing, Unused,
                    Contract!Nothing, Contract!Unused
    <1>2. ASSUME NEW k \in Keys, NEW count \in Int, Declares(k, count)
          PROVE  Contract!Declare(k)
        <2> DEFINE d == [location |-> location + 1, count |-> count]
        <2>1. /\ phase = "body" /\ BodyInv
              /\ declared' = [declared EXCEPT ![k] = Append(@, d)]
              /\ declared \in [Keys -> Seq(Declaration)]
              /\ UNCHANGED <<used, missing, verdict>>
            BY <1>2 DEF Declares, Declare, IInv, TypeOK
        <2>2. d \in Declaration /\ d.location = location + 1
            BY <1>0, <1>2, NextLocation DEF Declares, Declare, Declaration
        <2>3. location \in Nat
            BY <1>0, <1>2, NextLocation DEF Declares, Declare
        <2> HIDE DEF d
        <2>4. /\ declared'[k] = Append(declared[k], d) /\ declared[k] \in Seq(Declaration)
            BY <2>1
        <2>5. /\ Len(declared'[k]) > 0 /\ Contract!Last(declared'[k]) = d
            BY <2>2, <2>4, AppendProperties, LenProperties DEF Contract!Last
        <2>6. Contract!Fresh(location + 1)
            <3> SUFFICES ASSUME NEW m \in Keys, NEW j \in 1..Len(declared[m])
                         PROVE  declared[m][j].location # location + 1
                BY DEF Contract!Fresh
            <3>1. j \in DOMAIN declared[m] /\ declared[m][j] \in Declaration
                BY <2>1, LenProperties, ElementOfSeq
            <3>2. declared[m][j].location <= location /\ declared[m][j].location \in Int
                BY <2>1, <3>1 DEF BodyInv, LocationsTell, Declaration, Locations
            <3> QED BY <2>3, <3>2
        <2>7. Contract!Fresh(Contract!Last(declared'[k]).location)
            BY <2>2, <2>5, <2>6
        <2>8. declared' = [declared EXCEPT ![k] = Append(@, Contract!Last(declared'[k]))]
            BY <2>1, <2>5
        <2>9. verdict = "none"
            BY <2>1 DEF BodyInv
        <2> QED BY <2>1, <2>5, <2>7, <2>8, <2>9 DEF Contract!Declare
    <1>3. ASSUME NEW k \in Keys, Uses(k)
          PROVE  Contract!Use(k)
        <2>1. \E j \in Contract!Due(k) :
                  declared[k][j].location = QueueOf(k)[1].location
            BY <1>3, DueIsHead DEF Uses
        <2>2. verdict = "none"
            BY <1>3 DEF Uses, IInv, BodyInv
        <2> QED BY <1>3, <2>1, <2>2 DEF Uses, Contract!Use
    <1>4. ASSUME NEW k \in Keys, Misses(k)
          PROVE  Contract!Missing(k)
        <2>1. Contract!Due(k) = {}
            BY <1>4, DueIsHead DEF Misses
        <2> QED BY <1>4, <2>1 DEF Misses, IInv, BodyInv, Contract!Missing
    <1>5. ASSUME Leaves
          PROVE  Contract!Throw \/ Contract!Verify
        <2>1. verdict = "none" /\ phase = "body"
            BY <1>5 DEF Leaves, IInv, BodyInv
        <2>2. CASE verdict' = "threw"
            BY <1>5, <2>1, <2>2 DEF Leaves, Contract!Throw
        <2>3. CASE verdict' = IF \A k \in Keys : WithoutAlways(QueueOf(k)) = <<>>
                              THEN "passed" ELSE "leftover"
            <3>1. (\A k \in Keys : WithoutAlways(QueueOf(k)) = <<>>)
                      <=> \A k \in Keys : Contract!Satisfied(k)
                BY <2>1, DroppedIsSatisfied
            <3> QED BY <1>5, <2>1, <2>3, <3>1 DEF Leaves, Contract!Verify
        <2> QED BY <1>5, <2>2, <2>3 DEF Leaves
    <1>6. ASSUME Clears \/ Rests
          PROVE  UNCHANGED Contract!vars
        BY <1>6 DEF Clears, Rests
    <1> QED BY <1>0, <1>1, <1>2, <1>3, <1>4, <1>5, <1>6, QueueStep DEF Contract!Next

(* For the counts the header knows, the queues do what MockContract says:  *)
(* a value or check used is the first declared that is not spent, one that *)
(* is missing has nothing due, and a test passes exactly when all that it  *)
(* declared has been used.  A count below -1 is outside the contract: it   *)
(* is used for ever, but dropped unused at the end without a word.         *)
THEOREM ImplementsContract ==
    ASSUME DocumentedCounts
    PROVE  Spec => KeepsContract
    <1> DEFINE DInv == IInv /\ CountsDocumented
    <1>1. Init => DInv
        BY InitInv, CountsInit
    <1>2. DInv /\ [Next]_vars => DInv'
        <2> SUFFICES ASSUME DInv, [Next]_vars PROVE DInv'
            OBVIOUS
        <2> QED BY InvStep, CountsStep DEF IInv
    <1>3. DInv /\ [Next]_vars => [Contract!Next]_(Contract!vars)
        BY ContractStep
    <1> QED BY <1>1, <1>2, <1>3, ContractInit, PTL DEF Spec, KeepsContract, Contract!Spec

(***************************************************************************)
(* Part 2, the queues' blocks and the list of allocated blocks: what the   *)
(* maps lead to is in the list, a check point stands behind all that was   *)
(* there when it was taken, and the leak check blames a function only for  *)
(* what functions have allocated since.                                    *)
(*                                                                         *)
(* The blocks of the queues are told by three sets: the symbols with a     *)
(* queue (Named), the functions above them (Checked), and the places of    *)
(* the declarations queued (QueuedAt).  Part 1 says what each step does to *)
(* a queue, and with it to these sets; the rest is one lemma about         *)
(* allocating and one about freeing.                                       *)
(***************************************************************************)

-----------------------------------------------------------------------------
(* Numbers                                                                 *)

(* A set of numbers up to n has a largest, if it has any.                  *)
LEMMA LargestThere ==
    ASSUME NEW n \in Nat, NEW S, S \subseteq 0..n, S # {}
    PROVE  \E x \in S : \A y \in S : x >= y
    <1> DEFINE R == OpToRel(<, Nat)
               T == {n - x : x \in S}
    <1>1. IsWellFoundedOn(R, Nat)
        BY NatLessThanWellFounded
    <1>2. T \subseteq Nat /\ T # {}
        <2>1. \A x \in S : x \in Int /\ n - x \in Nat
            OBVIOUS
        <2> QED BY <2>1
    <1>3. \A x, y \in Nat : <<x, y>> \in R <=> x < y
        BY DEF OpToRel
    <1> HIDE DEF R
    <1>4. \E x \in T : \A y \in T : ~ (<<y, x>> \in R)
        BY <1>1, <1>2, WFMin
    <1>5. PICK x \in S : \A y \in S : ~ (n - y < n - x)
        BY <1>2, <1>3, <1>4
    <1> QED BY <1>5

LEMMA MaxIsLargest ==
    ASSUME NEW n \in Nat, NEW S, S \subseteq 0..n, S # {}
    PROVE  Max(S) \in S /\ \A y \in S : Max(S) >= y
    BY LargestThere DEF Max

-----------------------------------------------------------------------------
(* The names of the blocks                                                 *)

LEMMA BlockNames ==
    /\ \A k, m : Symbol(k) = Symbol(m) => k = m
    /\ \A f, g : FunctionSymbol(f) = FunctionSymbol(g) => f = g
    /\ \A l, m : Element(l) = Element(m) => l = m
    /\ \A k, f : Symbol(k) # FunctionSymbol(f)
    /\ \A k, l : Symbol(k) # Element(l)
    /\ \A f, l : FunctionSymbol(f) # Element(l)
    /\ \A x : /\ ~ OfFunctions(Symbol(x))
              /\ ~ OfFunctions(FunctionSymbol(x))
              /\ ~ OfFunctions(Element(x))
    /\ OfFunctions(Own) /\ OfFunctions(Lost)
    BY DEF Symbol, FunctionSymbol, Element, Own, Lost, OfFunctions

(* The blocks of queues under the symbols in N, of the functions in C,     *)
(* with nodes for the declarations at the locations in L.                  *)
BlocksFor(N, C, L) ==
    {Symbol(k) : k \in N} \cup {FunctionSymbol(f) : f \in C} \cup {Element(l) : l \in L}

(* The blocks the maps lead to, told by the queues.                        *)
Named == {k \in Keys : QueueOf(k) # <<>>}
Checked == {f \in Functions : \E p \in Parameters : <<f, p>> \in Named}
QueuedAt == UNION {{QueueOf(k)[i].location : i \in DOMAIN QueueOf(k)} : k \in Keys}

LEMMA MapsNamed ==
    TypeOK =>
        /\ DOMAIN result_map = Named \cap Functions
        /\ DOMAIN parameter_map = Checked
        /\ \A f \in Checked : DOMAIN parameter_map[f] = {p \in Parameters : <<f, p>> \in Named}
        /\ \A f \in DOMAIN result_map : f \in Keys /\ QueueOf(f) = result_map[f]
        /\ \A f \in Checked : \A p \in DOMAIN parameter_map[f] :
              <<f, p>> \in Keys /\ QueueOf(<<f, p>>) = parameter_map[f][p]
    <1> SUFFICES ASSUME TypeOK
                 PROVE  /\ DOMAIN result_map = Named \cap Functions
                        /\ DOMAIN parameter_map = Checked
                        /\ \A f \in Checked : DOMAIN parameter_map[f]
                                 = {p \in Parameters : <<f, p>> \in Named}
                        /\ \A f \in DOMAIN result_map :
                              f \in Keys /\ QueueOf(f) = result_map[f]
                        /\ \A f \in Checked : \A p \in DOMAIN parameter_map[f] :
                              <<f, p>> \in Keys /\ QueueOf(<<f, p>>) = parameter_map[f][p]
        OBVIOUS
    <1>1. /\ DOMAIN result_map = Named \cap Functions
          /\ \A f \in DOMAIN result_map : f \in Keys /\ QueueOf(f) = result_map[f]
        BY QueueFound, KeyParts DEF TypeOK, IsQueueMap, IsMap, Named
    <1>2. ASSUME NEW f \in Functions
          PROVE  /\ f \in DOMAIN parameter_map =>
                       DOMAIN parameter_map[f] = {p \in Parameters : <<f, p>> \in Named}
                 /\ f \in DOMAIN parameter_map <=> f \in Checked
        <2>1. f \in DOMAIN parameter_map =>
                 /\ DOMAIN parameter_map[f] \subseteq Parameters
                 /\ DOMAIN parameter_map[f] # {}
                 /\ At(parameter_map, f, EmptyMap) = parameter_map[f]
            BY DEF TypeOK, IsNestedMap, IsQueueMap, IsMap, At
        <2>2. \A p \in Parameters : <<f, p>> \in Named <=>
                 p \in DOMAIN At(parameter_map, f, EmptyMap)
            BY QueueFound, KeyParts DEF Named
        <2>3. f \notin DOMAIN parameter_map => DOMAIN At(parameter_map, f, EmptyMap) = {}
            BY DEF At, EmptyMap
        <2> QED BY <2>1, <2>2, <2>3 DEF Checked
    <1>3. DOMAIN parameter_map \subseteq Functions
        BY DEF TypeOK, IsNestedMap
    <1>4. DOMAIN parameter_map = Checked
        BY <1>2, <1>3 DEF Checked
    <1>5. ASSUME NEW f \in Checked, NEW p \in DOMAIN parameter_map[f]
          PROVE  <<f, p>> \in Keys /\ QueueOf(<<f, p>>) = parameter_map[f][p]
        <2>1. f \in Functions /\ f \in DOMAIN parameter_map /\ p \in Parameters
            BY <1>2, <1>4 DEF Checked
        <2>2. p \in DOMAIN At(parameter_map, f, EmptyMap)
            BY <2>1 DEF At
        <2> QED BY <2>1, <2>2, QueueFound, KeyParts
    <1> QED BY <1>1, <1>2, <1>4, <1>5 DEF Checked

LEMMA ReachableIs == TypeOK => Reachable = BlocksFor(Named, Checked, QueuedAt)
    <1> SUFFICES ASSUME TypeOK PROVE Reachable = BlocksFor(Named, Checked, QueuedAt)
        OBVIOUS
    <1>1. /\ DOMAIN result_map = Named \cap Functions
          /\ DOMAIN parameter_map = Checked
          /\ \A f \in Checked : DOMAIN parameter_map[f] = {p \in Parameters : <<f, p>> \in Named}
          /\ \A f \in DOMAIN result_map : f \in Keys /\ QueueOf(f) = result_map[f]
          /\ \A f \in Checked : \A p \in DOMAIN parameter_map[f] :
                <<f, p>> \in Keys /\ QueueOf(<<f, p>>) = parameter_map[f][p]
        BY MapsNamed
    <1>2. \A k \in Named : \/ k \in DOMAIN result_map
                           \/ \E f \in Checked : \E p \in DOMAIN parameter_map[f] : k = <<f, p>>
        BY <1>1, KeyParts DEF Named, Checked
    <1>3. \A k, b : b \in InQueue(k, QueueOf(k)) <=>
              b = Symbol(k) \/ \E i \in DOMAIN QueueOf(k) : b = Element(QueueOf(k)[i].location)
        BY DEF InQueue
    <1>4. \A b : b \in InResultMap <=>
              \E f \in Named \cap Functions : b \in InQueue(f, QueueOf(f))
        BY <1>1 DEF InResultMap
    <1>5. \A f \in Checked : \A b : b \in InFunction(f) <=>
              \/ b = FunctionSymbol(f)
              \/ \E p \in Parameters : <<f, p>> \in Named /\ b \in InQueue(<<f, p>>, QueueOf(<<f, p>>))
        <2> SUFFICES ASSUME NEW f \in Checked, NEW b
                     PROVE  b \in InFunction(f) <=>
                                \/ b = FunctionSymbol(f)
                                \/ \E p \in Parameters :
                                      /\ <<f, p>> \in Named
                                      /\ b \in InQueue(<<f, p>>, QueueOf(<<f, p>>))
            OBVIOUS
        <2>1. b \in InFunction(f) <=>
                  \/ b = FunctionSymbol(f)
                  \/ \E p \in DOMAIN parameter_map[f] :
                        b \in InQueue(<<f, p>>, parameter_map[f][p])
            BY DEF InFunction
        <2>2. \A p : p \in DOMAIN parameter_map[f] <=>
                  p \in Parameters /\ <<f, p>> \in Named
            BY <1>1
        <2>3. \A p \in DOMAIN parameter_map[f] :
                  QueueOf(<<f, p>>) = parameter_map[f][p]
            BY <1>1
        <2> QED BY <2>1, <2>2, <2>3
    <1>6. \A b : b \in Reachable <=>
              b \in InResultMap \/ \E f \in Checked : b \in InFunction(f)
        BY <1>1 DEF Reachable
    <1>7. \A b : b \in Reachable <=>
              \/ \E f \in Checked : b = FunctionSymbol(f)
              \/ \E k \in Named : b \in InQueue(k, QueueOf(k))
        <2>1. ASSUME NEW k \in Named, NEW b \in InQueue(k, QueueOf(k))
              PROVE  b \in Reachable
            <3>1. CASE k \in Functions
                BY <1>4, <1>6, <3>1
            <3>2. CASE \E f \in Functions, p \in Parameters : k = <<f, p>>
                BY <1>5, <1>6, <3>2 DEF Checked
            <3> QED BY <3>1, <3>2, KeyParts DEF Named
        <2>2. ASSUME NEW b \in Reachable
              PROVE  \/ \E f \in Checked : b = FunctionSymbol(f)
                     \/ \E k \in Named : b \in InQueue(k, QueueOf(k))
            BY <1>4, <1>5, <1>6
        <2>3. \A f \in Checked : FunctionSymbol(f) \in Reachable
            BY <1>5, <1>6
        <2> QED BY <2>1, <2>2, <2>3
    <1>8. \A b : b \in BlocksFor(Named, Checked, QueuedAt) <=>
              \/ \E f \in Checked : b = FunctionSymbol(f)
              \/ \E k \in Named : b \in InQueue(k, QueueOf(k))
        <2>1. \A b : b \in BlocksFor(Named, Checked, QueuedAt) <=>
                  \/ \E k \in Named : b = Symbol(k)
                  \/ \E f \in Checked : b = FunctionSymbol(f)
                  \/ \E l \in QueuedAt : b = Element(l)
            BY DEF BlocksFor
        <2>2. \A l : l \in QueuedAt <=>
                  \E k \in Named : \E i \in DOMAIN QueueOf(k) : l = QueueOf(k)[i].location
            BY DEF QueuedAt, Named
        <2> QED BY <1>3, <2>1, <2>2
    <1> QED BY <1>7, <1>8

-----------------------------------------------------------------------------
(* What the steps do to the queues' blocks                                 *)

Above(k) == {f \in Functions : \E p \in Parameters : k = <<f, p>>}

LEMMA DeclareBlocks ==
    ASSUME TypeOK, NEW k \in Keys, NEW count, Declares(k, count)
    PROVE  /\ Named' = Named \cup {k}
           /\ Checked' = Checked \cup Above(k)
           /\ QueuedAt' = QueuedAt \cup {location + 1}
    <1>1. PICK node \in AnyNode :
              /\ node.location = location + 1
              /\ \A m \in Keys :
                    QueueOf(m)' = IF m = k THEN Append(QueueOf(m), node) ELSE QueueOf(m)
        BY DEF Declares
    <1>2. QueueOf(k) \in Seq(AnyNode)
        BY QueuesTyped
    <1> DEFINE R == Append(QueueOf(k), node)
    <1>3. /\ DOMAIN R = DOMAIN QueueOf(k) \cup {Len(QueueOf(k)) + 1}
          /\ R[Len(QueueOf(k)) + 1] = node
          /\ \A i \in DOMAIN QueueOf(k) : R[i] = QueueOf(k)[i]
        BY <1>1, <1>2, Appended
    <1>0. QueueOf(k)' = R /\ \A m \in Keys : m # k => QueueOf(m)' = QueueOf(m)
        BY <1>1
    <1> HIDE DEF R
    <1>4. QueueOf(k)' # <<>>
        BY <1>0, <1>3
    <1>5. Named' = Named \cup {k}
        BY <1>0, <1>4 DEF Named
    <1>6. Checked' = Checked \cup Above(k)
        BY <1>5, KeyParts DEF Checked, Above
    <1>7. \A l : l \in QueuedAt' <=>
              \E m \in Keys : \E i \in DOMAIN QueueOf(m)' : l = QueueOf(m)'[i].location
        BY DEF QueuedAt
    <1>8. \A l : l \in QueuedAt <=>
              \E m \in Keys : \E i \in DOMAIN QueueOf(m) : l = QueueOf(m)[i].location
        BY DEF QueuedAt
    <1>9. \A l : l \in QueuedAt' <=> l \in QueuedAt \/ l = location + 1
        <2>1. ASSUME NEW l \in QueuedAt' PROVE l \in QueuedAt \/ l = location + 1
            BY <1>0, <1>1, <1>3, <1>7, <1>8
        <2>2. QueuedAt \subseteq QueuedAt'
            BY <1>0, <1>1, <1>3, <1>7, <1>8
        <2>3. location + 1 \in QueuedAt'
            BY <1>0, <1>1, <1>3, <1>7
        <2> QED BY <2>1, <2>2, <2>3
    <1> QED BY <1>5, <1>6, <1>9

(* A declaration is queued at one place, and none stands at the next.      *)
LEMMA QueuedApart ==
    ASSUME IInv, phase = "body"
    PROVE  /\ \A k, m \in Keys : \A i \in DOMAIN QueueOf(k), j \in DOMAIN QueueOf(m) :
                 QueueOf(k)[i].location = QueueOf(m)[j].location => k = m /\ i = j
           /\ location + 1 \notin QueuedAt
    <1>1. \A k \in Keys : \A i \in DOMAIN QueueOf(k) :
              /\ Gone(declared[k], QueueOf(k)) + i \in DOMAIN declared[k]
              /\ QueueOf(k)[i].location
                     = declared[k][Gone(declared[k], QueueOf(k)) + i].location
        <2> SUFFICES ASSUME NEW k \in Keys, NEW i \in DOMAIN QueueOf(k)
                     PROVE  /\ Gone(declared[k], QueueOf(k)) + i \in DOMAIN declared[k]
                            /\ QueueOf(k)[i].location
                                 = declared[k][Gone(declared[k], QueueOf(k)) + i].location
            OBVIOUS
        <2>1. /\ QueueOf(k) \in Seq(AnyNode) /\ declared[k] \in Seq(Declaration)
              /\ Follows(declared[k], QueueOf(k), used)
            BY QueuesTyped DEF IInv, BodyInv, QueuesFollow, TypeOK
        <2>2. /\ Len(QueueOf(k)) \in Nat /\ DOMAIN QueueOf(k) = 1..Len(QueueOf(k))
              /\ Len(declared[k]) \in Nat /\ DOMAIN declared[k] = 1..Len(declared[k])
              /\ Len(QueueOf(k)) <= Len(declared[k])
            BY <2>1, LenProperties DEF Follows
        <2>3. Gone(declared[k], QueueOf(k)) + i \in DOMAIN declared[k]
            BY <2>2 DEF Gone
        <2>4. i \in 1..Len(QueueOf(k))
            BY <2>2
        <2> QED BY <2>1, <2>3, <2>4 DEF Follows, LeftOf
    <1>2. \A k \in Keys : Gone(declared[k], QueueOf(k)) \in Int
        <2> SUFFICES ASSUME NEW k \in Keys PROVE Gone(declared[k], QueueOf(k)) \in Int
            OBVIOUS
        <2>1. QueueOf(k) \in Seq(AnyNode) /\ declared[k] \in Seq(Declaration)
            BY QueuesTyped DEF IInv, TypeOK
        <2> QED BY <2>1, LenProperties DEF Gone
    <1>3. ASSUME NEW k \in Keys, NEW m \in Keys,
                 NEW i \in DOMAIN QueueOf(k), NEW j \in DOMAIN QueueOf(m),
                 QueueOf(k)[i].location = QueueOf(m)[j].location
          PROVE  k = m /\ i = j
        <2>1. k = m /\ Gone(declared[k], QueueOf(k)) + i = Gone(declared[m], QueueOf(m)) + j
            BY <1>1, <1>3 DEF IInv, BodyInv, LocationsTell
        <2>2. i \in Int /\ j \in Int
            <3>1. QueueOf(k) \in Seq(AnyNode) /\ QueueOf(m) \in Seq(AnyNode)
                BY QueuesTyped DEF IInv
            <3> QED BY <3>1, LenProperties
        <2> QED BY <1>2, <2>1, <2>2
    <1>4. \A k \in Keys : \A i \in DOMAIN QueueOf(k) :
              QueueOf(k)[i].location <= location
        BY <1>1 DEF IInv, BodyInv, LocationsTell
    <1>5. location \in Nat
        BY DEF IInv, TypeOK, Locations
    <1>6. \A k \in Keys : \A i \in DOMAIN QueueOf(k) :
              QueueOf(k)[i].location # location + 1
        BY <1>4, <1>5
    <1>7. location + 1 \notin QueuedAt
        BY <1>6 DEF QueuedAt
    <1> QED BY <1>3, <1>7

Released(k) ==
    /\ QueueOf(k) # <<>>
    /\ \A m \in Keys : QueueOf(m)' = IF m = k THEN Release(QueueOf(m)) ELSE QueueOf(m)

(* More references are left: nothing goes.                                 *)
LEMMA ReleaseKeeps ==
    ASSUME TypeOK, NEW k \in Keys, Released(k), QueueOf(k)[1].refcount # 1
    PROVE  Named' = Named /\ Checked' = Checked /\ QueuedAt' = QueuedAt
    <1> DEFINE Q == QueueOf(k)
               R == Release(Q)
    <1>1. Q \in Seq(AnyNode) /\ Q # <<>> /\ QueueOf(k)' = R
        BY QueuesTyped DEF Released
    <1>2. /\ R \in Seq(AnyNode) /\ Len(R) = Len(Q)
          /\ R[1].location = Q[1].location
          /\ \A i \in 2..Len(Q) : R[i] = Q[i]
        BY <1>1, ReleaseParts
    <1>3. DOMAIN R = DOMAIN Q /\ DOMAIN Q = 1..Len(Q) /\ Len(Q) \in Nat
          /\ R # <<>>
        BY <1>1, <1>2, LenProperties, EmptySeq
    <1>4. \A i \in DOMAIN Q : R[i].location = Q[i].location
        <2>1. \A i \in 1..Len(Q) : i = 1 \/ i \in 2..Len(Q)
            BY <1>3
        <2> QED BY <1>2, <1>3, <2>1
    <1> HIDE DEF R
    <1>5. Named' = Named
        BY <1>1, <1>3 DEF Named, Released
    <1>6. QueuedAt' = QueuedAt
        <2>0. \A m \in Keys : /\ DOMAIN QueueOf(m)' = DOMAIN QueueOf(m)
                              /\ \A i \in DOMAIN QueueOf(m) :
                                    QueueOf(m)'[i].location = QueueOf(m)[i].location
            BY <1>1, <1>3, <1>4 DEF Released
        <2>1. \A x : x \in QueuedAt' <=>
                  \E m \in Keys : \E i \in DOMAIN QueueOf(m)' : x = QueueOf(m)'[i].location
            BY DEF QueuedAt
        <2>2. \A x : x \in QueuedAt <=>
                  \E m \in Keys : \E i \in DOMAIN QueueOf(m) : x = QueueOf(m)[i].location
            BY DEF QueuedAt
        <2>3. \A x : x \in QueuedAt' <=> x \in QueuedAt
            BY <2>0, <2>1, <2>2
        <2> QED BY <2>3
    <1> QED BY <1>5, <1>6 DEF Checked

(* The last reference goes, with its node, and the symbols left empty.     *)
LEMMA ReleaseTakes ==
    ASSUME IInv, phase = "body", NEW k \in Keys, Released(k),
           QueueOf(k)[1].refcount = 1
    PROVE  /\ QueuedAt' = QueuedAt \ {QueueOf(k)[1].location}
           /\ Len(QueueOf(k)) # 1 => Named' = Named /\ Checked' = Checked
           /\ Len(QueueOf(k)) = 1 =>
                 /\ Named' = Named \ {k}
                 /\ Checked' = Checked \ {f \in Above(k) :
                        \A p \in Parameters : <<f, p>> \in Named => <<f, p>> = k}
    <1> DEFINE Q == QueueOf(k)
               R == Release(Q)
    <1>1. Q \in Seq(AnyNode) /\ Q # <<>> /\ QueueOf(k)' = R
        BY QueuesTyped DEF Released, IInv
    <1>2. /\ R \in Seq(AnyNode) /\ Len(R) = Len(Q) - 1
          /\ \A i \in 1..(Len(Q) - 1) : R[i] = Q[i + 1]
        BY <1>1, ReleaseParts
    <1>3. /\ DOMAIN R = 1..(Len(Q) - 1) /\ DOMAIN Q = 1..Len(Q) /\ Len(Q) \in Nat
          /\ Len(Q) # 0 /\ (R = <<>> <=> Len(Q) = 1)
        BY <1>1, <1>2, LenProperties, EmptySeq
    <1>4. \A i \in DOMAIN R : i + 1 \in DOMAIN Q /\ i + 1 # 1 /\ R[i] = Q[i + 1]
        BY <1>2, <1>3
    <1>5. \A i \in DOMAIN Q : i # 1 => \E j \in DOMAIN R : R[j] = Q[i]
        <2> SUFFICES ASSUME NEW i \in DOMAIN Q, i # 1 PROVE \E j \in DOMAIN R : R[j] = Q[i]
            OBVIOUS
        <2>1. i - 1 \in DOMAIN R /\ (i - 1) + 1 = i
            BY <1>3
        <2> QED BY <1>4, <2>1
    <1>6. 1 \in DOMAIN Q
        BY <1>3
    <1>7. \A m \in Keys : m # k => QueueOf(m)' = QueueOf(m)
        BY DEF Released
    <1> DEFINE l == Q[1].location
    <1>8. \A m \in Keys : \A i \in DOMAIN QueueOf(m) :
              QueueOf(m)[i].location = l => m = k /\ i = 1
        BY <1>6, QueuedApart
    <1> HIDE DEF R, l
    <1>9. QueuedAt' = QueuedAt \ {l}
        <2>1. \A x : x \in QueuedAt' <=>
                  \E m \in Keys : \E i \in DOMAIN QueueOf(m)' : x = QueueOf(m)'[i].location
            BY DEF QueuedAt
        <2>2. \A x : x \in QueuedAt <=>
                  \E m \in Keys : \E i \in DOMAIN QueueOf(m) : x = QueueOf(m)[i].location
            BY DEF QueuedAt
        <2>3. ASSUME NEW x \in QueuedAt' PROVE x \in QueuedAt /\ x # l
            <3>1. PICK m \in Keys : \E i \in DOMAIN QueueOf(m)' : x = QueueOf(m)'[i].location
                BY <2>1
            <3>2. CASE m = k
                BY <1>1, <1>4, <1>8, <2>2, <3>1, <3>2
            <3>3. CASE m # k
                BY <1>7, <1>8, <2>2, <3>1, <3>3
            <3> QED BY <3>2, <3>3
        <2>4. ASSUME NEW x \in QueuedAt, x # l PROVE x \in QueuedAt'
            <3>1. PICK m \in Keys : \E i \in DOMAIN QueueOf(m) : x = QueueOf(m)[i].location
                BY <2>2
            <3>2. CASE m = k
                BY <1>1, <1>5, <2>1, <2>4, <3>1, <3>2 DEF l
            <3>3. CASE m # k
                BY <1>7, <2>1, <3>1, <3>3
            <3> QED BY <3>2, <3>3
        <2> QED BY <2>3, <2>4
    <1>10. Len(Q) # 1 => Named' = Named
        BY <1>1, <1>3, <1>7 DEF Named
    <1>11. Len(Q) = 1 => Named' = Named \ {k}
        BY <1>1, <1>3, <1>7 DEF Named
    <1>12. Len(Q) # 1 => Checked' = Checked
        BY <1>10 DEF Checked
    <1>13. Len(Q) = 1 =>
               Checked' = Checked \ {f \in Above(k) :
                   \A p \in Parameters : <<f, p>> \in Named => <<f, p>> = k}
        <2> SUFFICES ASSUME Len(Q) = 1
                     PROVE  Checked' = Checked \ {f \in Above(k) :
                   \A p \in Parameters : <<f, p>> \in Named => <<f, p>> = k}
            OBVIOUS
        <2>1. \A f \in Functions, p \in Parameters :
                  <<f, p>> \in Named' <=> <<f, p>> \in Named /\ <<f, p>> # k
            BY <1>11
        <2>2. k \in Named
            BY <1>1 DEF Named
        <2> QED BY <2>1, <2>2 DEF Checked, Above
    <1> QED BY <1>9, <1>10, <1>11, <1>12, <1>13 DEF l

-----------------------------------------------------------------------------
(* The invariant                                                           *)

HeapTyped ==
    /\ clock \in Nat
    /\ DOMAIN heap \subseteq 1..clock
    /\ check_point \in 0..clock
    /\ setup_point \in {NoPoint} \cup 0..clock
    /\ since \in 0..clock
    /\ setup_since \in 0..clock
    /\ given_back \in BOOLEAN
    /\ setup_given_back \in BOOLEAN

(* What was there when a check point was taken is never behind it; and the *)
(* point itself was, unless its block has been given back.                 *)
Splits(point, at, given) ==
    /\ \A n \in DOMAIN heap : n <= at => n <= point
    /\ ~ given => point <= at
PointsSplit ==
    /\ Splits(check_point, since, given_back)
    /\ setup_point # NoPoint =>
          Splits(setup_point, setup_since, setup_given_back) /\ setup_since <= since

(* Between functions, and before the leak check, nothing is queued.        *)
MapsEmpty ==
    (\/ phase = "idle"
     \/ phase = "teardown" /\ verdict = "passed") =>
        result_map = EmptyMap /\ parameter_map = EmptyMap

HeapHolds == HeapTyped /\ PointsSplit /\ HeapMatches /\ PointsHold
HeapInv == IInv /\ MapsEmpty /\ HeapHolds

-----------------------------------------------------------------------------
(* What allocating and freeing do                                          *)

(* A point that a block still stands at does not move.                     *)
Moved(point, to) ==
    \/ to = point
    \/ Dangles(point) /\ to \in (clock + 1)..clock'

LEMMA Allocated ==
    ASSUME HeapTyped, NEW S, NEW new \in Seq(S), Allocate(new)
    PROVE  /\ clock' \in Nat /\ clock' >= clock
           /\ DOMAIN heap' \subseteq 1..clock'
           /\ \A n \in DOMAIN heap : n \in DOMAIN heap' /\ heap'[n] = heap[n]
           /\ \A n \in DOMAIN heap' : n \notin DOMAIN heap =>
                 /\ n \in Nat /\ n > clock
                 /\ n - clock \in DOMAIN new /\ heap'[n] = new[n - clock]
           /\ \A i \in DOMAIN new : clock + i \in DOMAIN heap' /\ heap'[clock + i] = new[i]
           /\ Moved(check_point, check_point') /\ Moved(setup_point, setup_point')
    <1>1. /\ Len(new) \in Nat /\ DOMAIN new = 1..Len(new)
          /\ clock \in Nat /\ DOMAIN heap \subseteq 1..clock
        BY LenProperties DEF HeapTyped
    <1> DEFINE G == (clock + 1)..(clock + Len(new))
    <1>2. /\ clock' = clock + Len(new)
          /\ DOMAIN heap' = DOMAIN heap \cup G
          /\ \A n \in DOMAIN heap \cup G :
                heap'[n] = IF n \in DOMAIN heap THEN heap[n] ELSE new[n - clock]
        BY DEF Allocate
    <1>3. /\ \A n \in G : n \in Nat /\ n > clock /\ n <= clock' /\ n - clock \in DOMAIN new
          /\ \A i \in DOMAIN new : /\ clock + i \in G /\ (clock + i) - clock = i
                                   /\ clock + i \notin DOMAIN heap
          /\ clock' \in Nat /\ clock' >= clock
        BY <1>1, <1>2
    <1>4. DOMAIN heap \subseteq 1..clock'
        BY <1>1, <1>3
    <1>5. G \subseteq 1..clock'
        BY <1>1, <1>3
    <1>6. Moved(check_point, check_point') /\ Moved(setup_point, setup_point')
        BY <1>2 DEF Allocate, GivenAgain, Moved
    <1> HIDE DEF G
    <1> QED BY <1>2, <1>3, <1>4, <1>5, <1>6

(* Blocks that are allocated while a function runs.                        *)
LEMMA GrowStep ==
    ASSUME HeapHolds, NEW S, NEW new \in Seq(S), Allocate(new),
           phase # "dead", past' = past,
           \A i, j \in DOMAIN new : ~ OfFunctions(new[i]) /\ new[i] = new[j] => i = j,
           \A b : b \in Reachable' <=>
              \/ b \in Reachable
              \/ \E i \in DOMAIN new : b = new[i] /\ ~ OfFunctions(b),
           \A i \in DOMAIN new : new[i] \notin Reachable
    PROVE  HeapHolds'
    <1>1. /\ clock' \in Nat /\ clock' >= clock
          /\ DOMAIN heap' \subseteq 1..clock'
          /\ \A n \in DOMAIN heap : n \in DOMAIN heap' /\ heap'[n] = heap[n]
          /\ \A n \in DOMAIN heap' : n \notin DOMAIN heap =>
                /\ n \in Nat /\ n > clock
                /\ n - clock \in DOMAIN new /\ heap'[n] = new[n - clock]
          /\ \A i \in DOMAIN new : clock + i \in DOMAIN heap' /\ heap'[clock + i] = new[i]
        BY Allocated DEF HeapHolds
    <1>2. /\ Moved(check_point, check_point') /\ Moved(setup_point, setup_point')
          /\ since' = since /\ setup_since' = setup_since
          /\ given_back' = given_back /\ setup_given_back' = setup_given_back
        BY Allocated DEF HeapHolds, past
    <1>3. /\ clock \in Nat /\ DOMAIN heap \subseteq 1..clock
          /\ check_point \in 0..clock /\ setup_point \in {NoPoint} \cup 0..clock
          /\ since \in 0..clock /\ setup_since \in 0..clock
          /\ given_back \in BOOLEAN /\ setup_given_back \in BOOLEAN
        BY DEF HeapHolds, HeapTyped
    <1>4. HeapTyped'
        BY <1>1, <1>2, <1>3 DEF HeapTyped, Moved
    <1>5. ASSUME NEW point, NEW to, NEW given, Stands(point, given), Moved(point, to)
          PROVE  to = point \/ (given /\ to > clock /\ to \in Nat)
        BY <1>1, <1>3, <1>5 DEF Stands, Moved, Dangles
    <1>6. ASSUME NEW point \in 0..clock, NEW to, NEW at \in 0..clock, NEW given,
                 Splits(point, at, given), to = point \/ (given /\ to > clock /\ to \in Nat)
          PROVE  (\A n \in DOMAIN heap' : n <= at => n <= to) /\ (~ given => to <= at)
        <2>1. ASSUME NEW n \in DOMAIN heap', n <= at PROVE n <= to
            <3>1. n \in DOMAIN heap
                BY <1>1, <1>3, <2>1
            <3> QED BY <1>3, <1>6, <2>1, <3>1 DEF Splits
        <2> QED BY <1>6, <2>1 DEF Splits
    <1>7. PointsSplit'
        <2>1. Stands(check_point, given_back) /\ Stands(setup_point, setup_given_back)
            BY DEF HeapHolds, PointsHold
        <2>2. setup_point # NoPoint => setup_point \in 0..clock
            BY <1>3
        <2>3. setup_point = NoPoint => setup_point' = NoPoint
            BY <1>2 DEF Moved, Dangles
        <2>4. Splits(check_point, since, given_back)'
            <3>1. check_point' = check_point \/ (given_back /\ check_point' > clock /\ check_point' \in Nat)
                BY <1>2, <1>5, <2>1
            <3>2. Splits(check_point, since, given_back)
                BY DEF HeapHolds, PointsSplit
            <3>3. /\ \A n \in DOMAIN heap' : n <= since => n <= check_point'
                  /\ ~ given_back => check_point' <= since
                BY <1>3, <1>6, <3>1, <3>2
            <3> QED BY <1>2, <3>3 DEF Splits
        <2>5. ASSUME setup_point # NoPoint
              PROVE  Splits(setup_point, setup_since, setup_given_back)'
            <3>1. setup_point' = setup_point \/ (setup_given_back /\ setup_point' > clock /\ setup_point' \in Nat)
                BY <1>2, <1>5, <2>1
            <3>2. Splits(setup_point, setup_since, setup_given_back)
                BY <2>5 DEF HeapHolds, PointsSplit
            <3>3. /\ \A n \in DOMAIN heap' : n <= setup_since => n <= setup_point'
                  /\ ~ setup_given_back => setup_point' <= setup_since
                BY <1>3, <1>6, <2>2, <2>5, <3>1, <3>2
            <3> QED BY <1>2, <3>3 DEF Splits
        <2> QED BY <1>2, <2>3, <2>4, <2>5 DEF HeapHolds, PointsSplit
    <1>8. PointsHold'
        BY <1>1, <1>2, <1>5 DEF HeapHolds, PointsHold, Stands
    <1>9. /\ {b \in Range(heap) : ~ OfFunctions(b)} = Reachable
          /\ \A m, n \in DOMAIN heap :
                heap[m] = heap[n] /\ ~ OfFunctions(heap[m]) => m = n
        BY DEF HeapHolds, HeapMatches
    <1>10. \A b : b \in Range(heap') /\ ~ OfFunctions(b) <=> b \in Reachable'
        <2>1. \A b : b \in Range(heap) <=> \E n \in DOMAIN heap : b = heap[n]
            BY DEF Range
        <2>2. \A b : b \in Range(heap') <=> \E n \in DOMAIN heap' : b = heap'[n]
            BY DEF Range
        <2>3. \A b : b \in Range(heap') <=> b \in Range(heap) \/ \E i \in DOMAIN new : b = new[i]
            BY <1>1, <2>1, <2>2
        <2> QED BY <1>9, <2>3
    <1>11. ASSUME NEW m \in DOMAIN heap', NEW n \in DOMAIN heap',
                  heap'[m] = heap'[n], ~ OfFunctions(heap'[m])
           PROVE  m = n
        <2>1. \A k \in DOMAIN heap : ~ OfFunctions(heap[k]) => heap[k] \in Reachable
            BY <1>9 DEF Range
        <2>2. CASE m \in DOMAIN heap /\ n \in DOMAIN heap
            BY <1>1, <1>9, <1>11, <2>2
        <2>3. CASE m \in DOMAIN heap <=> n \notin DOMAIN heap
            BY <1>1, <1>11, <2>1, <2>3
        <2>4. CASE m \notin DOMAIN heap /\ n \notin DOMAIN heap
            <3>1. m - clock = n - clock
                BY <1>1, <1>11, <2>4
            <3>2. m \in Nat /\ n \in Nat
                BY <1>1, <2>4
            <3> QED BY <1>3, <3>1, <3>2
        <2> QED BY <2>2, <2>3, <2>4
    <1>12. HeapMatches'
        BY <1>10, <1>11 DEF HeapMatches
    <1> QED BY <1>4, <1>7, <1>8, <1>12 DEF HeapHolds

(* Blocks that go, or stay, while the check points do.                     *)
LEMMA ShrinkStep ==
    ASSUME HeapHolds, UNCHANGED <<clock, points, since, setup_since>>,
           given_back' \in {given_back, TRUE},
           setup_given_back' \in {setup_given_back, TRUE},
           DOMAIN heap' \subseteq DOMAIN heap,
           \A n \in DOMAIN heap' : heap'[n] = heap[n],
           PointsHold',
           phase' # "dead" => \A b : b \in Range(heap') /\ ~ OfFunctions(b) <=> b \in Reachable'
    PROVE  HeapHolds'
    <1>2. check_point' = check_point /\ setup_point' = setup_point
        BY DEF points
    <1>4. HeapTyped'
        BY <1>2 DEF HeapHolds, HeapTyped
    <1>7. PointsSplit'
        BY <1>2 DEF HeapHolds, PointsSplit, Splits
    <1>9. \A m, n \in DOMAIN heap' :
              heap'[m] = heap'[n] /\ ~ OfFunctions(heap'[m]) => m = n
        BY DEF HeapHolds, HeapMatches
    <1>12. HeapMatches'
        BY <1>9 DEF HeapMatches
    <1> QED BY <1>4, <1>7, <1>12 DEF HeapHolds

(* Blocks of the queues that go.                                           *)
LEMMA FreeAllStep ==
    ASSUME HeapHolds, phase # "dead", past' = past,
           NEW removed, FreeAll(removed), \A b \in removed : ~ OfFunctions(b),
           phase' # "dead" => \A b : b \in Reachable' <=> b \in Reachable /\ b \notin removed
    PROVE  HeapHolds'
    <1>1. /\ UNCHANGED <<clock, points>>
          /\ \A n : n \in DOMAIN heap' <=> n \in DOMAIN heap /\ heap[n] \notin removed
          /\ \A n \in DOMAIN heap' : heap'[n] = heap[n]
        BY DEF FreeAll, Restrict
    <1>2. {b \in Range(heap) : ~ OfFunctions(b)} = Reachable
        BY DEF HeapHolds, HeapMatches
    <1>3. \A b : b \in Range(heap) <=> \E n \in DOMAIN heap : b = heap[n]
        BY DEF Range
    <1>4. \A b : b \in Range(heap') <=> \E n \in DOMAIN heap' : b = heap'[n]
        BY DEF Range
    <1>5. \A b : b \in Range(heap') <=> b \in Range(heap) /\ b \notin removed
        BY <1>1, <1>3, <1>4
    <1>6. phase' # "dead" => \A b : b \in Range(heap') /\ ~ OfFunctions(b) <=> b \in Reachable'
        BY <1>2, <1>5
    <1>7. PointsHold'
        BY <1>1 DEF HeapHolds, PointsHold, Stands, points, past
    <1> QED BY <1>1, <1>6, <1>7, ShrinkStep DEF past

-----------------------------------------------------------------------------
(* Every step is one of MockQueue's, or leaves its variables alone.        *)
LEMMA HeapIsQueue ==
    ASSUME [HeapNext]_heap_vars
    PROVE  [Next]_vars
    <1>1. CASE BeginUnitTest \/ BeginSetup \/ BeginTeardown
        BY <1>1 DEF BeginUnitTest, BeginSetup, BeginTeardown, Begins, Next
    <1>2. CASE Malloc \/ (\E n \in DOMAIN heap : Free(n)) \/ FailIfBlocksAllocated
               \/ CheckPointFreed \/ HeapEnded \/ UNCHANGED heap_vars
        BY <1>2 DEF Malloc, Free, ChecksBlocks, FailIfBlocksAllocated, CheckPointFreed,
                    HeapEnded, heap_vars
    <1>3. ASSUME NEW f \in Functions, NEW count \in ResultCounts, HeapWillReturn(f, count)
          PROVE  Next
        BY <1>3 DEF HeapWillReturn, Next
    <1>4. ASSUME NEW f \in Functions, HeapMock(f)
          PROVE  Next
        BY <1>4 DEF HeapMock, Next
    <1>5. ASSUME NEW f \in Functions, NEW p \in Parameters, NEW accepts \in Acceptable,
                 NEW count \in ExpectCounts, HeapExpect(f, p, accepts, count)
          PROVE  Next
        BY <1>5 DEF HeapExpect, Next
    <1>6. ASSUME NEW f \in Functions, NEW p \in Parameters, NEW value \in Values,
                 HeapCheckExpected(f, p, value)
          PROVE  Next
        BY <1>6 DEF HeapCheckExpected, Next
    <1>7. ASSUME NEW count \in ResultCounts, HeapWillReturnRefused(count)
          PROVE  Next
        BY <1>7 DEF HeapWillReturnRefused, Next
    <1>8. CASE HeapUnset \/ HeapBodyThrows
        BY <1>8 DEF HeapUnset, HeapBodyThrows, Next
    <1>9. CASE HeapFailIfLeftoverValues \/ HeapTeardownTesting
        BY <1>9 DEF HeapFailIfLeftoverValues, HeapTeardownTesting, Next
    <1> QED BY <1>1, <1>2, <1>3, <1>4, <1>5, <1>6, <1>7, <1>8, <1>9 DEF HeapNext

LEMMA MapsStep ==
    ASSUME MapsEmpty, [Next]_vars
    PROVE  MapsEmpty'
    <1>1. CASE BeginTest
        BY <1>1 DEF BeginTest, MapsEmpty
    <1>2. ASSUME NEW k, NEW count, Declare(k, count)
          PROVE  MapsEmpty'
        BY <1>2 DEF Declare, MapsEmpty
    <1>3. ASSUME phase = "body", phase' = phase \/ phase' = "dead"
          PROVE  MapsEmpty'
        BY <1>3 DEF MapsEmpty
    <1>4. ASSUME NEW f \in Functions, Mock(f) \/ MockUnset(f)
          PROVE  MapsEmpty'
        BY <1>3, <1>4 DEF Mock, MockUnset, UseOne, Found, NotFound, Abort
    <1>5. ASSUME NEW f \in Functions, NEW p \in Parameters,
                 (\E value \in Values : CheckExpected(f, p, value)) \/ CheckUnset(f, p)
          PROVE  MapsEmpty'
        BY <1>3, <1>5 DEF CheckExpected, CheckUnset, UseOne, Found, NotFound, Abort
    <1>6. ASSUME NEW count \in ResultCounts, WillReturnRefused(count)
          PROVE  MapsEmpty'
        BY <1>3, <1>6 DEF WillReturnRefused
    <1>7. CASE BodyThrows
        BY <1>7 DEF BodyThrows, MapsEmpty
    <1>8. CASE FailIfLeftoverValues
        BY <1>8 DEF FailIfLeftoverValues, Abort, MapsEmpty
    <1>9. CASE TeardownTesting
        BY <1>9 DEF TeardownTesting, MapsEmpty
    <1>10. CASE Ended \/ UNCHANGED vars
        BY <1>10 DEF Ended, vars, history, maps, MapsEmpty
    <1> QED BY <1>1, <1>2, <1>4, <1>5, <1>6, <1>7, <1>8, <1>9, <1>10
        DEF Next, WillReturn, Expect

-----------------------------------------------------------------------------
(* The steps of the heap                                                   *)

LEMMA NothingReachable ==
    result_map = EmptyMap /\ parameter_map = EmptyMap => Reachable = {}
    BY DEF Reachable, InResultMap, EmptyMap

(* The maps are as they were, or both empty again.                         *)
LEMMA ReachableStays ==
    ASSUME UNCHANGED maps
    PROVE  Reachable' = Reachable
    BY DEF maps, Reachable, InResultMap, InFunction

LEMMA HeapBeginStep ==
    ASSUME HeapInv, BeginUnitTest \/ BeginSetup \/ BeginTeardown
    PROVE  HeapHolds'
    <1>1. /\ phase = "idle" /\ test' = test + 1 /\ heap' = heap /\ clock' = clock
          /\ result_map' = EmptyMap /\ parameter_map' = EmptyMap
        BY DEF BeginUnitTest, BeginSetup, BeginTeardown, Begins, BeginTest, blocks
    <1>2. Reachable = {} /\ Reachable' = {}
        <2>1. Reachable = {}
            BY <1>1, NothingReachable DEF HeapInv, MapsEmpty
        <2>2. (result_map = EmptyMap /\ parameter_map = EmptyMap => Reachable = {})'
            BY NothingReachable, PTL
        <2> QED BY <1>1, <2>1, <2>2
    <1>3. HeapMatches'
        BY <1>1, <1>2 DEF HeapInv, HeapHolds, HeapMatches
    <1>4. \A n \in DOMAIN heap : OfFunctions(heap[n])
        BY <1>1, <1>2 DEF HeapInv, HeapHolds, HeapMatches, Range
    <1>5. /\ clock \in Nat /\ DOMAIN heap \subseteq 1..clock
          /\ check_point \in 0..clock /\ setup_point \in {NoPoint} \cup 0..clock
          /\ since \in 0..clock /\ setup_since \in 0..clock
          /\ given_back \in BOOLEAN /\ setup_given_back \in BOOLEAN
        BY DEF HeapInv, HeapHolds, HeapTyped
    <1>6. LastBlock \in DOMAIN heap \cup {Head0} /\ \A n \in DOMAIN heap : LastBlock >= n
        BY <1>5, MaxIsLargest DEF LastBlock, Head0
    <1>7. /\ LastBlock \in 0..clock
          /\ LastBlock # Head0 => LastBlock \in DOMAIN heap /\ OfFunctions(heap[LastBlock])
        BY <1>4, <1>5, <1>6 DEF Head0
    <1>8. Splits(LastBlock, clock, FALSE) /\ Stands(LastBlock, FALSE)
        BY <1>5, <1>6, <1>7 DEF Splits, Stands
    <1>9. PointsSplit /\ PointsHold
        BY DEF HeapInv, HeapHolds
    <1>11. CASE BeginUnitTest
        <2>1. /\ check_point' = LastBlock /\ since' = clock /\ given_back' = FALSE
              /\ UNCHANGED <<setup_point, setup_since, setup_given_back>>
            BY <1>11 DEF BeginUnitTest
        <2>2. /\ given_back' \in BOOLEAN /\ setup_given_back' \in BOOLEAN
              /\ clock' = clock /\ clock \in 0..clock
              /\ check_point' \in 0..clock /\ setup_point' \in {NoPoint} \cup 0..clock
              /\ since' \in 0..clock /\ setup_since' \in 0..clock
            <3>1. given_back' \in BOOLEAN /\ setup_given_back' \in BOOLEAN
                BY <1>5, <2>1, Zenon
            <3>2. clock \in 0..clock
                BY <1>5
            <3> QED BY <1>1, <1>5, <1>7, <2>1, <3>1, <3>2, Zenon
        <2>3. HeapTyped'
            BY <1>1, <1>5, <2>2, Zenon DEF HeapTyped
        <2>4. PointsSplit'
            BY <1>1, <1>5, <1>8, <1>9, <2>1 DEF PointsSplit, Splits
        <2>5. PointsHold'
            BY <1>1, <1>8, <1>9, <2>1 DEF PointsHold, Stands
        <2> QED BY <1>3, <2>3, <2>4, <2>5 DEF HeapHolds
    <1>12. CASE BeginSetup
        <2>1. /\ check_point' = LastBlock /\ since' = clock /\ given_back' = FALSE
              /\ setup_point' = LastBlock /\ setup_since' = clock
              /\ setup_given_back' = FALSE
            BY <1>12 DEF BeginSetup
        <2>2. /\ given_back' \in BOOLEAN /\ setup_given_back' \in BOOLEAN
              /\ clock' = clock /\ clock \in 0..clock
              /\ check_point' \in 0..clock /\ setup_point' \in {NoPoint} \cup 0..clock
              /\ since' \in 0..clock /\ setup_since' \in 0..clock
            <3>1. given_back' \in BOOLEAN /\ setup_given_back' \in BOOLEAN
                BY <1>5, <2>1, Zenon
            <3>2. clock \in 0..clock
                BY <1>5
            <3> QED BY <1>1, <1>5, <1>7, <2>1, <3>1, <3>2, Zenon
        <2>3. HeapTyped'
            BY <1>1, <1>5, <2>2, Zenon DEF HeapTyped
        <2>4. PointsSplit'
            BY <1>1, <1>5, <1>8, <2>1 DEF PointsSplit, Splits
        <2>5. PointsHold'
            BY <1>1, <1>8, <2>1 DEF PointsHold, Stands
        <2> QED BY <1>3, <2>3, <2>4, <2>5 DEF HeapHolds
    <1>13. CASE BeginTeardown
        <2>1. /\ check_point' = setup_point /\ since' = setup_since
              /\ given_back' = setup_given_back
              /\ setup_point' = NoPoint /\ setup_since' = setup_since
              /\ setup_given_back' = setup_given_back /\ setup_point # NoPoint
            BY <1>13 DEF BeginTeardown
        <2>3. HeapTyped'
            BY <1>1, <1>5, <2>1 DEF HeapTyped, NoPoint
        <2>4. PointsSplit'
            BY <1>1, <1>9, <2>1 DEF PointsSplit, Splits
        <2>5. PointsHold'
            BY <1>1, <1>9, <2>1 DEF PointsHold, Stands
        <2> QED BY <1>3, <2>3, <2>4, <2>5 DEF HeapHolds
    <1> QED BY <1>11, <1>12, <1>13

LEMMA OwnStep ==
    ASSUME HeapInv, Malloc \/ \E count \in ResultCounts : HeapWillReturnRefused(count)
    PROVE  HeapHolds'
    <1>1. PICK b \in {Own, Lost} : Allocate(<<b>>)
        BY DEF Malloc, HeapWillReturnRefused
    <1>2. UNCHANGED maps /\ phase = "body" /\ past' = past
        BY DEF Malloc, HeapWillReturnRefused, WillReturnRefused, vars, runner
    <1>3. HeapHolds
        BY DEF HeapInv
    <1>4. <<b>> \in Seq({b}) /\ DOMAIN <<b>> = {1} /\ <<b>>[1] = b
        OBVIOUS
    <1>5. OfFunctions(b)
        BY BlockNames
    <1>6. \A c \in Reachable : ~ OfFunctions(c)
        BY <1>2, <1>3 DEF HeapHolds, HeapMatches
    <1>7. Reachable' = Reachable
        BY <1>2, ReachableStays
    <1>8. \A i \in DOMAIN <<b>> : <<b>>[i] = b
        BY <1>4
    <1> QED BY <1>1, <1>2, <1>3, <1>4, <1>5, <1>6, <1>7, <1>8, GrowStep

LEMMA FreeStep ==
    ASSUME HeapInv, NEW n \in DOMAIN heap, Free(n)
    PROVE  HeapHolds'
    <1>1. /\ phase = "body" /\ OfFunctions(heap[n])
          /\ heap' = Restrict(heap, DOMAIN heap \ {n})
          /\ given_back' = (given_back \/ n = check_point)
          /\ setup_given_back' = (setup_given_back \/ n = setup_point)
          /\ UNCHANGED <<clock, points, since, setup_since, maps, phase>>
        BY BlockNames DEF Free, vars
    <1>2. /\ DOMAIN heap' = DOMAIN heap \ {n}
          /\ \A m \in DOMAIN heap' : heap'[m] = heap[m]
        BY <1>1 DEF Restrict
    <1>3. HeapHolds
        BY DEF HeapInv
    <1>4. Reachable' = Reachable
        BY <1>1, ReachableStays
    <1>5. {b \in Range(heap) : ~ OfFunctions(b)} = Reachable
        BY <1>1, <1>3 DEF HeapHolds, HeapMatches
    <1>6. \A b : b \in Range(heap') /\ ~ OfFunctions(b) <=> b \in Range(heap) /\ ~ OfFunctions(b)
        BY <1>1, <1>2 DEF Range
    <1>7. \A b : b \in Range(heap') /\ ~ OfFunctions(b) <=> b \in Reachable'
        BY <1>4, <1>5, <1>6
    <1>8. /\ given_back' \in {given_back, TRUE}
          /\ setup_given_back' \in {setup_given_back, TRUE}
        BY <1>1, <1>3 DEF HeapHolds, HeapTyped
    <1>9. PointsHold'
        BY <1>1, <1>2, <1>3 DEF HeapHolds, PointsHold, Stands, points
    <1> QED BY <1>1, <1>2, <1>3, <1>7, <1>8, <1>9, ShrinkStep

(* A step that leaves the heap alone, and the maps, or ends the process.   *)
LEMMA StillStep ==
    ASSUME HeapInv, UNCHANGED <<blocks, points, past>>,
           phase' # "dead" => UNCHANGED maps /\ phase # "dead"
    PROVE  HeapHolds'
    <1>1. HeapHolds
        BY DEF HeapInv
    <1>2. phase' # "dead" => Reachable' = Reachable
        BY ReachableStays
    <1>3. heap' = heap /\ UNCHANGED <<clock, since, setup_since, given_back, setup_given_back>>
        BY DEF blocks, past
    <1>4. phase' # "dead" => {b \in Range(heap) : ~ OfFunctions(b)} = Reachable
        BY <1>1 DEF HeapHolds, HeapMatches
    <1>5. phase' # "dead" =>
              \A b : b \in Range(heap') /\ ~ OfFunctions(b) <=> b \in Reachable'
        BY <1>2, <1>3, <1>4
    <1>6. PointsHold'
        BY <1>1, <1>3 DEF HeapHolds, PointsHold, Stands, points
    <1> QED BY <1>1, <1>3, <1>5, <1>6, ShrinkStep

-----------------------------------------------------------------------------
(* The steps of the queues                                                 *)

LEMMA ReachableNext ==
    ASSUME IInv, [Next]_vars
    PROVE  /\ Reachable = BlocksFor(Named, Checked, QueuedAt)
           /\ Reachable' = BlocksFor(Named', Checked', QueuedAt')
    <1>1. TypeOK /\ TypeOK'
        BY TypeStep DEF IInv
    <1>2. (TypeOK => Reachable = BlocksFor(Named, Checked, QueuedAt))'
        BY ReachableIs, PTL
    <1> QED BY <1>1, <1>2, ReachableIs DEF BlocksFor

(* What the first declaration of any parameter of a function brings along. *)
NewAbove(k) == {FunctionSymbol(f) : f \in Above(k) \ Checked}

LEMMA DeclareGrows ==
    ASSUME HeapInv, NEW k \in Keys, NEW count, Declares(k, count), [Next]_vars
    PROVE  \A b : b \in Reachable' <=>
               \/ b \in Reachable
               \/ b = Element(location + 1)
               \/ b = Symbol(k) /\ k \notin Named
               \/ \E f \in Above(k) : f \notin Checked /\ b = FunctionSymbol(f)
    <1>1. /\ Named' = Named \cup {k}
          /\ Checked' = Checked \cup Above(k)
          /\ QueuedAt' = QueuedAt \cup {location + 1}
        BY DeclareBlocks DEF HeapInv, IInv
    <1>2. /\ Reachable = BlocksFor(Named, Checked, QueuedAt)
          /\ Reachable' = BlocksFor(Named', Checked', QueuedAt')
        BY ReachableNext DEF HeapInv
    <1>3. \A b : b \in BlocksFor(Named', Checked', QueuedAt') <=>
              \/ \E m \in Named \cup {k} : b = Symbol(m)
              \/ \E f \in Checked \cup Above(k) : b = FunctionSymbol(f)
              \/ \E l \in QueuedAt \cup {location + 1} : b = Element(l)
        BY <1>1 DEF BlocksFor
    <1>4. \A b : b \in BlocksFor(Named, Checked, QueuedAt) <=>
              \/ \E m \in Named : b = Symbol(m)
              \/ \E f \in Checked : b = FunctionSymbol(f)
              \/ \E l \in QueuedAt : b = Element(l)
        BY DEF BlocksFor
    <1> QED BY <1>2, <1>3, <1>4

(* The element is a new one, and so are the symbols not named before.      *)
LEMMA NewUnreached ==
    ASSUME HeapInv, phase = "body"
    PROVE  /\ Element(location + 1) \notin Reachable
           /\ \A k : k \notin Named => Symbol(k) \notin Reachable
           /\ \A f : f \notin Checked => FunctionSymbol(f) \notin Reachable
    <1>1. Reachable = BlocksFor(Named, Checked, QueuedAt)
        BY ReachableIs DEF HeapInv, IInv
    <1>2. location + 1 \notin QueuedAt
        BY QueuedApart DEF HeapInv
    <1> QED BY <1>1, <1>2, BlockNames DEF BlocksFor

LEMMA Joined ==
    ASSUME NEW a, NEW b, NEW c
    PROVE  /\ <<>> \o <<a>> = <<a>>
           /\ <<>> \o <<>> \o <<a>> = <<a>>
           /\ <<a>> \o <<b>> = <<a, b>>
           /\ <<>> \o <<a>> \o <<b>> = <<a, b>>
           /\ <<a>> \o <<b>> \o <<c>> = <<a, b, c>>
    <1> DEFINE S == {a, b, c}
    <1>1. /\ <<a>> \in Seq(S) /\ <<b>> \in Seq(S) /\ <<c>> \in Seq(S)
          /\ <<a, b>> \in Seq(S) /\ <<a, b, c>> \in Seq(S)
        OBVIOUS
    <1>2. /\ <<>> \o <<a>> = <<a>>
          /\ <<>> \o <<>> \o <<a>> = <<a>>
        OBVIOUS
    <1>3. <<a>> \o <<b>> = <<a, b>>
        <2> DEFINE s == <<a>> \o <<b>>
        <2>1. /\ s \in Seq(S) /\ Len(s) = 2
              /\ \A i \in 1..2 : s[i] = IF i <= 1 THEN <<a>>[i] ELSE <<b>>[i - 1]
            BY <1>1, ConcatProperties
        <2>2. s[1] = a /\ s[2] = b
            BY <2>1
        <2> HIDE DEF s, S
        <2>3. Len(<<a, b>>) = 2 /\ \A i \in 1..2 : s[i] = <<a, b>>[i]
            BY <2>2
        <2>4. s = <<a, b>>
            BY <1>1, <2>1, <2>3, SeqEqual
        <2> QED BY <2>4 DEF s
    <1>4. <<a, b>> \o <<c>> = <<a, b, c>>
        <2> DEFINE s == <<a, b>> \o <<c>>
        <2>1. /\ s \in Seq(S) /\ Len(s) = 3
              /\ \A i \in 1..3 : s[i] = IF i <= 2 THEN <<a, b>>[i] ELSE <<c>>[i - 2]
            BY <1>1, ConcatProperties
        <2>2. s[1] = a /\ s[2] = b /\ s[3] = c
            BY <2>1
        <2> HIDE DEF s, S
        <2>3. Len(<<a, b, c>>) = 3 /\ \A i \in 1..3 : s[i] = <<a, b, c>>[i]
            BY <2>2
        <2>4. s = <<a, b, c>>
            BY <1>1, <2>1, <2>3, SeqEqual
        <2> QED BY <2>4 DEF s
    <1> QED BY <1>2, <1>3, <1>4

LEMMA DeclareHeapStep ==
    ASSUME HeapInv, NEW k \in Keys, NEW count, Declares(k, count), [Next]_vars,
           past' = past,
           NEW S, NEW new \in Seq(S), Allocate(new),
           \A i, j \in DOMAIN new : new[i] = new[j] => i = j,
           \A b : (\E i \in DOMAIN new : b = new[i]) <=>
              \/ b = Element(location + 1)
              \/ b = Symbol(k) /\ k \notin Named
              \/ b \in NewAbove(k)
    PROVE  HeapHolds'
    <1>1. phase = "body"
        BY DEF Declares, Declare
    <1>2. HeapHolds
        BY DEF HeapInv
    <1>3. \A b : b \in NewAbove(k) <=> \E f \in Above(k) : f \notin Checked /\ b = FunctionSymbol(f)
        BY DEF NewAbove
    <1>4. /\ Element(location + 1) \notin Reachable
          /\ k \notin Named => Symbol(k) \notin Reachable
          /\ \A b \in NewAbove(k) : b \notin Reachable
        BY <1>1, <1>3, NewUnreached
    <1>5. /\ ~ OfFunctions(Element(location + 1))
          /\ ~ OfFunctions(Symbol(k))
          /\ \A b \in NewAbove(k) : ~ OfFunctions(b)
        BY <1>3, BlockNames
    <1>6. \A i \in DOMAIN new : ~ OfFunctions(new[i]) /\ new[i] \notin Reachable
        BY <1>4, <1>5
    <1>7. \A b : b \in Reachable' <=>
              \/ b \in Reachable
              \/ b = Element(location + 1)
              \/ b = Symbol(k) /\ k \notin Named
              \/ b \in NewAbove(k)
        BY <1>3, DeclareGrows
    <1>8. \A b : b \in Reachable' <=>
              b \in Reachable \/ \E i \in DOMAIN new : b = new[i] /\ ~ OfFunctions(b)
        BY <1>5, <1>7
    <1> QED BY <1>1, <1>2, <1>6, <1>8, GrowStep

LEMMA WillReturnHeapStep ==
    ASSUME HeapInv, NEW f \in Functions, NEW count \in ResultCounts,
           HeapWillReturn(f, count)
    PROVE  HeapHolds'
    <1>1. TypeOK /\ WillReturn(f, count) /\ [Next]_vars /\ f \in Keys /\ past' = past
        BY KeyParts DEF HeapInv, IInv, HeapWillReturn, Next, runner
    <1>2. Declares(f, count)
        BY <1>1, WillReturnStep
    <1>3. NewAbove(f) = {}
        BY KeyParts DEF NewAbove, Above
    <1>4. f \in DOMAIN result_map <=> f \in Named
        BY <1>1, MapsNamed
    <1>5. CASE f \in Named
        <2> DEFINE new == <<Element(location + 1)>>
        <2>0. NewSymbol(f \notin DOMAIN result_map, Symbol(f)) \o <<Element(location + 1)>> = new
            BY <1>4, <1>5, Joined DEF NewSymbol
        <2>1. Allocate(new)
            BY <2>0 DEF HeapWillReturn
        <2>2. /\ new \in Seq({Element(location + 1)}) /\ DOMAIN new = {1}
              /\ new[1] = Element(location + 1)
            OBVIOUS
        <2> HIDE DEF new
        <2> QED BY <1>1, <1>2, <1>3, <1>5, <2>1, <2>2, DeclareHeapStep
    <1>6. CASE f \notin Named
        <2> DEFINE new == <<Symbol(f), Element(location + 1)>>
        <2>0. NewSymbol(f \notin DOMAIN result_map, Symbol(f)) \o <<Element(location + 1)>> = new
            BY <1>4, <1>6, Joined DEF NewSymbol
        <2>1. Allocate(new)
            BY <2>0 DEF HeapWillReturn
        <2>2. /\ new \in Seq({Symbol(f), Element(location + 1)}) /\ DOMAIN new = {1, 2}
              /\ new[1] = Symbol(f) /\ new[2] = Element(location + 1)
            OBVIOUS
        <2> HIDE DEF new
        <2> QED BY <1>1, <1>2, <1>3, <1>6, <2>1, <2>2, DeclareHeapStep, BlockNames
    <1> QED BY <1>5, <1>6

LEMMA ExpectHeapStep ==
    ASSUME HeapInv, NEW f \in Functions, NEW p \in Parameters, NEW accepts \in Acceptable,
           NEW count \in ExpectCounts, HeapExpect(f, p, accepts, count)
    PROVE  HeapHolds'
    <1> DEFINE k == <<f, p>>
               e == Element(location + 1)
               symbols == NewSymbol(f \notin DOMAIN parameter_map, FunctionSymbol(f))
                          \o NewSymbol(p \notin DOMAIN At(parameter_map, f, EmptyMap), Symbol(k))
    <1>1. /\ TypeOK /\ Expect(f, p, accepts, count) /\ [Next]_vars /\ k \in Keys
          /\ past' = past
        BY KeyParts DEF HeapInv, IInv, HeapExpect, Next, runner
    <1>2. Declares(k, count)
        BY <1>1, ExpectStep
    <1>3. NewAbove(k) = IF f \in Checked THEN {} ELSE {FunctionSymbol(f)}
        BY DEF NewAbove, Above
    <1>4. f \in DOMAIN parameter_map <=> f \in Checked
        BY <1>1, MapsNamed
    <1>5. p \in DOMAIN At(parameter_map, f, EmptyMap) <=> k \in Named
        BY <1>1, QueueFound DEF Named
    <1>6. k \in Named => f \in Checked
        BY DEF Checked
    <1>7. CASE k \in Named
        <2> DEFINE new == <<e>>
        <2>0. symbols \o <<e>> = new
            BY <1>4, <1>5, <1>6, <1>7, Joined DEF NewSymbol
        <2>1. Allocate(new)
            BY <2>0 DEF HeapExpect
        <2>2. /\ new \in Seq({e}) /\ DOMAIN new = {1} /\ new[1] = e
            OBVIOUS
        <2> HIDE DEF new, k
        <2> QED BY <1>1, <1>2, <1>3, <1>6, <1>7, <2>1, <2>2, DeclareHeapStep
    <1>8. CASE k \notin Named /\ f \in Checked
        <2> DEFINE new == <<Symbol(k), e>>
        <2>0. symbols \o <<e>> = new
            BY <1>4, <1>5, <1>8, Joined DEF NewSymbol
        <2>1. Allocate(new)
            BY <2>0 DEF HeapExpect
        <2>2. /\ new \in Seq({Symbol(k), e}) /\ DOMAIN new = {1, 2}
              /\ new[1] = Symbol(k) /\ new[2] = e
            OBVIOUS
        <2>3. Symbol(k) # e
            BY BlockNames
        <2> HIDE DEF new, k
        <2>4. \A i, j \in DOMAIN new : new[i] = new[j] => i = j
            BY <2>2, <2>3
        <2> QED BY <1>1, <1>2, <1>3, <1>8, <2>1, <2>2, <2>4, DeclareHeapStep
    <1>9. CASE k \notin Named /\ f \notin Checked
        <2> DEFINE new == <<FunctionSymbol(f), Symbol(k), e>>
        <2>0. symbols \o <<e>> = new
            BY <1>4, <1>5, <1>9, Joined DEF NewSymbol
        <2>1. Allocate(new)
            BY <2>0 DEF HeapExpect
        <2>2. /\ new \in Seq({FunctionSymbol(f), Symbol(k), e}) /\ DOMAIN new = {1, 2, 3}
              /\ new[1] = FunctionSymbol(f) /\ new[2] = Symbol(k) /\ new[3] = e
            OBVIOUS
        <2>3. /\ Symbol(k) # e /\ Symbol(k) # FunctionSymbol(f)
              /\ FunctionSymbol(f) # e
            BY BlockNames
        <2> HIDE DEF new, k
        <2>4. \A i, j \in DOMAIN new : new[i] = new[j] => i = j
            BY <2>2, <2>3
        <2> QED BY <1>1, <1>2, <1>3, <1>9, <2>1, <2>2, <2>4, DeclareHeapStep
    <1> QED BY <1>6, <1>7, <1>8, <1>9

(* The functions above a symbol that have no other.                        *)
Alone(k) == {f \in Above(k) : \A p \in Parameters : <<f, p>> \in Named => <<f, p>> = k}

LEMMA UseHeapStep ==
    ASSUME HeapInv, NEW k \in Keys, [Next]_vars, past' = past,
           phase = "body", QueueOf(k) # <<>>, phase' # "dead" => Released(k),
           NEW removed, FreeAll(removed),
           \A b : b \in removed <=>
              /\ QueueOf(k)[1].refcount = 1
              /\ \/ b = Element(QueueOf(k)[1].location)
                 \/ /\ Len(QueueOf(k)) = 1
                    /\ b = Symbol(k) \/ \E f \in Alone(k) : b = FunctionSymbol(f)
    PROVE  HeapHolds'
    <1> DEFINE Q == QueueOf(k)
               l == Q[1].location
    <1>1. HeapHolds /\ IInv /\ TypeOK
        BY DEF HeapInv, IInv
    <1>2. /\ Reachable = BlocksFor(Named, Checked, QueuedAt)
          /\ Reachable' = BlocksFor(Named', Checked', QueuedAt')
        BY ReachableNext DEF HeapInv
    <1>3. \A b \in removed : ~ OfFunctions(b)
        BY BlockNames
    <1> HIDE DEF Q, l
    <1>5. CASE Released(k) /\ Q[1].refcount # 1
        <2>1. Named' = Named /\ Checked' = Checked /\ QueuedAt' = QueuedAt
            BY <1>1, <1>5, ReleaseKeeps DEF Q
        <2>2. \A b : b \notin removed
            BY <1>5 DEF Q
        <2>3. \A b : b \in Reachable' <=> b \in Reachable /\ b \notin removed
            BY <1>2, <2>1, <2>2
        <2> QED BY <1>1, <1>3, <2>3, FreeAllStep
    <1>6. CASE Released(k) /\ Q[1].refcount = 1 /\ Len(Q) # 1
        <2>1. Named' = Named /\ Checked' = Checked /\ QueuedAt' = QueuedAt \ {l}
            BY <1>1, <1>6, ReleaseTakes DEF Q, l
        <2>2. \A b : b \in removed <=> b = Element(l)
            BY <1>6 DEF Q, l
        <2>3. \A b : b \in Reachable' <=> b \in Reachable /\ b \notin removed
            BY <1>2, <2>1, <2>2, BlockNames DEF BlocksFor
        <2> QED BY <1>1, <1>3, <2>3, FreeAllStep
    <1>7. CASE Released(k) /\ Q[1].refcount = 1 /\ Len(Q) = 1
        <2>1. /\ Named' = Named \ {k} /\ Checked' = Checked \ Alone(k)
              /\ QueuedAt' = QueuedAt \ {l}
            BY <1>1, <1>7, ReleaseTakes DEF Q, l, Alone
        <2>2. \A b : b \in removed <=>
                  \/ b = Element(l) \/ b = Symbol(k)
                  \/ \E f \in Alone(k) : b = FunctionSymbol(f)
            BY <1>7 DEF Q, l
        <2>3. \A b : b \in Reachable' <=> b \in Reachable /\ b \notin removed
            BY <1>2, <2>1, <2>2, BlockNames DEF BlocksFor
        <2> QED BY <1>1, <1>3, <2>3, FreeAllStep
    <1>8. CASE phase' = "dead"
        BY <1>1, <1>3, <1>8, FreeAllStep
    <1> QED BY <1>5, <1>6, <1>7, <1>8

LEMMA UsedAlive ==
    ASSUME NEW k \in Keys, Uses(k) \/ Misses(k), phase' # "dead"
    PROVE  Released(k)
    BY DEF Uses, Misses, Released

LEMMA MockHeapStep ==
    ASSUME HeapInv, NEW f \in Functions, HeapMock(f)
    PROVE  HeapHolds'
    <1> DEFINE removed == Taken(result_map[f]) \cup Emptied(result_map[f], {Symbol(f)})
    <1>1. /\ TypeOK /\ Mock(f) /\ [Next]_vars /\ f \in Keys /\ past' = past
          /\ FreeAll(removed)
        BY KeyParts DEF HeapInv, IInv, HeapMock, Next, runner
    <1>2. phase = "body" /\ f \in DOMAIN result_map
        BY <1>1 DEF Mock, UseOne
    <1>3. QueueOf(f) = result_map[f] /\ QueueOf(f) # <<>>
        BY <1>1, <1>2, QueueFound
    <1>4. phase' # "dead" => Released(f)
        BY <1>1, MockStep, UsedAlive
    <1>5. Alone(f) = {}
        BY KeyParts DEF Alone, Above
    <1>6. \A b : b \in removed <=>
              /\ QueueOf(f)[1].refcount = 1
              /\ \/ b = Element(QueueOf(f)[1].location)
                 \/ /\ Len(QueueOf(f)) = 1
                    /\ b = Symbol(f) \/ \E g \in Alone(f) : b = FunctionSymbol(g)
        BY <1>3, <1>5 DEF Taken, Emptied, LastUse
    <1> HIDE DEF removed
    <1> QED BY <1>1, <1>2, <1>3, <1>4, <1>6, UseHeapStep

LEMMA CheckHeapStep ==
    ASSUME HeapInv, NEW f \in Functions, NEW p \in Parameters, NEW value \in Values,
           HeapCheckExpected(f, p, value)
    PROVE  HeapHolds'
    <1> DEFINE k == <<f, p>>
               queue == parameter_map[f][p]
               above == IF DOMAIN parameter_map[f] = {p} THEN {FunctionSymbol(f)} ELSE {}
               removed == Taken(queue) \cup Emptied(queue, {Symbol(k)})
                          \cup Emptied(queue, above)
    <1>1. /\ TypeOK /\ CheckExpected(f, p, value) /\ [Next]_vars /\ k \in Keys
          /\ past' = past
        BY KeyParts DEF HeapInv, IInv, HeapCheckExpected, Next, runner
    <1>2. FreeAll(removed)
        BY DEF HeapCheckExpected
    <1>3. phase = "body" /\ p \in DOMAIN At(parameter_map, f, EmptyMap)
        BY <1>1 DEF CheckExpected, UseOne
    <1>4. QueueOf(k) = queue /\ QueueOf(k) # <<>>
        BY <1>1, <1>3, QueueFound
    <1>5. phase' # "dead" => Released(k)
        BY <1>1, CheckStep, UsedAlive
    <1>6. f \in Checked /\ DOMAIN parameter_map[f] = {q \in Parameters : <<f, q>> \in Named}
        <2>1. k \in Named
            BY <1>1, <1>4 DEF Named
        <2>2. f \in Checked
            BY <2>1 DEF Checked
        <2> QED BY <1>1, <2>2, MapsNamed
    <1>7. \A b : b \in above <=> \E g \in Alone(k) : b = FunctionSymbol(g)
        <2>1. k \in Named
            BY <1>1, <1>4 DEF Named
        <2>2. DOMAIN parameter_map[f] = {p} <=>
                  \A q \in Parameters : <<f, q>> \in Named => q = p
            BY <1>6, <2>1
        <2>3. \A g : g \in Alone(k) <=>
                  g = f /\ \A q \in Parameters : <<f, q>> \in Named => q = p
            BY DEF Alone, Above
        <2> QED BY <2>2, <2>3
    <1> HIDE DEF k, queue, above
    <1>8. \A b : b \in removed <=>
              /\ queue[1].refcount = 1
              /\ \/ b = Element(queue[1].location)
                 \/ Len(queue) = 1 /\ (b = Symbol(k) \/ b \in above)
        BY DEF Taken, Emptied, LastUse
    <1> HIDE DEF removed
    <1>9. \A b : b \in removed <=>
              /\ QueueOf(k)[1].refcount = 1
              /\ \/ b = Element(QueueOf(k)[1].location)
                 \/ /\ Len(QueueOf(k)) = 1
                    /\ b = Symbol(k) \/ \E g \in Alone(k) : b = FunctionSymbol(g)
        BY <1>4, <1>7, <1>8
    <1> QED BY <1>1, <1>2, <1>3, <1>4, <1>5, <1>9, UseHeapStep

(* Between two functions and at their ends nothing stays behind.           *)
LEMMA EmptyAfter ==
    result_map' = EmptyMap /\ parameter_map' = EmptyMap => Reachable' = {}
    BY DEF Reachable, InResultMap, EmptyMap

LEMMA DroppedParts ==
    \A b : b \in Dropped <=>
        \/ b \in DroppedFrom(result_map)
        \/ \E f \in DOMAIN parameter_map : b \in DroppedFrom(parameter_map[f])
        \/ \E f \in DOMAIN result_map \ DOMAIN DropAlways(result_map) : b = Symbol(f)
        \/ \E f \in DOMAIN parameter_map \ DOMAIN DropAlwaysNested(parameter_map) :
              b = FunctionSymbol(f)
        \/ \E f \in DOMAIN parameter_map :
              \E p \in DOMAIN parameter_map[f] \ DOMAIN DropAlways(parameter_map[f]) :
                  b = Symbol(<<f, p>>)
    <1> DEFINE A == DroppedFrom(result_map)
               B == UNION {DroppedFrom(parameter_map[f]) : f \in DOMAIN parameter_map}
               C == {Symbol(f) : f \in DOMAIN result_map \ DOMAIN DropAlways(result_map)}
               D == {FunctionSymbol(f) :
                        f \in DOMAIN parameter_map \ DOMAIN DropAlwaysNested(parameter_map)}
               E == UNION {{Symbol(<<f, p>>) :
                        p \in DOMAIN parameter_map[f] \ DOMAIN DropAlways(parameter_map[f])} :
                        f \in DOMAIN parameter_map}
    <1>1. Dropped = A \cup B \cup C \cup D \cup E
        BY DEF Dropped
    <1>2. \A b : b \in B <=> \E f \in DOMAIN parameter_map : b \in DroppedFrom(parameter_map[f])
        OBVIOUS
    <1>3. \A b : b \in E <=>
              \E f \in DOMAIN parameter_map :
                  \E p \in DOMAIN parameter_map[f] \ DOMAIN DropAlways(parameter_map[f]) :
                      b = Symbol(<<f, p>>)
        OBVIOUS
    <1>5. \A b : b \in C <=>
              \E f \in DOMAIN result_map \ DOMAIN DropAlways(result_map) : b = Symbol(f)
        OBVIOUS
    <1>6. \A b : b \in D <=>
              \E f \in DOMAIN parameter_map \ DOMAIN DropAlwaysNested(parameter_map) :
                  b = FunctionSymbol(f)
        OBVIOUS
    <1> HIDE DEF A, B, C, D, E
    <1>7. \A b : b \in Dropped <=> b \in A \/ b \in B \/ b \in C \/ b \in D \/ b \in E
        BY <1>1
    <1> QED BY <1>2, <1>3, <1>5, <1>6, <1>7 DEF A

(* A function that passes has left nothing but what is used for ever.      *)
LEMMA DroppedEmpty ==
    ASSUME TypeOK, FailIfLeftoverValues, phase' # "dead"
    PROVE  Reachable \subseteq Dropped
    <1>1. /\ result_map' = EmptyMap /\ parameter_map' = EmptyMap
          /\ DropAlways(result_map) = EmptyMap /\ DropAlwaysNested(parameter_map) = EmptyMap
        BY DEF FailIfLeftoverValues, Abort
    <1>2. DOMAIN EmptyMap = {}
        BY DEF EmptyMap
    <1>3. \A k \in Keys : WithoutAlways(QueueOf(k)) = <<>>
        <2>1. \A s : At(DropAlways(result_map), s, <<>>) = WithoutAlways(At(result_map, s, <<>>))
            BY DropAlwaysMap DEF TypeOK
        <2>2. \A f, p : QueueAt(DropAlwaysNested(parameter_map), f, p)
                            = WithoutAlways(QueueAt(parameter_map, f, p))
            BY DropAlwaysNestedMap DEF TypeOK
        <2>3. \A s : At(EmptyMap, s, <<>>) = <<>>
            BY <1>2 DEF At
        <2>4. \A f, p : QueueAt(EmptyMap, f, p) = <<>>
            BY <1>2 DEF At, QueueAt, Inner
        <2> QED BY <1>1, <2>1, <2>2, <2>3, <2>4 DEF QueueOf
    <1>4. \A k \in Named : DOMAIN QueueOf(k) = {1} /\ QueueOf(k)[1].refcount < -1
        <2> SUFFICES ASSUME NEW k \in Named
                     PROVE  DOMAIN QueueOf(k) = {1} /\ QueueOf(k)[1].refcount < -1
            OBVIOUS
        <2> DEFINE Q == QueueOf(k)
        <2>1. Q \in Seq(AnyNode) /\ Q # <<>> /\ WithoutAlways(Q) = <<>>
            BY <1>3, QueuesTyped DEF Named
        <2>2. Q[1].refcount < -1 /\ Tail(Q) = <<>>
            BY <2>1 DEF WithoutAlways
        <2>3. Len(Q) \in Nat /\ DOMAIN Q = 1..Len(Q) /\ Len(Tail(Q)) = Len(Q) - 1
            BY <2>1, LenProperties, HeadTailProperties
        <2>4. Len(Q) = 1
            BY <2>2, <2>3
        <2> QED BY <2>2, <2>3, <2>4
    <1>5. /\ DOMAIN result_map = Named \cap Functions
          /\ DOMAIN parameter_map = Checked
          /\ \A f \in Checked : DOMAIN parameter_map[f] = {p \in Parameters : <<f, p>> \in Named}
          /\ \A f \in DOMAIN result_map : f \in Keys /\ QueueOf(f) = result_map[f]
          /\ \A f \in Checked : \A p \in DOMAIN parameter_map[f] :
                <<f, p>> \in Keys /\ QueueOf(<<f, p>>) = parameter_map[f][p]
        BY MapsNamed
    <1>6. \A f \in Named \cap Functions :
              Symbol(f) \in Dropped /\ Element(QueueOf(f)[1].location) \in Dropped
        <2> SUFFICES ASSUME NEW f \in Named \cap Functions
                     PROVE  Symbol(f) \in Dropped /\ Element(QueueOf(f)[1].location) \in Dropped
            OBVIOUS
        <2>1. f \in DOMAIN result_map \ DOMAIN DropAlways(result_map)
            BY <1>1, <1>2, <1>5
        <2>2. Element(result_map[f][1].location) \in DroppedFrom(result_map)
            BY <1>4, <1>5, <2>1 DEF DroppedFrom
        <2> QED BY <1>5, <2>1, <2>2, DroppedParts
    <1>7. \A f \in Checked : FunctionSymbol(f) \in Dropped
        BY <1>1, <1>2, <1>5, DroppedParts
    <1>8. \A f \in Functions, p \in Parameters : <<f, p>> \in Named =>
              /\ Symbol(<<f, p>>) \in Dropped
              /\ Element(QueueOf(<<f, p>>)[1].location) \in Dropped
        <2> SUFFICES ASSUME NEW f \in Functions, NEW p \in Parameters, <<f, p>> \in Named
                     PROVE  /\ Symbol(<<f, p>>) \in Dropped
                            /\ Element(QueueOf(<<f, p>>)[1].location) \in Dropped
            OBVIOUS
        <2>1. f \in DOMAIN parameter_map /\ p \in DOMAIN parameter_map[f]
            BY <1>5 DEF Checked
        <2>2. IsQueueMap(parameter_map[f], Parameters, CheckNode)
            BY <2>1 DEF TypeOK, IsNestedMap
        <2>3. QueueOf(<<f, p>>) = parameter_map[f][p]
            BY <1>5, <2>1
        <2>4. p \notin DOMAIN DropAlways(parameter_map[f])
            <3>1. /\ IsQueueMap(DropAlways(parameter_map[f]), Parameters, CheckNode)
                  /\ At(DropAlways(parameter_map[f]), p, <<>>)
                        = WithoutAlways(At(parameter_map[f], p, <<>>))
                BY <2>2, DropAlwaysMap
            <3>2. WithoutAlways(At(parameter_map[f], p, <<>>)) = <<>>
                BY <1>3, <2>1, <2>3 DEF At, Named
            <3> QED BY <3>1, <3>2 DEF IsQueueMap, IsMap, At
        <2>5. Element(parameter_map[f][p][1].location) \in DroppedFrom(parameter_map[f])
            BY <1>4, <2>1, <2>3 DEF DroppedFrom
        <2> QED BY <2>1, <2>3, <2>4, <2>5, DroppedParts
    <1>9. \A k \in Named : Symbol(k) \in Dropped /\ Element(QueueOf(k)[1].location) \in Dropped
        BY <1>6, <1>8, KeyParts DEF Named
    <1>10. \A l \in QueuedAt : \E k \in Named : l = QueueOf(k)[1].location
        BY <1>4 DEF QueuedAt, Named
    <1>11. Reachable = BlocksFor(Named, Checked, QueuedAt)
        BY ReachableIs
    <1> QED BY <1>7, <1>9, <1>10, <1>11 DEF BlocksFor

LEMMA DroppedOfQueues == \A b \in Dropped : ~ OfFunctions(b)
    <1>1. \A map : \A b \in DroppedFrom(map) : ~ OfFunctions(b)
        BY BlockNames DEF DroppedFrom
    <1>2. \A x : ~ OfFunctions(Symbol(x)) /\ ~ OfFunctions(FunctionSymbol(x))
        BY BlockNames
    <1> SUFFICES ASSUME NEW b \in Dropped PROVE ~ OfFunctions(b)
        OBVIOUS
    <1>3. \/ \E map : b \in DroppedFrom(map)
          \/ \E x : b = Symbol(x) \/ b = FunctionSymbol(x)
        BY DroppedParts, Zenon
    <1> QED BY <1>1, <1>2, <1>3

LEMMA LeftoverHeapStep ==
    ASSUME HeapInv, HeapFailIfLeftoverValues
    PROVE  HeapHolds'
    <1>1. /\ TypeOK /\ FailIfLeftoverValues /\ FreeAll(Dropped) /\ past' = past
          /\ HeapHolds
        BY DEF HeapInv, IInv, HeapFailIfLeftoverValues, runner
    <1>2. phase = "body"
        BY <1>1 DEF FailIfLeftoverValues
    <1>3. phase' # "dead" => \A b : b \in Reachable' <=> b \in Reachable /\ b \notin Dropped
        <2> SUFFICES ASSUME phase' # "dead"
                     PROVE  \A b : b \in Reachable' <=> b \in Reachable /\ b \notin Dropped
            OBVIOUS
        <2>1. Reachable \subseteq Dropped
            BY <1>1, DroppedEmpty
        <2>2. Reachable' = {}
            BY <1>1, EmptyAfter DEF FailIfLeftoverValues, Abort
        <2> QED BY <2>1, <2>2
    <1> QED BY <1>1, <1>2, <1>3, DroppedOfQueues, FreeAllStep

LEMMA TeardownHeapStep ==
    ASSUME HeapInv, HeapTeardownTesting
    PROVE  HeapHolds'
    <1>1. /\ TypeOK /\ TeardownTesting /\ FreeAll(InResultMap) /\ past' = past
          /\ HeapHolds
        BY DEF HeapInv, IInv, HeapTeardownTesting, TornDown, runner
    <1>2. phase = "teardown"
        BY <1>1 DEF TeardownTesting
    <1>3. phase' # "dead" => \A b : b \in Reachable' <=> b \in Reachable /\ b \notin InResultMap
        <2> SUFFICES ASSUME phase' # "dead"
                     PROVE  \A b : b \in Reachable' <=> b \in Reachable /\ b \notin InResultMap
            OBVIOUS
        <2>1. /\ result_map' = EmptyMap /\ parameter_map' = EmptyMap
              /\ parameter_map = EmptyMap
            BY <1>1 DEF TeardownTesting
        <2>2. Reachable' = {}
            BY <2>1, EmptyAfter
        <2>3. Reachable \subseteq InResultMap
            BY <2>1 DEF Reachable, EmptyMap
        <2> QED BY <2>2, <2>3
    <1>4. \A b \in InResultMap : ~ OfFunctions(b)
        BY BlockNames DEF InResultMap, InQueue
    <1> QED BY <1>1, <1>2, <1>3, <1>4, FreeAllStep

(* What the leak check blames a function for: what has been allocated      *)
(* since its check point was taken, less what a recycled one hides.        *)
Blamed ==
    LET newer == {n \in DOMAIN heap : n > since}
        missed == IF given_back THEN {n \in newer : n <= check_point} ELSE {}
    IN  newer \ missed

LEMMA AfterIsBlamed ==
    ASSUME HeapInv, phase = "teardown", verdict = "passed"
    PROVE  /\ After = Blamed
           /\ \A n \in DOMAIN heap : OfFunctions(heap[n])
    <1>1. Reachable = {}
        BY NothingReachable DEF HeapInv, MapsEmpty
    <1>2. \A n \in DOMAIN heap : OfFunctions(heap[n])
        BY <1>1 DEF HeapInv, HeapHolds, HeapMatches, Range
    <1>3. \A n \in DOMAIN heap : n <= since => n <= check_point
        BY DEF HeapInv, HeapHolds, PointsSplit, Splits
    <1>4. ~ given_back => check_point <= since
        BY DEF HeapInv, HeapHolds, PointsSplit, Splits
    <1>5. clock \in Nat /\ DOMAIN heap \subseteq 1..clock /\ check_point \in 0..clock
          /\ since \in 0..clock /\ given_back \in BOOLEAN
        BY DEF HeapInv, HeapHolds, HeapTyped
    <1>6. \A n \in DOMAIN heap :
              n > check_point <=> n > since /\ ~ (given_back /\ n <= check_point)
        BY <1>3, <1>4, <1>5
    <1> QED BY <1>2, <1>6 DEF After, Blamed

LEMMA LeakHeapStep ==
    ASSUME HeapInv, FailIfBlocksAllocated
    PROVE  HeapHolds'
    <1>1. /\ phase = "teardown" /\ verdict = "passed"
          /\ UNCHANGED <<maps, points, clock, phase, past>>
          /\ heap' = Restrict(heap, DOMAIN heap \ After)
        BY DEF FailIfBlocksAllocated, ChecksBlocks, vars
    <1>2. /\ DOMAIN heap' = DOMAIN heap \ After
          /\ \A n \in DOMAIN heap' : heap'[n] = heap[n]
        BY <1>1 DEF Restrict
    <1>3. HeapHolds
        BY DEF HeapInv
    <1>4. Reachable = {} /\ Reachable' = {}
        BY <1>1, NothingReachable, ReachableStays DEF HeapInv, MapsEmpty
    <1>5. \A n \in DOMAIN heap : OfFunctions(heap[n])
        BY <1>1, AfterIsBlamed
    <1>6. \A b : b \in Range(heap') /\ ~ OfFunctions(b) <=> b \in Reachable'
        BY <1>2, <1>4, <1>5 DEF Range
    <1>7. /\ check_point \in Int /\ setup_point \in Int
          /\ since \in Int /\ setup_since \in Int
        BY <1>3 DEF HeapHolds, HeapTyped, NoPoint
    <1>8. check_point \notin After
        BY <1>7 DEF After
    <1>9. ASSUME setup_point \in DOMAIN heap, setup_point # NoPoint, ~ setup_given_back
          PROVE  setup_point \notin After
        <2>1. setup_point <= setup_since /\ setup_since <= since
            BY <1>3, <1>9 DEF HeapHolds, PointsSplit, Splits
        <2>2. setup_point <= check_point
            BY <1>3, <1>7, <1>9, <2>1 DEF HeapHolds, PointsSplit, Splits
        <2> QED BY <1>7, <2>2 DEF After
    <1>10. PointsHold'
        BY <1>1, <1>2, <1>3, <1>8, <1>9 DEF HeapHolds, PointsHold, Stands, points, past
    <1> QED BY <1>1, <1>2, <1>3, <1>6, <1>10, ShrinkStep DEF past

LEMMA HeapInitInv == HeapInit => HeapInv
    <1> SUFFICES ASSUME HeapInit PROVE HeapInv
        OBVIOUS
    <1>1. IInv
        BY InitInv DEF HeapInit
    <1>2. result_map = EmptyMap /\ parameter_map = EmptyMap
        BY DEF HeapInit, Init
    <1>3. heap = EmptyMap /\ DOMAIN heap = {}
        BY DEF HeapInit, EmptyMap
    <1>6. /\ clock = 0 /\ check_point = 0 /\ since = 0 /\ setup_since = 0
          /\ setup_point = NoPoint
        BY DEF HeapInit, Head0
    <1>7. given_back = FALSE /\ setup_given_back = FALSE
        BY DEF HeapInit
    <1>8. given_back \in BOOLEAN /\ setup_given_back \in BOOLEAN
        BY <1>7, Zenon
    <1>9. HeapTyped
        BY <1>3, <1>6, <1>8 DEF HeapTyped
    <1>10. PointsSplit
        BY <1>3, <1>6 DEF PointsSplit, Splits
    <1>4. PointsHold
        BY <1>6 DEF PointsHold, Stands, Head0
    <1>5. HeapMatches
        BY <1>2, <1>3, NothingReachable DEF HeapMatches, Range
    <1> QED BY <1>1, <1>2, <1>4, <1>5, <1>9, <1>10 DEF HeapInv, HeapHolds, MapsEmpty

LEMMA HeapInvStep == HeapInv /\ [HeapNext]_heap_vars => HeapInv'
    <1> SUFFICES ASSUME HeapInv, [HeapNext]_heap_vars PROVE HeapInv'
        OBVIOUS
    <1>1. [Next]_vars
        BY HeapIsQueue
    <1>2. IInv' /\ MapsEmpty'
        BY <1>1, InvStep, MapsStep DEF HeapInv
    <1> SUFFICES HeapHolds'
        BY <1>2 DEF HeapInv
    <1>3. CASE BeginUnitTest \/ BeginSetup \/ BeginTeardown
        BY <1>3, HeapBeginStep
    <1>4. CASE Malloc \/ \E count \in ResultCounts : HeapWillReturnRefused(count)
        BY <1>4, OwnStep
    <1>5. CASE \E n \in DOMAIN heap : Free(n)
        BY <1>5, FreeStep
    <1>6. ASSUME NEW f \in Functions, NEW count \in ResultCounts, HeapWillReturn(f, count)
          PROVE  HeapHolds'
        BY <1>6, WillReturnHeapStep
    <1>7. ASSUME NEW f \in Functions, HeapMock(f)
          PROVE  HeapHolds'
        BY <1>7, MockHeapStep
    <1>8. ASSUME NEW f \in Functions, NEW p \in Parameters, NEW accepts \in Acceptable,
                 NEW count \in ExpectCounts, HeapExpect(f, p, accepts, count)
          PROVE  HeapHolds'
        BY <1>8, ExpectHeapStep
    <1>9. ASSUME NEW f \in Functions, NEW p \in Parameters, NEW value \in Values,
                 HeapCheckExpected(f, p, value)
          PROVE  HeapHolds'
        BY <1>9, CheckHeapStep
    <1>10. CASE HeapUnset
        <2>1. UNCHANGED <<blocks, points, past>> /\ phase' = "dead"
            BY <1>10 DEF HeapUnset, MockUnset, CheckUnset, UseOne, NotFound, Abort, runner
        <2> QED BY <2>1, StillStep
    <1>11. CASE HeapBodyThrows
        <2>1. UNCHANGED <<blocks, points, past, maps>> /\ phase # "dead"
            BY <1>11 DEF HeapBodyThrows, BodyThrows, runner
        <2> QED BY <2>1, StillStep
    <1>12. CASE HeapFailIfLeftoverValues
        BY <1>12, LeftoverHeapStep
    <1>13. CASE FailIfBlocksAllocated
        BY <1>13, LeakHeapStep
    <1>14. CASE HeapTeardownTesting
        BY <1>14, TeardownHeapStep
    <1>15. CASE HeapEnded \/ UNCHANGED heap_vars
        <2>1. UNCHANGED <<blocks, points, past, maps, phase>>
            BY <1>15 DEF HeapEnded, heap_vars, vars, runner
        <2> QED BY <2>1, StillStep
    <1>16. CASE CheckPointFreed
        <2>1. UNCHANGED <<blocks, points, past, maps, phase>> /\ phase # "dead"
            BY <1>16 DEF CheckPointFreed, ChecksBlocks, vars, blocks
        <2> QED BY <2>1, StillStep
    <1> QED BY <1>3, <1>4, <1>5, <1>6, <1>7, <1>8, <1>9, <1>10, <1>11, <1>12, <1>13, <1>14,
               <1>15, <1>16
        DEF HeapNext

(* The maps and the list of blocks agree after every step, and a check     *)
(* point, until its block is given back, stands on a function's block that *)
(* was there when it was taken, behind all others that were.               *)
THEOREM HeapInvariance == HeapSpec => []HeapInv
    <1> QED BY HeapInitInv, HeapInvStep, PTL DEF HeapSpec

(* Whatever functions declare, use, allocate and free, and in whatever     *)
(* order: what the maps lead to is in the list of allocated blocks, each   *)
(* once, and no block of a queue is there that no map leads to.            *)
THEOREM HeapAlwaysMatches == HeapSpec => []HeapMatches
    <1>1. HeapInv => HeapMatches
        BY DEF HeapInv, HeapHolds
    <1> QED BY <1>1, HeapInvariance, PTL

(* A check point never stands on a block of the queues, and the block it   *)
(* stands on stays, over a setup, any number of tests and a teardown, until*)
(* a function frees it.                                                    *)
THEOREM PointsAlwaysHold == HeapSpec => []PointsHold
    <1>1. HeapInv => PointsHold
        BY DEF HeapInv, HeapHolds
    <1> QED BY <1>1, HeapInvariance, PTL

(* fail_if_blocks_allocated blames a function for the functions' blocks    *)
(* allocated since its check point was taken, less what a recycled check   *)
(* point hides, for nothing of the queues, and frees just these.           *)
THEOREM LeaksAreExact == HeapSpec => LeakExact
    <1> DEFINE Exact == leak = "unchecked" /\ leak' \in {"none", "found"} =>
                            /\ leak' = "found" <=> Blamed # {}
                            /\ \A n \in Blamed : OfFunctions(heap[n])
                            /\ heap' = Restrict(heap, DOMAIN heap \ Blamed)
    <1>1. HeapInv /\ [HeapNext]_heap_vars => Exact
        <2> SUFFICES ASSUME HeapInv, [HeapNext]_heap_vars,
                            leak = "unchecked", leak' \in {"none", "found"}
                     PROVE  /\ leak' = "found" <=> Blamed # {}
                            /\ \A n \in Blamed : OfFunctions(heap[n])
                            /\ heap' = Restrict(heap, DOMAIN heap \ Blamed)
            OBVIOUS
        <2>1. CASE FailIfBlocksAllocated
            <3>1. After = Blamed /\ \A n \in DOMAIN heap : OfFunctions(heap[n])
                BY <2>1, AfterIsBlamed DEF FailIfBlocksAllocated, ChecksBlocks
            <3>2. /\ leak' = IF After = {} THEN "none" ELSE "found"
                  /\ heap' = Restrict(heap, DOMAIN heap \ After)
                BY <2>1 DEF FailIfBlocksAllocated
            <3>3. Blamed \subseteq DOMAIN heap
                BY DEF Blamed
            <3> QED BY <3>1, <3>2, <3>3
        <2>2. CASE ~ FailIfBlocksAllocated
            <3>1. leak' = leak \/ leak' \in {"unchecked", "fault"}
                BY <2>2
                DEF HeapNext, heap_vars, runner, BeginUnitTest, BeginSetup, BeginTeardown,
                    Begins, Malloc, Free, HeapWillReturn, HeapMock, HeapExpect,
                    HeapCheckExpected, HeapWillReturnRefused, HeapUnset, HeapBodyThrows,
                    HeapFailIfLeftoverValues, CheckPointFreed, HeapTeardownTesting,
                    HeapEnded
            <3> QED BY <3>1
        <2> QED BY <2>1, <2>2
    <1>2. HeapInv /\ [HeapNext]_heap_vars => [Exact]_heap_vars
        BY <1>1
    <1> QED BY <1>2, HeapInvariance, PTL DEF HeapSpec, LeakExact, Blamed
=============================================================================
