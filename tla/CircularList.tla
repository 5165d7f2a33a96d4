---------------------------- MODULE CircularList ----------------------------
(***************************************************************************)
(* The doubly linked circular lists of src/cmockery.cpp at the level of    *)
(* their pointers: a head (global, or in a SymbolMapValue on the heap) and *)
(* the nodes linked to it.  Walks over a list are separate steps, because  *)
(* their bodies call back: free_value and free_symbol_map_value run in the *)
(* middle of them and take nodes out of other lists.                       *)
(***************************************************************************)
EXTENDS Integers, Sequences, FiniteSets

CONSTANTS
    Heads,          \* list heads
    Nodes,          \* addresses of list nodes
    NoLink,         \* NULL, and what freed memory holds
    MaxAdds         \* bound on additions

ASSUME CircularListAssumption ==
    /\ Heads \cap Nodes = {}
    /\ NoLink \notin Heads \cup Nodes
    /\ IsFiniteSet(Nodes)
    /\ MaxAdds \in Nat

Links == Heads \cup Nodes

VARIABLES
    next, prev,         \* the two pointers of each head and node
    allocated,          \* the nodes malloc'ed and not freed
    walk,               \* the walk in progress, if any
    \* history
    list_of,            \* the list each node was added to
    added, adds         \* when, counted in additions

history == <<list_of, added, adds>>
vars == <<next, prev, allocated, walk, history>>

NoWalk == [kind |-> "none", head |-> NoLink, current |-> NoLink, next |-> NoLink]

Live == {x \in Heads : next[x] # NoLink} \cup allocated

Init ==
    /\ next = [x \in Links |-> NoLink]
    /\ prev = [x \in Links |-> NoLink]
    /\ allocated = {}
    /\ walk = NoWalk
    /\ list_of = [n \in Nodes |-> NoLink]
    /\ added = [n \in Nodes |-> 0]
    /\ adds = 0

-----------------------------------------------------------------------------
(* The operations                                                          *)

Empty(h) == next[h] = h

(* Of a head that is not in use, or whose list is empty.                   *)
ListInitialize(h) ==
    /\ walk = NoWalk
    /\ h \in Live => Empty(h)
    /\ next' = [next EXCEPT ![h] = h]
    /\ prev' = [prev EXCEPT ![h] = h]
    /\ UNCHANGED <<allocated, walk, history>>

(* A SymbolMapValue is freed when its list is empty.                       *)
FreeHead(h) ==
    /\ h \in Live \ {walk.head}
    /\ Empty(h)
    /\ next' = [next EXCEPT ![h] = NoLink]
    /\ prev' = [prev EXCEPT ![h] = NoLink]
    /\ UNCHANGED <<allocated, walk, history>>

(* The pointers after list_add and list_remove.  Operators named Bad...    *)
(* are plausible mistakes; nothing uses them.                              *)
BadNextAfterAdd(h, n) == [next EXCEPT ![n] = next[h], ![h] = n]
NextAfterAdd(h, n) == [next EXCEPT ![n] = h, ![prev[h]] = n]
PrevAfterAdd(h, n) == [prev EXCEPT ![n] = prev[h], ![h] = n]

NextWithout(n) == [next EXCEPT ![prev[n]] = next[n]]
BadPrevWithout(n) == prev
PrevWithout(n) == [prev EXCEPT ![next[n]] = prev[n]]

(* list_add_value: a node fresh from the heap.                             *)
ListAdd(h, n) ==
    /\ walk = NoWalk
    /\ h \in Live
    /\ n \notin allocated
    /\ adds < MaxAdds
    /\ next' = NextAfterAdd(h, n)
    /\ prev' = PrevAfterAdd(h, n)
    /\ allocated' = allocated \cup {n}
    /\ list_of' = [list_of EXCEPT ![n] = h]
    /\ added' = [added EXCEPT ![n] = adds + 1]
    /\ adds' = adds + 1
    /\ UNCHANGED walk

(* list_remove, and the node is freed: list_remove_free, list_free, and    *)
(* _test_free, which fills the block around its node with a pattern.       *)
Left(n) == allocated \ {n}
RemoveFree(n) ==
    /\ next' = [NextWithout(n) EXCEPT ![n] = NoLink]
    /\ prev' = [PrevWithout(n) EXCEPT ![n] = NoLink]
    /\ allocated' = Left(n)
    /\ UNCHANGED history

Members(h) == {n \in allocated : list_of[n] = h}

(* A node of a list that is not being walked goes, in a callback or not.   *)
ListRemove(h, n) ==
    /\ h \in Live \ {walk.head}
    /\ n \in Members(h)
    /\ RemoveFree(n)
    /\ UNCHANGED walk

-----------------------------------------------------------------------------
(* remove_always_return_values, display_allocated_blocks and               *)
(* free_allocated_blocks walk from the head or from a check point.         *)

BeginWalk(h, start) ==
    /\ walk = NoWalk
    /\ h \in Live
    /\ start \in {h} \cup Members(h)
    /\ walk' = [kind |-> "top", head |-> h, current |-> next[start], next |-> NoLink]
    /\ UNCHANGED <<next, prev, allocated, history>>

(* `next` is read before anything happens to `current`.                    *)
ReadNext ==
    /\ walk.kind = "top"
    /\ walk.current # walk.head
    /\ walk' = [walk EXCEPT !.kind = "body", !.next = next[walk.current]]
    /\ UNCHANGED <<next, prev, allocated, history>>

BadAdvance == next'[walk.current]
Advance == walk.next

Keep ==
    /\ walk.kind = "body"
    /\ UNCHANGED <<next, prev, allocated, history>>
    /\ walk' = [walk EXCEPT !.kind = "top", !.current = Advance, !.next = NoLink]

RemoveCurrent ==
    /\ walk.kind = "body"
    /\ RemoveFree(walk.current)
    /\ walk' = [walk EXCEPT !.kind = "top", !.current = Advance, !.next = NoLink]

EndWalk ==
    /\ walk.kind = "top"
    /\ walk.current = walk.head
    /\ walk' = NoWalk
    /\ UNCHANGED <<next, prev, allocated, history>>

(* list_free takes the first node until there is none.                     *)
BeginFree(h) ==
    /\ walk = NoWalk
    /\ h \in Live
    /\ walk' = [NoWalk EXCEPT !.kind = "free", !.head = h]
    /\ UNCHANGED <<next, prev, allocated, history>>

FreeFirst ==
    /\ walk.kind = "free"
    /\ ~ Empty(walk.head)
    /\ RemoveFree(next[walk.head])
    /\ UNCHANGED walk

EndFree ==
    /\ walk.kind = "free"
    /\ Empty(walk.head)
    /\ walk' = NoWalk
    /\ UNCHANGED <<next, prev, allocated, history>>

Next ==
    \/ \E h \in Heads :
          \/ ListInitialize(h) \/ FreeHead(h) \/ BeginFree(h)
          \/ \E n \in Nodes : ListAdd(h, n) \/ ListRemove(h, n)
          \/ \E start \in Links : BeginWalk(h, start)
    \/ ReadNext \/ Keep \/ RemoveCurrent \/ EndWalk
    \/ FreeFirst \/ EndFree

Spec == Init /\ [][Next]_vars

-----------------------------------------------------------------------------
(* Properties                                                              *)

TypeOK ==
    /\ next \in [Links -> Links \cup {NoLink}]
    /\ prev \in [Links -> Links \cup {NoLink}]
    /\ allocated \subseteq Nodes
    /\ walk.kind \in {"none", "top", "body", "free"}
    /\ walk.head \in Heads \cup {NoLink}
    /\ walk.kind \in {"top", "body"} => walk.current \in {walk.head} \cup Members(walk.head)
    /\ list_of \in [Nodes -> Heads \cup {NoLink}]
    /\ added \in [Nodes -> 0..MaxAdds]
    /\ adds \in 0..MaxAdds

(* The pointers of what is live lead to what is live, and following one    *)
(* and then the other leads back: no link to a freed node is left behind   *)
(* by any sequence of additions, removals and walks.                       *)
RingClosed ==
    \A x \in Live :
        /\ next[x] \in Live /\ prev[x] \in Live
        /\ prev[next[x]] = x
        /\ next[prev[x]] = x

(* A list is in the order of addition, from head to head: what a check     *)
(* point, and "first declared first used", rely on.                        *)
InOrder ==
    \A n \in allocated :
        \/ next[n] = list_of[n]
        \/ /\ next[n] \in Members(list_of[n])
           /\ added[n] < added[next[n]]

(* The nodes from x up to, and without, the head h: where the pointers     *)
(* lead, if they lead there through nodes of this list.                    *)
IsPath(s, x, h) ==
    /\ x = IF Len(s) = 0 THEN h ELSE s[1]
    /\ \A i \in 1..Len(s) : next[s[i]] = IF i = Len(s) THEN h ELSE s[i + 1]
Paths(x, h) ==
    LET nodes == Members(h)
    IN  {s \in UNION {[1..k -> nodes] : k \in 0..Cardinality(nodes)} : IsPath(s, x, h)}
From(x, h) == IF Paths(x, h) = {} THEN <<NoLink>> ELSE CHOOSE s \in Paths(x, h) : TRUE

List(h) == IF h \in Live THEN From(next[h], h) ELSE <<>>

Lists == [h \in Heads |-> List(h)]

(* What the walk in progress has still to see.                             *)
ToSee ==
    CASE walk.kind = "none" -> <<>>
      [] walk.kind = "top" -> From(walk.current, walk.head)
      [] walk.kind = "body" -> <<walk.current>> \o From(walk.next, walk.head)
      [] walk.kind = "free" -> List(walk.head)

(* The pointers implement sequences, and walks that remove as they go see  *)
(* every element once.                                                     *)
Contract == INSTANCE ListContract WITH
    NoHead <- NoLink, lists <- Lists, walking <- walk.head, todo <- ToSee

KeepsSequence == Contract!Spec
=============================================================================
