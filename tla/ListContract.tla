---------------------------- MODULE ListContract ----------------------------
(***************************************************************************)
(* What the users of CircularList rely on: a list is a sequence, something *)
(* added goes last, and a walk over a list sees each of its elements from  *)
(* where it began exactly once, in order, whether or not it removes them   *)
(* and whatever happens to the other lists meanwhile.                      *)
(***************************************************************************)
EXTENDS Sequences, SequencesExt

CONSTANTS Heads, Nodes, NoHead

VARIABLES
    lists,      \* the elements of each list
    walking,    \* the list being walked, or NoHead
    todo        \* what the walk has still to see

Init ==
    /\ lists = [h \in Heads |-> <<>>]
    /\ walking = NoHead
    /\ todo = <<>>

Add(h, n) ==
    /\ walking = NoHead
    /\ \A k \in Heads : n \notin ToSet(lists[k])
    /\ lists' = [lists EXCEPT ![h] = Append(@, n)]
    /\ UNCHANGED <<walking, todo>>

Take(h, n) ==
    /\ h # walking
    /\ \E i \in 1..Len(lists[h]) :
          lists[h][i] = n /\ lists' = [lists EXCEPT ![h] = RemoveAt(@, i)]
    /\ UNCHANGED <<walking, todo>>

Begin(h, i) ==
    /\ walking = NoHead
    /\ i \in 0..Len(lists[h])
    /\ walking' = h
    /\ todo' = SubSeq(lists[h], i + 1, Len(lists[h]))
    /\ UNCHANGED lists

See ==
    /\ todo # <<>>
    /\ todo' = Tail(todo)
    /\ \/ UNCHANGED lists
       \/ \E i \in 1..Len(lists[walking]) :
             /\ lists[walking][i] = todo[1]
             /\ lists' = [lists EXCEPT ![walking] = RemoveAt(@, i)]
    /\ UNCHANGED walking

Finish ==
    /\ walking # NoHead
    /\ todo = <<>>
    /\ walking' = NoHead
    /\ UNCHANGED <<lists, todo>>

Next ==
    \/ \E h \in Heads, n \in Nodes : Add(h, n) \/ Take(h, n)
    \/ \E h \in Heads : \E i \in 0..Len(lists[h]) : Begin(h, i)
    \/ See
    \/ Finish

Spec == Init /\ [][Next]_<<lists, walking, todo>>
=============================================================================
