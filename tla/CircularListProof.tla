-------------------------- MODULE CircularListProof --------------------------
(***************************************************************************)
(* Proofs about CircularList, for any heads, any finite set of nodes and   *)
(* any number of additions: the pointers stay closed rings in order of     *)
(* addition, and do what ListContract says of sequences.                   *)
(*                                                                         *)
(* RingClosed is not inductive by itself: a node linked to itself, or two  *)
(* linked to each other, are closed rings from which a walk never comes    *)
(* back to its head.  InOrder excludes them, HeadsLead gives it a first    *)
(* and a last node, and WalkInv says where a walk may be.                  *)
(*                                                                         *)
(* For the sequences, PathInv says that the pointers lead from each head   *)
(* through all nodes of its list and back: each addition appends to that   *)
(* path, each removal takes a node out of it.                              *)
(***************************************************************************)
EXTENDS CircularList, SequencesExt, SequenceTheorems, FiniteSetTheorems,
        WellFoundedInduction, TLAPS

PointersOK ==
    /\ next \in [Links -> Links \cup {NoLink}]
    /\ prev \in [Links -> Links \cup {NoLink}]
    /\ allocated \subseteq Nodes
    /\ list_of \in [Nodes -> Heads \cup {NoLink}]
    /\ added \in [Nodes -> 0..MaxAdds]
    /\ adds \in 0..MaxAdds

(* A live head's pointers lead to itself or to members of its list.        *)
HeadsLead ==
    \A h \in Heads \cap Live :
        /\ next[h] \in {h} \cup Members(h)
        /\ prev[h] \in {h} \cup Members(h)

(* What is allocated belongs to a list, and was added by now.              *)
Added == \A n \in allocated : list_of[n] \in Heads /\ added[n] <= adds

RingInv == PointersOK /\ RingClosed /\ InOrder /\ HeadsLead /\ Added

(* A walk has a live head and is at that head or at a member of its list;  *)
(* the pointer it saved is the one its current node still has.             *)
WalkInv ==
    /\ walk \in [kind : {"none", "top", "body", "free"},
                 head : Heads \cup {NoLink},
                 current : Links \cup {NoLink},
                 next : Links \cup {NoLink}]
    /\ walk.kind = "none" => walk.head = NoLink
    /\ walk.kind # "none" => walk.head \in Heads /\ walk.head \in Live
    /\ walk.kind = "top" => walk.current \in {walk.head} \cup Members(walk.head)
    /\ walk.kind = "body" => /\ walk.current \in Members(walk.head)
                             /\ walk.next = next[walk.current]

IInv == RingInv /\ WalkInv

-----------------------------------------------------------------------------
(* Pointers                                                                *)

(* The node before a node is in the same list, or its head.                *)
LEMMA PrevInList ==
    ASSUME RingInv, NEW n \in allocated
    PROVE  /\ prev[n] \in {list_of[n]} \cup Members(list_of[n])
           /\ prev[n] \in allocated => added[prev[n]] < added[n]
           /\ prev[n] # n /\ next[n] # n
  <1> USE CircularListAssumption DEF RingInv, PointersOK, Links
  <1>1. n \in Live /\ n \in Nodes /\ n \notin Heads
    BY DEF Live
  <1>2. prev[n] \in Live /\ next[prev[n]] = n
    BY <1>1 DEF RingClosed
  <1>3. next[n] # n
    BY <1>1 DEF InOrder, Added, Members
  <1>4. prev[n] # n
    BY <1>2, <1>3
  <1>5. CASE prev[n] \in Heads
    <2>1. n \in {prev[n]} \cup Members(prev[n])
      BY <1>2, <1>5 DEF HeadsLead
    <2> QED BY <2>1, <1>1, <1>3, <1>4, <1>5 DEF Members
  <1>6. CASE prev[n] \in allocated
    <2>1. list_of[prev[n]] \in Heads
      BY <1>6 DEF Added
    <2>2. n \in Members(list_of[prev[n]]) /\ added[prev[n]] < added[n]
      BY <1>1, <1>2, <1>6, <2>1 DEF InOrder
    <2>3. list_of[n] = list_of[prev[n]]
      BY <2>2 DEF Members
    <2> QED BY <1>3, <1>4, <1>6, <2>2, <2>3 DEF Members
  <1> QED BY <1>2, <1>5, <1>6 DEF Live

(* list_add: the new node is between the last one and the head.            *)
LEMMA AddChanges ==
    ASSUME RingInv, NEW h \in Heads, NEW n \in Nodes, ListAdd(h, n)
    PROVE  /\ next' \in [Links -> Links \cup {NoLink}] /\ prev' \in [Links -> Links \cup {NoLink}]
           /\ \A x \in Links : next'[x] = IF x = prev[h] THEN n ELSE IF x = n THEN h ELSE next[x]
           /\ \A x \in Links : prev'[x] = IF x = h THEN n ELSE IF x = n THEN prev[h] ELSE prev[x]
           /\ Live' = Live \cup {n}
           /\ \A k \in Heads : Members(k)' = IF k = h THEN Members(k) \cup {n} ELSE Members(k)
  <1> USE CircularListAssumption DEF RingInv, PointersOK, Links
  <1>1. h \in Live /\ n \notin allocated /\ h # n /\ n \notin Heads /\ h \notin Nodes
    BY DEF ListAdd
  <1>2. n \notin Live
    BY <1>1 DEF Live
  <1>3. prev[h] \in Live /\ next[prev[h]] = h /\ prev[h] # n /\ prev[h] \in Links
    BY <1>1, <1>2 DEF RingClosed, Live
  <1>4. next' \in [Links -> Links \cup {NoLink}] /\ prev' \in [Links -> Links \cup {NoLink}]
    BY <1>3 DEF ListAdd, NextAfterAdd, PrevAfterAdd
  <1>5. \A x \in Links : next'[x] = IF x = prev[h] THEN n ELSE IF x = n THEN h ELSE next[x]
    BY <1>3 DEF ListAdd, NextAfterAdd
  <1>6. \A x \in Links : prev'[x] = IF x = h THEN n ELSE IF x = n THEN prev[h] ELSE prev[x]
    BY <1>1 DEF ListAdd, PrevAfterAdd
  <1>7. allocated' = allocated \cup {n} /\ list_of' = [list_of EXCEPT ![n] = h]
    BY DEF ListAdd
  <1>8. Live' = Live \cup {n}
    <2>1. \A x \in Heads : next'[x] # NoLink <=> next[x] # NoLink
      BY <1>1, <1>3, <1>5 DEF Live
    <2> QED BY <2>1, <1>7 DEF Live
  <1>9. \A k \in Heads : Members(k)' = IF k = h THEN Members(k) \cup {n} ELSE Members(k)
    BY <1>1, <1>7 DEF Members
  <1> QED BY <1>4, <1>5, <1>6, <1>8, <1>9

LEMMA AddKeeps ==
    ASSUME RingInv, NEW h \in Heads, NEW n \in Nodes, ListAdd(h, n)
    PROVE  RingInv'
  <1> USE CircularListAssumption DEF RingInv, PointersOK, Links
  <1>1. h \in Live /\ n \notin allocated /\ h # n /\ n \notin Heads /\ h \notin Nodes
    BY DEF ListAdd
  <1>2. n \notin Live
    BY <1>1 DEF Live
  <1>3. prev[h] \in Live /\ next[prev[h]] = h /\ prev[h] # n /\ prev[h] \in Links
    BY <1>1, <1>2 DEF RingClosed, Live
  <1>4. next' \in [Links -> Links \cup {NoLink}] /\ prev' \in [Links -> Links \cup {NoLink}]
    BY AddChanges
  <1>5. \A x \in Links : next'[x] = IF x = prev[h] THEN n ELSE IF x = n THEN h ELSE next[x]
    BY AddChanges
  <1>6. \A x \in Links : prev'[x] = IF x = h THEN n ELSE IF x = n THEN prev[h] ELSE prev[x]
    BY AddChanges
  <1>7. allocated' = allocated \cup {n}
    BY DEF ListAdd
  <1>8. /\ list_of' = [list_of EXCEPT ![n] = h]
        /\ added' = [added EXCEPT ![n] = adds + 1]
        /\ adds' = adds + 1 /\ adds < MaxAdds
    BY DEF ListAdd
  <1>9. Live' = Live \cup {n}
    BY AddChanges
  <1>10. PointersOK'
    BY <1>4, <1>7, <1>8
  <1>11. Live \subseteq Links
    BY DEF Live
  <1>12. RingClosed'
    <2> SUFFICES ASSUME NEW x \in Live \cup {n}
                 PROVE  /\ next'[x] \in Live \cup {n} /\ prev'[x] \in Live \cup {n}
                        /\ prev'[next'[x]] = x /\ next'[prev'[x]] = x
      BY <1>9 DEF RingClosed
    <2>1. CASE x = n
      BY <2>1, <1>1, <1>3, <1>5, <1>6, <1>11
    <2>2. CASE x # n
      <3>1. x \in Live /\ x \in Links
        BY <2>2, <1>11
      <3>2. /\ next[x] \in Live /\ prev[x] \in Live
            /\ prev[next[x]] = x /\ next[prev[x]] = x
        BY <3>1 DEF RingClosed
      <3>3. next'[x] \in Live \cup {n} /\ prev'[next'[x]] = x
        BY <3>1, <3>2, <2>2, <1>1, <1>2, <1>3, <1>5, <1>6, <1>11
      <3>4. prev'[x] \in Live \cup {n} /\ next'[prev'[x]] = x
        BY <3>1, <3>2, <2>2, <1>1, <1>2, <1>3, <1>5, <1>6, <1>11
      <3> QED BY <3>3, <3>4
    <2> QED BY <2>1, <2>2
  <1>13. \A k \in Heads : Members(k)' = IF k = h THEN Members(k) \cup {n} ELSE Members(k)
    BY AddChanges
  <1>14. prev[h] \in {h} \cup Members(h)
    BY <1>1 DEF HeadsLead
  <1>15. Added'
    BY <1>1, <1>7, <1>8 DEF Added
  <1>16. InOrder'
    <2> SUFFICES ASSUME NEW m \in allocated'
                 PROVE  \/ next'[m] = list_of'[m]
                        \/ /\ next'[m] \in Members(list_of[m])'
                           /\ added'[m] < added'[next'[m]]
      BY DEF InOrder
    <2>1. CASE m = n
      BY <2>1, <1>3, <1>5, <1>8
    <2>2. CASE m # n
      <3>1. m \in allocated /\ m \in Nodes /\ m \in Links
        BY <2>2, <1>7
      <3>2. list_of'[m] = list_of[m] /\ added'[m] = added[m] /\ list_of[m] \in Heads /\ added[m] <= adds
        BY <3>1, <2>2, <1>8 DEF Added
      <3>3. CASE m = prev[h]
        <4>1. m \in Members(h) /\ list_of[m] = h
          BY <3>1, <3>3, <1>1, <1>14 DEF Members
        <4>2. next'[m] = n /\ added'[n] = adds + 1
          BY <3>1, <3>3, <1>5, <1>8
        <4> QED BY <3>2, <4>1, <4>2, <1>1, <1>7, <1>8 DEF Members
      <3>4. CASE m # prev[h]
        <4>1. next'[m] = next[m]
          BY <2>2, <3>1, <3>4, <1>5
        <4>2. \/ next[m] = list_of[m]
              \/ next[m] \in Members(list_of[m]) /\ added[m] < added[next[m]]
          BY <3>1 DEF InOrder
        <4>3. ASSUME next[m] \in Members(list_of[m])
              PROVE  next[m] \in allocated /\ next[m] # n /\ list_of[next[m]] = list_of[m]
          BY <4>3, <1>1 DEF Members
        <4> QED BY <3>2, <4>1, <4>2, <4>3, <1>7, <1>8 DEF Members
      <3> QED BY <3>3, <3>4
    <2> QED BY <2>1, <2>2
  <1>17. HeadsLead'
    <2> SUFFICES ASSUME NEW k \in Heads, k \in Live
                 PROVE  /\ next'[k] \in {k} \cup Members(k)'
                        /\ prev'[k] \in {k} \cup Members(k)'
      BY <1>1, <1>9 DEF HeadsLead
    <2>1. next[k] \in {k} \cup Members(k) /\ prev[k] \in {k} \cup Members(k)
      BY DEF HeadsLead
    <2>2. k # prev[h] \/ k = h
      BY <1>1, <1>14 DEF Members
    <2> QED BY <2>1, <2>2, <1>1, <1>5, <1>6, <1>13
  <1> QED BY <1>10, <1>12, <1>15, <1>16, <1>17

(* list_remove, with the node freed: what is left is as before, and the    *)
(* neighbours are the only nodes whose pointers change.                    *)
LEMMA RemoveChanges ==
    ASSUME RingInv, NEW n \in allocated, RemoveFree(n)
    PROVE  /\ PointersOK'
           /\ Live' = Live \ {n}
           /\ \A h \in Heads : Members(h)' = Members(h) \ {n}
           /\ \A x \in Links : next'[x] = IF x = n THEN NoLink
                                          ELSE IF x = prev[n] THEN next[n] ELSE next[x]
           /\ \A x \in Links : prev'[x] = IF x = n THEN NoLink
                                          ELSE IF x = next[n] THEN prev[n] ELSE prev[x]
  <1> USE CircularListAssumption DEF RingInv, PointersOK, Links
  <1>1. n \in Live /\ n \in Nodes /\ n \notin Heads /\ n \in Links
    BY DEF Live
  <1>2. /\ next[n] \in Live /\ prev[n] \in Live
        /\ next[n] \in Links /\ prev[n] \in Links
        /\ next[n] # NoLink /\ prev[n] # NoLink
    BY <1>1 DEF RingClosed, Live
  <1>3. next[n] # n /\ prev[n] # n
    BY PrevInList
  <1>4. next' \in [Links -> Links \cup {NoLink}] /\ prev' \in [Links -> Links \cup {NoLink}]
    BY <1>2 DEF RemoveFree, NextWithout, PrevWithout
  <1>5. \A x \in Links : next'[x] = IF x = n THEN NoLink
                                   ELSE IF x = prev[n] THEN next[n] ELSE next[x]
    BY <1>1, <1>2 DEF RemoveFree, NextWithout
  <1>6. \A x \in Links : prev'[x] = IF x = n THEN NoLink
                                   ELSE IF x = next[n] THEN prev[n] ELSE prev[x]
    BY <1>1, <1>2 DEF RemoveFree, PrevWithout
  <1>7. /\ allocated' = allocated \ {n}
        /\ list_of' = list_of /\ added' = added /\ adds' = adds
    BY DEF RemoveFree, Left, history
  <1>8. \A h \in Heads : next'[h] # NoLink <=> next[h] # NoLink
    BY <1>1, <1>2, <1>5 DEF Live
  <1>9. Live' = Live \ {n}
    BY <1>1, <1>7, <1>8 DEF Live
  <1>10. PointersOK'
    BY <1>4, <1>7
  <1>11. \A h \in Heads : Members(h)' = Members(h) \ {n}
    BY <1>7 DEF Members
  <1> QED BY <1>5, <1>6, <1>9, <1>10, <1>11

LEMMA RemoveKeeps ==
    ASSUME RingInv, NEW n \in allocated, RemoveFree(n)
    PROVE  RingInv'
  <1> USE CircularListAssumption DEF RingInv, PointersOK, Links
  <1>1. n \in Live /\ n \in Nodes /\ n \notin Heads /\ n \in Links /\ Live \subseteq Links
    BY DEF Live
  <1>2. /\ PointersOK'
        /\ Live' = Live \ {n}
        /\ \A h \in Heads : Members(h)' = Members(h) \ {n}
    BY RemoveChanges
  <1>3. \A x \in Links : next'[x] = IF x = n THEN NoLink
                                   ELSE IF x = prev[n] THEN next[n] ELSE next[x]
    BY RemoveChanges
  <1>4. \A x \in Links : prev'[x] = IF x = n THEN NoLink
                                   ELSE IF x = next[n] THEN prev[n] ELSE prev[x]
    BY RemoveChanges
  <1>5. /\ prev[n] \in {list_of[n]} \cup Members(list_of[n])
        /\ prev[n] \in allocated => added[prev[n]] < added[n]
        /\ prev[n] # n /\ next[n] # n
    BY PrevInList
  <1>6. /\ allocated' = allocated \ {n}
        /\ list_of' = list_of /\ added' = added /\ adds' = adds
    BY DEF RemoveFree, Left, history
  <1>7. /\ next[n] \in Live /\ prev[n] \in Live
        /\ prev[next[n]] = n /\ next[prev[n]] = n
    BY <1>1 DEF RingClosed
  <1>8. list_of[n] \in Heads /\ \/ next[n] = list_of[n]
                                \/ /\ next[n] \in Members(list_of[n])
                                   /\ added[n] < added[next[n]]
    BY DEF Added, InOrder
  <1>9. RingClosed'
    <2> SUFFICES ASSUME NEW x \in Live, x # n
                 PROVE  /\ next'[x] \in Live \ {n} /\ prev'[x] \in Live \ {n}
                        /\ prev'[next'[x]] = x /\ next'[prev'[x]] = x
      BY <1>2 DEF RingClosed
    <2>1. /\ next[x] \in Live /\ prev[x] \in Live
          /\ prev[next[x]] = x /\ next[prev[x]] = x
      BY DEF RingClosed
    <2>2. next'[x] \in Live \ {n} /\ prev'[next'[x]] = x
      BY <2>1, <1>1, <1>3, <1>4, <1>5, <1>7
    <2>3. prev'[x] \in Live \ {n} /\ next'[prev'[x]] = x
      BY <2>1, <1>1, <1>3, <1>4, <1>5, <1>7
    <2> QED BY <2>2, <2>3
  <1>10. InOrder'
    <2> SUFFICES ASSUME NEW m \in allocated, m # n
                 PROVE  \/ next'[m] = list_of[m]
                        \/ /\ next'[m] \in Members(list_of[m])
                           /\ next'[m] # n
                           /\ added[m] < added[next'[m]]
      <3>1. \A m \in allocated' : list_of'[m] = list_of[m] /\ list_of[m] \in Heads
        BY <1>6 DEF Added
      <3> QED BY <1>2, <1>6, <3>1 DEF InOrder
    <2>1. m \in Live /\ m \in Links
      BY DEF Live
    <2>2. \/ next[m] = list_of[m]
          \/ /\ next[m] \in Members(list_of[m])
             /\ added[m] < added[next[m]]
      BY DEF InOrder
    <2>3. CASE m = prev[n]
      <3>1. list_of[m] = list_of[n] /\ added[m] < added[n]
        BY <2>3, <1>5, <1>8 DEF Members
      <3>2. next'[m] = next[n]
        BY <2>1, <2>3, <1>3, <1>5
      <3>3. ASSUME next[n] \in Members(list_of[n])
            PROVE  added[m] \in Nat /\ added[n] \in Nat /\ added[next[n]] \in Nat
        BY <3>3 DEF Members
      <3> QED BY <3>1, <3>2, <3>3, <1>5, <1>8
    <2>4. CASE m # prev[n]
      <3>1. next'[m] = next[m]
        BY <2>1, <2>4, <1>3
      <3>2. next[m] # n
        BY <2>1, <2>4 DEF RingClosed
      <3> QED BY <3>1, <3>2, <2>2
    <2> QED BY <2>3, <2>4
  <1>11. HeadsLead'
    <2> SUFFICES ASSUME NEW h \in Heads, h \in Live
                 PROVE  /\ next'[h] \in {h} \cup (Members(h) \ {n})
                        /\ prev'[h] \in {h} \cup (Members(h) \ {n})
      BY <1>2 DEF HeadsLead
    <2>1. /\ next[h] \in {h} \cup Members(h) /\ prev[h] \in {h} \cup Members(h)
          /\ prev[next[h]] = h /\ next[prev[h]] = h /\ h # n /\ h \in Links
      BY <1>1 DEF HeadsLead, RingClosed
    <2>2. h = prev[n] => h = list_of[n]
      BY <1>1, <1>5 DEF Members
    <2>3. h = next[n] => h = list_of[n]
      BY <1>1, <1>8 DEF Members
    <2>4. next'[h] \in {h} \cup (Members(h) \ {n})
      BY <2>1, <2>2, <1>3, <1>5, <1>8
    <2>5. prev'[h] \in {h} \cup (Members(h) \ {n})
      BY <2>1, <2>3, <1>4, <1>5, <1>8
    <2> QED BY <2>4, <2>5
  <1>12. Added'
    BY <1>6 DEF Added
  <1> QED BY <1>2, <1>9, <1>10, <1>11, <1>12

-----------------------------------------------------------------------------
(* The invariant                                                           *)

LEMMA InitInv == Init => IInv
  <1> SUFFICES ASSUME Init PROVE IInv
    OBVIOUS
  <1> USE CircularListAssumption DEF Init, Links
  <1>1. Live = {}
    BY DEF Live
  <1>2. PointersOK
    BY DEF PointersOK
  <1>3. RingClosed /\ HeadsLead /\ InOrder /\ Added
    BY <1>1 DEF RingClosed, HeadsLead, InOrder, Added
  <1>4. WalkInv
    BY DEF WalkInv, NoWalk
  <1> QED BY <1>2, <1>3, <1>4 DEF IInv, RingInv

(* list_initialize, of a head out of use or of an empty list.              *)
LEMMA InitializeKeeps ==
    ASSUME IInv, NEW h \in Heads, ListInitialize(h)
    PROVE  IInv'
  <1> USE CircularListAssumption DEF IInv, RingInv, PointersOK, Links
  <1>1. h \notin Nodes /\ h \in Links /\ h # NoLink
    OBVIOUS
  <1>2. /\ next' = [next EXCEPT ![h] = h] /\ prev' = [prev EXCEPT ![h] = h]
        /\ allocated' = allocated /\ walk' = walk /\ walk = NoWalk
        /\ list_of' = list_of /\ added' = added /\ adds' = adds
    BY DEF ListInitialize, history
  <1>3. Live' = Live \cup {h} /\ Live \subseteq Links
    BY <1>1, <1>2 DEF Live
  <1>4. h \in Live => next[h] = h /\ prev[h] = h
    BY DEF ListInitialize, Empty, RingClosed
  <1>5. PointersOK'
    BY <1>1, <1>2
  <1>6. \A x \in Live \ {h} : next[x] # h /\ prev[x] # h /\ x # h
    <2> SUFFICES ASSUME NEW x \in Live, x # h PROVE next[x] # h /\ prev[x] # h
      OBVIOUS
    <2>1. next[x] \in Live /\ prev[x] \in Live /\ prev[next[x]] = x /\ next[prev[x]] = x
      BY DEF RingClosed
    <2> QED BY <2>1, <1>4
  <1>7. RingClosed'
    BY <1>1, <1>2, <1>3, <1>6 DEF RingClosed
  <1>8. InOrder' /\ Added'
    BY <1>1, <1>2 DEF InOrder, Added, Members
  <1>9. HeadsLead'
    BY <1>1, <1>2, <1>3 DEF HeadsLead, Members
  <1>10. WalkInv'
    BY <1>2 DEF WalkInv, NoWalk
  <1> QED BY <1>5, <1>7, <1>8, <1>9, <1>10

(* free(map_value), when its list is empty.                                *)
LEMMA FreeHeadKeeps ==
    ASSUME IInv, NEW h \in Heads, FreeHead(h)
    PROVE  IInv'
  <1> USE CircularListAssumption DEF IInv, RingInv, PointersOK, Links
  <1>1. h \notin Nodes /\ h \in Links /\ h \in Live /\ h # walk.head
    BY DEF FreeHead
  <1>2. /\ next' = [next EXCEPT ![h] = NoLink] /\ prev' = [prev EXCEPT ![h] = NoLink]
        /\ allocated' = allocated /\ walk' = walk
        /\ list_of' = list_of /\ added' = added /\ adds' = adds
    BY DEF FreeHead, history
  <1>3. Live' = Live \ {h} /\ Live \subseteq Links
    BY <1>1, <1>2 DEF Live
  <1>4. next[h] = h /\ prev[h] = h
    BY <1>1 DEF FreeHead, Empty, RingClosed
  <1>5. PointersOK'
    BY <1>1, <1>2
  <1>6. \A x \in Live \ {h} : next[x] # h /\ prev[x] # h /\ x # h
    <2> SUFFICES ASSUME NEW x \in Live, x # h PROVE next[x] # h /\ prev[x] # h
      OBVIOUS
    <2>1. next[x] \in Live /\ prev[x] \in Live /\ prev[next[x]] = x /\ next[prev[x]] = x
      BY DEF RingClosed
    <2> QED BY <2>1, <1>4
  <1>7. RingClosed'
    BY <1>1, <1>2, <1>3, <1>6 DEF RingClosed
  <1>8. InOrder' /\ Added'
    BY <1>1, <1>2 DEF InOrder, Added, Members
  <1>9. HeadsLead'
    BY <1>1, <1>2, <1>3 DEF HeadsLead, Members
  <1>10. WalkInv'
    <2>1. \A k \in Heads : Members(k)' = Members(k)
      BY <1>2 DEF Members
    <2>2. \A n \in Nodes : next'[n] = next[n]
      BY <1>1, <1>2
    <2>3. walk.kind = "body" => walk.current \in Nodes
      BY DEF WalkInv, Members
    <2> QED BY <1>1, <1>2, <1>3, <2>1, <2>2, <2>3 DEF WalkInv
  <1> QED BY <1>5, <1>7, <1>8, <1>9, <1>10

(* Where the next pointer of a walk's current node leads.                  *)
LEMMA NextInList ==
    ASSUME IInv, NEW h \in Heads, NEW n \in Members(h)
    PROVE  next[n] \in {h} \cup (Members(h) \ {n})
  <1>1. n \in allocated /\ list_of[n] = h
    BY DEF Members
  <1>2. next[n] # n
    BY <1>1, PrevInList DEF IInv
  <1> QED BY <1>1, <1>2 DEF IInv, RingInv, InOrder

(* A node that goes from another list leaves the walk as it was.           *)
LEMMA ListRemoveKeeps ==
    ASSUME IInv, NEW h \in Heads, NEW n \in Nodes, ListRemove(h, n)
    PROVE  IInv'
  <1> USE CircularListAssumption DEF IInv
  <1>1. n \in allocated /\ list_of[n] = h /\ h # walk.head /\ RemoveFree(n) /\ walk' = walk
    BY DEF ListRemove, Members
  <1>2. RingInv'
    BY <1>1, RemoveKeeps
  <1>3. /\ Live' = Live \ {n}
        /\ \A k \in Heads : Members(k)' = Members(k) \ {n}
        /\ \A x \in Links : next'[x] = IF x = n THEN NoLink
                                       ELSE IF x = prev[n] THEN next[n] ELSE next[x]
    BY <1>1, RemoveChanges
  <1>4. prev[n] \in {h} \cup Members(h)
    BY <1>1, PrevInList
  <1>5. \A k \in Heads : k # h => n \notin Members(k)
    BY <1>1 DEF Members
  <1>6. walk.kind = "body" => /\ walk.current \in Links \ {n}
                              /\ walk.current # prev[n]
    BY <1>1, <1>4, <1>5 DEF WalkInv, Members, RingInv, PointersOK, Links
  <1>7. WalkInv'
    BY <1>1, <1>3, <1>5, <1>6 DEF WalkInv
  <1> QED BY <1>2, <1>7

(* The steps of a walk that remove nothing.                                *)
LEMMA WalkKeeps ==
    ASSUME IInv,
           \/ \E h \in Heads, start \in Links : BeginWalk(h, start)
           \/ \E h \in Heads : BeginFree(h)
           \/ ReadNext \/ Keep \/ EndWalk \/ EndFree
    PROVE  IInv'
  <1> USE CircularListAssumption DEF IInv
  <1>1. UNCHANGED <<next, prev, allocated, history>>
    BY DEF BeginWalk, BeginFree, ReadNext, Keep, EndWalk, EndFree
  <1>2. RingInv' /\ Live' = Live /\ \A k \in Heads : Members(k)' = Members(k)
    BY <1>1 DEF RingInv, PointersOK, RingClosed, InOrder, HeadsLead, Added,
                Live, Members, history, Links
  <1>3. ASSUME NEW h \in Heads, NEW n \in Members(h)
        PROVE  n \in Links /\ n \in Nodes /\ n # h /\ h # NoLink /\ h \in Links
    BY <1>3 DEF Members, RingInv, PointersOK, Links
  <1>4. ASSUME NEW h \in Heads, NEW start \in Links, BeginWalk(h, start)
        PROVE  WalkInv'
    <2>1. next[start] \in {h} \cup Members(h)
      BY <1>4, NextInList DEF BeginWalk, RingInv, HeadsLead
    <2>2. next[start] \in Links
      BY <2>1, <1>3 DEF Links
    <2> QED BY <1>1, <1>2, <1>4, <2>1, <2>2 DEF BeginWalk, WalkInv
  <1>5. ASSUME NEW h \in Heads, BeginFree(h) PROVE WalkInv'
    BY <1>1, <1>2, <1>5 DEF BeginFree, WalkInv, NoWalk
  <1>6. ASSUME ReadNext PROVE WalkInv'
    <2>1. walk.head \in Heads /\ walk.head \in Live /\ walk.current \in Members(walk.head)
      BY <1>6 DEF ReadNext, WalkInv
    <2>2. next[walk.current] \in {walk.head} \cup Members(walk.head)
      BY <2>1, NextInList
    <2>3. next[walk.current] \in Links /\ walk.current \in Links
      BY <2>1, <2>2, <1>3 DEF Links
    <2> QED BY <1>1, <1>2, <1>6, <2>1, <2>3 DEF ReadNext, WalkInv
  <1>7. ASSUME Keep PROVE WalkInv'
    <2>1. walk.head \in Heads /\ walk.head \in Live /\ walk.current \in Members(walk.head)
      BY <1>7 DEF Keep, WalkInv
    <2>2. walk.next \in {walk.head} \cup Members(walk.head)
      BY <2>1, <1>7, NextInList DEF Keep, WalkInv
    <2> QED BY <1>1, <1>2, <1>7, <2>1, <2>2 DEF Keep, Advance, WalkInv
  <1>8. ASSUME EndWalk \/ EndFree PROVE WalkInv'
    BY <1>8 DEF EndWalk, EndFree, WalkInv, NoWalk
  <1> QED BY <1>2, <1>4, <1>5, <1>6, <1>7, <1>8

(* The steps that remove the node the walk is at, or the first one.        *)
LEMMA RemovingWalkKeeps ==
    ASSUME IInv, RemoveCurrent \/ FreeFirst
    PROVE  IInv'
  <1> USE CircularListAssumption DEF IInv
  <1>1. CASE RemoveCurrent
    <2>1. /\ walk.head \in Heads /\ walk.head \in Live /\ walk.current \in Members(walk.head)
          /\ walk.next = next[walk.current]
      BY <1>1 DEF RemoveCurrent, WalkInv
    <2>2. walk.current \in allocated /\ RemoveFree(walk.current)
      BY <1>1, <2>1 DEF RemoveCurrent, Members
    <2>3. RingInv' /\ Live' = Live \ {walk.current}
                   /\ \A k \in Heads : Members(k)' = Members(k) \ {walk.current}
      BY <2>2, RemoveKeeps, RemoveChanges
    <2>4. walk.next \in {walk.head} \cup (Members(walk.head) \ {walk.current})
      BY <2>1, NextInList
    <2>5. walk.head # walk.current
      BY <2>1 DEF Members, RingInv, PointersOK
    <2> QED BY <1>1, <2>1, <2>3, <2>4, <2>5 DEF RemoveCurrent, Advance, WalkInv
  <1>2. CASE FreeFirst
    <2>1. walk.kind = "free" /\ walk.head \in Heads /\ walk.head \in Live /\ next[walk.head] # walk.head
      BY <1>2 DEF FreeFirst, Empty, WalkInv
    <2>2. next[walk.head] \in Members(walk.head)
      BY <2>1 DEF RingInv, HeadsLead
    <2>3. next[walk.head] \in allocated /\ RemoveFree(next[walk.head]) /\ walk' = walk
      BY <1>2, <2>2 DEF FreeFirst, Members
    <2>4. RingInv' /\ Live' = Live \ {next[walk.head]}
      BY <2>3, RemoveKeeps, RemoveChanges
    <2> QED BY <2>1, <2>3, <2>4 DEF WalkInv
  <1> QED BY <1>1, <1>2

LEMMA NextInv == IInv /\ [Next]_vars => IInv'
  <1> SUFFICES ASSUME IInv, [Next]_vars PROVE IInv'
    OBVIOUS
  <1>1. CASE UNCHANGED vars
    BY <1>1 DEF IInv, RingInv, PointersOK, RingClosed, InOrder, HeadsLead, Added,
                WalkInv, Live, Members, vars, history, Links
  <1>2. ASSUME NEW h \in Heads, NEW n \in Nodes, ListAdd(h, n) PROVE IInv'
    <2>1. RingInv' /\ walk' = walk /\ walk = NoWalk
      BY <1>2, AddKeeps DEF IInv, ListAdd
    <2> QED BY <2>1 DEF IInv, WalkInv, NoWalk
  <1>3. ASSUME NEW h \in Heads, ListInitialize(h) \/ FreeHead(h) PROVE IInv'
    BY <1>3, InitializeKeeps, FreeHeadKeeps
  <1>4. ASSUME NEW h \in Heads, NEW n \in Nodes, ListRemove(h, n) PROVE IInv'
    BY <1>4, ListRemoveKeeps
  <1>5. CASE \/ \E h \in Heads, start \in Links : BeginWalk(h, start)
             \/ \E h \in Heads : BeginFree(h)
             \/ ReadNext \/ Keep \/ EndWalk \/ EndFree
    BY <1>5, WalkKeeps
  <1>6. CASE RemoveCurrent \/ FreeFirst
    BY <1>6, RemovingWalkKeeps
  <1> QED BY <1>1, <1>2, <1>3, <1>4, <1>5, <1>6 DEF Next

(* The inductive invariant.                                                *)
THEOREM Invariance == Spec => []IInv
  BY InitInv, NextInv, PTL DEF Spec

(* No sequence of additions, removals and walks leaves a live node linked  *)
(* to a freed one, or the two pointers in disagreement.                    *)
THEOREM RingsStayClosed == Spec => []RingClosed
  <1>1. IInv => RingClosed
    BY DEF IInv, RingInv
  <1> QED BY <1>1, Invariance, PTL

(* Each list stays in the order in which its nodes were added.             *)
THEOREM ListsStayInOrder == Spec => []InOrder
  <1>1. IInv => InOrder
    BY DEF IInv, RingInv
  <1> QED BY <1>1, Invariance, PTL

(* The types of the state; a walk is never at a freed node.                *)
THEOREM TypeCorrect == Spec => []TypeOK
  <1>1. IInv => TypeOK
    BY DEF IInv, RingInv, PointersOK, WalkInv, TypeOK
  <1> QED BY <1>1, Invariance, PTL

-----------------------------------------------------------------------------
(* Paths, of any pointers                                                  *)

(* What is the first that ...                                              *)
LEMMA LeastThere ==
    ASSUME NEW S, S \subseteq Nat, S # {}
    PROVE  \E x \in S : \A y \in S : x <= y
  <1> DEFINE R == OpToRel(<, Nat)
  <1>1. IsWellFoundedOn(R, Nat)
    BY NatLessThanWellFounded
  <1>2. PICK x \in S : \A y \in S : <<y, x>> \notin R
    BY <1>1, WFMin
  <1>3. \A y \in S : ~ (y < x)
    BY <1>2 DEF OpToRel
  <1> QED BY <1>3

(* A route from x to h along the pointers f, through nodes of M.           *)
Route(f, M, s, x, h) ==
    /\ s \in Seq(M)
    /\ x = IF Len(s) = 0 THEN h ELSE s[1]
    /\ \A i \in 1..Len(s) : f[s[i]] = IF i = Len(s) THEN h ELSE s[i + 1]

LEMMA Places ==
    ASSUME NEW f, NEW M, NEW s, NEW x, NEW h, Route(f, M, s, x, h)
    PROVE  Len(s) \in Nat /\ \A i \in 1..Len(s) : s[i] \in M
  BY LenProperties, ElementOfSeq DEF Route

(* Pointers lead one way only.                                             *)
LEMMA OnePath ==
    ASSUME NEW f, NEW M, NEW s, NEW t, NEW x, NEW h, h \notin M,
           Route(f, M, s, x, h), Route(f, M, t, x, h)
    PROVE  Len(s) <= Len(t) /\ \A i \in 1..Len(s) : s[i] = t[i]
  <1> DEFINE Bad == {i \in 1..Len(s) : ~ (i <= Len(t) /\ s[i] = t[i])}
  <1>1. /\ Len(s) \in Nat /\ Len(t) \in Nat
        /\ \A i \in 1..Len(s) : s[i] \in M
        /\ \A i \in 1..Len(t) : t[i] \in M
    BY Places
  <1>2. Bad = {}
    <2> SUFFICES ASSUME Bad # {} PROVE FALSE
      OBVIOUS
    <2>1. PICK i \in Bad : \A j \in Bad : i <= j
      <3>1. Bad \subseteq Nat
        OBVIOUS
      <3> QED BY <3>1, LeastThere
    <2>2. i \in 1..Len(s) /\ ~ (i <= Len(t) /\ s[i] = t[i])
      OBVIOUS
    <2>3. CASE i = 1
      <3>1. x = s[1] /\ x # h
        BY <1>1, <2>2, <2>3 DEF Route
      <3>2. Len(t) > 0 /\ x = t[1]
        BY <1>1, <3>1 DEF Route
      <3> QED BY <1>1, <2>2, <2>3, <3>1, <3>2
    <2>4. CASE i # 1
      <3> DEFINE j == i - 1
      <3>1. j \in 1..Len(s) /\ j \notin Bad /\ j + 1 = i /\ j # Len(s)
        BY <1>1, <2>1, <2>2, <2>4
      <3>2. j <= Len(t) /\ s[j] = t[j] /\ j \in 1..Len(t)
        BY <1>1, <3>1
      <3> HIDE DEF j, Bad
      <3>3. f[s[j]] = s[i] /\ s[i] # h
        BY <1>1, <2>2, <3>1 DEF Route
      <3>4. f[t[j]] = IF j = Len(t) THEN h ELSE t[i]
        BY <3>1, <3>2 DEF Route
      <3>5. j # Len(t) /\ s[i] = t[i]
        BY <3>2, <3>3, <3>4
      <3> QED BY <1>1, <2>2, <3>1, <3>2, <3>5
    <2> QED BY <2>3, <2>4
  <1>3. \A i \in 1..Len(s) : i <= Len(t) /\ s[i] = t[i]
    BY <1>2
  <1>4. Len(s) # 0 => Len(s) \in 1..Len(s)
    BY <1>1
  <1> QED BY <1>1, <1>3, <1>4

LEMMA SamePath ==
    ASSUME NEW f, NEW M, NEW s, NEW t, NEW x, NEW h, h \notin M,
           Route(f, M, s, x, h), Route(f, M, t, x, h)
    PROVE  s = t
  <1>1. /\ Len(s) \in Nat /\ Len(t) \in Nat
        /\ s \in Seq(M) /\ t \in Seq(M)
    BY Places DEF Route
  <1>2. Len(s) = Len(t) /\ \A i \in 1..Len(s) : s[i] = t[i]
    BY <1>1, OnePath
  <1> QED BY <1>1, <1>2, SeqEqual

(* What is left of a route is one.                                         *)
LEMMA RestOfPath ==
    ASSUME NEW f, NEW M, NEW s, NEW x, NEW h, Route(f, M, s, x, h), NEW i \in 1..(Len(s) + 1)
    PROVE  /\ Route(f, M, SubSeq(s, i, Len(s)), IF i = Len(s) + 1 THEN h ELSE s[i], h)
           /\ Len(SubSeq(s, i, Len(s))) = (Len(s) - i) + 1
           /\ \A j \in 1..((Len(s) - i) + 1) : SubSeq(s, i, Len(s))[j] = s[(i + j) - 1]
  <1> DEFINE n == Len(s)
             t == SubSeq(s, i, n)
  <1>1. n \in Nat /\ s \in Seq(M) /\ \A j \in 1..n : s[j] \in M
    BY Places DEF Route
  <1>2. \A j \in i..n : s[j] \in M
    BY <1>1
  <1>n. \A j \in 1..n : f[s[j]] = IF j = n THEN h ELSE s[j + 1]
    BY DEF Route
  <1>i. i \in 1..(n + 1)
    OBVIOUS
  <1> HIDE DEF n
  <1>3. /\ t \in Seq(M)
        /\ Len(t) = (n - i) + 1
        /\ \A j \in 1..((n - i) + 1) : t[j] = s[(i + j) - 1]
    <2>1. i \in Int /\ n \in Int
      BY <1>1
    <2>2. /\ t \in Seq(M)
          /\ Len(t) = IF i <= n THEN n - i + 1 ELSE 0
          /\ \A j \in 1..(n - i + 1) : t[j] = s[i + j - 1]
      BY <1>2, <2>1, SubSeqProperties
    <2> QED BY <1>1, <1>i, <2>2
  <1> HIDE DEF t
  <1>4. (IF i = n + 1 THEN h ELSE s[i]) = IF Len(t) = 0 THEN h ELSE t[1]
    BY <1>1, <1>3, <1>i
  <1>5. ASSUME NEW j \in 1..Len(t) PROVE f[t[j]] = IF j = Len(t) THEN h ELSE t[j + 1]
    <2> DEFINE k == (i + j) - 1
    <2>1. /\ k \in 1..n /\ j \in 1..((n - i) + 1)
          /\ (k = n <=> j = Len(t))
          /\ j # Len(t) => (i + (j + 1)) - 1 = k + 1 /\ j + 1 \in 1..((n - i) + 1)
      BY <1>1, <1>3, <1>i
    <2>2. t[j] = s[k] /\ (j # Len(t) => t[j + 1] = s[k + 1])
      BY <1>3, <2>1
    <2> QED BY <1>n, <2>1, <2>2
  <1>6. Route(f, M, t, IF i = n + 1 THEN h ELSE s[i], h)
    BY <1>3, <1>4, <1>5 DEF Route
  <1> QED BY <1>3, <1>6 DEF t, n

(* No node comes twice.                                                    *)
LEMMA PathDistinct ==
    ASSUME NEW f, NEW M, NEW s, NEW x, NEW h, h \notin M, Route(f, M, s, x, h),
           NEW i \in 1..Len(s), NEW j \in 1..Len(s), s[i] = s[j]
    PROVE  i = j
  <1>1. Len(s) \in Nat
    BY Places
  <1>2. /\ Route(f, M, SubSeq(s, i, Len(s)), s[i], h)
        /\ Route(f, M, SubSeq(s, j, Len(s)), s[i], h)
    BY <1>1, RestOfPath
  <1>3. SubSeq(s, i, Len(s)) = SubSeq(s, j, Len(s))
    BY <1>2, SamePath
  <1>4. (Len(s) - i) + 1 = (Len(s) - j) + 1
    BY <1>1, <1>3, RestOfPath
  <1> QED BY <1>1, <1>4

(* So there are no more of them than nodes.                                *)
LEMMA PathBound ==
    ASSUME NEW f, NEW M, NEW s, NEW x, NEW h, h \notin M, IsFiniteSet(M), Route(f, M, s, x, h)
    PROVE  Len(s) \in 0..Cardinality(M) /\ s \in [1..Len(s) -> M]
  <1>1. Len(s) \in Nat /\ s \in [1..Len(s) -> M]
    BY LenProperties DEF Route
  <1>2. s \in Injection(1..Len(s), M)
    BY <1>1, PathDistinct DEF Injection, IsInjective
  <1>3. Cardinality(1..Len(s)) <= Cardinality(M)
    BY <1>2, FS_Injection
  <1>4. Cardinality(1..Len(s)) = Len(s)
    <2>1. Cardinality(1..Len(s)) = IF 1 > Len(s) THEN 0 ELSE Len(s) - 1 + 1
      BY <1>1, FS_Interval
    <2> QED BY <1>1, <2>1
  <1>5. Cardinality(M) \in Nat
    BY FS_CardinalityType
  <1> QED BY <1>1, <1>3, <1>4, <1>5

(* What From computes, of any pointers and nodes.                          *)
Sought(f, M, x, h) ==
    LET P == {s \in UNION {[1..k -> M] : k \in 0..Cardinality(M)} :
                 /\ x = IF Len(s) = 0 THEN h ELSE s[1]
                 /\ \A i \in 1..Len(s) : f[s[i]] = IF i = Len(s) THEN h ELSE s[i + 1]}
    IN  IF P = {} THEN <<NoLink>> ELSE CHOOSE s \in P : TRUE

LEMMA SoughtIs ==
    ASSUME NEW f, NEW M, NEW s, NEW x, NEW h, h \notin M, IsFiniteSet(M), Route(f, M, s, x, h)
    PROVE  Sought(f, M, x, h) = s
  <1> DEFINE P == {t \in UNION {[1..k -> M] : k \in 0..Cardinality(M)} :
                      /\ x = IF Len(t) = 0 THEN h ELSE t[1]
                      /\ \A i \in 1..Len(t) : f[t[i]] = IF i = Len(t) THEN h ELSE t[i + 1]}
  <1>1. s \in P
    <2>1. s \in UNION {[1..k -> M] : k \in 0..Cardinality(M)}
      BY PathBound
    <2> QED BY <2>1 DEF Route
  <1>2. \A t \in P : Route(f, M, t, x, h)
    <2> SUFFICES ASSUME NEW t \in P PROVE Route(f, M, t, x, h)
      OBVIOUS
    <2>1. PICK k \in 0..Cardinality(M) : t \in [1..k -> M]
      OBVIOUS
    <2>2. k \in Nat
      BY <2>1, FS_CardinalityType
    <2>3. t \in Seq(M)
      BY <2>1, <2>2
    <2> QED BY <2>3 DEF Route
  <1> HIDE DEF P
  <1>3. (CHOOSE t \in P : TRUE) \in P
    BY <1>1
  <1>4. (CHOOSE t \in P : TRUE) = s
    BY <1>2, <1>3, SamePath
  <1>5. Sought(f, M, x, h) = IF P = {} THEN <<NoLink>> ELSE CHOOSE t \in P : TRUE
    BY DEF Sought, P
  <1> QED BY <1>1, <1>4, <1>5

(* Pointers that agree on the nodes have the same routes.                  *)
LEMMA RouteSame ==
    ASSUME NEW f, NEW M, NEW g, NEW N, NEW s, NEW x, NEW h, Route(f, M, s, x, h),
           N = M, \A m \in M : g[m] = f[m]
    PROVE  Route(g, N, s, x, h)
  <1>1. \A i \in 1..Len(s) : s[i] \in M
    BY Places
  <1>2. \A i \in 1..Len(s) : g[s[i]] = f[s[i]]
    BY <1>1
  <1> QED BY <1>2 DEF Route

(* A node added behind the last one.                                       *)
LEMMA RouteAppend ==
    ASSUME NEW f, NEW M, NEW g, NEW s, NEW x, NEW y, NEW h, NEW n, Route(f, M, s, x, h),
           y = IF Len(s) = 0 THEN n ELSE x,
           g[n] = h,
           \A i \in 1..Len(s) : g[s[i]] = IF i = Len(s) THEN n ELSE f[s[i]]
    PROVE  Route(g, M \cup {n}, Append(s, n), y, h)
  <1> DEFINE t == Append(s, n)
  <1>1. Len(s) \in Nat /\ s \in Seq(M \cup {n})
    BY Places, SeqMonotonic DEF Route
  <1>2. /\ t \in Seq(M \cup {n}) /\ Len(t) = Len(s) + 1
        /\ \A i \in 1..Len(s) : t[i] = s[i]
        /\ t[Len(s) + 1] = n
    BY <1>1, AppendProperties
  <1> HIDE DEF t
  <1>3. y = IF Len(t) = 0 THEN h ELSE t[1]
    BY <1>1, <1>2 DEF Route
  <1>4. ASSUME NEW i \in 1..Len(t) PROVE g[t[i]] = IF i = Len(t) THEN h ELSE t[i + 1]
    <2>1. CASE i = Len(s) + 1
      BY <1>2, <2>1
    <2>2. CASE i = Len(s)
      <3>1. i \in 1..Len(s) /\ i # Len(t)
        BY <1>1, <1>2, <2>2
      <3> QED BY <1>2, <2>2, <3>1
    <2>3. CASE i # Len(s) + 1 /\ i # Len(s)
      <3>1. i \in 1..Len(s) /\ i + 1 \in 1..Len(s) /\ i # Len(t)
        BY <1>1, <1>2, <2>3
      <3>2. f[s[i]] = s[i + 1]
        BY <2>3, <3>1 DEF Route
      <3> QED BY <1>2, <2>3, <3>1, <3>2
    <2> QED BY <2>1, <2>2, <2>3
  <1> QED BY <1>2, <1>3, <1>4 DEF Route, t

LEMMA RemoveAtIs ==
    ASSUME NEW M, NEW s \in Seq(M), NEW i \in 1..Len(s)
    PROVE  /\ Len(s) \in Nat
           /\ RemoveAt(s, i) \in Seq(M)
           /\ Len(RemoveAt(s, i)) = Len(s) - 1
           /\ \A j \in 1..(Len(s) - 1) : RemoveAt(s, i)[j] = IF j < i THEN s[j] ELSE s[j + 1]
  <1> DEFINE n == Len(s)
             a == SubSeq(s, 1, i - 1)
             b == SubSeq(s, i + 1, n)
             t == RemoveAt(s, i)
  <1>1. n \in Nat /\ \A j \in 1..n : s[j] \in M
    BY LenProperties, ElementOfSeq
  <1>i. i \in 1..n
    OBVIOUS
  <1>t. t = a \o b
    BY DEF RemoveAt
  <1> HIDE DEF n, t
  <1>2. /\ a \in Seq(M) /\ Len(a) = i - 1
        /\ \A j \in 1..(i - 1) : a[j] = s[j]
    <2>1. \A j \in 1..(i - 1) : s[j] \in M
      BY <1>1, <1>i
    <2>2. 1 \in Int /\ i - 1 \in Int
      BY <1>i
    <2>3. /\ a \in Seq(M) /\ Len(a) = IF 1 <= i - 1 THEN i - 1 - 1 + 1 ELSE 0
          /\ \A j \in 1..(i - 1 - 1 + 1) : a[j] = s[1 + j - 1]
      BY <2>1, <2>2, SubSeqProperties
    <2> QED BY <1>1, <1>i, <2>3
  <1>3. /\ b \in Seq(M) /\ Len(b) = n - i
        /\ \A j \in 1..(n - i) : b[j] = s[i + j]
    <2>1. \A j \in (i + 1)..n : s[j] \in M
      BY <1>1, <1>i
    <2>2. i + 1 \in Int /\ n \in Int
      BY <1>1, <1>i
    <2>3. /\ b \in Seq(M) /\ Len(b) = IF i + 1 <= n THEN n - (i + 1) + 1 ELSE 0
          /\ \A j \in 1..(n - (i + 1) + 1) : b[j] = s[i + 1 + j - 1]
      BY <2>1, <2>2, SubSeqProperties
    <2> QED BY <1>1, <1>i, <2>3
  <1> HIDE DEF a, b
  <1>4. /\ t \in Seq(M) /\ Len(t) = Len(a) + Len(b)
        /\ \A j \in 1..(Len(a) + Len(b)) : t[j] = IF j <= Len(a) THEN a[j] ELSE b[j - Len(a)]
    BY <1>t, <1>2, <1>3, ConcatProperties
  <1>5. Len(t) = n - 1
    BY <1>1, <1>2, <1>3, <1>4, <1>i
  <1>6. ASSUME NEW j \in 1..(n - 1) PROVE t[j] = IF j < i THEN s[j] ELSE s[j + 1]
    <2>1. t[j] = IF j <= i - 1 THEN a[j] ELSE b[j - (i - 1)]
      BY <1>1, <1>2, <1>3, <1>4, <1>i
    <2>2. CASE j < i
      BY <1>2, <1>i, <2>1, <2>2
    <2>3. CASE ~ (j < i)
      <3>1. j - (i - 1) \in 1..(n - i) /\ i + (j - (i - 1)) = j + 1 /\ ~ (j <= i - 1)
        BY <1>1, <1>i, <2>3
      <3> QED BY <1>3, <2>1, <2>3, <3>1
    <2> QED BY <2>2, <2>3
  <1> QED BY <1>1, <1>4, <1>5, <1>6 DEF t, n

(* A node taken out.                                                       *)
LEMMA RouteRemove ==
    ASSUME NEW f, NEW M, NEW g, NEW s, NEW x, NEW y, NEW h, h \notin M, Route(f, M, s, x, h),
           NEW i \in 1..Len(s),
           y = IF i = 1 THEN f[s[1]] ELSE x,
           \A j \in 1..Len(s) : j # i => g[s[j]] = IF j = i - 1 THEN f[s[i]] ELSE f[s[j]]
    PROVE  Route(g, M \ {s[i]}, RemoveAt(s, i), y, h)
  <1> DEFINE n == Len(s)
             t == RemoveAt(s, i)
  <1>1. /\ n \in Nat /\ s \in Seq(M) /\ \A j \in 1..n : s[j] \in M
        /\ x = IF n = 0 THEN h ELSE s[1]
    BY Places DEF Route
  <1>2. /\ t \in Seq(M) /\ Len(t) = n - 1
        /\ \A j \in 1..(n - 1) : t[j] = IF j < i THEN s[j] ELSE s[j + 1]
    BY <1>1, RemoveAtIs
  <1>3. \A j \in 1..n : f[s[j]] = IF j = n THEN h ELSE s[j + 1]
    BY DEF Route
  <1>i. i \in 1..n
    OBVIOUS
  <1>d. \A j \in 1..n : s[j] = s[i] => j = i
    BY PathDistinct
  <1>g. \A j \in 1..n : j # i => g[s[j]] = IF j = i - 1 THEN f[s[i]] ELSE f[s[j]]
    OBVIOUS
  <1> HIDE DEF n, t
  <1>4. \A j \in 1..Len(t) : t[j] \in M \ {s[i]}
    <2> SUFFICES ASSUME NEW j \in 1..Len(t) PROVE t[j] \in M \ {s[i]}
      OBVIOUS
    <2>1. j \in 1..n /\ j + 1 \in 1..n /\ j \in 1..(n - 1)
      BY <1>1, <1>2, <1>i
    <2>2. j < i => s[j] \in M \ {s[i]}
      BY <1>1, <1>d, <1>i, <2>1
    <2>3. ~ (j < i) => s[j + 1] \in M \ {s[i]}
      BY <1>1, <1>d, <1>i, <2>1
    <2> QED BY <1>2, <2>1, <2>2, <2>3
  <1>5. t \in Seq(M \ {s[i]})
    <2>1. Len(t) \in Nat /\ t \in [1..Len(t) -> M]
      BY <1>2, LenProperties
    <2>2. t \in [1..Len(t) -> M \ {s[i]}]
      BY <2>1, <1>4
    <2> QED BY <2>1, <2>2
  <1>6. y = IF Len(t) = 0 THEN h ELSE t[1]
    <2>1. CASE i = 1
      <3>1. y = IF 1 = n THEN h ELSE s[1 + 1]
        BY <1>3, <1>i, <2>1
      <3>2. n # 1 => 1 \in 1..(n - 1)
        BY <1>1, <1>i
      <3>3. n # 1 => t[1] = s[1 + 1]
        BY <1>2, <2>1, <3>2
      <3> QED BY <1>1, <1>2, <1>i, <3>1, <3>3
    <2>2. CASE i # 1
      <3>1. n - 1 > 0 /\ 1 \in 1..(n - 1) /\ 1 < i
        BY <1>1, <1>i, <2>2
      <3>2. t[1] = s[1]
        BY <1>2, <3>1
      <3> QED BY <1>1, <1>2, <2>2, <3>1, <3>2
    <2> QED BY <2>1, <2>2
  <1>7. ASSUME NEW j \in 1..Len(t) PROVE g[t[j]] = IF j = Len(t) THEN h ELSE t[j + 1]
    <2>1. /\ j \in 1..n /\ j + 1 \in 1..n /\ j \in 1..(n - 1) /\ Len(t) = n - 1
          /\ j # n
      BY <1>1, <1>2, <1>i
    <2>2. j # Len(t) => j + 1 \in 1..(n - 1) /\ (j + 1) + 1 \in 1..n /\ j + 1 # n
      BY <1>1, <2>1
    <2>3. CASE j + 1 = i
      <3>1. t[j] = s[j] /\ g[s[j]] = f[s[i]]
        BY <1>2, <1>g, <1>i, <2>1, <2>3
      <3>2. f[s[i]] = IF i = n THEN h ELSE s[i + 1]
        BY <1>3, <1>i
      <3>3. j # Len(t) => t[j + 1] = s[i + 1]
        BY <1>2, <1>i, <2>2, <2>3
      <3>4. j = Len(t) <=> i = n
        BY <1>1, <1>i, <2>1, <2>3
      <3> QED BY <3>1, <3>2, <3>3, <3>4
    <2>4. CASE j + 1 < i
      <3>1. t[j] = s[j] /\ g[s[j]] = f[s[j]] /\ f[s[j]] = s[j + 1]
        BY <1>2, <1>3, <1>g, <1>i, <2>1, <2>4
      <3>2. j # Len(t) /\ j < i
        BY <1>1, <1>i, <2>1, <2>4
      <3>3. t[j + 1] = s[j + 1]
        BY <1>2, <2>2, <2>4, <3>2
      <3> QED BY <3>1, <3>2, <3>3
    <2>5. CASE j >= i
      <3>1. t[j] = s[j + 1] /\ g[s[j + 1]] = f[s[j + 1]]
        BY <1>2, <1>g, <1>i, <2>1, <2>5
      <3>2. f[s[j + 1]] = IF j + 1 = n THEN h ELSE s[(j + 1) + 1]
        BY <1>3, <2>1
      <3>3. j # Len(t) => t[j + 1] = s[(j + 1) + 1]
        BY <1>2, <1>i, <2>2, <2>5
      <3>4. j = Len(t) <=> j + 1 = n
        BY <1>1, <2>1
      <3> QED BY <3>1, <3>2, <3>3, <3>4
    <2> QED BY <1>i, <2>1, <2>3, <2>4, <2>5
  <1> QED BY <1>5, <1>6, <1>7 DEF Route, t

(* What comes behind a node does not change when it is taken out.          *)
LEMMA RestAfterRemove ==
    ASSUME NEW M, NEW s \in Seq(M), NEW i \in 1..Len(s)
    PROVE  SubSeq(RemoveAt(s, i), i, Len(RemoveAt(s, i))) = SubSeq(s, i + 1, Len(s))
  <1> DEFINE n == Len(s)
             t == RemoveAt(s, i)
             a == SubSeq(t, i, n - 1)
             b == SubSeq(s, i + 1, n)
  <1>1. n \in Nat /\ \A j \in 1..n : s[j] \in M
    BY LenProperties, ElementOfSeq
  <1>i. i \in 1..n
    OBVIOUS
  <1>2. /\ t \in Seq(M) /\ Len(t) = n - 1
        /\ \A j \in 1..(n - 1) : t[j] = IF j < i THEN s[j] ELSE s[j + 1]
    BY RemoveAtIs
  <1> HIDE DEF n, t
  <1>3. \A j \in 1..(n - 1) : t[j] \in M
    BY <1>2, ElementOfSeq
  <1>4. /\ a \in Seq(M) /\ Len(a) = n - i
        /\ \A j \in 1..(n - i) : a[j] = t[(i + j) - 1]
    <2>1. \A j \in i..(n - 1) : t[j] \in M
      BY <1>1, <1>3, <1>i
    <2>2. i \in Int /\ n - 1 \in Int
      BY <1>1, <1>i
    <2>3. /\ a \in Seq(M) /\ Len(a) = IF i <= n - 1 THEN n - 1 - i + 1 ELSE 0
          /\ \A j \in 1..(n - 1 - i + 1) : a[j] = t[i + j - 1]
      BY <2>1, <2>2, SubSeqProperties
    <2> QED BY <1>1, <1>i, <2>3
  <1>5. /\ b \in Seq(M) /\ Len(b) = n - i
        /\ \A j \in 1..(n - i) : b[j] = s[i + j]
    <2>1. \A j \in (i + 1)..n : s[j] \in M
      BY <1>1, <1>i
    <2>2. i + 1 \in Int /\ n \in Int
      BY <1>1, <1>i
    <2>3. /\ b \in Seq(M) /\ Len(b) = IF i + 1 <= n THEN n - (i + 1) + 1 ELSE 0
          /\ \A j \in 1..(n - (i + 1) + 1) : b[j] = s[i + 1 + j - 1]
      BY <2>1, <2>2, SubSeqProperties
    <2> QED BY <1>1, <1>i, <2>3
  <1> HIDE DEF a, b
  <1>6. ASSUME NEW j \in 1..(n - i) PROVE a[j] = b[j]
    <2>1. (i + j) - 1 \in 1..(n - 1) /\ ~ ((i + j) - 1 < i) /\ ((i + j) - 1) + 1 = i + j
      BY <1>1, <1>i
    <2> QED BY <1>2, <1>4, <1>5, <2>1
  <1>7. a = b
    BY <1>4, <1>5, <1>6, SeqEqual
  <1> QED BY <1>2, <1>7 DEF a, b, n, t

-----------------------------------------------------------------------------
(* The paths of the lists                                                  *)

LEMMA RestIs ==
    ASSUME NEW f, NEW M, NEW s, NEW x, NEW h, h \notin M, IsFiniteSet(M), Route(f, M, s, x, h),
           NEW i \in 1..(Len(s) + 1), NEW y, y = IF i = Len(s) + 1 THEN h ELSE s[i]
    PROVE  Sought(f, M, y, h) = SubSeq(s, i, Len(s))
  <1>1. Route(f, M, SubSeq(s, i, Len(s)), y, h)
    BY RestOfPath
  <1> QED BY <1>1, SoughtIs

(* The nodes of a list, all of them, in the order in which the pointers    *)
(* lead to them.                                                           *)
Covers(M, s) == \A m \in M : \E i \in 1..Len(s) : s[i] = m
Runs(s, h) == Route(next, Members(h), s, next[h], h) /\ Covers(Members(h), s)

(* Each live head has one, and a head that is not in use has no nodes.     *)
PathInv == \A h \in Heads : IF h \in Live THEN \E s : Runs(s, h) ELSE Members(h) = {}
PInv == IInv /\ PathInv

(* The paths of all heads in a function.                                   *)
Laid(p) ==
    /\ p = [h \in Heads |-> p[h]]
    /\ \A h \in Heads : IF h \in Live THEN Runs(p[h], h) ELSE p[h] = <<>> /\ Members(h) = {}

LEMMA AllPaths == PathInv <=> \E p : Laid(p)
  <1>1. ASSUME PathInv PROVE \E p : Laid(p)
    <2> DEFINE p == [h \in Heads |-> IF h \in Live THEN CHOOSE s : Runs(s, h) ELSE <<>>]
    <2>1. p = [h \in Heads |-> p[h]]
      OBVIOUS
    <2>2. \A h \in Heads : IF h \in Live THEN Runs(p[h], h) ELSE p[h] = <<>> /\ Members(h) = {}
      BY <1>1 DEF PathInv
    <2> HIDE DEF p
    <2>3. Laid(p)
      BY <2>1, <2>2 DEF Laid
    <2> QED BY <2>3
  <1>2. ASSUME NEW p, Laid(p) PROVE PathInv
    BY <1>2 DEF Laid, PathInv
  <1> QED BY <1>1, <1>2

LEMMA MembersFinite == \A h \in Heads : allocated \subseteq Nodes => IsFiniteSet(Members(h)) /\ h \notin Members(h)
  BY CircularListAssumption, FS_Subset DEF Members

LEMMA FromIs == \A x, h : From(x, h) = Sought(next, Members(h), x, h)
  BY DEF From, Paths, IsPath, Sought

(* Lists is that function.                                                 *)
ListsRead == \A p : IInv /\ Laid(p) => Lists = p

LEMMA ListIs ==
    ASSUME NEW h \in Heads, NEW s, IInv, h \in Live, Runs(s, h)
    PROVE  List(h) = s
  <1>1. allocated \subseteq Nodes
    BY DEF IInv, RingInv, PointersOK
  <1> QED BY <1>1, MembersFinite, FromIs, SoughtIs DEF List, Runs

LEMMA ListsAre == ListsRead
  <1> SUFFICES ASSUME NEW p, IInv, Laid(p) PROVE Lists = p
    BY DEF ListsRead
  <1>1. ASSUME NEW h \in Heads PROVE List(h) = p[h]
    <2>1. CASE h \in Live
      BY <2>1, ListIs DEF Laid
    <2>2. CASE h \notin Live
      BY <2>2 DEF Laid, List
    <2> QED BY <2>1, <2>2
  <1>2. p = [h \in Heads |-> p[h]]
    BY DEF Laid
  <1> QED BY <1>1, <1>2, Zenon DEF Lists

(* Where prev leads from a node, and from the head.                        *)
LEMMA PrevOnPath ==
    ASSUME RingInv, NEW h \in Heads, h \in Live, NEW s, Runs(s, h)
    PROVE  /\ prev[h] = IF Len(s) = 0 THEN h ELSE s[Len(s)]
           /\ \A i \in 1..Len(s) : prev[s[i]] = IF i = 1 THEN h ELSE s[i - 1]
  <1>1. /\ Len(s) \in Nat /\ \A i \in 1..Len(s) : s[i] \in Members(h)
        /\ next[h] = IF Len(s) = 0 THEN h ELSE s[1]
        /\ \A i \in 1..Len(s) : next[s[i]] = IF i = Len(s) THEN h ELSE s[i + 1]
    BY Places DEF Runs, Route
  <1>2. \A i \in 1..Len(s) : s[i] \in Live
    BY <1>1 DEF Members, Live
  <1>3. \A x \in Live : prev[next[x]] = x
    BY DEF RingInv, RingClosed
  <1>4. prev[h] = IF Len(s) = 0 THEN h ELSE s[Len(s)]
    <2>1. CASE Len(s) = 0
      BY <1>1, <1>3, <2>1
    <2>2. CASE Len(s) # 0
      <3>1. Len(s) \in 1..Len(s)
        BY <1>1, <2>2
      <3>2. next[s[Len(s)]] = h
        BY <1>1, <3>1
      <3> QED BY <1>2, <1>3, <2>2, <3>1, <3>2
    <2> QED BY <2>1, <2>2
  <1>5. ASSUME NEW i \in 1..Len(s) PROVE prev[s[i]] = IF i = 1 THEN h ELSE s[i - 1]
    <2>1. CASE i = 1
      BY <1>1, <1>3, <2>1
    <2>2. CASE i # 1
      <3>1. i - 1 \in 1..Len(s) /\ i - 1 # Len(s) /\ (i - 1) + 1 = i
        BY <1>1, <2>2
      <3>2. next[s[i - 1]] = s[i]
        BY <1>1, <3>1
      <3> QED BY <1>2, <1>3, <2>2, <3>1, <3>2
    <2> QED BY <2>1, <2>2
  <1> QED BY <1>4, <1>5

(* list_add puts the node behind the last one.                             *)
LEMMA AddPath ==
    ASSUME RingInv, NEW h \in Heads, NEW n \in Nodes, ListAdd(h, n), NEW s, Runs(s, h)
    PROVE  Runs(Append(s, n), h)'
  <1> DEFINE M == Members(h)
  <1>1. /\ h \in Live /\ n \notin allocated /\ allocated \subseteq Nodes
        /\ h \in Links /\ h # n /\ h \notin M /\ n \in Links /\ n \notin M /\ M \subseteq Links
    BY CircularListAssumption DEF ListAdd, Members, RingInv, PointersOK, Links
  <1>2. /\ \A x \in Links : next'[x] = IF x = prev[h] THEN n ELSE IF x = n THEN h ELSE next[x]
        /\ Members(h)' = M \cup {n}
    BY AddChanges
  <1>3. prev[h] = IF Len(s) = 0 THEN h ELSE s[Len(s)]
    BY <1>1, PrevOnPath
  <1>4. Route(next, M, s, next[h], h) /\ Covers(M, s)
    BY DEF Runs
  <1> HIDE DEF M
  <1>5. Len(s) \in Nat /\ \A i \in 1..Len(s) : s[i] \in M
    BY <1>4, Places
  <1>6. next'[h] = IF Len(s) = 0 THEN n ELSE next[h]
    <2>1. Len(s) # 0 => Len(s) \in 1..Len(s)
      BY <1>5
    <2> QED BY <1>1, <1>2, <1>3, <1>5, <2>1
  <1>7. next'[n] = h
    <2>1. Len(s) # 0 => Len(s) \in 1..Len(s)
      BY <1>5
    <2> QED BY <1>1, <1>2, <1>3, <1>5, <2>1
  <1>8. ASSUME NEW i \in 1..Len(s)
        PROVE  next'[s[i]] = IF i = Len(s) THEN n ELSE next[s[i]]
    <2>1. Len(s) \in 1..Len(s)
      BY <1>5
    <2>2. s[i] = s[Len(s)] => i = Len(s)
      BY <1>1, <1>4, <2>1, PathDistinct
    <2> QED BY <1>1, <1>2, <1>3, <1>5, <2>1, <2>2
  <1>9. Route(next', M \cup {n}, Append(s, n), next'[h], h)
    <2> DEFINE f == next
               g == next'
               x == next[h]
               y == next'[h]
    <2>1. Route(f, M, s, x, h) /\ y = (IF Len(s) = 0 THEN n ELSE x) /\ g[n] = h
      BY <1>4, <1>6, <1>7
    <2>2. \A i \in 1..Len(s) : g[s[i]] = IF i = Len(s) THEN n ELSE f[s[i]]
      BY <1>8
    <2> HIDE DEF f, g, x, y
    <2>3. Route(g, M \cup {n}, Append(s, n), y, h)
      BY <2>1, <2>2, RouteAppend
    <2> QED BY <2>3 DEF g, y
  <1>10. Covers(M \cup {n}, Append(s, n))
    <2>1. s \in Seq(M \cup {n})
      BY <1>4, SeqMonotonic DEF Route
    <2>2. /\ Len(Append(s, n)) = Len(s) + 1 /\ Append(s, n)[Len(s) + 1] = n
          /\ \A i \in 1..Len(s) : Append(s, n)[i] = s[i]
      BY <2>1, AppendProperties
    <2>3. Len(s) + 1 \in 1..(Len(s) + 1) /\ \A i \in 1..Len(s) : i \in 1..(Len(s) + 1)
      BY <1>5
    <2> QED BY <1>4, <2>2, <2>3 DEF Covers
  <1> QED BY <1>2, <1>9, <1>10 DEF Runs

(* list_remove takes it from its place.                                    *)
LEMMA RemovePath ==
    ASSUME RingInv, NEW h \in Heads, h \in Live, NEW s, Runs(s, h),
           NEW i \in 1..Len(s), RemoveFree(s[i])
    PROVE  Runs(RemoveAt(s, i), h)'
  <1> DEFINE M == Members(h)
             n == s[i]
  <1>1. Route(next, M, s, next[h], h) /\ Covers(M, s)
    BY DEF Runs
  <1>2. Len(s) \in Nat /\ \A j \in 1..Len(s) : s[j] \in M
    BY <1>1, Places
  <1>3. n \in allocated
    BY <1>2 DEF Members
  <1>4. /\ h \in Links /\ h \notin M /\ M \subseteq Links /\ h # n
    BY <1>2, CircularListAssumption DEF Members, RingInv, PointersOK, Links
  <1>5. /\ \A x \in Links : next'[x] = IF x = n THEN NoLink
                                       ELSE IF x = prev[n] THEN next[n] ELSE next[x]
        /\ Members(h)' = M \ {n}
    BY <1>3, RemoveChanges
  <1>6. prev[n] = IF i = 1 THEN h ELSE s[i - 1]
    BY PrevOnPath
  <1>7. \A j, k \in 1..Len(s) : s[j] = s[k] => j = k
    BY <1>1, <1>4, PathDistinct
  <1>8. i # 1 => i - 1 \in 1..Len(s)
    BY <1>2
  <1>d. n = s[i]
    OBVIOUS
  <1> HIDE DEF M, n
  <1>9. next'[h] = IF i = 1 THEN next[s[1]] ELSE next[h]
    BY <1>2, <1>4, <1>5, <1>6, <1>8, <1>d
  <1>10. ASSUME NEW j \in 1..Len(s), j # i
         PROVE  next'[s[j]] = IF j = i - 1 THEN next[s[i]] ELSE next[s[j]]
    <2>1. s[j] # n /\ s[j] \in Links /\ s[j] # h
      BY <1>2, <1>4, <1>7, <1>10, <1>d
    <2>2. CASE i = 1
      <3>1. j # i - 1
        BY <1>2, <2>2
      <3> QED BY <1>5, <1>6, <2>1, <2>2, <3>1
    <2>3. CASE i # 1
      <3>1. s[j] = s[i - 1] <=> j = i - 1
        BY <1>7, <1>8, <2>3
      <3> QED BY <1>5, <1>6, <1>d, <2>1, <2>3, <3>1
    <2> QED BY <2>2, <2>3
  <1>11. Route(next', M \ {n}, RemoveAt(s, i), next'[h], h)
    BY <1>1, <1>4, <1>9, <1>10, <1>d, RouteRemove
  <1>12. Covers(M \ {n}, RemoveAt(s, i))
    <2> SUFFICES ASSUME NEW m \in M \ {n}
                 PROVE  \E j \in 1..Len(RemoveAt(s, i)) : RemoveAt(s, i)[j] = m
      BY DEF Covers
    <2>1. /\ Len(RemoveAt(s, i)) = Len(s) - 1
          /\ \A j \in 1..(Len(s) - 1) : RemoveAt(s, i)[j] = IF j < i THEN s[j] ELSE s[j + 1]
      BY <1>1, RemoveAtIs DEF Route
    <2>2. PICK j \in 1..Len(s) : s[j] = m
      BY <1>1 DEF Covers
    <2>3. j # i
      BY <2>2, <1>d
    <2>4. CASE j < i
      <3>1. j \in 1..(Len(s) - 1)
        BY <1>2, <2>4
      <3> QED BY <2>1, <2>2, <2>4, <3>1
    <2>5. CASE j > i
      <3>1. j - 1 \in 1..(Len(s) - 1) /\ ~ (j - 1 < i) /\ (j - 1) + 1 = j
        BY <1>2, <2>5
      <3> QED BY <2>1, <2>2, <3>1
    <2> QED BY <1>2, <2>3, <2>4, <2>5
  <1> QED BY <1>5, <1>11, <1>12, <1>d DEF Runs

(* A list whose pointers do not change.                                    *)
LEMMA PathStays ==
    ASSUME NEW h, NEW s, Runs(s, h), Members(h)' = Members(h), next'[h] = next[h],
           \A m \in Members(h) : next'[m] = next[m]
    PROVE  Runs(s, h)'
  <1>1. Route(next', Members(h)', s, next'[h], h)
    BY RouteSame DEF Runs
  <1> QED BY <1>1 DEF Runs

(* Nor do those of the other lists.                                        *)
LEMMA OthersAfterAdd ==
    ASSUME RingInv, NEW h \in Heads, NEW n \in Nodes, ListAdd(h, n),
           NEW k \in Heads, k # h, NEW s, Runs(s, k)
    PROVE  Runs(s, k)'
  <1>1. h \in Live /\ n \notin allocated /\ k # n /\ k \in Links
    BY CircularListAssumption DEF ListAdd, Links
  <1>2. prev[h] \in {h} \cup Members(h)
    BY <1>1 DEF RingInv, HeadsLead
  <1>3. k # prev[h] /\ \A m \in Members(k) : m # prev[h] /\ m # n /\ m \in Links
    BY <1>1, <1>2, CircularListAssumption DEF Members, RingInv, PointersOK, Links
  <1>4. /\ \A x \in Links : next'[x] = IF x = prev[h] THEN n ELSE IF x = n THEN h ELSE next[x]
        /\ Members(k)' = Members(k)
    BY AddChanges
  <1> QED BY <1>1, <1>3, <1>4, PathStays

LEMMA OthersAfterRemove ==
    ASSUME RingInv, NEW n \in allocated, RemoveFree(n),
           NEW k \in Heads, k # list_of[n], NEW s, Runs(s, k)
    PROVE  Runs(s, k)'
  <1>1. prev[n] \in {list_of[n]} \cup Members(list_of[n])
    BY PrevInList
  <1>2. /\ k \in Links /\ k # n /\ k # prev[n] /\ n \notin Members(k)
        /\ \A m \in Members(k) : m \in Links /\ m # n /\ m # prev[n]
    BY <1>1, CircularListAssumption DEF Members, RingInv, PointersOK, Links, Added
  <1>3. /\ \A x \in Links : next'[x] = IF x = n THEN NoLink
                                       ELSE IF x = prev[n] THEN next[n] ELSE next[x]
        /\ Members(k)' = Members(k) \ {n}
    BY RemoveChanges
  <1>4. /\ Members(k)' = Members(k) /\ next'[k] = next[k]
        /\ \A m \in Members(k) : next'[m] = next[m]
    BY <1>2, <1>3
  <1> QED BY <1>4, PathStays

-----------------------------------------------------------------------------
(* What a walk has still to see                                            *)

(* The place of a walk on the path of its list, and what it has left.      *)
At(s, i) ==
    /\ walk.kind # "none" => Runs(s, walk.head)
    /\ walk.kind = "top" =>
          /\ i \in 1..(Len(s) + 1)
          /\ walk.current = IF i = Len(s) + 1 THEN walk.head ELSE s[i]
    /\ walk.kind = "body" =>
          /\ i \in 1..Len(s)
          /\ walk.current = s[i]
          /\ walk.next = IF i = Len(s) THEN walk.head ELSE s[i + 1]
Rest(s, i) ==
    IF walk.kind = "none" THEN <<>>
    ELSE IF walk.kind = "free" THEN s ELSE SubSeq(s, i, Len(s))

LEMMA TopSees ==
    ASSUME NEW h \in Heads, NEW s, NEW i \in 1..(Len(s) + 1)
    PROVE  allocated \subseteq Nodes /\ Runs(s, h) /\ walk.kind = "top" /\ walk.head = h
              /\ walk.current = (IF i = Len(s) + 1 THEN h ELSE s[i])
           => ToSee = SubSeq(s, i, Len(s))
  <1> SUFFICES ASSUME allocated \subseteq Nodes, Runs(s, h), walk.kind = "top", walk.head = h,
                      walk.current = (IF i = Len(s) + 1 THEN h ELSE s[i])
               PROVE  ToSee = SubSeq(s, i, Len(s))
    OBVIOUS
  <1>1. ToSee = Sought(next, Members(h), walk.current, h)
    BY FromIs DEF ToSee
  <1>2. IsFiniteSet(Members(h)) /\ h \notin Members(h) /\ Route(next, Members(h), s, next[h], h)
    BY MembersFinite DEF Runs
  <1> QED BY <1>1, <1>2, RestIs

LEMMA BodySees ==
    ASSUME NEW h \in Heads, NEW s, NEW i \in 1..Len(s)
    PROVE  allocated \subseteq Nodes /\ Runs(s, h) /\ walk.kind = "body" /\ walk.head = h
              /\ walk.current = s[i] /\ walk.next = (IF i = Len(s) THEN h ELSE s[i + 1])
           => ToSee = SubSeq(s, i, Len(s))
  <1> SUFFICES ASSUME allocated \subseteq Nodes, Runs(s, h), walk.kind = "body", walk.head = h,
                      walk.current = s[i], walk.next = (IF i = Len(s) THEN h ELSE s[i + 1])
               PROVE  ToSee = SubSeq(s, i, Len(s))
    OBVIOUS
  <1>1. ToSee = <<s[i]>> \o Sought(next, Members(h), walk.next, h)
    BY FromIs DEF ToSee
  <1>2. IsFiniteSet(Members(h)) /\ h \notin Members(h) /\ Route(next, Members(h), s, next[h], h)
    BY MembersFinite DEF Runs
  <1>3. Len(s) \in Nat /\ s \in Seq(Members(h))
    BY <1>2, Places DEF Route
  <1>4. i + 1 \in 1..(Len(s) + 1) /\ (i = Len(s) <=> i + 1 = Len(s) + 1) /\ Len(s) \in i..Len(s)
    BY <1>3
  <1>5. Sought(next, Members(h), walk.next, h) = SubSeq(s, i + 1, Len(s))
    <2>1. walk.next = IF i + 1 = Len(s) + 1 THEN h ELSE s[i + 1]
      BY <1>4
    <2> QED BY <1>2, <1>4, <2>1, RestIs
  <1>6. SubSeq(s, i, Len(s)) = <<s[i]>> \o SubSeq(s, i + 1, Len(s))
    BY <1>3, <1>4, SubSeqRecursiveFirst
  <1> QED BY <1>1, <1>5, <1>6

(* ToSee is the rest of the path.                                          *)
WalksRead == \A s, i : IInv /\ At(s, i) => ToSee = Rest(s, i)

LEMMA WalkIs == WalksRead
  <1> SUFFICES ASSUME NEW s, NEW i, IInv, At(s, i) PROVE ToSee = Rest(s, i)
    BY DEF WalksRead
  <1>1. allocated \subseteq Nodes
    BY DEF IInv, RingInv, PointersOK
  <1>2. walk.kind # "none" => walk.head \in Heads /\ walk.head \in Live /\ Runs(s, walk.head)
    BY DEF IInv, WalkInv, At
  <1>3. CASE walk.kind = "none"
    BY <1>3 DEF ToSee, Rest
  <1>4. CASE walk.kind = "free"
    BY <1>2, <1>4, ListIs DEF ToSee, Rest
  <1>5. CASE walk.kind = "top"
    BY <1>1, <1>2, <1>5, TopSees DEF At, Rest
  <1>6. CASE walk.kind = "body"
    BY <1>1, <1>2, <1>6, BodySees DEF At, Rest
  <1> QED BY <1>3, <1>4, <1>5, <1>6 DEF IInv, WalkInv

LEMMA ReadNow == ListsRead /\ WalksRead /\ ListsRead' /\ WalksRead'
  BY ListsAre, WalkIs, PTL

(* A walk is somewhere on the path of its list.                            *)
LEMMA WalkSomewhere ==
    ASSUME IInv, NEW s, walk.kind # "none" => Runs(s, walk.head)
    PROVE  \E i : At(s, i)
  <1> DEFINE h == walk.head
  <1>1. CASE walk.kind \in {"none", "free"}
    BY <1>1 DEF At
  <1>2. CASE walk.kind \notin {"none", "free"}
    <2>1. h \in Heads /\ h \in Live /\ Runs(s, h)
      BY <1>2 DEF IInv, WalkInv
    <2>2. Route(next, Members(h), s, next[h], h) /\ Covers(Members(h), s)
      BY <2>1 DEF Runs
    <2>3. Len(s) \in Nat /\ \A i \in 1..Len(s) : next[s[i]] = IF i = Len(s) THEN h ELSE s[i + 1]
      BY <2>2, Places DEF Route
    <2>4. CASE walk.kind = "top"
      <3>1. walk.current \in {h} \cup Members(h)
        BY <2>4 DEF IInv, WalkInv
      <3>2. PICK i \in 1..(Len(s) + 1) : walk.current = IF i = Len(s) + 1 THEN h ELSE s[i]
        <4>1. CASE walk.current = h
          <5>1. Len(s) + 1 \in 1..(Len(s) + 1)
            BY <2>3
          <5> QED BY <4>1, <5>1
        <4>2. CASE walk.current \in Members(h)
          <5>1. PICK i \in 1..Len(s) : s[i] = walk.current
            BY <2>2, <4>2 DEF Covers
          <5>2. i \in 1..(Len(s) + 1) /\ i # Len(s) + 1
            BY <2>3
          <5> QED BY <5>1, <5>2
        <4> QED BY <3>1, <4>1, <4>2
      <3> QED BY <2>1, <2>4, <3>2 DEF At
    <2>5. CASE walk.kind = "body"
      <3>1. walk.current \in Members(h) /\ walk.next = next[walk.current]
        BY <2>5 DEF IInv, WalkInv
      <3>2. PICK i \in 1..Len(s) : s[i] = walk.current
        BY <2>2, <3>1 DEF Covers
      <3>3. walk.next = IF i = Len(s) THEN h ELSE s[i + 1]
        BY <2>3, <3>1, <3>2
      <3> QED BY <2>1, <2>5, <3>2, <3>3 DEF At
    <2> QED BY <1>2, <2>4, <2>5 DEF IInv, WalkInv
  <1> QED BY <1>1, <1>2

(* While its list stays as it is, it has the same to see.                  *)
LEMMA WalkStays ==
    ASSUME IInv, IInv', walk' = walk,
           walk.kind # "none" => \E s : Runs(s, walk.head) /\ Runs(s, walk.head)'
    PROVE  ToSee' = ToSee
  <1> DEFINE h == walk.head
  <1>1. CASE walk.kind = "none"
    BY <1>1 DEF ToSee
  <1>2. CASE walk.kind # "none"
    <2>1. PICK s : Runs(s, h) /\ Runs(s, h)'
      BY <1>2
    <2>2. PICK i : At(s, i)
      BY <2>1, WalkSomewhere
    <2>3. Runs(s, walk.head)'
      BY <2>1 DEF Runs
    <2>4. At(s, i)' /\ Rest(s, i)' = Rest(s, i)
      BY <2>2, <2>3 DEF At, Rest
    <2> QED BY <2>2, <2>4, ReadNow DEF WalksRead
  <1> QED BY <1>1, <1>2

Mapped == <<Lists, walk.head, ToSee>>

LEMMA ListsNow ==
    ASSUME IInv, NEW p, Laid(p)
    PROVE  Lists = p
  BY ListsAre DEF ListsRead

LEMMA ListsThen ==
    ASSUME IInv', NEW q, Laid(q)'
    PROVE  PathInv' /\ Lists' = q
  <1>1. Lists' = q
    BY ReadNow DEF ListsRead
  <1>2. PathInv'
    BY DEF Laid, PathInv
  <1> QED BY <1>1, <1>2

(* The elements of a path are nodes of its list.                           *)
LEMMA PathMembers ==
    ASSUME NEW s, NEW h, Runs(s, h)
    PROVE  /\ Len(s) \in Nat /\ s \in Seq(Members(h)) /\ \A i \in 1..Len(s) : s[i] \in Members(h)
           /\ next[h] = IF Len(s) = 0 THEN h ELSE s[1]
           /\ \A i \in 1..Len(s) : next[s[i]] = IF i = Len(s) THEN h ELSE s[i + 1]
           /\ \A m \in Members(h) : \E i \in 1..Len(s) : s[i] = m
  BY Places DEF Runs, Route, Covers

LEMMA PathEmpty ==
    ASSUME NEW s, NEW h \in Heads, allocated \subseteq Nodes, Runs(s, h)
    PROVE  (next[h] = h <=> s = <<>>) /\ (s = <<>> <=> Members(h) = {})
  <1>1. h \notin Members(h)
    BY MembersFinite
  <1>2. /\ Len(s) \in Nat /\ s \in Seq(Members(h)) /\ \A i \in 1..Len(s) : s[i] \in Members(h)
        /\ next[h] = IF Len(s) = 0 THEN h ELSE s[1]
        /\ \A m \in Members(h) : \E i \in 1..Len(s) : s[i] = m
    BY PathMembers
  <1>3. Len(s) = 0 <=> s = <<>>
    BY <1>2, EmptySeq
  <1>4. Len(s) # 0 => 1 \in 1..Len(s)
    BY <1>2
  <1> QED BY <1>1, <1>2, <1>3, <1>4

-----------------------------------------------------------------------------
(* The steps                                                               *)

(* A step that leaves the nodes and the pointers of each list and the walk *)
(* as they are, but perhaps takes a head in or out of use.                 *)
LEMMA HeadSeen ==
    ASSUME PInv, IInv', NEW h \in Heads, NEW p, Laid(p),
           allocated' = allocated, list_of' = list_of, walk' = walk, h # walk.head,
           \A x \in Links \ {h} : next'[x] = next[x],
           Live' \in {Live \cup {h}, Live \ {h}},
           h \in Live => next[h] = h,
           (h \in Live)' => next'[h] = h
    PROVE  PathInv' /\ UNCHANGED Mapped
  <1> USE DEF PInv
  <1>1. allocated \subseteq Nodes /\ h \in Links /\ h # NoLink
    BY CircularListAssumption DEF IInv, RingInv, PointersOK, Links
  <1>2. \A k \in Heads : Members(k)' = Members(k) /\ Members(k) \subseteq Links \ {h}
    BY <1>1, CircularListAssumption DEF Members, Links
  <1>3. Members(h) = {} /\ p[h] = <<>>
    BY <1>1, PathEmpty DEF Laid
  <1>4. (h \in Live)' => Runs(<<>>, h)'
    <2> SUFFICES ASSUME (h \in Live)' PROVE Runs(<<>>, h)'
      OBVIOUS
    <2>1. Route(next', {}, <<>>, next'[h], h)
      BY <1>1, EmptySeq DEF Route
    <2> QED BY <1>2, <1>3, <2>1 DEF Runs, Covers
  <1>5. ASSUME NEW k \in Heads, k # h, Runs(p[k], k) PROVE Runs(p[k], k)'
    <2>1. next'[k] = next[k]
      BY <1>5 DEF Links
    <2> QED BY <1>2, <1>5, <2>1, PathStays
  <1>6. Laid(p)'
    <2> SUFFICES ASSUME NEW k \in Heads
                 PROVE  IF (k \in Live)' THEN Runs(p[k], k)' ELSE p[k] = <<>> /\ Members(k)' = {}
      BY DEF Laid
    <2>1. CASE k = h
      BY <1>2, <1>3, <1>4, <2>1
    <2>2. CASE k # h
      <3>1. (k \in Live)' <=> k \in Live
        BY <2>2
      <3> QED BY <1>2, <1>5, <2>2, <3>1 DEF Laid
    <2> QED BY <2>1, <2>2
  <1>7. PathInv' /\ Lists' = Lists
    BY <1>6, ListsNow, ListsThen
  <1>8. ToSee' = ToSee
    <2>1. ASSUME walk.kind # "none" PROVE Runs(p[walk.head], walk.head) /\ Runs(p[walk.head], walk.head)'
      <3>1. walk.head \in Heads /\ walk.head \in Live
        BY <2>1 DEF IInv, WalkInv
      <3>2. Runs(p[walk.head], walk.head)
        BY <3>1 DEF Laid
      <3>3. next'[walk.head] = next[walk.head] /\ \A m \in Members(walk.head) : next'[m] = next[m]
        BY <1>2, <3>1 DEF Links
      <3>4. Route(next', Members(walk.head)', p[walk.head], next'[walk.head], walk.head)
        BY <1>2, <3>1, <3>2, <3>3, RouteSame DEF Runs
      <3> QED BY <3>2, <3>4, <1>2, <3>1 DEF Runs
    <2> QED BY <2>1, WalkStays
  <1> QED BY <1>7, <1>8 DEF Mapped

(* What a step does to the paths when it adds a node, ...                  *)
LEMMA AddLaid ==
    ASSUME PInv, NEW h \in Heads, NEW n \in Nodes, ListAdd(h, n), NEW p, Laid(p)
    PROVE  Laid([p EXCEPT ![h] = Append(p[h], n)])'
  <1> DEFINE q == [p EXCEPT ![h] = Append(p[h], n)]
  <1> USE DEF PInv, IInv
  <1>1. p = [k \in Heads |-> p[k]]
    BY DEF Laid
  <1>2. /\ q = [k \in Heads |-> q[k]] /\ q[h] = Append(p[h], n)
        /\ \A k \in Heads : k # h => q[k] = p[k]
    BY <1>1
  <1>3. h \in Live /\ n \notin Heads
    BY CircularListAssumption DEF ListAdd
  <1>4. /\ Live' = Live \cup {n}
        /\ \A k \in Heads : Members(k)' = IF k = h THEN Members(k) \cup {n} ELSE Members(k)
    BY AddChanges
  <1> HIDE DEF q
  <1>5. Runs(q[h], h)'
    <2>1. Runs(p[h], h)
      BY <1>3 DEF Laid
    <2>2. Runs(Append(p[h], n), h)'
      BY <2>1, AddPath
    <2> QED BY <1>2, <2>2
  <1>6. ASSUME NEW k \in Heads
        PROVE  IF (k \in Live)' THEN Runs(q[k], k)' ELSE q[k] = <<>> /\ Members(k)' = {}
    <2>1. CASE k = h
      BY <1>3, <1>4, <1>5, <2>1
    <2>2. CASE k # h
      <3>1. ((k \in Live)' <=> k \in Live) /\ q[k] = p[k] /\ Members(k)' = Members(k)
        BY <1>2, <1>3, <1>4, <2>2
      <3>2. k \in Live => Runs(p[k], k)'
        BY <2>2, OthersAfterAdd DEF Laid
      <3> QED BY <3>1, <3>2 DEF Laid
    <2> QED BY <2>1, <2>2
  <1>7. Laid(q)'
    BY <1>2, <1>6 DEF Laid
  <1> QED BY <1>7 DEF q

(* ... and when it takes one out.                                          *)
LEMMA RemoveLaid ==
    ASSUME PInv, NEW h \in Heads, h \in Live, NEW p, Laid(p),
           NEW i \in 1..Len(p[h]), RemoveFree(p[h][i])
    PROVE  Laid([p EXCEPT ![h] = RemoveAt(p[h], i)])'
  <1> DEFINE q == [p EXCEPT ![h] = RemoveAt(p[h], i)]
             n == p[h][i]
  <1> USE DEF PInv, IInv
  <1>1. p = [k \in Heads |-> p[k]] /\ Runs(p[h], h)
    BY DEF Laid
  <1>2. /\ q = [k \in Heads |-> q[k]] /\ q[h] = RemoveAt(p[h], i)
        /\ \A k \in Heads : k # h => q[k] = p[k]
    BY <1>1
  <1>3. n \in Members(h)
    BY <1>1, PathMembers
  <1> HIDE DEF n, q
  <1>4. n \in allocated /\ n \notin Heads /\ list_of[n] = h
    BY <1>3, CircularListAssumption DEF Members, RingInv, PointersOK
  <1>5. RemoveFree(n)
    BY DEF n
  <1>6. Live' = Live \ {n} /\ \A k \in Heads : Members(k)' = Members(k) \ {n}
    BY <1>4, <1>5, RemoveChanges
  <1>7. Runs(q[h], h)'
    <2>1. Runs(RemoveAt(p[h], i), h)'
      BY <1>1, <1>5, RemovePath DEF n
    <2> QED BY <1>2, <2>1
  <1>8. ASSUME NEW k \in Heads
        PROVE  IF (k \in Live)' THEN Runs(q[k], k)' ELSE q[k] = <<>> /\ Members(k)' = {}
    <2>1. CASE k = h
      BY <1>4, <1>6, <1>7, <2>1
    <2>2. CASE k # h
      <3>1. ((k \in Live)' <=> k \in Live) /\ q[k] = p[k]
        BY <1>2, <1>4, <1>6, <2>2
      <3>2. k \in Live => Runs(p[k], k)'
        BY <1>4, <1>5, <2>2, OthersAfterRemove DEF Laid
      <3>3. Members(k) = {} => Members(k)' = {}
        BY <1>6
      <3> QED BY <3>1, <3>2, <3>3 DEF Laid
    <2> QED BY <2>1, <2>2
  <1>9. Laid(q)'
    BY <1>2, <1>8 DEF Laid
  <1> QED BY <1>9 DEF q

(* ListAdd is the contract's Add.                                          *)
LEMMA AddSeen ==
    ASSUME PInv, IInv', NEW h \in Heads, NEW n \in Nodes, ListAdd(h, n)
    PROVE  PathInv' /\ Contract!Add(h, n)
  <1> USE DEF PInv
  <1>1. PICK p : Laid(p)
    BY AllPaths
  <1>2. Lists = p /\ Lists' = [p EXCEPT ![h] = Append(p[h], n)] /\ PathInv'
    BY <1>1, AddLaid, ListsNow, ListsThen
  <1>3. walk = NoWalk /\ walk' = NoWalk /\ n \notin allocated /\ h \in Live
    BY DEF ListAdd
  <1>4. walk.head = NoLink /\ walk'.head = NoLink /\ ToSee = <<>> /\ ToSee' = <<>>
    BY <1>3 DEF NoWalk, ToSee
  <1>5. ASSUME NEW k \in Heads PROVE n \notin Contract!ToSet(Lists[k])
    <2>1. CASE k \in Live
      <3>1. p[k] \in Seq(Members(k)) /\ \A i \in 1..Len(p[k]) : p[k][i] \in Members(k)
        BY <1>1, <2>1, PathMembers DEF Laid
      <3>2. DOMAIN p[k] = 1..Len(p[k])
        BY <3>1, LenProperties
      <3> QED BY <1>2, <1>3, <3>1, <3>2 DEF Contract!ToSet, Members
    <2>2. CASE k \notin Live
      <3>1. p[k] = <<>>
        BY <1>1, <2>2 DEF Laid
      <3>2. DOMAIN p[k] = {}
        BY <3>1
      <3> QED BY <1>2, <3>2 DEF Contract!ToSet
    <2> QED BY <2>1, <2>2
  <1>6. Lists' = [Lists EXCEPT ![h] = Append(@, n)]
    BY <1>2
  <1> QED BY <1>2, <1>4, <1>5, <1>6 DEF Contract!Add

(* A node that goes in a callback.                                         *)
LEMMA RemoveSeen ==
    ASSUME PInv, IInv', NEW h \in Heads, NEW n \in Nodes, ListRemove(h, n)
    PROVE  PathInv' /\ Contract!Take(h, n)
  <1> USE DEF PInv
  <1>1. PICK p : Laid(p)
    BY AllPaths
  <1>2. h \in Live /\ h # walk.head /\ n \in Members(h) /\ RemoveFree(n) /\ walk' = walk
    BY DEF ListRemove
  <1>3. PICK i \in 1..Len(p[h]) : p[h][i] = n
    BY <1>1, <1>2, PathMembers DEF Laid
  <1>4. Lists = p /\ Lists' = [p EXCEPT ![h] = RemoveAt(p[h], i)] /\ PathInv'
    BY <1>1, <1>2, <1>3, RemoveLaid, ListsNow, ListsThen
  <1>5. ToSee' = ToSee
    <2>1. ASSUME walk.kind # "none" PROVE Runs(p[walk.head], walk.head) /\ Runs(p[walk.head], walk.head)'
      <3>1. walk.head \in Heads /\ walk.head \in Live
        BY <2>1 DEF IInv, WalkInv
      <3> DEFINE k == walk.head
      <3>2. Runs(p[k], k)
        BY <1>1, <3>1 DEF Laid
      <3>3. n \in allocated /\ list_of[n] = h
        BY <1>2 DEF Members
      <3>4. ASSUME NEW c \in Heads, c = k PROVE Runs(p[c], c)'
        BY <1>2, <3>2, <3>3, <3>4, OthersAfterRemove DEF IInv
      <3>5. Runs(p[k], k)'
        BY <1>2, <3>1, <3>4
      <3> QED BY <3>2, <3>5
    <2> QED BY <1>2, <2>1, WalkStays
  <1>6. Lists' = [Lists EXCEPT ![h] = Contract!RemoveAt(@, i)]
    BY <1>4 DEF RemoveAt, Contract!RemoveAt
  <1>7. i \in 1..Len(Lists[h]) /\ Lists[h][i] = n
    BY <1>3, <1>4
  <1> QED BY <1>2, <1>4, <1>5, <1>6, <1>7 DEF Contract!Take

(* The steps of a walk that remove nothing leave the paths alone.          *)
LEMMA StillLaid ==
    ASSUME NEW p, Laid(p), next' = next, allocated' = allocated, list_of' = list_of
    PROVE  Laid(p)' /\ \A h, s : Runs(s, h) => Runs(s, h)'
  <1>1. Live' = Live /\ \A h : Members(h)' = Members(h)
    BY DEF Live, Members
  <1>2. \A h, s : Runs(s, h)' <=> Runs(s, h)
    BY <1>1 DEF Runs
  <1> QED BY <1>1, <1>2 DEF Laid

(* A walk begins at the head, or behind a check point.                     *)
LEMMA BeginSeen ==
    ASSUME PInv, IInv', NEW h \in Heads, NEW start \in Links, BeginWalk(h, start)
    PROVE  PathInv' /\ \E i \in 0..Len(Lists[h]) : Contract!Begin(h, i)
  <1> USE DEF PInv
  <1>1. PICK p : Laid(p)
    BY AllPaths
  <1>2. /\ walk = NoWalk /\ h \in Live /\ start \in {h} \cup Members(h)
        /\ walk' = [kind |-> "top", head |-> h, current |-> next[start], next |-> NoLink]
        /\ next' = next /\ allocated' = allocated /\ list_of' = list_of
    BY DEF BeginWalk, history
  <1>3. /\ Laid(p)' /\ Lists = p /\ Lists' = p /\ PathInv'
        /\ Runs(p[h], h) /\ Runs(p[h], h)'
    BY <1>1, <1>2, StillLaid, ListsNow, ListsThen DEF Laid
  <1> DEFINE s == p[h]
  <1>4. /\ Len(s) \in Nat
        /\ next[h] = IF Len(s) = 0 THEN h ELSE s[1]
        /\ \A i \in 1..Len(s) : next[s[i]] = IF i = Len(s) THEN h ELSE s[i + 1]
        /\ \A m \in Members(h) : \E i \in 1..Len(s) : s[i] = m
    BY <1>3, PathMembers
  <1> HIDE DEF s
  <1>5. PICK i \in 0..Len(s) : next[start] = IF i + 1 = Len(s) + 1 THEN h ELSE s[i + 1]
    <2>1. CASE start = h
      <3>1. 0 \in 0..Len(s) /\ (Len(s) = 0 <=> 0 + 1 = Len(s) + 1) /\ 0 + 1 = 1
        BY <1>4
      <3> QED BY <1>4, <2>1, <3>1
    <2>2. CASE start \in Members(h)
      <3>1. PICK i \in 1..Len(s) : s[i] = start
        BY <1>4, <2>2
      <3>2. i \in 0..Len(s) /\ (i = Len(s) <=> i + 1 = Len(s) + 1)
        BY <1>4
      <3> QED BY <1>4, <3>1, <3>2
    <2> QED BY <1>2, <2>1, <2>2
  <1>6. i + 1 \in 1..(Len(s) + 1)
    BY <1>4
  <1>7. At(s, i + 1)' /\ Rest(s, i + 1)' = SubSeq(s, i + 1, Len(s))
    <2>1. /\ walk'.kind = "top" /\ walk'.head = h /\ walk'.current = next[start]
          /\ Runs(s, h)'
      BY <1>2, <1>3 DEF s
    <2>2. Runs(s, walk.head)'
      BY <2>1 DEF Runs
    <2> QED BY <1>5, <1>6, <2>1, <2>2 DEF At, Rest
  <1>8. ToSee' = SubSeq(s, i + 1, Len(s))
    BY <1>7, ReadNow DEF WalksRead
  <1>9. walk.head = NoLink /\ walk'.head = h
    BY <1>2 DEF NoWalk
  <1>10. Contract!Begin(h, i) /\ i \in 0..Len(Lists[h])
    BY <1>3, <1>8, <1>9 DEF Contract!Begin, s
  <1> QED BY <1>3, <1>10

(* list_free has all of the list before it.                                *)
LEMMA BeginFreeSeen ==
    ASSUME PInv, IInv', NEW h \in Heads, BeginFree(h)
    PROVE  PathInv' /\ Contract!Begin(h, 0) /\ 0 \in 0..Len(Lists[h])
  <1> USE DEF PInv
  <1>1. PICK p : Laid(p)
    BY AllPaths
  <1>2. /\ walk = NoWalk /\ h \in Live
        /\ walk' = [NoWalk EXCEPT !.kind = "free", !.head = h]
        /\ next' = next /\ allocated' = allocated /\ list_of' = list_of
    BY DEF BeginFree, history
  <1>3. /\ Laid(p)' /\ Lists = p /\ Lists' = p /\ PathInv'
        /\ Runs(p[h], h) /\ Runs(p[h], h)'
    BY <1>1, <1>2, StillLaid, ListsNow, ListsThen DEF Laid
  <1>4. walk'.kind = "free" /\ walk'.head = h /\ walk.head = NoLink
    BY <1>2 DEF NoWalk
  <1>5. At(p[h], 0)' /\ Rest(p[h], 0)' = p[h]
    BY <1>3, <1>4 DEF At, Rest, Runs
  <1>6. ToSee' = p[h]
    BY <1>5, ReadNow DEF WalksRead
  <1>7. Len(p[h]) \in Nat /\ SubSeq(p[h], 0 + 1, Len(p[h])) = p[h]
    <2>1. Len(p[h]) \in Nat /\ p[h] \in Seq(Members(h))
      BY <1>3, PathMembers
    <2>2. SubSeq(p[h], 1, Len(p[h])) = p[h]
      BY <2>1, SubSeqFull
    <2> QED BY <2>1, <2>2
  <1> QED BY <1>3, <1>4, <1>6, <1>7 DEF Contract!Begin

(* Reading the next pointer is not seen.                                   *)
LEMMA ReadSeen ==
    ASSUME PInv, IInv', ReadNext
    PROVE  PathInv' /\ UNCHANGED Mapped
  <1> USE DEF PInv
  <1>1. PICK p : Laid(p)
    BY AllPaths
  <1>2. /\ walk.kind = "top" /\ walk.current # walk.head
        /\ walk' = [walk EXCEPT !.kind = "body", !.next = next[walk.current]]
        /\ next' = next /\ allocated' = allocated /\ list_of' = list_of
    BY DEF ReadNext, history
  <1>3. PICK h \in Heads : h = walk.head /\ h \in Live
    BY <1>2 DEF IInv, WalkInv
  <1>4. /\ Laid(p)' /\ Lists = p /\ Lists' = p /\ PathInv'
        /\ Runs(p[h], h) /\ Runs(p[h], h)'
    BY <1>1, <1>2, <1>3, StillLaid, ListsNow, ListsThen DEF Laid
  <1> DEFINE s == p[h]
  <1>5. /\ Len(s) \in Nat
        /\ \A i \in 1..Len(s) : next[s[i]] = IF i = Len(s) THEN h ELSE s[i + 1]
    BY <1>4, PathMembers
  <1>6. PICK i : At(s, i)
    BY <1>3, <1>4, WalkSomewhere
  <1> HIDE DEF s
  <1>7. i \in 1..Len(s) /\ walk.current = s[i]
    BY <1>2, <1>3, <1>5, <1>6 DEF At
  <1>8. walk'.kind = "body" /\ walk'.head = h /\ walk'.current = s[i] /\ walk'.next = next[s[i]]
    BY <1>2, <1>3, <1>7 DEF IInv, WalkInv
  <1>9. At(s, i)' /\ Rest(s, i)' = Rest(s, i)
    <2>1. Runs(s, walk.head)'
      BY <1>4, <1>8 DEF Runs, s
    <2> QED BY <1>2, <1>5, <1>7, <1>8, <2>1 DEF At, Rest
  <1>10. ToSee' = ToSee
    BY <1>6, <1>9, ReadNow DEF WalksRead
  <1> QED BY <1>3, <1>4, <1>8, <1>10 DEF Mapped

(* The body of a walk, with its node kept or removed.                      *)
LEMMA BodySeen ==
    ASSUME PInv, IInv', Keep \/ RemoveCurrent
    PROVE  PathInv' /\ Contract!See
  <1> USE DEF PInv
  <1>1. PICK p : Laid(p)
    BY AllPaths
  <1>2. /\ walk.kind = "body"
        /\ walk' = [walk EXCEPT !.kind = "top", !.current = walk.next, !.next = NoLink]
    BY DEF Keep, RemoveCurrent, Advance
  <1>3. PICK h \in Heads : h = walk.head /\ h \in Live
    BY <1>2 DEF IInv, WalkInv
  <1>4. Runs(p[h], h) /\ Lists = p
    BY <1>1, <1>3, ListsNow DEF Laid
  <1> DEFINE s == p[h]
  <1>5. Len(s) \in Nat /\ s \in Seq(Members(h)) /\ p = [k \in Heads |-> p[k]]
    BY <1>1, <1>4, PathMembers DEF Laid
  <1>6. PICK i : At(s, i)
    BY <1>3, <1>4, WalkSomewhere
  <1>7. i \in 1..Len(s) /\ walk.current = s[i] /\ walk.next = IF i = Len(s) THEN h ELSE s[i + 1]
    BY <1>2, <1>3, <1>6 DEF At
  <1>8. walk'.kind = "top" /\ walk'.head = h /\ walk'.current = walk.next
    BY <1>2, <1>3 DEF IInv, WalkInv
  <1>s. s = Lists[h] /\ s = p[h]
    BY <1>4
  <1> HIDE DEF s
  <1>9. ToSee = SubSeq(s, i, Len(s))
    <2>1. Rest(s, i) = SubSeq(s, i, Len(s))
      BY <1>2 DEF Rest
    <2> QED BY <1>6, <2>1, ReadNow DEF WalksRead
  <1>10. /\ ToSee # <<>> /\ ToSee[1] = s[i]
         /\ Tail(ToSee) = SubSeq(s, i + 1, Len(s))
    <2>1. Len(s) \in i..Len(s)
      BY <1>5, <1>7
    <2>2. Tail(SubSeq(s, i, Len(s))) = SubSeq(s, i + 1, Len(s))
      BY <1>5, <1>7, <2>1, HeadTailOfSubSeq
    <2>3. /\ Len(SubSeq(s, i, Len(s))) = (Len(s) - i) + 1
          /\ \A j \in 1..((Len(s) - i) + 1) : SubSeq(s, i, Len(s))[j] = s[(i + j) - 1]
      <3>1. i \in 1..(Len(s) + 1) /\ Route(next, Members(h), s, next[h], h)
        BY <1>4, <1>5, <1>7, <1>s DEF Runs
      <3> QED BY <3>1, RestOfPath
    <2>4. 1 \in 1..((Len(s) - i) + 1) /\ (i + 1) - 1 = i /\ (Len(s) - i) + 1 # 0
      BY <1>5, <1>7
    <2>5. SubSeq(s, i, Len(s))[1] = s[i]
      BY <2>3, <2>4
    <2>6. SubSeq(s, i, Len(s)) # <<>>
      BY <2>3, <2>4, EmptySeq
    <2> QED BY <1>9, <2>2, <2>5, <2>6
  <1>11. CASE Keep
    <2>1. next' = next /\ allocated' = allocated /\ list_of' = list_of
      BY <1>11 DEF Keep, history
    <2>2. Laid(p)' /\ Lists' = p /\ PathInv' /\ Runs(s, h)'
      BY <1>1, <1>4, <1>s, <2>1, StillLaid, ListsThen
    <2>3. At(s, i + 1)' /\ Rest(s, i + 1)' = SubSeq(s, i + 1, Len(s))
      <3>1. Runs(s, walk.head)'
        BY <1>8, <2>2 DEF Runs
      <3>2. i + 1 \in 1..(Len(s) + 1) /\ (i = Len(s) <=> i + 1 = Len(s) + 1)
        BY <1>5, <1>7
      <3> QED BY <1>7, <1>8, <3>1, <3>2 DEF At, Rest
    <2>4. ToSee' = SubSeq(s, i + 1, Len(s))
      BY <2>3, ReadNow DEF WalksRead
    <2> QED BY <1>3, <1>4, <1>8, <1>10, <2>2, <2>4 DEF Contract!See
  <1>12. CASE RemoveCurrent
    <2> DEFINE t == RemoveAt(s, i)
               q == [p EXCEPT ![h] = RemoveAt(p[h], i)]
    <2>1. RemoveFree(s[i])
      BY <1>7, <1>12 DEF RemoveCurrent
    <2>2. Laid(q)' /\ Lists' = q /\ PathInv'
      BY <1>1, <1>3, <1>7, <1>s, <2>1, RemoveLaid, ListsThen
    <2>3. q[h] = t
      BY <1>5, <1>s
    <2>4. (h \in Live)'
      BY <1>8 DEF IInv, WalkInv
    <2>5. Runs(t, h)'
      BY <2>2, <2>3, <2>4 DEF Laid
    <2>6. /\ Len(t) = Len(s) - 1
          /\ \A j \in 1..(Len(s) - 1) : t[j] = IF j < i THEN s[j] ELSE s[j + 1]
      BY <1>5, <1>7, RemoveAtIs
    <2>7. SubSeq(t, i, Len(t)) = SubSeq(s, i + 1, Len(s))
      BY <1>5, <1>7, RestAfterRemove
    <2>q. Lists' = [Lists EXCEPT ![h] = Contract!RemoveAt(@, i)]
      BY <1>4, <2>2 DEF RemoveAt, Contract!RemoveAt
    <2> HIDE DEF t, q
    <2>8. At(t, i)' /\ Rest(t, i)' = SubSeq(t, i, Len(t))
      <3>1. Runs(t, walk.head)'
        BY <1>8, <2>5 DEF Runs
      <3>2. i \in 1..(Len(t) + 1) /\ (i = Len(s) <=> i = Len(t) + 1)
        BY <1>5, <1>7, <2>6
      <3>3. i # Len(s) => t[i] = s[i + 1]
        <4>1. i # Len(s) => i \in 1..(Len(s) - 1) /\ ~ (i < i)
          BY <1>5, <1>7
        <4> QED BY <2>6, <4>1
      <3> QED BY <1>7, <1>8, <3>1, <3>2, <3>3 DEF At, Rest
    <2>9. ToSee' = SubSeq(s, i + 1, Len(s))
      BY <2>7, <2>8, ReadNow DEF WalksRead
    <2> QED BY <1>3, <1>7, <1>8, <1>10, <1>s, <2>2, <2>9, <2>q DEF Contract!See
  <1> QED BY <1>11, <1>12

(* list_free takes what is first.                                          *)
LEMMA FreeFirstSeen ==
    ASSUME PInv, IInv', FreeFirst
    PROVE  PathInv' /\ Contract!See
  <1> USE DEF PInv
  <1>1. PICK p : Laid(p)
    BY AllPaths
  <1>2. walk.kind = "free" /\ walk' = walk /\ next[walk.head] # walk.head
    BY DEF FreeFirst, Empty
  <1>3. PICK h \in Heads : h = walk.head /\ h \in Live
    BY <1>2 DEF IInv, WalkInv
  <1>4. Runs(p[h], h) /\ Lists = p
    BY <1>1, <1>3, ListsNow DEF Laid
  <1> DEFINE s == p[h]
             t == RemoveAt(s, 1)
             q == [p EXCEPT ![h] = RemoveAt(p[h], 1)]
  <1>5. /\ Len(s) \in Nat /\ s \in Seq(Members(h)) /\ p = [k \in Heads |-> p[k]]
        /\ next[h] = IF Len(s) = 0 THEN h ELSE s[1]
    BY <1>1, <1>4, PathMembers DEF Laid
  <1>6. 1 \in 1..Len(s) /\ next[h] = s[1]
    BY <1>2, <1>3, <1>5
  <1>7. RemoveFree(s[1])
    BY <1>3, <1>6 DEF FreeFirst
  <1>8. Laid(q)' /\ Lists' = q /\ PathInv'
    BY <1>1, <1>3, <1>6, <1>7, RemoveLaid, ListsThen
  <1>9. q[h] = t
    BY <1>5
  <1>10. (h \in Live)'
    BY <1>2, <1>3 DEF IInv, WalkInv
  <1>11. Runs(t, h)'
    BY <1>8, <1>9, <1>10 DEF Laid
  <1>12. ToSee = s
    <2>1. At(s, 0) /\ Rest(s, 0) = s
      BY <1>2, <1>3, <1>4 DEF At, Rest
    <2> QED BY <2>1, ReadNow DEF WalksRead
  <1>13. ToSee' = t
    <2>1. Runs(t, walk.head)'
      BY <1>2, <1>3, <1>11 DEF Runs
    <2>2. At(t, 0)' /\ Rest(t, 0)' = t
      BY <1>2, <2>1 DEF At, Rest
    <2> QED BY <2>2, ReadNow DEF WalksRead
  <1>14. s # <<>> /\ t = Tail(s)
    <2>6. SubSeq(t, 1, Len(t)) = SubSeq(s, 1 + 1, Len(s)) /\ t \in Seq(Members(h))
      BY <1>5, <1>6, RestAfterRemove, RemoveAtIs
    <2>5. 1 + 1 = 2
      OBVIOUS
    <2>1. SubSeq(t, 1, Len(t)) = SubSeq(s, 2, Len(s)) /\ t \in Seq(Members(h))
      BY <2>5, <2>6, Zenon
    <2>2. SubSeq(t, 1, Len(t)) = t
      BY <2>1, SubSeqFull
    <2>3. s # <<>>
      BY <1>5, <1>6, EmptySeq
    <2>4. Tail(s) = SubSeq(s, 2, Len(s))
      BY <1>5, <2>3, TailIsSubSeq
    <2> QED BY <2>1, <2>2, <2>3, <2>4
  <1>15. Lists' = [Lists EXCEPT ![h] = Contract!RemoveAt(@, 1)]
    BY <1>4, <1>8 DEF RemoveAt, Contract!RemoveAt
  <1>16. s = Lists[h]
    BY <1>4
  <1> HIDE DEF s, t
  <1> QED BY <1>2, <1>3, <1>6, <1>8, <1>12, <1>13, <1>14, <1>15, <1>16 DEF Contract!See

(* A walk ends when there is no more to see.                               *)
LEMMA EndSeen ==
    ASSUME PInv, IInv', EndWalk \/ EndFree
    PROVE  PathInv' /\ Contract!Finish
  <1> USE DEF PInv
  <1>1. PICK p : Laid(p)
    BY AllPaths
  <1>2. /\ walk' = NoWalk /\ next' = next /\ allocated' = allocated /\ list_of' = list_of
        /\ walk.kind # "none"
    BY DEF EndWalk, EndFree, history
  <1>3. PICK h \in Heads : h = walk.head /\ h \in Live
    BY <1>2 DEF IInv, WalkInv
  <1>4. Runs(p[h], h) /\ Lists = p /\ Lists' = p /\ PathInv'
    BY <1>1, <1>2, <1>3, StillLaid, ListsNow, ListsThen DEF Laid
  <1>5. ToSee' = <<>> /\ walk'.head = NoLink
    BY <1>2 DEF ToSee, NoWalk
  <1>6. walk.head # NoLink
    BY <1>3, CircularListAssumption
  <1> DEFINE s == p[h]
  <1>7. /\ Len(s) \in Nat /\ s \in Seq(Members(h)) /\ \A j \in 1..Len(s) : s[j] \in Members(h)
    BY <1>4, PathMembers
  <1>8. allocated \subseteq Nodes
    BY DEF IInv, RingInv, PointersOK
  <1>9. PICK i : At(s, i)
    BY <1>3, <1>4, WalkSomewhere
  <1>10. ToSee = Rest(s, i)
    BY <1>9, ReadNow DEF WalksRead
  <1>11. Rest(s, i) = <<>>
    <2>1. CASE EndWalk
      <3>1. walk.kind = "top" /\ walk.current = h
        BY <1>3, <2>1 DEF EndWalk
      <3>2. h \notin Members(h)
        BY <1>8, MembersFinite
      <3>3. i = Len(s) + 1
        BY <1>3, <1>7, <1>9, <3>1, <3>2 DEF At
      <3>4. SubSeq(s, i, Len(s)) = <<>>
        <4>1. i \in Int /\ Len(s) \in Int /\ Len(s) < i
          BY <1>7, <3>3
        <4> QED BY <4>1, SubSeqEmpty
      <3> QED BY <3>1, <3>4 DEF Rest
    <2>2. CASE EndFree
      <3>1. walk.kind = "free" /\ next[h] = h
        BY <1>3, <2>2 DEF EndFree, Empty
      <3>2. s = <<>>
        BY <1>4, <1>8, <3>1, PathEmpty
      <3> QED BY <3>1, <3>2 DEF Rest
    <2> QED BY <2>1, <2>2
  <1> QED BY <1>4, <1>5, <1>6, <1>10, <1>11 DEF Contract!Finish

-----------------------------------------------------------------------------
(* The refinement                                                          *)

LEMMA ContractInit == Init => PathInv /\ Contract!Init
  <1> SUFFICES ASSUME Init PROVE PathInv /\ Contract!Init
    OBVIOUS
  <1>1. Live = {} /\ allocated = {} /\ walk = NoWalk
    BY DEF Init, Live, Links
  <1>2. PathInv
    BY <1>1 DEF PathInv, Members
  <1>3. Lists = [h \in Heads |-> <<>>]
    BY <1>1 DEF Lists, List
  <1>4. walk.head = NoLink /\ ToSee = <<>>
    BY <1>1 DEF NoWalk, ToSee
  <1> QED BY <1>2, <1>3, <1>4 DEF Contract!Init

LEMMA ContractStep == PInv /\ IInv' /\ [Next]_vars => PathInv' /\ [Contract!Next]_Mapped
  <1> SUFFICES ASSUME PInv, IInv', [Next]_vars PROVE PathInv' /\ [Contract!Next]_Mapped
    OBVIOUS
  <1> USE DEF PInv
  <1>1. CASE UNCHANGED vars
    BY <1>1 DEF vars, history, PathInv, Runs, Live, Members, Mapped, Lists, List, ToSee, From, Paths, IsPath
  <1>2. ASSUME NEW h \in Heads, ListInitialize(h) \/ FreeHead(h)
        PROVE  PathInv' /\ UNCHANGED Mapped
    <2>1. PICK p : Laid(p)
      BY AllPaths
    <2>2. /\ allocated' = allocated /\ list_of' = list_of /\ walk' = walk
          /\ h \in Links /\ h # NoLink /\ h \notin Nodes
          /\ next \in [Links -> Links \cup {NoLink}] /\ allocated \subseteq Nodes
      BY <1>2, CircularListAssumption DEF ListInitialize, FreeHead, history, IInv, RingInv, PointersOK, Links
    <2>3. CASE ListInitialize(h)
      <3>1. /\ next' = [next EXCEPT ![h] = h] /\ h # walk.head
            /\ (h \in Live => next[h] = h)
        BY <2>2, <2>3 DEF ListInitialize, Empty, NoWalk
      <3>2. next'[h] = h /\ \A x \in Links \ {h} : next'[x] = next[x]
        BY <2>2, <3>1
      <3>3. Live' = Live \cup {h}
        BY <2>2, <3>2 DEF Live, Links
      <3> QED BY <2>1, <2>2, <3>1, <3>2, <3>3, HeadSeen
    <2>4. CASE FreeHead(h)
      <3>1. /\ next' = [next EXCEPT ![h] = NoLink] /\ h # walk.head /\ next[h] = h
        BY <2>2, <2>4 DEF FreeHead, Empty
      <3>2. next'[h] = NoLink /\ \A x \in Links \ {h} : next'[x] = next[x]
        BY <2>2, <3>1
      <3>3. Live' = Live \ {h}
        BY <2>2, <3>2 DEF Live, Links
      <3>4. h \notin Live'
        BY <3>3
      <3> QED BY <2>1, <2>2, <3>1, <3>2, <3>3, <3>4, HeadSeen
    <2> QED BY <1>2, <2>3, <2>4
  <1>3. ASSUME NEW h \in Heads, NEW n \in Nodes, ListAdd(h, n)
        PROVE  PathInv' /\ Contract!Next
    BY <1>3, AddSeen DEF Contract!Next
  <1>4. ASSUME NEW h \in Heads, NEW n \in Nodes, ListRemove(h, n)
        PROVE  PathInv' /\ Contract!Next
    BY <1>4, RemoveSeen DEF Contract!Next
  <1>5. ASSUME NEW h \in Heads, NEW start \in Links, BeginWalk(h, start)
        PROVE  PathInv' /\ Contract!Next
    BY <1>5, BeginSeen DEF Contract!Next
  <1>6. ASSUME NEW h \in Heads, BeginFree(h)
        PROVE  PathInv' /\ Contract!Next
    BY <1>6, BeginFreeSeen DEF Contract!Next
  <1>7. CASE ReadNext
    BY <1>7, ReadSeen
  <1>8. CASE Keep \/ RemoveCurrent
    BY <1>8, BodySeen DEF Contract!Next
  <1>9. CASE FreeFirst
    BY <1>9, FreeFirstSeen DEF Contract!Next
  <1>10. CASE EndWalk \/ EndFree
    BY <1>10, EndSeen DEF Contract!Next
  <1> QED BY <1>1, <1>2, <1>3, <1>4, <1>5, <1>6, <1>7, <1>8, <1>9, <1>10 DEF Next

(* The pointers implement sequences: what is added goes last, and a walk   *)
(* sees each node from where it began exactly once, in order, whether or   *)
(* not its body removes it and whatever the callbacks take out of other    *)
(* lists meanwhile.                                                        *)
THEOREM ImplementsSequences == Spec => KeepsSequence
  <1>1. Init => PathInv /\ Contract!Init
    BY ContractInit
  <1>2. PInv /\ IInv' /\ [Next]_vars => PathInv' /\ [Contract!Next]_Mapped
    BY ContractStep
  <1>3. PInv <=> IInv /\ PathInv
    BY DEF PInv
  <1> QED BY <1>1, <1>2, <1>3, Invariance, PTL DEF Spec, KeepsSequence, Contract!Spec, Mapped
=============================================================================
